-------------------------------- MODULE Forum --------------------------------
(***************************************************************************)
(* What the handlers of PostUsecase promise about their tables: a request  *)
(* checks in one query and acts in a later one, with other requests in     *)
(* between, and yet all it does is allowed to its user at the moment it is *)
(* done, and done at once.                                                 *)
(***************************************************************************)
EXTENDS Naturals

CONSTANTS Server, User, Membership, Post, Comment, Caption, Request, None

VARIABLES
    servers,
    posts, likes, comments,
    inside      \* the user on whose behalf a request runs, or None

vars == <<servers, posts, likes, comments, inside>>

Member(u, s) == s \in servers /\ <<s, u>> \in Membership

MemberOf(u, p) == \E row \in posts : row.id = p /\ Member(u, row.server)

Init ==
    /\ servers = Server
    /\ posts = {} /\ comments = {}
    /\ likes = [l \in Post \X User |-> 0]
    /\ inside = [r \in Request |-> None]

-----------------------------------------------------------------------------
(* What user u may do.                                                     *)

Publish(u) ==
    /\ \E s \in servers, p \in Post, text \in Caption :
        /\ Member(u, s)
        /\ \A row \in posts : row.id # p
        /\ posts' = posts \cup {[id |-> p, server |-> s, author |-> u,
                                 caption |-> text]}
    /\ UNCHANGED <<servers, likes, comments>>

Recaption(u) ==
    /\ \E row \in posts, text \in Caption :
        /\ row.author = u
        /\ posts' = (posts \ {row}) \cup {[row EXCEPT !.caption = text]}
    /\ UNCHANGED <<servers, likes, comments>>

(* Likes and comments go with the posts they are about.                    *)
Without(gone) ==
    /\ posts' = posts \ gone
    /\ comments' = {c \in comments : \A row \in gone : c.post # row.id}
    /\ likes' = [l \in Post \X User |->
                    IF \E row \in gone : row.id = l[1] THEN 0 ELSE likes[l]]

Withdraw(u) ==
    /\ \E row \in posts : row.author = u /\ Without({row})
    /\ UNCHANGED servers

Like(u) ==
    /\ \E p \in Post :
        /\ MemberOf(u, p)
        /\ likes' = [likes EXCEPT ![<<p, u>>] = @ + 1]
    /\ UNCHANGED <<servers, posts, comments>>

(* One who has left, since the post is gone, has nothing to take back.     *)
Unlike(u) ==
    /\ \E p \in Post : likes' = [likes EXCEPT ![<<p, u>>] = 0]
    /\ UNCHANGED <<servers, posts, comments>>

Say(u) ==
    /\ \E c \in Comment, p \in Post, up \in Comment \cup {None} :
        /\ MemberOf(u, p)
        /\ up # None => \E row \in comments : row.id = up /\ row.post = p
        /\ \A row \in comments : row.id # c
        /\ comments' = comments \cup
            {[id |-> c, post |-> p, author |-> u, parent |-> up]}
    /\ UNCHANGED <<servers, posts, likes>>

(* A comment goes with all replies to it, and those with theirs.           *)
TakeBack(u) ==
    /\ comments' \subseteq comments
    /\ LET gone == comments \ comments'
       IN  /\ \E top \in gone :
                /\ top.author = u
                /\ \A c \in gone \ {top} : \E up \in gone : c.parent = up.id
           /\ \A c \in comments', up \in gone : c.parent # up.id
    /\ UNCHANGED <<servers, posts, likes>>

-----------------------------------------------------------------------------
Come(r, u) ==
    /\ inside[r] = None
    /\ inside' = [inside EXCEPT ![r] = u]
    /\ UNCHANGED <<servers, posts, likes, comments>>

Gone(r) == inside' = [inside EXCEPT ![r] = None]

Go(r) == Gone(r) /\ UNCHANGED <<servers, posts, likes, comments>>

(* A request acts, and ends or not.                                        *)
Act(r) ==
    LET u == inside[r]
    IN  /\ u # None
        /\ \/ Publish(u) \/ Recaption(u) \/ Withdraw(u)
           \/ Like(u) \/ Unlike(u) \/ Say(u) \/ TakeBack(u)
        /\ Gone(r) \/ UNCHANGED inside

Close(s) ==
    /\ s \in servers
    /\ servers' = servers \ {s}
    /\ Without({row \in posts : row.server = s})
    /\ UNCHANGED inside

Next ==
    \/ \E r \in Request, u \in User : Come(r, u)
    \/ \E r \in Request : Go(r) \/ Act(r)
    \/ \E s \in Server : Close(s)

Spec == Init /\ [][Next]_vars

=============================================================================
