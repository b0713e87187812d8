------------------------------- MODULE Servers -------------------------------
(***************************************************************************)
(* The servers of ServerUsecase: the rows of servers, their roles and      *)
(* members, which go with them by foreign keys, and the invite links,      *)
(* which do not: server_invites has no foreign key.  A request is a        *)
(* goroutine that checks and then acts by one SQL statement each; one      *)
(* action is one statement, or the commit of CreateServer's transaction,   *)
(* whose inserts wait for nothing.                                         *)
(* A join always ends in an error: CheckServerMember compares the column   *)
(* status, a smallint, with the text 'ACTIVE', which PostgreSQL refuses.   *)
(* So does a change of avatar or banner, whose first query names a column  *)
(* server_id that the image tables lack; its transaction is rolled back.   *)
(***************************************************************************)
EXTENDS FiniteSets, Integers

CONSTANTS
    Server,     \* uuids of servers
    User,
    Code,       \* invite codes
    Column,     \* the columns an owner may change: name, short_name, ...
    Value,      \* what may stand in them
    Request,    \* concurrent requests
    None,       \* an unused local
    MaxFaults   \* bound on calls that fail or requests that are cut short

ASSUME NoneAssumption == None \notin User
ASSUME FaultsAssumption == MaxFaults \in Nat

VARIABLES
    servers,    \* rows of servers
    roles,      \* rows of server_roles
    members,    \* rows of server_members
    invites,    \* rows of server_invites
    drawn,      \* uuids of servers given out
    rq,         \* the requests in progress
    faults

vars == <<servers, roles, members, invites, drawn, rq, faults>>

tables == <<servers, roles, members>>

-----------------------------------------------------------------------------
(* The rows and the queries on them.                                       *)

OwnerRole == "Owner"

ServerRow == [id : Server, owner : User, private : BOOLEAN,
              text : [Column -> Value]]

RoleRow == [server : Server, name : {OwnerRole}]

MemberRow == [server : Server, user : User, role : RoleRow]

InviteRow == [code : Code, server : Server]

CheckServerEligible(s) == \E row \in servers : row.id = s /\ ~row.private

CheckServerOwnership(s, u) == \E row \in servers : row.id = s /\ row.owner = u

(* The unique index on server_invites(code).                               *)
CodeTaken(c) == \E i \in invites : i.code = c

-----------------------------------------------------------------------------
(* The requests.                                                           *)

Label == {"idle", "cs_commit", "su_owner", "su_write", "su_detail",
          "ss_owner", "ss_write", "ds_owner", "ds_delete",
          "ui_avatar", "ci_insert", "js_member"}

Local == [at : Label, s : Server \cup {None}, u : User \cup {None},
          c : Code \cup {None}, col : Column \cup {None},
          to : Value \cup BOOLEAN \cup {None}]

Idle == [at |-> "idle", s |-> None, u |-> None, c |-> None,
         col |-> None, to |-> None]

At(r, label)    == rq[r].at = label
Goto(r, label)  == rq' = [rq EXCEPT ![r].at = label]
Finish(r)       == rq' = [rq EXCEPT ![r] = Idle]
Begin(r, local) == At(r, "idle") /\ rq' = [rq EXCEPT ![r] = local]

(* Go on if the user owns the server of the request, else return an error. *)
CheckOwner(r, label) ==
    /\ IF CheckServerOwnership(rq[r].s, rq[r].u) THEN Goto(r, label) ELSE Finish(r)
    /\ UNCHANGED <<tables, invites, drawn, faults>>

(* A client names a server it has heard of, deleted or not.                *)
Ask(r, local) == Begin(r, local) /\ UNCHANGED <<tables, invites, drawn, faults>>

-----------------------------------------------------------------------------
Init ==
    /\ servers = {} /\ roles = {} /\ members = {} /\ invites = {}
    /\ drawn = {}
    /\ rq = [r \in Request |-> Idle]
    /\ faults = 0

-----------------------------------------------------------------------------
(* CreateServer.                                                           *)

(* Mutant: uuids of deleted servers are given out again.                   *)
CsCheckReusing(r) ==
    \E s \in Server \ {row.id : row \in servers}, u \in User, private \in BOOLEAN :
        /\ Begin(r, [at |-> "cs_commit", s |-> s, u |-> u, c |-> None,
                     col |-> None, to |-> private])
        /\ drawn' = drawn \cup {s}
        /\ UNCHANGED <<tables, invites, faults>>

(* A category that does not exist is refused before anything is written.   *)
CsCheck(r) ==
    \E s \in Server \ drawn, u \in User, private \in BOOLEAN :
        /\ Begin(r, [at |-> "cs_commit", s |-> s, u |-> u, c |-> None,
                     col |-> None, to |-> private])
        /\ drawn' = drawn \cup {s}
        /\ UNCHANGED <<tables, invites, faults>>

(* Mutant: the transaction is committed before CreateServerMember.         *)
CsCommitEarly(r) ==
    /\ At(r, "cs_commit")
    /\ LET owner == [server |-> rq[r].s, name |-> OwnerRole]
       IN  /\ \E text \in [Column -> Value] :
                servers' = servers \cup
                    {[id |-> rq[r].s, owner |-> rq[r].u,
                      private |-> rq[r].to, text |-> text]}
           /\ roles' = roles \cup {owner}
           /\ UNCHANGED members
    /\ Finish(r)
    /\ UNCHANGED <<invites, drawn, faults>>

(* Mutant: the server and the user of the member's row are swapped.        *)
CsCommitSwapped(r) ==
    /\ At(r, "cs_commit")
    /\ LET owner == [server |-> rq[r].s, name |-> OwnerRole]
       IN  /\ \E text \in [Column -> Value] :
                servers' = servers \cup
                    {[id |-> rq[r].s, owner |-> rq[r].u,
                      private |-> rq[r].to, text |-> text]}
           /\ roles' = roles \cup {owner}
           /\ members' = members \cup
                {[server |-> rq[r].u, user |-> rq[r].s, role |-> owner]}
    /\ Finish(r)
    /\ UNCHANGED <<invites, drawn, faults>>

(* The three INSERTs of the transaction wait for nothing and show at its   *)
(* commit; before that an error rolls them back, which is Fail.            *)
CsCommit(r) ==
    /\ At(r, "cs_commit")
    /\ LET owner == [server |-> rq[r].s, name |-> OwnerRole]
       IN  /\ \E text \in [Column -> Value] :
                servers' = servers \cup
                    {[id |-> rq[r].s, owner |-> rq[r].u,
                      private |-> rq[r].to, text |-> text]}
           /\ roles' = roles \cup {owner}
           /\ members' = members \cup
                {[server |-> rq[r].s, user |-> rq[r].u, role |-> owner]}
    /\ Finish(r)
    /\ UNCHANGED <<invites, drawn, faults>>

-----------------------------------------------------------------------------
(* UpdateServerName, ...ShortName, ...Category and ...Description.         *)

SuAsk(r) ==
    \E s \in drawn, u \in User, col \in Column, v \in Value :
        Ask(r, [at |-> "su_owner", s |-> s, u |-> u, c |-> None,
                col |-> col, to |-> v])

SuCheckOwner(r) == At(r, "su_owner") /\ CheckOwner(r, "su_write")

SuWrite(r) ==
    /\ At(r, "su_write")
    /\ servers' = {IF row.id = rq[r].s
                   THEN [row EXCEPT !.text[rq[r].col] = rq[r].to]
                   ELSE row : row \in servers}
    /\ Goto(r, "su_detail")
    /\ UNCHANGED <<roles, members, invites, drawn, faults>>

(* The answer shows the row as it is now, or nothing if it is gone.        *)
SuDetail(r) ==
    /\ At(r, "su_detail")
    /\ Finish(r)
    /\ UNCHANGED <<tables, invites, drawn, faults>>

-----------------------------------------------------------------------------
(* UpdateServerSettings.                                                   *)

SsAsk(r) ==
    \E s \in drawn, u \in User, private \in BOOLEAN :
        Ask(r, [at |-> "ss_owner", s |-> s, u |-> u, c |-> None,
                col |-> None, to |-> private])

SsCheckOwner(r) == At(r, "ss_owner") /\ CheckOwner(r, "ss_write")

SsWrite(r) ==
    /\ At(r, "ss_write")
    /\ servers' = {IF row.id = rq[r].s THEN [row EXCEPT !.private = rq[r].to] ELSE row :
                      row \in servers}
    /\ Finish(r)
    /\ UNCHANGED <<roles, members, invites, drawn, faults>>

-----------------------------------------------------------------------------
(* DeleteServer: roles and members go with the row, invites stay.          *)

DsAsk(r) ==
    \E s \in drawn, u \in User :
        Ask(r, [at |-> "ds_owner", s |-> s, u |-> u, c |-> None,
                col |-> None, to |-> None])

(* Mutant: any member or stranger may delete.                              *)
DsCheckNothing(r) ==
    /\ At(r, "ds_owner")
    /\ Goto(r, "ds_delete")
    /\ UNCHANGED <<tables, invites, drawn, faults>>

DsCheckOwner(r) == At(r, "ds_owner") /\ CheckOwner(r, "ds_delete")

DsDelete(r) ==
    /\ At(r, "ds_delete")
    /\ servers' = {row \in servers : row.id # rq[r].s}
    /\ roles'   = {row \in roles   : row.server # rq[r].s}
    /\ members' = {row \in members : row.server # rq[r].s}
    /\ Finish(r)
    /\ UNCHANGED <<invites, drawn, faults>>

-----------------------------------------------------------------------------
(* UpdateServerAvatar and UpdateServerBanner, whose GetServerAvatar and    *)
(* GetServerBanner fail.                                                   *)

UiCheckOwner(r) ==
    \E s \in drawn, u \in User :
        /\ CheckServerOwnership(s, u)
        /\ Ask(r, [at |-> "ui_avatar", s |-> s, u |-> u, c |-> None,
                   col |-> None, to |-> None])

UiGetAvatar(r) ==
    /\ At(r, "ui_avatar")
    /\ Finish(r)
    /\ UNCHANGED <<tables, invites, drawn, faults>>

-----------------------------------------------------------------------------
(* CreateInviteLink, by any user and for any server.  The loop draws ten   *)
(* codes and looks each one up, but keeps the last whatever it found: only *)
(* the unique index refuses a code that is taken.                          *)

CiDraw(r) ==
    \E s \in drawn, u \in User, c \in Code :
        Ask(r, [at |-> "ci_insert", s |-> s, u |-> u, c |-> c,
                col |-> None, to |-> None])

(* Mutant: the lookup of CheckInviteCodes is trusted, without the index.   *)
CiInsertUnindexed(r) ==
    /\ At(r, "ci_insert")
    /\ invites' = invites \cup {[code |-> rq[r].c, server |-> rq[r].s]}
    /\ Finish(r)
    /\ UNCHANGED <<tables, drawn, faults>>

CiInsert(r) ==
    /\ At(r, "ci_insert")
    /\ invites' = invites \cup
            (IF CodeTaken(rq[r].c) THEN {}
             ELSE {[code |-> rq[r].c, server |-> rq[r].s]})
    /\ Finish(r)
    /\ UNCHANGED <<tables, drawn, faults>>

-----------------------------------------------------------------------------
(* JoinServer and JoinServerFromInvite.  An invite is found by its code    *)
(* alone as long as used_count, which nothing increments, is below         *)
(* max_uses; expires_datetime is not read.                                 *)

JsCheckEligible(r) ==
    \E s \in Server, u \in User :
        /\ CheckServerEligible(s)
        /\ Ask(r, [at |-> "js_member", s |-> s, u |-> u, c |-> None,
                   col |-> None, to |-> None])

JiLookup(r) ==
    \E i \in invites, u \in User :
        Ask(r, [at |-> "js_member", s |-> i.server, u |-> u, c |-> i.code,
                col |-> None, to |-> None])

JsCheckMember(r) ==
    /\ At(r, "js_member")
    /\ Finish(r)
    /\ UNCHANGED <<tables, invites, drawn, faults>>

-----------------------------------------------------------------------------
(* A query fails, or the process ends: an open transaction is rolled back. *)
Fail(r) ==
    /\ faults < MaxFaults
    /\ ~At(r, "idle")
    /\ faults' = faults + 1
    /\ Finish(r)
    /\ UNCHANGED <<tables, invites, drawn>>

CreateServer(r) == CsCheck(r) \/ CsCommit(r)
UpdateServer(r) == SuAsk(r) \/ SuCheckOwner(r) \/ SuWrite(r) \/ SuDetail(r)
UpdateServerSettings(r) == SsAsk(r) \/ SsCheckOwner(r) \/ SsWrite(r)
DeleteServer(r) == DsAsk(r) \/ DsCheckOwner(r) \/ DsDelete(r)
UpdateServerImage(r) == UiCheckOwner(r) \/ UiGetAvatar(r)
CreateInviteLink(r) == CiDraw(r) \/ CiInsert(r)
JoinServer(r) == JsCheckEligible(r) \/ JiLookup(r) \/ JsCheckMember(r)

Next ==
    \E r \in Request :
        \/ CreateServer(r) \/ UpdateServer(r) \/ UpdateServerSettings(r)
        \/ DeleteServer(r) \/ UpdateServerImage(r)
        \/ CreateInviteLink(r) \/ JoinServer(r)
        \/ Fail(r)

Spec == Init /\ [][Next]_vars

-----------------------------------------------------------------------------
TypeOK ==
    /\ servers \subseteq ServerRow
    /\ roles \subseteq RoleRow
    /\ members \subseteq MemberRow
    /\ invites \subseteq InviteRow
    /\ drawn \subseteq Server
    /\ rq \in [Request -> Local]
    /\ faults \in 0..MaxFaults

OwnerOf(row) == [server |-> row.id, name |-> OwnerRole]

(* A server has one row, one role and one member, its owner in that role,  *)
(* and none of them is left when it goes, whatever is cut short: no join   *)
(* gets anyone in, as long as its query fails, and no handler takes apart  *)
(* what one commit has put there.  Posts assumes this of its Membership.   *)
MembersAreOwners ==
    /\ \A row1, row2 \in servers : row1.id = row2.id => row1 = row2
    /\ roles = {OwnerOf(row) : row \in servers}
    /\ members = {[server |-> row.id, user |-> row.owner, role |-> OwnerOf(row)] :
                     row \in servers}

(* A code that was given out names one server, and the same one for ever,  *)
(* whatever other links are made at the same time and even when the server *)
(* is gone.                                                                *)
CodesKeepTheirServer ==
    [][\A i \in invites :
        i \in invites' /\ \A j \in invites' : j.code = i.code => j = i]_vars

(* A server is changed or deleted only by a request of its owner, and a    *)
(* change of one column keeps what other requests wrote to the rest.       *)
ChangedBy(r, row, new) ==
    /\ rq[r].s = row.id /\ rq[r].u = row.owner
    /\ \/ At(r, "su_write") /\ new = [row EXCEPT !.text[rq[r].col] = rq[r].to]
       \/ At(r, "ss_write") /\ new = [row EXCEPT !.private = rq[r].to]

OwnersDecide ==
    [][\A row \in servers \ servers' :
        \E r \in Request :
            \/ At(r, "ds_delete") /\ rq[r].s = row.id /\ rq[r].u = row.owner
            \/ \E new \in servers' : ChangedBy(r, row, new)]_vars

(* A uuid that has been given out, and that no row has or will have.       *)
Lost(s) ==
    /\ s \in drawn
    /\ \A row \in servers : row.id # s
    /\ \A r \in Request : At(r, "cs_commit") => rq[r].s # s

Promise == INSTANCE Communities WITH
    members <- {<<m.server, m.user>> : m \in members},
    gone    <- {s \in Server : Lost(s)},
    inside  <- [r \in Request |-> rq[r].u]

(* A server is created with its member and removed for good, each in one   *)
(* step; in between its membership stays, and whatever a handler does to   *)
(* it is allowed to its user at that very moment, although ownership was   *)
(* asked for in an earlier query.  Posts relies on this.                   *)
KeepsPromise == Promise!Spec

=============================================================================
