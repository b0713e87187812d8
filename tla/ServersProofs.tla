---------------------------- MODULE ServersProofs ----------------------------
(***************************************************************************)
(* Proofs about Servers, for any servers, users, codes and requests.       *)
(***************************************************************************)
EXTENDS Servers, TLAPS

-----------------------------------------------------------------------------
(* The inductive invariant: what a request carries, that a uuid is drawn   *)
(* once, and that whoever passed the check of ownership still owns the     *)
(* server, if it is there, when it writes.                                 *)

Writing(r) == rq[r].at \in {"su_write", "ss_write", "ds_delete"}

HasLocals ==
    \A r \in Request :
        /\ rq[r].at \in {"cs_commit", "su_owner", "su_write", "ss_owner", "ss_write",
                         "ds_owner", "ds_delete", "ci_insert"}
                => rq[r].s \in Server /\ rq[r].u \in User
        /\ rq[r].at \in {"cs_commit", "ss_owner", "ss_write"} => rq[r].to \in BOOLEAN
        /\ rq[r].at \in {"su_owner", "su_write"}
                => rq[r].col \in Column /\ rq[r].to \in Value
        /\ rq[r].at = "ci_insert" => rq[r].c \in Code
        /\ rq[r].at = "idle" => rq[r].u = None

DrawnOnce ==
    /\ \A row \in servers : row.id \in drawn
    /\ \A r \in Request : At(r, "cs_commit") =>
        rq[r].s \in drawn /\ \A row \in servers : row.id # rq[r].s
    /\ \A q, r \in Request :
        At(q, "cs_commit") /\ At(r, "cs_commit") /\ rq[q].s = rq[r].s => q = r

OwnersWrite ==
    \A r \in Request : Writing(r) =>
        /\ rq[r].s \in drawn
        /\ \A row \in servers : row.id = rq[r].s => row.owner = rq[r].u
        /\ \A q \in Request : At(q, "cs_commit") => rq[q].s # rq[r].s

ServersInv == TypeOK /\ MembersAreOwners /\ HasLocals /\ DrawnOnce /\ OwnersWrite

(* Empty tables and idle requests satisfy the invariant.                   *)
LEMMA InitServersInv == Init => ServersInv
<1> SUFFICES ASSUME Init PROVE ServersInv
  OBVIOUS
<1>1. TypeOK
  BY FaultsAssumption DEF Init, TypeOK, Local, Label, Idle
<1>2. MembersAreOwners
  BY DEF Init, MembersAreOwners
<1>3. HasLocals /\ DrawnOnce /\ OwnersWrite
  BY DEF Init, HasLocals, DrawnOnce, OwnersWrite, Writing, At, Idle
<1> QED
  BY <1>1, <1>2, <1>3 DEF ServersInv

-----------------------------------------------------------------------------
(* A step that leaves the rows of servers, roles and members alone, and    *)
(* whose request goes on with what it needs.                               *)
LEMMA QuietServersInv ==
    ASSUME ServersInv, NEW r \in Request,
           UNCHANGED <<servers, roles, members, drawn>>,
           invites' \subseteq InviteRow, faults' \in 0..MaxFaults,
           NEW local \in Local, rq' = [rq EXCEPT ![r] = local],
           local.at # "cs_commit",
           local.at \in {"su_owner", "su_write", "ss_owner", "ss_write",
                         "ds_owner", "ds_delete", "ci_insert"}
                => local.s \in Server /\ local.u \in User,
           local.at \in {"ss_owner", "ss_write"} => local.to \in BOOLEAN,
           local.at \in {"su_owner", "su_write"}
                => local.col \in Column /\ local.to \in Value,
           local.at = "ci_insert" => local.c \in Code,
           local.at = "idle" => local.u = None,
           local.at \in {"su_write", "ss_write", "ds_delete"}
                => CheckServerOwnership(local.s, local.u)
    PROVE  ServersInv'
<1> USE DEF ServersInv
<1>1. TypeOK'
  BY DEF TypeOK
<1>2. \A q \in Request : rq'[q] = IF q = r THEN local ELSE rq[q]
  BY DEF TypeOK
<1>3. MembersAreOwners'
  BY DEF MembersAreOwners
<1>4. HasLocals'
  BY <1>2 DEF HasLocals
<1>5. DrawnOnce'
  BY <1>2 DEF DrawnOnce, At
<1>6. OwnersWrite'
  <2> SUFFICES ASSUME NEW p \in Request, Writing(p)'
               PROVE  /\ rq'[p].s \in drawn
                      /\ \A row \in servers : row.id = rq'[p].s => row.owner = rq'[p].u
                      /\ \A q \in Request : At(q, "cs_commit")' => rq'[q].s # rq'[p].s
    BY DEF OwnersWrite
  <2>1. CASE p = r
    <3>1. PICK row \in servers : row.id = local.s /\ row.owner = local.u
      BY <1>2, <2>1 DEF Writing, CheckServerOwnership
    <3>2. local.s \in drawn
      BY <3>1 DEF DrawnOnce
    <3>3. \A other \in servers : other.id = local.s => other.owner = local.u
      BY <3>1 DEF MembersAreOwners
    <3>4. \A q \in Request : At(q, "cs_commit")' => At(q, "cs_commit") /\ rq'[q] = rq[q]
      BY <1>2 DEF At
    <3>5. \A q \in Request : At(q, "cs_commit")' => rq'[q].s # local.s
      BY <3>1, <3>4 DEF DrawnOnce
    <3> QED
      BY <1>2, <2>1, <3>2, <3>3, <3>5
  <2>2. CASE p # r
    BY <1>2, <2>2 DEF OwnersWrite, Writing, At
  <2> QED
    BY <2>1, <2>2
<1> QED
  BY <1>1, <1>3, <1>4, <1>5, <1>6

(* CreateServer draws a uuid that no request and no row has.               *)
LEMMA CsCheckServersInv ==
    ASSUME ServersInv, NEW r \in Request, CsCheck(r)
    PROVE  ServersInv'
<1> USE DEF ServersInv
<1>1. PICK s \in Server \ drawn, u \in User, private \in BOOLEAN :
        /\ rq' = [rq EXCEPT ![r] = [at |-> "cs_commit", s |-> s, u |-> u,
                                   c |-> None, col |-> None, to |-> private]]
        /\ drawn' = drawn \cup {s}
        /\ UNCHANGED <<tables, invites, faults>>
  BY DEF CsCheck, Begin
<1>2. \A q \in Request \ {r} : rq'[q] = rq[q]
  BY <1>1 DEF TypeOK
<1>3. rq'[r] = [at |-> "cs_commit", s |-> s, u |-> u, c |-> None,
                col |-> None, to |-> private]
  BY <1>1 DEF TypeOK
<1>4. TypeOK'
  <2>1. rq'[r] \in Local
    BY <1>3 DEF Local, Label
  <2> QED
    BY <1>1, <1>3, <2>1 DEF TypeOK, tables
<1>5. MembersAreOwners'
  BY <1>1 DEF MembersAreOwners, tables
<1>6. HasLocals'
  BY <1>2, <1>3 DEF HasLocals
<1>7. DrawnOnce'
  BY <1>1, <1>2, <1>3 DEF DrawnOnce, At, tables
<1>8. OwnersWrite'
  BY <1>1, <1>2, <1>3 DEF OwnersWrite, Writing, At, tables
<1> QED
  BY <1>4, <1>5, <1>6, <1>7, <1>8

(* The commit of CreateServer adds a server, its role and its owner.       *)
LEMMA CsCommitServersInv ==
    ASSUME ServersInv, NEW r \in Request, CsCommit(r)
    PROVE  ServersInv'
<1> USE DEF ServersInv
<1> DEFINE s == rq[r].s
           u == rq[r].u
           owner == [server |-> s, name |-> OwnerRole]
           member == [server |-> s, user |-> u, role |-> owner]
<1>1. PICK text \in [Column -> Value] :
        servers' = servers \cup
            {[id |-> s, owner |-> u, private |-> rq[r].to, text |-> text]}
  BY DEF CsCommit
<1> DEFINE new == [id |-> s, owner |-> u, private |-> rq[r].to, text |-> text]
<1>2. /\ roles' = roles \cup {owner} /\ members' = members \cup {member}
      /\ rq' = [rq EXCEPT ![r] = Idle] /\ UNCHANGED <<invites, drawn, faults>>
  BY DEF CsCommit, Finish
<1>3. s \in Server /\ u \in User /\ rq[r].to \in BOOLEAN
  BY DEF CsCommit, At, HasLocals
<1>4. s \in drawn /\ \A row \in servers : row.id # s
  BY DEF CsCommit, At, DrawnOnce
<1>5. \A q \in Request : rq'[q] = IF q = r THEN Idle ELSE rq[q]
  BY <1>2 DEF TypeOK
<1>6. TypeOK'
  <2>1. new \in ServerRow /\ owner \in RoleRow /\ member \in MemberRow
    BY <1>3 DEF ServerRow, RoleRow, MemberRow
  <2>2. Idle \in Local
    BY DEF Idle, Local, Label
  <2> QED
    BY <1>1, <1>2, <2>1, <2>2 DEF TypeOK
<1>7. MembersAreOwners'
  <2>1. new.id = s /\ new.owner = u
    OBVIOUS
  <2>2. \A row1, row2 \in servers' : row1.id = row2.id => row1 = row2
    BY <1>1, <1>4, <2>1 DEF MembersAreOwners
  <2>3. OwnerOf(new) = owner
    BY <2>1 DEF OwnerOf
  <2>4. roles' = {OwnerOf(row) : row \in servers'}
    BY <1>1, <1>2, <2>3 DEF MembersAreOwners
  <2>5. members' = {[server |-> row.id, user |-> row.owner, role |-> OwnerOf(row)] :
                       row \in servers'}
    BY <1>1, <1>2, <2>1, <2>3 DEF MembersAreOwners
  <2> QED
    BY <2>2, <2>4, <2>5 DEF MembersAreOwners
<1>8. HasLocals'
  BY <1>5 DEF HasLocals, Idle
<1>9. DrawnOnce'
  <2>1. \A q \in Request : At(q, "cs_commit")' =>
            q # r /\ At(q, "cs_commit") /\ rq'[q] = rq[q]
    BY <1>5 DEF At, Idle
  <2>2. \A q \in Request : At(q, "cs_commit")' => rq[q].s # s
    BY <2>1 DEF DrawnOnce, CsCommit
  <2> QED
    BY <1>1, <1>2, <1>4, <2>1, <2>2 DEF DrawnOnce
<1>10. OwnersWrite'
  <2>1. \A q \in Request : Writing(q)' => q # r /\ Writing(q) /\ rq'[q] = rq[q]
    BY <1>5 DEF Writing, Idle
  <2>2. \A q \in Request : Writing(q) => rq[q].s # s
    BY DEF OwnersWrite, CsCommit
  <2> QED
    BY <1>1, <1>2, <1>5, <2>1, <2>2 DEF OwnersWrite, At, Idle
<1> QED
  BY <1>6, <1>7, <1>8, <1>9, <1>10

(* An UPDATE of one server keeps every id and every owner.                 *)
LEMMA UpdateServersInv ==
    ASSUME ServersInv, NEW r \in Request, NEW upd \in [servers -> ServerRow],
           servers' = {upd[row] : row \in servers},
           \A row \in servers : upd[row].id = row.id /\ upd[row].owner = row.owner,
           NEW local \in Local, rq' = [rq EXCEPT ![r] = local],
           local.at \in {"idle", "su_detail"},
           local.at = "idle" => local.u = None,
           UNCHANGED <<roles, members, invites, drawn, faults>>
    PROVE  ServersInv'
<1> USE DEF ServersInv
<1>1. TypeOK'
  BY DEF TypeOK
<1>2. \A q \in Request : rq'[q] = IF q = r THEN local ELSE rq[q]
  BY DEF TypeOK
<1>3. MembersAreOwners'
  <2>1. \A row \in servers : OwnerOf(upd[row]) = OwnerOf(row)
    BY DEF OwnerOf
  <2>2. roles = {OwnerOf(row) : row \in servers'}
    BY <2>1 DEF MembersAreOwners
  <2>3. members = {[server |-> row.id, user |-> row.owner, role |-> OwnerOf(row)] :
                      row \in servers'}
    BY <2>1 DEF MembersAreOwners
  <2>4. \A row1, row2 \in servers' : row1.id = row2.id => row1 = row2
    BY DEF MembersAreOwners
  <2> QED
    BY <2>2, <2>3, <2>4 DEF MembersAreOwners
<1>4. HasLocals'
  BY <1>2 DEF HasLocals
<1>5. DrawnOnce'
  BY <1>2 DEF DrawnOnce, At
<1>6. OwnersWrite'
  BY <1>2 DEF OwnersWrite, Writing, At
<1> QED
  BY <1>1, <1>3, <1>4, <1>5, <1>6

(* DELETE FROM servers cascades to the role and the member.                *)
LEMMA DsDeleteServersInv ==
    ASSUME ServersInv, NEW r \in Request, DsDelete(r)
    PROVE  ServersInv'
<1> USE DEF ServersInv
<1> DEFINE s == rq[r].s
<1>1. /\ servers' = {row \in servers : row.id # s}
      /\ roles'   = {row \in roles   : row.server # s}
      /\ members' = {row \in members : row.server # s}
      /\ rq' = [rq EXCEPT ![r] = Idle] /\ UNCHANGED <<invites, drawn, faults>>
  BY DEF DsDelete, Finish
<1>2. \A q \in Request : rq'[q] = IF q = r THEN Idle ELSE rq[q]
  BY <1>1 DEF TypeOK
<1>3. TypeOK'
  <2>1. Idle \in Local
    BY DEF Idle, Local, Label
  <2> QED
    BY <1>1, <2>1 DEF TypeOK
<1>4. MembersAreOwners'
  <2>1. \A row \in servers : OwnerOf(row).server = row.id
    BY DEF OwnerOf
  <2>2. roles' = {OwnerOf(row) : row \in servers'}
    BY <1>1, <2>1 DEF MembersAreOwners
  <2>3. members' = {[server |-> row.id, user |-> row.owner, role |-> OwnerOf(row)] :
                       row \in servers'}
    BY <1>1 DEF MembersAreOwners
  <2> QED
    BY <1>1, <2>2, <2>3 DEF MembersAreOwners
<1>5. HasLocals'
  BY <1>2 DEF HasLocals, Idle
<1>6. DrawnOnce'
  BY <1>1, <1>2 DEF DrawnOnce, At, Idle
<1>7. OwnersWrite'
  BY <1>1, <1>2 DEF OwnersWrite, Writing, At, Idle
<1> QED
  BY <1>3, <1>4, <1>5, <1>6, <1>7

(* Any other step only moves a request on, or adds an invite.              *)
LEMMA NextServersInv == ServersInv /\ [Next]_vars => ServersInv'
<1> SUFFICES ASSUME ServersInv, [Next]_vars PROVE ServersInv'
  OBVIOUS
<1> USE DEF ServersInv
<1>1. \A r \in Request : rq[r] \in Local /\ Idle \in Local
  BY DEF TypeOK, Idle, Local, Label
<1>2. invites \subseteq InviteRow /\ faults \in 0..MaxFaults
  BY DEF TypeOK
<1>3. ASSUME NEW r \in Request, NEW label \in Label, CheckOwner(r, label),
             \/ At(r, "su_owner") /\ label = "su_write"
             \/ At(r, "ss_owner") /\ label = "ss_write"
             \/ At(r, "ds_owner") /\ label = "ds_delete"
      PROVE  ServersInv'
  <2> DEFINE on == [rq[r] EXCEPT !.at = label]
  <2>1. /\ on \in Local /\ on.at = label
        /\ on.s = rq[r].s /\ on.u = rq[r].u /\ on.col = rq[r].col /\ on.to = rq[r].to
    BY <1>1 DEF Local
  <2>2. CASE CheckServerOwnership(rq[r].s, rq[r].u)
    <3>1. rq' = [rq EXCEPT ![r] = on]
      BY <1>3, <2>2 DEF CheckOwner, Goto, TypeOK
    <3>2. rq[r].s \in Server /\ rq[r].u \in User
      BY <1>3 DEF HasLocals, At
    <3>3. label = "ss_write" => rq[r].to \in BOOLEAN
      BY <1>3 DEF HasLocals, At
    <3>4. label = "su_write" => rq[r].col \in Column /\ rq[r].to \in Value
      BY <1>3 DEF HasLocals, At
    <3> HIDE DEF on
    <3> QED
      BY <1>2, <1>3, <2>1, <2>2, <3>1, <3>2, <3>3, <3>4, QuietServersInv
         DEF CheckOwner, tables
  <2>3. CASE ~CheckServerOwnership(rq[r].s, rq[r].u)
    BY <1>1, <1>2, <1>3, <2>3, QuietServersInv DEF CheckOwner, Finish, tables, Idle
  <2> QED
    BY <2>2, <2>3
<1>4. ASSUME NEW r \in Request, Finish(r),
             UNCHANGED <<servers, roles, members, drawn>>,
             invites' \subseteq InviteRow, faults' \in 0..MaxFaults
      PROVE  ServersInv'
  BY <1>1, <1>4, QuietServersInv DEF Finish, Idle
<1>5. ASSUME NEW r \in Request, NEW local \in Local, Ask(r, local),
             local.at \in {"su_owner", "ss_owner", "ds_owner", "ui_avatar",
                           "ci_insert", "js_member"},
             local.s \in Server, local.u \in User,
             local.at = "ss_owner" => local.to \in BOOLEAN,
             local.at = "su_owner" => local.col \in Column /\ local.to \in Value,
             local.at = "ci_insert" => local.c \in Code
      PROVE  ServersInv'
  BY <1>2, <1>5, QuietServersInv DEF Ask, Begin, tables
<1>6. ASSUME NEW r \in Request, CreateServer(r) PROVE ServersInv'
  BY <1>6, CsCheckServersInv, CsCommitServersInv DEF CreateServer
<1>7. ASSUME NEW r \in Request, UpdateServer(r) PROVE ServersInv'
  <2>1. CASE SuAsk(r)
    <3>1. PICK s \in drawn, u \in User, col \in Column, v \in Value :
            Ask(r, [at |-> "su_owner", s |-> s, u |-> u, c |-> None,
                    col |-> col, to |-> v])
      BY <2>1 DEF SuAsk
    <3>2. s \in Server
      BY DEF TypeOK
    <3>3. [at |-> "su_owner", s |-> s, u |-> u, c |-> None,
           col |-> col, to |-> v] \in Local
      BY <3>2 DEF Local, Label
    <3> QED
      BY <1>5, <3>1, <3>2, <3>3
  <2>2. CASE SuCheckOwner(r)
    BY <1>3, <2>2 DEF SuCheckOwner, Label
  <2>3. CASE SuWrite(r)
    <3> DEFINE upd == [row \in servers |->
                          IF row.id = rq[r].s
                          THEN [row EXCEPT !.text[rq[r].col] = rq[r].to]
                          ELSE row]
               on == [rq[r] EXCEPT !.at = "su_detail"]
    <3>1. rq[r].col \in Column /\ rq[r].to \in Value
      BY <2>3 DEF SuWrite, At, HasLocals
    <3>2. /\ upd \in [servers -> ServerRow]
          /\ \A row \in servers : upd[row].id = row.id /\ upd[row].owner = row.owner
      BY <3>1 DEF TypeOK, ServerRow
    <3>3. servers' = {upd[row] : row \in servers}
      BY <2>3 DEF SuWrite
    <3>4. on \in Local /\ on.at = "su_detail"
      BY <1>1 DEF Local, Label
    <3>5. rq' = [rq EXCEPT ![r] = on]
      BY <2>3 DEF SuWrite, Goto, TypeOK
    <3>6. UNCHANGED <<roles, members, invites, drawn, faults>>
      BY <2>3 DEF SuWrite
    <3> HIDE DEF upd, on
    <3> QED
      BY <3>2, <3>3, <3>4, <3>5, <3>6, UpdateServersInv
  <2>4. CASE SuDetail(r)
    BY <1>2, <1>4, <2>4 DEF SuDetail, tables
  <2> QED
    BY <1>7, <2>1, <2>2, <2>3, <2>4 DEF UpdateServer
<1>8. ASSUME NEW r \in Request, UpdateServerSettings(r) PROVE ServersInv'
  <2>1. CASE SsAsk(r)
    <3>1. PICK s \in drawn, u \in User, private \in BOOLEAN :
            Ask(r, [at |-> "ss_owner", s |-> s, u |-> u, c |-> None,
                    col |-> None, to |-> private])
      BY <2>1 DEF SsAsk
    <3>2. s \in Server
      BY DEF TypeOK
    <3>3. [at |-> "ss_owner", s |-> s, u |-> u, c |-> None,
           col |-> None, to |-> private] \in Local
      BY <3>2 DEF Local, Label
    <3> QED
      BY <1>5, <3>1, <3>2, <3>3
  <2>2. CASE SsCheckOwner(r)
    BY <1>3, <2>2 DEF SsCheckOwner, Label
  <2>3. CASE SsWrite(r)
    <3> DEFINE upd == [row \in servers |->
                          IF row.id = rq[r].s THEN [row EXCEPT !.private = rq[r].to]
                          ELSE row]
    <3>1. rq[r].to \in BOOLEAN
      BY <2>3 DEF SsWrite, At, HasLocals
    <3>2. /\ upd \in [servers -> ServerRow]
          /\ \A row \in servers : upd[row].id = row.id /\ upd[row].owner = row.owner
      BY <3>1 DEF TypeOK, ServerRow
    <3>3. servers' = {upd[row] : row \in servers}
      BY <2>3 DEF SsWrite
    <3>4. /\ rq' = [rq EXCEPT ![r] = Idle] /\ Idle.at = "idle" /\ Idle.u = None
          /\ UNCHANGED <<roles, members, invites, drawn, faults>>
      BY <2>3 DEF SsWrite, Finish, Idle
    <3> HIDE DEF upd
    <3> QED
      BY <1>1, <3>2, <3>3, <3>4, UpdateServersInv
  <2> QED
    BY <1>8, <2>1, <2>2, <2>3 DEF UpdateServerSettings
<1>9. ASSUME NEW r \in Request, DeleteServer(r) PROVE ServersInv'
  <2>1. CASE DsAsk(r)
    <3>1. PICK s \in drawn, u \in User :
            Ask(r, [at |-> "ds_owner", s |-> s, u |-> u, c |-> None,
                    col |-> None, to |-> None])
      BY <2>1 DEF DsAsk
    <3>2. s \in Server
      BY DEF TypeOK
    <3>3. [at |-> "ds_owner", s |-> s, u |-> u, c |-> None,
           col |-> None, to |-> None] \in Local
      BY <3>2 DEF Local, Label
    <3> QED
      BY <1>5, <3>1, <3>2, <3>3
  <2>2. CASE DsCheckOwner(r)
    BY <1>3, <2>2 DEF DsCheckOwner, Label
  <2> QED
    BY <1>9, <2>1, <2>2, DsDeleteServersInv DEF DeleteServer
<1>10. ASSUME NEW r \in Request, UpdateServerImage(r) PROVE ServersInv'
  <2>1. CASE UiCheckOwner(r)
    <3>1. PICK s \in drawn, u \in User :
            Ask(r, [at |-> "ui_avatar", s |-> s, u |-> u, c |-> None,
                    col |-> None, to |-> None])
      BY <2>1 DEF UiCheckOwner
    <3>2. s \in Server
      BY DEF TypeOK
    <3>3. [at |-> "ui_avatar", s |-> s, u |-> u, c |-> None,
           col |-> None, to |-> None] \in Local
      BY <3>2 DEF Local, Label
    <3> QED
      BY <1>5, <3>1, <3>2, <3>3
  <2>2. CASE UiGetAvatar(r)
    BY <1>2, <1>4, <2>2 DEF UiGetAvatar, tables
  <2> QED
    BY <1>10, <2>1, <2>2 DEF UpdateServerImage
<1>11. ASSUME NEW r \in Request, CreateInviteLink(r) PROVE ServersInv'
  <2>1. CASE CiDraw(r)
    <3>1. PICK s \in drawn, u \in User, c \in Code :
            Ask(r, [at |-> "ci_insert", s |-> s, u |-> u, c |-> c,
                    col |-> None, to |-> None])
      BY <2>1 DEF CiDraw
    <3>2. s \in Server
      BY DEF TypeOK
    <3>3. [at |-> "ci_insert", s |-> s, u |-> u, c |-> c,
           col |-> None, to |-> None] \in Local
      BY <3>2 DEF Local, Label
    <3> QED
      BY <1>5, <3>1, <3>2, <3>3
  <2>2. CASE CiInsert(r)
    <3>1. rq[r].s \in Server /\ rq[r].c \in Code
      BY <2>2 DEF CiInsert, At, HasLocals
    <3>2. invites' \subseteq InviteRow
      BY <1>2, <2>2, <3>1 DEF CiInsert, InviteRow
    <3> QED
      BY <1>2, <1>4, <2>2, <3>2 DEF CiInsert, tables
  <2> QED
    BY <1>11, <2>1, <2>2 DEF CreateInviteLink
<1>12. ASSUME NEW r \in Request, JoinServer(r) PROVE ServersInv'
  <2>1. ASSUME NEW s \in Server, NEW u \in User, NEW c \in Code \cup {None},
               Ask(r, [at |-> "js_member", s |-> s, u |-> u, c |-> c,
                       col |-> None, to |-> None])
        PROVE  ServersInv'
    <3>1. [at |-> "js_member", s |-> s, u |-> u, c |-> c, col |-> None,
           to |-> None] \in Local
      BY DEF Local, Label
    <3> QED
      BY <1>5, <2>1, <3>1
  <2>2. CASE JsCheckEligible(r)
    BY <2>1, <2>2 DEF JsCheckEligible
  <2>3. CASE JiLookup(r)
    <3>1. \A i \in invites : i.server \in Server /\ i.code \in Code
      BY <1>2 DEF InviteRow
    <3> QED
      BY <2>1, <2>3, <3>1 DEF JiLookup
  <2>4. CASE JsCheckMember(r)
    BY <1>2, <1>4, <2>4 DEF JsCheckMember, tables
  <2> QED
    BY <1>12, <2>2, <2>3, <2>4 DEF JoinServer
<1>13. ASSUME NEW r \in Request, Fail(r) PROVE ServersInv'
  <2>1. faults' \in 0..MaxFaults
    BY <1>2, <1>13, FaultsAssumption DEF Fail
  <2> QED
    BY <1>2, <1>4, <1>13, <2>1 DEF Fail, tables
<1>14. CASE UNCHANGED vars
  BY <1>14 DEF vars, TypeOK, MembersAreOwners, HasLocals, DrawnOnce, OwnersWrite,
     Writing, At
<1> QED
  BY <1>6, <1>7, <1>8, <1>9, <1>10, <1>11, <1>12, <1>13, <1>14 DEF Next

(* The invariant of the servers holds always.                              *)
LEMMA ServersInvariant == Spec => []ServersInv
<1> QED
  BY InitServersInv, NextServersInv, PTL DEF Spec

-----------------------------------------------------------------------------
(* The tables and the requests are well-typed.                             *)
THEOREM TypeCorrect == Spec => []TypeOK
<1>1. ServersInv => TypeOK
  BY DEF ServersInv
<1> QED
  BY <1>1, ServersInvariant, PTL

(* A server has its owner as its one member, in its one role, for any      *)
(* interleaving of creations, deletions, joins and faults.                 *)
THEOREM OnlyOwnersBelong == Spec => []MembersAreOwners
<1>1. ServersInv => MembersAreOwners
  BY DEF ServersInv
<1> QED
  BY <1>1, ServersInvariant, PTL

(* Nobody but its owner changes or deletes a server, however the check of  *)
(* ownership and the write that relies on it are interleaved with others.  *)
THEOREM OwnersAlwaysDecide == Spec => OwnersDecide
<1> DEFINE Decided(row) ==
        \E r \in Request :
            \/ At(r, "ds_delete") /\ rq[r].s = row.id /\ rq[r].u = row.owner
            \/ \E new \in servers' : ChangedBy(r, row, new)
<1>1. ServersInv /\ [Next]_vars => \A row \in servers \ servers' : Decided(row)
  <2> SUFFICES ASSUME ServersInv, [Next]_vars, NEW row \in servers \ servers'
               PROVE  Decided(row)
    OBVIOUS
  <2>1. ASSUME NEW r \in Request, SuWrite(r) PROVE Decided(row)
    <3>1. row.id = rq[r].s
      BY <2>1 DEF SuWrite
    <3>2. rq[r].u = row.owner
      BY <2>1, <3>1 DEF ServersInv, OwnersWrite, Writing, SuWrite, At
    <3>3. [row EXCEPT !.text[rq[r].col] = rq[r].to] \in servers'
      BY <2>1, <3>1 DEF SuWrite
    <3> QED
      BY <2>1, <3>1, <3>2, <3>3 DEF ChangedBy, SuWrite
  <2>2. ASSUME NEW r \in Request, SsWrite(r) PROVE Decided(row)
    <3>1. row.id = rq[r].s
      BY <2>2 DEF SsWrite
    <3>2. rq[r].u = row.owner
      BY <2>2, <3>1 DEF ServersInv, OwnersWrite, Writing, SsWrite, At
    <3>3. [row EXCEPT !.private = rq[r].to] \in servers'
      BY <2>2, <3>1 DEF SsWrite
    <3> QED
      BY <2>2, <3>1, <3>2, <3>3 DEF ChangedBy, SsWrite
  <2>3. ASSUME NEW r \in Request, DsDelete(r) PROVE Decided(row)
    <3>1. row.id = rq[r].s
      BY <2>3 DEF DsDelete
    <3>2. rq[r].u = row.owner
      BY <2>3, <3>1 DEF ServersInv, OwnersWrite, Writing, DsDelete, At
    <3> QED
      BY <2>3, <3>1, <3>2 DEF DsDelete
  <2>4. ASSUME NEW r \in Request, CsCommit(r) PROVE Decided(row)
    BY <2>4 DEF CsCommit
  <2>5. CASE servers' = servers
    BY <2>5
  <2>6. \/ servers' = servers
        \/ \E r \in Request : SuWrite(r) \/ SsWrite(r) \/ DsDelete(r) \/ CsCommit(r)
    BY DEF Next, CreateServer, CsCheck, UpdateServer, SuAsk, SuCheckOwner, SuDetail,
       UpdateServerSettings, SsAsk, SsCheckOwner, DeleteServer, DsAsk, DsCheckOwner,
       UpdateServerImage, UiCheckOwner, UiGetAvatar, CreateInviteLink, CiDraw,
       CiInsert, JoinServer, JsCheckEligible, JiLookup, JsCheckMember, Fail,
       CheckOwner, Ask, tables, vars
  <2> QED
    BY <2>1, <2>2, <2>3, <2>4, <2>5, <2>6
<1> QED
  BY <1>1, ServersInvariant, PTL DEF Spec, OwnersDecide

-----------------------------------------------------------------------------
(* Codes need no more than the unique index.                               *)

CodesOnce == \A i, j \in invites : i.code = j.code => i = j

(* Only CreateInviteLink writes the table of invites.                      *)
LEMMA InvitesGrow ==
    [Next]_vars => invites' = invites \/ \E r \in Request : CiInsert(r)
<1> QED
  BY DEF Next, CreateServer, CsCheck, CsCommit, UpdateServer, SuAsk, SuCheckOwner,
     SuWrite, SuDetail, UpdateServerSettings, SsAsk, SsCheckOwner, SsWrite,
     DeleteServer, DsAsk, DsCheckOwner, DsDelete, UpdateServerImage, UiCheckOwner,
     UiGetAvatar, CreateInviteLink, CiDraw, JoinServer, JsCheckEligible, JiLookup,
     JsCheckMember, Fail, CheckOwner, Ask, tables, vars

(* A code names one server for ever.                                       *)
THEOREM CodesStand == Spec => CodesKeepTheirServer
<1> DEFINE Kept == \A i \in invites :
                i \in invites' /\ \A j \in invites' : j.code = i.code => j = i
<1>1. Init => CodesOnce
  BY DEF Init, CodesOnce
<1>2. CodesOnce /\ [Next]_vars => CodesOnce' /\ Kept
  <2> SUFFICES ASSUME CodesOnce, [Next]_vars PROVE CodesOnce' /\ Kept
    OBVIOUS
  <2>1. CASE invites' = invites
    BY <2>1 DEF CodesOnce
  <2>2. ASSUME NEW r \in Request, CiInsert(r) PROVE CodesOnce' /\ Kept
    <3>1. CASE CodeTaken(rq[r].c)
      BY <2>2, <3>1 DEF CiInsert, CodesOnce
    <3>2. CASE ~CodeTaken(rq[r].c)
      BY <2>2, <3>2 DEF CiInsert, CodesOnce, CodeTaken
    <3> QED
      BY <3>1, <3>2
  <2> QED
    BY <2>1, <2>2, InvitesGrow
<1> QED
  BY <1>1, <1>2, PTL DEF Spec, CodesKeepTheirServer

-----------------------------------------------------------------------------
(* The promise of Communities.  What it sees of the tables is who belongs  *)
(* where, and of a request its user.                                       *)

Pairs == {<<m.server, m.user>> : m \in members}

LostOnes == {s \in Server : Lost(s)}

Users == [r \in Request |-> rq[r].u]

(* All that is seen.                                                       *)
LEMMA Seen ==
    /\ Promise!vars = <<servers, Pairs, LostOnes, invites, Users>>
    /\ Promise!vars' = <<servers', Pairs', LostOnes', invites', Users'>>
BY DEF Promise!vars, Pairs, LostOnes, Users

(* A request that returns has no user.                                     *)
LEMMA Leaves ==
    ASSUME TypeOK, NEW r \in Request, Finish(r)
    PROVE  /\ rq'[r] = Idle /\ \A q \in Request \ {r} : rq'[q] = rq[q]
           /\ Promise!Gone(r)
<1>1. rq'[r] = Idle /\ \A q \in Request \ {r} : rq'[q] = rq[q]
  BY DEF Finish, TypeOK
<1>2. Users' = [Users EXCEPT ![r] = None]
  <2>1. rq'[r].u = None
    BY <1>1 DEF Idle
  <2> QED
    BY <1>1, <2>1 DEF Users
<1> QED
  BY <1>1, <1>2 DEF Promise!Gone, Users

Absent(s) == \A row \in servers : row.id # s

(* If the same requests and rows have the same uuids, the same are lost.   *)
LEMMA SameLost ==
    ASSUME \A s \in Server : Absent(s)' <=> Absent(s),
           drawn' = drawn, NEW r \in Request,
           \A q \in Request \ {r} : rq'[q] = rq[q],
           ~At(r, "cs_commit"), ~At(r, "cs_commit")'
    PROVE  LostOnes' = LostOnes
<1>1. \A q \in Request, s \in Server :
        (At(q, "cs_commit") => rq[q].s # s) <=> (At(q, "cs_commit")' => rq'[q].s # s)
  BY DEF At
<1> QED
  BY <1>1 DEF LostOnes, Lost, Absent

(* A request that returns without effect.  A uuid it held is lost.         *)
LEMMA Returns ==
    ASSUME ServersInv, NEW r \in Request, Finish(r),
           UNCHANGED <<servers, members, invites, drawn>>
    PROVE  Promise!Next
<1> USE DEF ServersInv
<1>1. /\ rq'[r] = Idle /\ \A q \in Request \ {r} : rq'[q] = rq[q]
      /\ Promise!Gone(r)
  BY Leaves
<1>2. \A q \in Request : At(q, "cs_commit")' => At(q, "cs_commit") /\ rq'[q] = rq[q]
  BY <1>1 DEF At, Idle
<1>3. LostOnes \subseteq LostOnes'
  BY <1>2 DEF LostOnes, Lost
<1>4. \A row \in servers : row.id \notin LostOnes'
  BY DEF LostOnes, Lost
<1>5. Pairs' = Pairs
  BY DEF Pairs
<1>6. Promise!Go(r)
  BY <1>1, <1>3, <1>4, <1>5 DEF Promise!Go, LostOnes, Pairs
<1> QED
  BY <1>6 DEF Promise!Next

(* A request that goes on with the same user is not seen.                  *)
LEMMA GoesOn ==
    ASSUME ServersInv, NEW r \in Request, NEW label \in Label, Goto(r, label),
           ~At(r, "cs_commit"), label # "cs_commit", drawn' = drawn,
           \A s \in Server : Absent(s)' <=> Absent(s)
    PROVE  Users' = Users /\ LostOnes' = LostOnes
<1>1. /\ rq'[r] = [rq[r] EXCEPT !.at = label]
      /\ \A q \in Request \ {r} : rq'[q] = rq[q]
      /\ rq[r] \in Local
  BY DEF ServersInv, TypeOK, Goto
<1>2. rq'[r].u = rq[r].u /\ rq'[r].at = label
  BY <1>1 DEF Local
<1>3. Users' = Users
  BY <1>1, <1>2 DEF Users
<1>4. ~At(r, "cs_commit")'
  BY <1>2 DEF At
<1> QED
  BY <1>1, <1>3, <1>4, SameLost

(* A new request comes with its user, and with a fresh uuid, if any.       *)
LEMMA Comes ==
    ASSUME ServersInv, NEW r \in Request, NEW local \in Local, Begin(r, local),
           local.u \in User, UNCHANGED <<servers, members, invites>>,
           \/ drawn' = drawn /\ local.at # "cs_commit"
           \/ /\ local.at = "cs_commit" /\ local.s \notin drawn
              /\ drawn' = drawn \cup {local.s}
    PROVE  Promise!Next
<1> USE DEF ServersInv
<1>1. /\ rq'[r] = local /\ \A q \in Request \ {r} : rq'[q] = rq[q]
      /\ At(r, "idle")
  BY DEF Begin, TypeOK
<1>2. Users[r] = None /\ Users' = [Users EXCEPT ![r] = local.u]
  BY <1>1 DEF Begin, HasLocals, At, Users, TypeOK
<1>3. LostOnes' = LostOnes
  <2>1. CASE drawn' = drawn /\ local.at # "cs_commit"
    BY <1>1, <2>1, SameLost DEF At, Absent
  <2>2. CASE /\ local.at = "cs_commit" /\ local.s \notin drawn
             /\ drawn' = drawn \cup {local.s}
    BY <1>1, <2>2 DEF LostOnes, Lost, At
  <2> QED
    BY <2>1, <2>2
<1>4. Pairs' = Pairs
  BY DEF Pairs
<1>5. Promise!Come(r, local.u)
  BY <1>2, <1>3, <1>4 DEF Promise!Come, LostOnes, Pairs, Users
<1> QED
  BY <1>5 DEF Promise!Next

(* A request that does what its user may, and ends or goes on.             *)
LEMMA Acts ==
    ASSUME ServersInv, NEW r \in Request, rq[r].u \in User,
           Users' = Users \/ Finish(r),
           \/ Promise!Found(rq[r].u) \/ Promise!Alter(rq[r].u)
           \/ Promise!Disband(rq[r].u) \/ Promise!Invite(rq[r].u)
    PROVE  Promise!Next
<1> DEFINE u == [q \in Request |-> rq[q].u][r]
<1>1. u = rq[r].u /\ u # None
  BY NoneAssumption
<1>2. Promise!Gone(r) \/ Users' = Users
  BY Leaves DEF ServersInv
<1>3. Promise!Act(r)
  BY <1>1, <1>2
     DEF Promise!Act, Promise!Found, Promise!Alter, Promise!Disband,
         Promise!Invite, Users
<1> QED
  BY <1>3 DEF Promise!Next

-----------------------------------------------------------------------------
(* The steps that are seen.                                                *)

(* CreateServer founds a server.                                           *)
LEMMA CsCommitPromise ==
    ASSUME ServersInv, NEW r \in Request, CsCommit(r)
    PROVE  Promise!Next
<1> USE DEF ServersInv
<1> DEFINE s == rq[r].s
           u == rq[r].u
<1>1. PICK text \in [Column -> Value] :
        servers' = servers \cup
            {[id |-> s, owner |-> u, private |-> rq[r].to, text |-> text]}
  BY DEF CsCommit
<1> DEFINE new == [id |-> s, owner |-> u, private |-> rq[r].to, text |-> text]
<1>2. At(r, "cs_commit") /\ Finish(r) /\ UNCHANGED <<invites, drawn>>
  BY DEF CsCommit
<1>3. /\ s \in drawn /\ \A row \in servers : row.id # s
      /\ \A q \in Request \ {r} : At(q, "cs_commit") => rq[q].s # s
  BY <1>2 DEF DrawnOnce
<1>4. s \in Server /\ u \in User /\ rq[r].to \in BOOLEAN
  BY <1>2 DEF At, HasLocals
<1>5. LostOnes' = LostOnes
  <2>1. rq'[r].at = "idle" /\ \A q \in Request \ {r} : rq'[q] = rq[q]
    BY <1>2, Leaves DEF Idle
  <2>2. \A q \in Request \ {r} : At(q, "cs_commit")' <=> At(q, "cs_commit")
    BY <2>1 DEF At
  <2>3. \A t \in Server : Absent(t)' <=> Absent(t) /\ t # s
    <3>1. new.id = s /\ servers' = servers \cup {new}
      BY <1>1
    <3> HIDE DEF new, s
    <3> QED
      BY <3>1 DEF Absent
  <2>4. At(r, "cs_commit") /\ ~At(r, "cs_commit")' /\ r \in Request
    BY <1>2, <2>1 DEF At
  <2>5. \A t \in Server : t \in LostOnes' <=> t \in LostOnes
    BY <1>2, <2>1, <2>2, <2>3, <2>4 DEF LostOnes, Lost, Absent
  <2> QED
    BY <2>5 DEF LostOnes
<1>6. Pairs' = Pairs \cup {<<s, u>>}
  <2> DEFINE member == [server |-> s, user |-> u,
                        role |-> [server |-> s, name |-> OwnerRole]]
  <2>1. members' = members \cup {member}
    BY DEF CsCommit
  <2>2. member.server = s /\ member.user = u
    OBVIOUS
  <2> HIDE DEF member
  <2> QED
    BY <2>1, <2>2 DEF Pairs
<1>7. Promise!Found(u)
  <2>1. new \in Promise!ServerRow
    BY <1>4 DEF Promise!ServerRow
  <2>2. new.id = s /\ new.owner = u
    OBVIOUS
  <2>3. s \notin LostOnes
    BY <1>2 DEF LostOnes, Lost
  <2>4. servers' = servers \cup {new}
    BY <1>1
  <2> HIDE DEF new
  <2> QED
    BY <1>2, <1>3, <1>5, <1>6, <2>1, <2>2, <2>3, <2>4
       DEF Promise!Found, LostOnes, Pairs
<1> QED
  BY <1>2, <1>4, <1>7, Acts

(* An UPDATE alters the server of the owner, or nothing if it is gone.     *)
LEMMA UpdatePromise ==
    ASSUME ServersInv, NEW r \in Request, Writing(r),
           NEW upd \in [servers -> ServerRow],
           servers' = {IF row.id = rq[r].s THEN upd[row] ELSE row : row \in servers},
           \A row \in servers : upd[row].id = row.id /\ upd[row].owner = row.owner,
           UNCHANGED <<members, invites, drawn>>,
           Finish(r) \/ Goto(r, "su_detail")
    PROVE  [Promise!Next]_(Promise!vars)
<1> USE DEF ServersInv
<1>1. \A s \in Server : Absent(s)' <=> Absent(s)
  BY DEF Absent
<1>2. ~At(r, "cs_commit") /\ rq[r].u \in User
  BY DEF Writing, At, HasLocals
<1>3. CASE Absent(rq[r].s)
  <2>1. servers' = servers
    BY <1>3 DEF Absent
  <2>2. CASE Finish(r)
    BY <2>1, <2>2, Returns
  <2>3. CASE Goto(r, "su_detail")
    <3>1. Users' = Users /\ LostOnes' = LostOnes
      BY <1>1, <1>2, <2>3, GoesOn DEF Label
    <3> QED
      BY <2>1, <3>1, Seen DEF Pairs
  <2> QED
    BY <2>2, <2>3
<1>4. ASSUME NEW row \in servers, row.id = rq[r].s PROVE Promise!Next
  <2>1. \A other \in servers : other.id = rq[r].s => other = row
    BY <1>4 DEF MembersAreOwners
  <2>2. servers' = (servers \ {row}) \cup {upd[row]}
    BY <1>4, <2>1
  <2>3. /\ row.owner = rq[r].u /\ upd[row].id = row.id
        /\ upd[row].owner = rq[r].u /\ upd[row] \in Promise!ServerRow
    BY <1>4 DEF OwnersWrite, ServerRow, Promise!ServerRow
  <2>4. Pairs' = Pairs
    BY DEF Pairs
  <2>5. LostOnes' = LostOnes /\ (Users' = Users \/ Finish(r))
    <3>1. CASE Finish(r)
      <4>1. ~At(r, "cs_commit")'
        BY <3>1, Leaves DEF At, Idle
      <4> QED
        BY <1>1, <1>2, <3>1, <4>1, Leaves, SameLost
    <3>2. CASE Goto(r, "su_detail")
      BY <1>1, <1>2, <3>2, GoesOn DEF Label
    <3> QED
      BY <3>1, <3>2
  <2>6. Promise!Alter(rq[r].u)
    BY <2>2, <2>3, <2>4, <2>5 DEF Promise!Alter, LostOnes, Pairs
  <2> QED
    BY <1>2, <2>5, <2>6, Acts
<1> QED
  BY <1>3, <1>4 DEF Absent

(* A change of a text, or of the settings.                                 *)
LEMMA WritePromise ==
    ASSUME ServersInv, NEW r \in Request, SuWrite(r) \/ SsWrite(r)
    PROVE  [Promise!Next]_(Promise!vars)
<1> USE DEF ServersInv
<1>1. CASE SuWrite(r)
  <2> DEFINE upd == [row \in servers |-> [row EXCEPT !.text[rq[r].col] = rq[r].to]]
  <2>1. rq[r].col \in Column /\ rq[r].to \in Value
    BY <1>1 DEF SuWrite, At, HasLocals
  <2>2. /\ upd \in [servers -> ServerRow]
        /\ \A row \in servers : upd[row].id = row.id /\ upd[row].owner = row.owner
    BY <2>1 DEF TypeOK, ServerRow
  <2>3. servers' = {IF row.id = rq[r].s THEN upd[row] ELSE row : row \in servers}
    BY <1>1 DEF SuWrite
  <2>4. /\ Writing(r) /\ Goto(r, "su_detail")
        /\ UNCHANGED <<members, invites, drawn>>
    BY <1>1 DEF SuWrite, At, Writing
  <2> HIDE DEF upd
  <2> QED
    BY <2>2, <2>3, <2>4, UpdatePromise
<1>2. CASE SsWrite(r)
  <2> DEFINE upd == [row \in servers |-> [row EXCEPT !.private = rq[r].to]]
  <2>1. rq[r].to \in BOOLEAN
    BY <1>2 DEF SsWrite, At, HasLocals
  <2>2. /\ upd \in [servers -> ServerRow]
        /\ \A row \in servers : upd[row].id = row.id /\ upd[row].owner = row.owner
    BY <2>1 DEF TypeOK, ServerRow
  <2>3. servers' = {IF row.id = rq[r].s THEN upd[row] ELSE row : row \in servers}
    BY <1>2 DEF SsWrite
  <2>4. Writing(r) /\ Finish(r) /\ UNCHANGED <<members, invites, drawn>>
    BY <1>2 DEF SsWrite, At, Writing
  <2> HIDE DEF upd
  <2> QED
    BY <2>2, <2>3, <2>4, UpdatePromise
<1> QED
  BY <1>1, <1>2

(* A deletion disbands the server of the owner, unless it is gone.         *)
LEMMA DsDeletePromise ==
    ASSUME ServersInv, NEW r \in Request, DsDelete(r)
    PROVE  Promise!Next
<1> USE DEF ServersInv
<1> DEFINE s == rq[r].s
<1>1. /\ servers' = {row \in servers : row.id # s}
      /\ members' = {m \in members : m.server # s}
      /\ At(r, "ds_delete") /\ Finish(r) /\ UNCHANGED <<invites, drawn>>
  BY DEF DsDelete
<1>2. rq[r].u \in User /\ s \in Server /\ s \in drawn
  BY <1>1 DEF At, HasLocals, OwnersWrite, Writing
<1>3. CASE Absent(s)
  <2>1. servers' = servers
    BY <1>1, <1>3 DEF Absent
  <2>2. members' = members
    BY <1>1, <1>3 DEF Absent, MembersAreOwners
  <2> QED
    BY <1>1, <2>1, <2>2, Returns
<1>4. ASSUME NEW row \in servers, row.id = s PROVE Promise!Next
  <2>1. servers' = servers \ {row} /\ row.owner = rq[r].u
    BY <1>1, <1>4 DEF MembersAreOwners, OwnersWrite, Writing, At
  <2>2. Pairs' = {m \in Pairs : m[1] # row.id}
    BY <1>1, <1>4 DEF Pairs
  <2>3. LostOnes' = LostOnes \cup {s}
    <3>1. \A q \in Request : /\ At(q, "cs_commit")' <=> At(q, "cs_commit")
                             /\ At(q, "cs_commit") => rq'[q] = rq[q] /\ rq[q].s # s
      BY <1>1, Leaves DEF At, Idle, OwnersWrite, Writing
    <3>2. \A t \in Server : Absent(t)' <=> Absent(t) \/ t = s
      BY <1>1 DEF Absent
    <3> QED
      BY <1>1, <1>2, <3>1, <3>2 DEF LostOnes, Lost, Absent
  <2>4. Promise!Disband(rq[r].u)
    BY <1>1, <1>4, <2>1, <2>2, <2>3 DEF Promise!Disband, LostOnes, Pairs
  <2> QED
    BY <1>1, <1>2, <2>4, Acts
<1> QED
  BY <1>3, <1>4 DEF Absent

(* A link is made for a code that is free, or none is made.                *)
LEMMA CiInsertPromise ==
    ASSUME ServersInv, NEW r \in Request, CiInsert(r)
    PROVE  Promise!Next
<1> USE DEF ServersInv
<1>1. /\ At(r, "ci_insert") /\ Finish(r)
      /\ UNCHANGED <<servers, roles, members, drawn>>
  BY DEF CiInsert, tables
<1>2. rq[r].u \in User /\ rq[r].s \in Server /\ rq[r].c \in Code
  BY <1>1 DEF At, HasLocals
<1>3. CASE CodeTaken(rq[r].c)
  <2>1. invites' = invites
    BY <1>3 DEF CiInsert
  <2> QED
    BY <1>1, <2>1, Returns
<1>4. CASE ~CodeTaken(rq[r].c)
  <2>1. /\ \A i \in invites : i.code # rq[r].c
        /\ invites' = invites \cup {[code |-> rq[r].c, server |-> rq[r].s]}
    BY <1>4 DEF CiInsert, CodeTaken
  <2>2. ~At(r, "cs_commit") /\ ~At(r, "cs_commit")'
    BY <1>1, Leaves DEF At, Idle
  <2>3. LostOnes' = LostOnes /\ Pairs' = Pairs
    BY <1>1, <2>2, Leaves, SameLost DEF Absent, Pairs
  <2>4. Promise!Invite(rq[r].u)
    BY <1>1, <1>2, <2>1, <2>3 DEF Promise!Invite, LostOnes, Pairs
  <2> QED
    BY <1>1, <1>2, <2>4, Acts
<1> QED
  BY <1>3, <1>4

-----------------------------------------------------------------------------
(* The steps of no consequence.                                            *)

(* A request begins.                                                       *)
LEMMA AskPromise ==
    ASSUME ServersInv, NEW r \in Request,
           \/ CsCheck(r) \/ SuAsk(r) \/ SsAsk(r) \/ DsAsk(r)
           \/ UiCheckOwner(r) \/ CiDraw(r) \/ JsCheckEligible(r) \/ JiLookup(r)
    PROVE  Promise!Next
<1> USE DEF ServersInv
<1>1. \A s \in drawn : s \in Server
  BY DEF TypeOK
<1>2. ASSUME NEW local \in Local, Ask(r, local), local.at # "cs_commit",
             local.u \in User
      PROVE  Promise!Next
  BY <1>2, Comes DEF Ask, tables
<1>3. CASE CsCheck(r)
  <2>1. PICK s \in Server \ drawn, u \in User, private \in BOOLEAN :
        /\ Begin(r, [at |-> "cs_commit", s |-> s, u |-> u, c |-> None,
                     col |-> None, to |-> private])
        /\ drawn' = drawn \cup {s}
        /\ UNCHANGED <<tables, invites, faults>>
    BY <1>3 DEF CsCheck
  <2> DEFINE local == [at |-> "cs_commit", s |-> s, u |-> u, c |-> None,
                       col |-> None, to |-> private]
  <2>2. /\ local \in Local /\ local.at = "cs_commit" /\ local.s = s
        /\ local.u = u
    BY DEF Local, Label
  <2>3. Begin(r, local) /\ UNCHANGED <<servers, members, invites>>
    BY <2>1 DEF tables
  <2> HIDE DEF local
  <2> QED
    BY <2>1, <2>2, <2>3, Comes
<1>4. ASSUME NEW label \in Label \ {"cs_commit"}, NEW s \in Server,
             NEW u \in User, NEW c \in Code \cup {None},
             NEW col \in Column \cup {None},
             NEW to \in Value \cup BOOLEAN \cup {None},
             Ask(r, [at |-> label, s |-> s, u |-> u, c |-> c, col |-> col, to |-> to])
      PROVE  Promise!Next
  <2> DEFINE local == [at |-> label, s |-> s, u |-> u, c |-> c,
                       col |-> col, to |-> to]
  <2>1. local \in Local /\ local.at # "cs_commit" /\ local.u \in User
    BY DEF Local
  <2>2. Ask(r, local)
    BY <1>4
  <2> HIDE DEF local
  <2> QED
    BY <1>2, <2>1, <2>2
<1>5. CASE SuAsk(r)
  BY <1>1, <1>4, <1>5 DEF SuAsk, Label
<1>6. CASE SsAsk(r)
  BY <1>1, <1>4, <1>6 DEF SsAsk, Label
<1>7. CASE DsAsk(r)
  BY <1>1, <1>4, <1>7 DEF DsAsk, Label
<1>8. CASE UiCheckOwner(r)
  BY <1>1, <1>4, <1>8 DEF UiCheckOwner, Label
<1>9. CASE CiDraw(r)
  BY <1>1, <1>4, <1>9 DEF CiDraw, Label
<1>10. CASE JsCheckEligible(r)
  BY <1>4, <1>10 DEF JsCheckEligible, Label
<1>11. CASE JiLookup(r)
  <2>1. \A i \in invites : i.server \in Server /\ i.code \in Code
    BY DEF TypeOK, InviteRow
  <2> QED
    BY <1>4, <1>11, <2>1 DEF JiLookup, Label
<1> QED
  BY <1>3, <1>5, <1>6, <1>7, <1>8, <1>9, <1>10, <1>11

(* The check of ownership, and every return without effect.                *)
LEMMA QuietPromise ==
    ASSUME ServersInv, NEW r \in Request,
           \/ SuCheckOwner(r) \/ SsCheckOwner(r) \/ DsCheckOwner(r)
           \/ SuDetail(r) \/ UiGetAvatar(r) \/ JsCheckMember(r) \/ Fail(r)
    PROVE  [Promise!Next]_(Promise!vars)
<1>1. UNCHANGED <<servers, members, invites, drawn>>
  BY DEF SuCheckOwner, SsCheckOwner, DsCheckOwner, CheckOwner, SuDetail,
         UiGetAvatar, JsCheckMember, Fail, tables
<1>2. CASE Finish(r)
  BY <1>1, <1>2, Returns
<1>3. ASSUME NEW label \in {"su_write", "ss_write", "ds_delete"},
             ~At(r, "cs_commit"), Goto(r, label)
      PROVE  [Promise!Next]_(Promise!vars)
  <2>1. Users' = Users /\ LostOnes' = LostOnes
    BY <1>1, <1>3, GoesOn DEF Label, Absent
  <2> QED
    BY <1>1, <2>1, Seen DEF Pairs
<1>4. \/ Finish(r)
      \/ \E label \in {"su_write", "ss_write", "ds_delete"} :
            ~At(r, "cs_commit") /\ Goto(r, label)
  BY DEF SuCheckOwner, SsCheckOwner, DsCheckOwner, CheckOwner, SuDetail,
         UiGetAvatar, JsCheckMember, Fail, At
<1> QED
  BY <1>2, <1>3, <1>4

(* Every step is one of Communities, or not seen by it.                    *)
LEMMA NextPromise ==
    ServersInv /\ [Next]_vars => [Promise!Next]_(Promise!vars)
<1> SUFFICES ASSUME ServersInv, [Next]_vars
             PROVE  [Promise!Next]_(Promise!vars)
  OBVIOUS
<1>1. CASE UNCHANGED vars
  BY <1>1, Seen DEF vars, Pairs, LostOnes, Lost, At, Users
<1> QED
  BY <1>1, CsCommitPromise, WritePromise, DsDeletePromise, CiInsertPromise,
     AskPromise, QuietPromise
     DEF Next, CreateServer, UpdateServer, UpdateServerSettings, DeleteServer,
         UpdateServerImage, CreateInviteLink, JoinServer

(* The handlers implement Communities: a server comes with its member and  *)
(* goes for good, at one stroke, and every effect is allowed to its user   *)
(* when it is done.                                                        *)
THEOREM ServersKeepPromise == Spec => KeepsPromise
<1>1. Init => Promise!Init
  <2> SUFFICES ASSUME Init PROVE Promise!Init
    OBVIOUS
  <2>1. Pairs = {} /\ LostOnes = {}
    BY DEF Init, Pairs, LostOnes, Lost
  <2>2. Users = [r \in Request |-> None]
    BY DEF Init, Users, Idle
  <2> QED
    BY <2>1, <2>2 DEF Init, Promise!Init, Pairs, LostOnes, Users
<1> QED
  BY <1>1, NextPromise, ServersInvariant, PTL DEF Spec, KeepsPromise, Promise!Spec

-----------------------------------------------------------------------------
(* What Posts has for constants.                                           *)

MembersOf(s) == {m \in Pairs : m[1] = s}

(* The members of a server that exists stay the same until it goes, and it *)
(* goes for ever: Posts has Membership as a constant and servers that are  *)
(* only removed.                                                           *)
THEOREM MembershipLasts ==
    Spec => [][\A s \in Server :
                /\ Absent(s) \/ MembersOf(s)' = MembersOf(s) \/ Lost(s)'
                /\ Lost(s) => Lost(s)']_vars
<1> DEFINE Lasts(s) == /\ Absent(s) \/ MembersOf(s)' = MembersOf(s) \/ Lost(s)'
                       /\ Lost(s) => Lost(s)'
<1>1. ASSUME ServersInv, [Next]_vars PROVE \A s \in Server : Lasts(s)
  <2>1. [Promise!Next]_(Promise!vars)
    BY <1>1, NextPromise
  <2>2. \/ Pairs' = Pairs /\ LostOnes \subseteq LostOnes'
        \/ \E row \in servers :
            /\ Pairs' = {m \in Pairs : m[1] # row.id}
            /\ LostOnes' = LostOnes \cup {row.id}
        \/ \E new \in ServerRow :
            /\ Absent(new.id) /\ Pairs' = Pairs \cup {<<new.id, new.owner>>}
            /\ LostOnes' = LostOnes
    <3>1. CASE UNCHANGED Promise!vars
      BY <3>1, Seen
    <3>2. CASE Promise!Next
      BY <3>2
         DEF Promise!Next, Promise!Come, Promise!Go, Promise!Act, Promise!Found,
             Promise!Alter, Promise!Disband, Promise!Invite, Promise!ServerRow,
             ServerRow, Pairs, LostOnes, Absent
    <3> QED
      BY <2>1, <3>1, <3>2
  <2>3. \A s \in Server : (s \in LostOnes <=> Lost(s)) /\ (s \in LostOnes' <=> Lost(s)')
    BY DEF LostOnes
  <2>4. CASE Pairs' = Pairs /\ LostOnes \subseteq LostOnes'
    BY <2>3, <2>4 DEF MembersOf
  <2>5. ASSUME NEW row \in servers, Pairs' = {m \in Pairs : m[1] # row.id},
               LostOnes' = LostOnes \cup {row.id}
        PROVE  \A s \in Server : Lasts(s)
    BY <2>3, <2>5 DEF MembersOf
  <2>6. ASSUME NEW new \in ServerRow, Absent(new.id),
               Pairs' = Pairs \cup {<<new.id, new.owner>>}, LostOnes' = LostOnes
        PROVE  \A s \in Server : Lasts(s)
    BY <2>3, <2>6 DEF MembersOf
  <2> QED
    BY <2>2, <2>4, <2>5, <2>6
<1> QED
  BY <1>1, ServersInvariant, PTL DEF Spec

=============================================================================
