----------------------------- MODULE Communities -----------------------------
(***************************************************************************)
(* What the handlers of ServerUsecase promise about their tables: a server *)
(* is founded, altered and disbanded by its owner, each in one step and    *)
(* allowed at the moment it is done; it has its founder as its one member  *)
(* from first to last, and once it is gone it never comes back.  This is   *)
(* what Posts takes its Membership to be.                                  *)
(***************************************************************************)
EXTENDS FiniteSets

CONSTANTS Server, User, Code, Column, Value, Request, None

VARIABLES
    servers,    \* each with its owner, settings and texts
    members,    \* pairs of a server and a user
    gone,       \* the servers that never come again
    invites,
    inside      \* the user on whose behalf a request runs, or None

vars == <<servers, members, gone, invites, inside>>

ServerRow == [id : Server, owner : User, private : BOOLEAN,
              text : [Column -> Value]]

Init ==
    /\ servers = {} /\ members = {} /\ gone = {} /\ invites = {}
    /\ inside = [r \in Request |-> None]

-----------------------------------------------------------------------------
(* What user u may do.                                                     *)

Found(u) ==
    /\ \E new \in ServerRow :
        /\ new.owner = u
        /\ new.id \notin gone
        /\ \A row \in servers : row.id # new.id
        /\ servers' = servers \cup {new}
        /\ members' = members \cup {<<new.id, u>>}
    /\ UNCHANGED <<gone, invites>>

Alter(u) ==
    /\ \E row \in servers, new \in ServerRow :
        /\ row.owner = u
        /\ new.id = row.id /\ new.owner = u
        /\ servers' = (servers \ {row}) \cup {new}
    /\ UNCHANGED <<members, gone, invites>>

Disband(u) ==
    /\ \E row \in servers :
        /\ row.owner = u
        /\ servers' = servers \ {row}
        /\ members' = {m \in members : m[1] # row.id}
        /\ gone' = gone \cup {row.id}
    /\ UNCHANGED invites

(* Anybody may invite to any server, even to one that is gone.             *)
Invite(u) ==
    /\ \E c \in Code, s \in Server :
        /\ \A i \in invites : i.code # c
        /\ invites' = invites \cup {[code |-> c, server |-> s]}
    /\ UNCHANGED <<servers, members, gone>>

-----------------------------------------------------------------------------
Come(r, u) ==
    /\ inside[r] = None
    /\ inside' = [inside EXCEPT ![r] = u]
    /\ UNCHANGED <<servers, members, gone, invites>>

Gone(r) == inside' = [inside EXCEPT ![r] = None]

(* A request returns; the name of a server it failed to found is lost.     *)
Go(r) ==
    /\ Gone(r)
    /\ gone \subseteq gone'
    /\ \A row \in servers : row.id \notin gone' \ gone
    /\ UNCHANGED <<servers, members, invites>>

(* A request acts, and ends or not.                                        *)
Act(r) ==
    LET u == inside[r]
    IN  /\ u # None
        /\ Found(u) \/ Alter(u) \/ Disband(u) \/ Invite(u)
        /\ Gone(r) \/ UNCHANGED inside

Next ==
    \/ \E r \in Request, u \in User : Come(r, u)
    \/ \E r \in Request : Go(r) \/ Act(r)

Spec == Init /\ [][Next]_vars

=============================================================================
