----------------------------- MODULE Pagination -----------------------------
(***************************************************************************)
(* A client walks a list page by page while others insert and delete rows. *)
(* The posts of a server, the comments of a post, the servers of a user    *)
(* and the public servers are all listed this way: newest first, by        *)
(* creation time and then by uuid, one row more than the limit is fetched  *)
(* to know whether there is more, and the last row returned is the cursor  *)
(* of the next page.                                                       *)
(***************************************************************************)
EXTENDS Naturals, FiniteSets

CONSTANTS
    Time,       \* values of create_datetime
    Id,         \* uuids, as numbers in their order
    MaxLimit,   \* constant.MAX_LIMIT, 20 in the code
    MayCut,     \* whether a result may be cut short by a lost connection
    None        \* no cursor

ASSUME TimeAssumption == Time \subseteq Nat
ASSUME IdAssumption == Id \subseteq Nat
ASSUME MaxLimitAssumption == MaxLimit \in Nat
ASSUME MayCutAssumption == MayCut \in BOOLEAN

Row == [time : Time, id : Id]

ASSUME NoneAssumption == None \notin Row

VARIABLES
    rows,       \* the rows of the list
    used,       \* uuids given out
    at,         \* where the client is: "walking", "done" or "crashed"
    cursor,
    page,       \* the rows of the page received last
    seen,       \* the rows of the pages before it
    standing    \* the rows that have been there since the walk began

vars == <<rows, used, at, cursor, page, seen, standing>>

client == <<at, cursor, page, seen>>

(* ORDER BY create_datetime DESC, id DESC: x is listed before y.           *)
Newer(x, y) == x.time > y.time \/ (x.time = y.time /\ x.id > y.id)

(* Mutant: only the creation time is compared with the cursor.             *)
BeyondTime(c) == {x \in rows : c = None \/ x.time < c.time}

(* Mutant: the row of the cursor is not left out.                          *)
BeyondOrAt(c) == {x \in rows : c = None \/ x = c \/ Newer(c, x)}

(* WHERE create_datetime < $2 OR (create_datetime = $2 AND id < $3), or no *)
(* condition at all on the first page.                                     *)
Beyond(c) == {x \in rows : c = None \/ Newer(c, x)}

(* The first rows of S in that order, however many.                        *)
Prefixes(S) ==
    {P \in SUBSET S : \A x \in P, y \in S : Newer(y, x) => y \in P}

(* LIMIT n: the n first rows of S, or all of them.                         *)
Limited(n, S) ==
    {P \in Prefixes(S) : Cardinality(P) = n \/ (Cardinality(P) < n /\ P = S)}

(* What the loop over rows.Next() collects: it ends at the last row and,   *)
(* as rows.Err() is never asked, just the same when the connection is lost.*)
Collected(n, S) == IF MayCut THEN UNION {Prefixes(P) : P \in Limited(n, S)}
                   ELSE Limited(n, S)

IsLast(x, P) == x \in P /\ \A y \in P : y = x \/ Newer(y, x)

-----------------------------------------------------------------------------
Init ==
    /\ rows \in SUBSET Row
    /\ \A x, y \in rows : x.id = y.id => x = y
    /\ used = {x.id : x \in rows}
    /\ at = "walking" /\ cursor = None /\ page = {} /\ seen = {}
    /\ standing = rows

(* A handler takes its create_datetime before it inserts, so a row may     *)
(* arrive after rows that are newer.                                       *)
Insert(x) ==
    /\ x.id \notin used
    /\ rows' = rows \cup {x}
    /\ used' = used \cup {x.id}
    /\ UNCHANGED <<client, standing>>

Delete(x) ==
    /\ x \in rows
    /\ rows' = rows \ {x}
    /\ standing' = standing \ {x}
    /\ UNCHANGED <<client, used>>

(* Mutant: the next page gets the cursor of this one.                      *)
FullPageKeeping(limit, fetched) ==
    /\ Cardinality(fetched) > limit
    /\ limit > 0
    /\ page' \in Limited(limit, fetched)
    /\ seen' = seen \cup page
    /\ UNCHANGED <<cursor, at>>

(* There is more: serverPosts[limit-1] is the cursor.                      *)
FullPage(limit, fetched) ==
    /\ Cardinality(fetched) > limit
    /\ limit > 0
    /\ page' \in Limited(limit, fetched)
    /\ seen' = seen \cup page
    /\ cursor' \in page' /\ IsLast(cursor', page')
    /\ UNCHANGED at

(* Mutant: the cursor of an empty page is the zero value of its struct.    *)
ZeroCursor(limit, fetched) ==
    /\ Cardinality(fetched) > limit
    /\ limit = 0
    /\ cursor' = [time |-> 0, id |-> 0]
    /\ page' = {}
    /\ seen' = seen \cup page
    /\ UNCHANGED at

(* No row has the index -1: the handler panics and the client gets a 500.  *)
NoSuchRow(limit, fetched) ==
    /\ Cardinality(fetched) > limit
    /\ limit = 0
    /\ at' = "crashed"
    /\ UNCHANGED <<cursor, page, seen>>

(* No more data, and no cursor.                                            *)
LastPage(limit, fetched) ==
    /\ Cardinality(fetched) <= limit
    /\ page' = fetched
    /\ seen' = seen \cup page
    /\ at' = "done"
    /\ UNCHANGED cursor

(* The client may ask for another limit on each page; limits outside       *)
(* 0..MaxLimit are refused before the query.                               *)
GetPage(limit) ==
    /\ at = "walking"
    /\ \E fetched \in Collected(limit + 1, Beyond(cursor)) :
        \/ FullPage(limit, fetched)
        \/ NoSuchRow(limit, fetched)
        \/ LastPage(limit, fetched)
    /\ UNCHANGED <<rows, used, standing>>

Next ==
    \/ \E x \in Row : Insert(x) \/ Delete(x)
    \/ \E limit \in 0..MaxLimit : GetPage(limit)

Spec == Init /\ [][Next]_vars

(* A client that keeps asking.                                             *)
FairSpec == Spec /\ WF_vars(\E limit \in 0..MaxLimit : GetPage(limit))

-----------------------------------------------------------------------------
TypeOK ==
    /\ rows \subseteq Row
    /\ used \subseteq Id
    /\ at \in {"walking", "done", "crashed"}
    /\ cursor \in Row \cup {None}
    /\ page \subseteq Row
    /\ seen \subseteq Row
    /\ standing \subseteq Row

(* Every page goes on strictly below all the pages before it, whatever was *)
(* inserted and deleted between them: no row is listed twice.              *)
PagesDescend == \A x \in page, y \in seen : Newer(y, x)

(* While the client walks it has been given every row above its cursor     *)
(* that was there all the time, and at the end every such row: no row is   *)
(* skipped because others came and went.                                   *)
NothingSkipped ==
    \A x \in standing :
        \/ x \in page \cup seen
        \/ at = "walking" /\ (cursor = None \/ Newer(cursor, x))
        \/ at = "crashed"

(* A client that keeps asking comes to the last page.                      *)
WalkEnds == at = "walking" ~> at # "walking"

(* A page without a cursor is the last: "No more data, return all data     *)
(* without cursor".                                                        *)
EndIsTheEnd == at = "done" => standing \subseteq page \cup seen

=============================================================================
