-------------------------- MODULE PaginationProofs --------------------------
(***************************************************************************)
(* Proofs about Pagination, for any times, uuids and limits.               *)
(***************************************************************************)
EXTENDS Pagination, TLAPS

-----------------------------------------------------------------------------
(* Newer is a strict total order on the rows.                              *)
LEMMA NewerIsOrder ==
    /\ \A x, y, z \in Row : Newer(x, y) /\ Newer(y, z) => Newer(x, z)
    /\ \A x, y \in Row : x = y \/ Newer(x, y) \/ Newer(y, x)
<1>1. \A x \in Row : x.time \in Nat /\ x.id \in Nat
  BY TimeAssumption, IdAssumption DEF Row
<1>2. \A x, y \in Row : x.time = y.time /\ x.id = y.id => x = y
  BY DEF Row
<1> QED
  BY <1>1, <1>2 DEF Newer

(* Without lost connections the rows collected are what LIMIT leaves, and  *)
(* with them still a prefix of the rows asked for.                         *)
LEMMA CollectedRows ==
    ASSUME NEW n, NEW S, NEW P \in Collected(n, S)
    PROVE  /\ P \in Prefixes(S)
           /\ ~MayCut => P \in Limited(n, S)
<1>1. CASE ~MayCut
  BY <1>1 DEF Collected, Limited
<1>2. CASE MayCut
  <2>1. PICK Q \in Limited(n, S) : P \in Prefixes(Q)
    BY <1>2 DEF Collected
  <2>2. Q \in Prefixes(S)
    BY DEF Limited
  <2> QED
    BY <1>2, <2>1, <2>2 DEF Prefixes
<1> QED
  BY <1>1, <1>2

-----------------------------------------------------------------------------
(* What holds between any two pages.  The cursor is the oldest of the rows *)
(* received, as long as the client walks.                                  *)
CursorIsOldest ==
    at = "walking" =>
        /\ cursor = None => page \cup seen = {}
        /\ cursor # None =>
            \A x \in page \cup seen : x = cursor \/ Newer(x, cursor)

WalkInv ==
    /\ TypeOK
    /\ standing \subseteq rows
    /\ PagesDescend
    /\ CursorIsOldest

(* A walk begins in the invariant.                                         *)
LEMMA InitWalkInv == Init => WalkInv
BY DEF Init, WalkInv, TypeOK, PagesDescend, CursorIsOldest, Row

(* A page taken from the rows beyond the cursor keeps the invariant.       *)
LEMMA PageDescends ==
    ASSUME WalkInv, at = "walking", NEW P, P \subseteq Beyond(cursor),
           page' = P, seen' = seen \cup page
    PROVE  /\ PagesDescend'
           /\ page' \subseteq Row /\ seen' \subseteq Row
           /\ \A x \in P, y \in seen' : Newer(y, x)
<1>1. P \subseteq Row /\ page \subseteq Row /\ seen \subseteq Row
  BY DEF WalkInv, TypeOK, Beyond
<1>2. ASSUME NEW x \in P, NEW y \in seen \cup page PROVE Newer(y, x)
  <2>1. cursor # None
    BY <1>2 DEF WalkInv, CursorIsOldest
  <2>2. cursor \in Row /\ x \in Row /\ y \in Row
    BY <1>1, <2>1 DEF WalkInv, TypeOK
  <2>3. Newer(cursor, x)
    BY <2>1 DEF Beyond
  <2>4. y = cursor \/ Newer(y, cursor)
    BY <2>1 DEF WalkInv, CursorIsOldest
  <2> QED
    BY <2>2, <2>3, <2>4, NewerIsOrder
<1> QED
  BY <1>1, <1>2 DEF PagesDescend

(* A page with a cursor keeps it: the cursor is the oldest row of the page.*)
LEMMA FullPageWalkInv ==
    ASSUME WalkInv, at = "walking", NEW limit \in 0..MaxLimit,
           NEW fetched \in Collected(limit + 1, Beyond(cursor)),
           FullPage(limit, fetched), UNCHANGED <<rows, used, standing>>
    PROVE  WalkInv'
<1>1. fetched \in Prefixes(Beyond(cursor))
  BY CollectedRows
<1>2. page' \subseteq Beyond(cursor)
  BY <1>1 DEF FullPage, Limited, Prefixes
<1>3. /\ PagesDescend' /\ page' \subseteq Row /\ seen' \subseteq Row
      /\ \A x \in page', y \in seen' : Newer(y, x)
  BY <1>2, PageDescends DEF FullPage
<1>4. cursor' \in page' /\ \A y \in page' : y = cursor' \/ Newer(y, cursor')
  BY DEF FullPage, IsLast
<1>5. CursorIsOldest'
  BY <1>3, <1>4, NoneAssumption DEF CursorIsOldest
<1>6. TypeOK'
  BY <1>3, <1>4 DEF WalkInv, TypeOK, FullPage
<1> QED
  BY <1>3, <1>5, <1>6 DEF WalkInv

(* So does a page without one, which leaves the cursor alone.              *)
LEMMA LastPageWalkInv ==
    ASSUME WalkInv, at = "walking", NEW limit \in 0..MaxLimit,
           NEW fetched \in Collected(limit + 1, Beyond(cursor)),
           LastPage(limit, fetched), UNCHANGED <<rows, used, standing>>
    PROVE  WalkInv'
<1>1. fetched \in Prefixes(Beyond(cursor))
  BY CollectedRows
<1>2. fetched \subseteq Beyond(cursor)
  BY <1>1 DEF Prefixes
<1>3. PagesDescend' /\ page' \subseteq Row /\ seen' \subseteq Row
  BY <1>2, PageDescends DEF LastPage
<1> QED
  BY <1>3 DEF WalkInv, TypeOK, LastPage, CursorIsOldest

(* And so does every answer to a request for a page.                       *)
LEMMA GetPageWalkInv ==
    ASSUME WalkInv, NEW limit \in 0..MaxLimit, GetPage(limit)
    PROVE  WalkInv'
<1>1. PICK fetched \in Collected(limit + 1, Beyond(cursor)) :
        \/ FullPage(limit, fetched)
        \/ NoSuchRow(limit, fetched)
        \/ LastPage(limit, fetched)
  BY DEF GetPage
<1>2. at = "walking" /\ UNCHANGED <<rows, used, standing>>
  BY DEF GetPage
<1>3. CASE FullPage(limit, fetched)
  BY <1>2, <1>3, FullPageWalkInv
<1>4. CASE NoSuchRow(limit, fetched)
  BY <1>2, <1>4 DEF NoSuchRow, WalkInv, TypeOK, PagesDescend, CursorIsOldest
<1>5. CASE LastPage(limit, fetched)
  BY <1>2, <1>5, LastPageWalkInv
<1> QED
  BY <1>1, <1>3, <1>4, <1>5

(* Rows that come and go leave what the client has been given alone.       *)
LEMMA NextWalkInv == WalkInv /\ [Next]_vars => WalkInv'
<1> SUFFICES ASSUME WalkInv, [Next]_vars PROVE WalkInv'
  OBVIOUS
<1> USE DEF WalkInv, TypeOK, PagesDescend, CursorIsOldest, client
<1>1. ASSUME NEW x \in Row, Insert(x) PROVE WalkInv'
  BY <1>1 DEF Insert, Row
<1>2. ASSUME NEW x \in Row, Delete(x) PROVE WalkInv'
  BY <1>2 DEF Delete
<1>3. ASSUME NEW limit \in 0..MaxLimit, GetPage(limit) PROVE WalkInv'
  BY <1>3, GetPageWalkInv
<1>4. CASE UNCHANGED vars
  BY <1>4 DEF vars
<1> QED
  BY <1>1, <1>2, <1>3, <1>4 DEF Next

(* The invariant of the walk holds always.                                 *)
LEMMA WalkCorrect == Spec => []WalkInv
<1> QED
  BY InitWalkInv, NextWalkInv, PTL DEF Spec

(* The state of a walk is well-typed.                                      *)
THEOREM TypeCorrect == Spec => []TypeOK
<1>1. WalkInv => TypeOK
  BY DEF WalkInv
<1> QED
  BY <1>1, WalkCorrect, PTL

(* No row is listed on two pages, for any rows inserted and deleted        *)
(* meanwhile, any limits, and results cut short or not.                    *)
THEOREM NoRowTwice == Spec => []PagesDescend
<1>1. WalkInv => PagesDescend
  BY DEF WalkInv
<1> QED
  BY <1>1, WalkCorrect, PTL

-----------------------------------------------------------------------------
(* Completeness of the walk.                                               *)

(* A full page holds every row between the old cursor and the new one.     *)
LEMMA FullPageSkipsNothing ==
    ASSUME WalkInv, NothingSkipped, at = "walking", NEW limit \in 0..MaxLimit,
           NEW fetched \in Collected(limit + 1, Beyond(cursor)),
           FullPage(limit, fetched), UNCHANGED <<rows, used, standing>>
    PROVE  NothingSkipped'
<1> SUFFICES ASSUME NEW x \in standing, x \notin page \cup seen
             PROVE  x \in page' \/ Newer(cursor', x)
  BY DEF NothingSkipped, FullPage
<1>1. fetched \in Prefixes(Beyond(cursor)) /\ page' \in Prefixes(fetched)
  BY CollectedRows DEF FullPage, Limited
<1>2. cursor' \in page' /\ page' \subseteq fetched
      /\ fetched \subseteq Beyond(cursor)
  BY <1>1 DEF FullPage, IsLast, Prefixes
<1>3. x \in Beyond(cursor)
  BY DEF NothingSkipped, Beyond, WalkInv
<1>4. x \in Row /\ cursor' \in Row
  BY <1>2, <1>3 DEF WalkInv, TypeOK, Beyond
<1>5. CASE Newer(x, cursor')
  <2>1. x \in fetched
    BY <1>1, <1>2, <1>3, <1>5 DEF Prefixes
  <2> QED
    BY <1>1, <1>2, <1>5, <2>1 DEF Prefixes
<1> QED
  BY <1>2, <1>4, <1>5, NewerIsOrder

(* The last page holds every row beyond the cursor.                        *)
LEMMA LastPageSkipsNothing ==
    ASSUME WalkInv, NothingSkipped, at = "walking", ~MayCut,
           NEW limit \in 0..MaxLimit,
           NEW fetched \in Collected(limit + 1, Beyond(cursor)),
           LastPage(limit, fetched), UNCHANGED <<rows, used, standing>>
    PROVE  NothingSkipped'
<1>1. fetched \in Limited(limit + 1, Beyond(cursor))
  BY CollectedRows
<1>2. Cardinality(fetched) # limit + 1
  BY MaxLimitAssumption DEF LastPage
<1>3. fetched = Beyond(cursor)
  BY <1>1, <1>2 DEF Limited
<1> QED
  BY <1>3 DEF NothingSkipped, LastPage, Beyond, WalkInv

(* No step loses a standing row, unless results are cut short.             *)
LEMMA NextSkipsNothing ==
    ~MayCut /\ WalkInv /\ NothingSkipped /\ [Next]_vars => NothingSkipped'
<1> SUFFICES ASSUME ~MayCut, WalkInv, NothingSkipped, [Next]_vars
             PROVE  NothingSkipped'
  OBVIOUS
<1>1. ASSUME NEW x \in Row, Insert(x) PROVE NothingSkipped'
  BY <1>1 DEF Insert, NothingSkipped, client
<1>2. ASSUME NEW x \in Row, Delete(x) PROVE NothingSkipped'
  BY <1>2 DEF Delete, NothingSkipped, client
<1>3. ASSUME NEW limit \in 0..MaxLimit, GetPage(limit) PROVE NothingSkipped'
  <2>1. PICK fetched \in Collected(limit + 1, Beyond(cursor)) :
            \/ FullPage(limit, fetched)
            \/ NoSuchRow(limit, fetched)
            \/ LastPage(limit, fetched)
    BY <1>3 DEF GetPage
  <2>2. at = "walking" /\ UNCHANGED <<rows, used, standing>>
    BY <1>3 DEF GetPage
  <2>3. CASE FullPage(limit, fetched)
    BY <2>2, <2>3, FullPageSkipsNothing
  <2>4. CASE NoSuchRow(limit, fetched)
    BY <2>2, <2>4 DEF NoSuchRow, NothingSkipped
  <2>5. CASE LastPage(limit, fetched)
    BY <2>2, <2>5, LastPageSkipsNothing
  <2> QED
    BY <2>1, <2>3, <2>4, <2>5
<1>4. CASE UNCHANGED vars
  BY <1>4 DEF vars, NothingSkipped
<1> QED
  BY <1>1, <1>2, <1>3, <1>4 DEF Next

(* If no result is cut short, a client that reaches the end has been given *)
(* every row that was in the list all the time.                            *)
THEOREM WalkIsComplete == ~MayCut => (Spec => []NothingSkipped)
<1>1. Init => NothingSkipped
  BY DEF Init, NothingSkipped
<1> SUFFICES ASSUME ~MayCut PROVE Spec => []NothingSkipped
  OBVIOUS
<1>2. WalkInv /\ NothingSkipped /\ [Next]_vars => NothingSkipped'
  BY NextSkipsNothing
<1> QED
  BY <1>1, <1>2, WalkCorrect, PTL DEF Spec

=============================================================================
