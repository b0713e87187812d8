------------------------------ MODULE ConnPool ------------------------------
(***************************************************************************)
(* The one pgxpool.Pool that every usecase and repository shares.  Most    *)
(* handlers hold a connection for one query, or for the statements of one  *)
(* transaction.  DeletePost opens a transaction and, before it ends, runs  *)
(* PostRepository.DeletePost on the pool: it holds one connection while it *)
(* waits for another.  Waiting has no time limit: fiber's request context  *)
(* has none, and ends only when the process is stopped (Service), and the  *)
(* pool sets none.  The pool serves waiters in order.                      *)
(***************************************************************************)
EXTENDS Naturals, Sequences, FiniteSets

CONSTANTS
    Conn,       \* connections; config.NewPostgresqlPool allows 20
    Request,    \* requests being handled
    Deleter,    \* those that may be a DeletePost
    None        \* the owner of a free connection

ASSUME DeleterAssumption == Deleter \subseteq Request
ASSUME NoneAssumption == None \notin Request

VARIABLES
    at,         \* where each request is
    owner,      \* who holds each connection
    queue       \* who waits for one, in order

vars == <<at, owner, queue>>

Waiting == {"query_wait", "tx_wait", "nest_wait"}

Label == Waiting \cup {"idle", "query", "tx", "nest", "closing"}

(* What a waiting request does with the connection it gets.                *)
Granted == [l \in Waiting |-> CASE l = "query_wait" -> "query"
                                [] l = "tx_wait"    -> "tx"
                                [] l = "nest_wait"  -> "nest"]

Free(k) == owner[k] = None

Held(r) == {k \in Conn : owner[k] = r}

Wait(r, from, label) ==
    /\ at[r] = from
    /\ at' = [at EXCEPT ![r] = label]
    /\ queue' = Append(queue, r)
    /\ UNCHANGED owner

Release(r, label) ==
    /\ \E k \in Held(r) : owner' = [owner EXCEPT ![k] = None]
    /\ at' = [at EXCEPT ![r] = label]
    /\ UNCHANGED queue

-----------------------------------------------------------------------------
Init ==
    /\ at = [r \in Request |-> "idle"]
    /\ owner = [k \in Conn |-> None]
    /\ queue = <<>>

(* Mutant: a request that tires of waiting asks again and keeps its turn.  *)
QueryRetried(r) ==
    /\ at[r] \in {"idle", "query_wait"}
    /\ at' = [at EXCEPT ![r] = "query_wait"]
    /\ queue' = Append(queue, r)
    /\ UNCHANGED owner

(* A repository method on repository.DB, or DB.Begin of a handler.         *)
Query(r) == Wait(r, "idle", "query_wait")
Begin(r) == Wait(r, "idle", "tx_wait")

(* Mutant: a connection is handed out whether or not it is free.           *)
AcquireAny ==
    /\ queue # <<>>
    /\ LET r == Head(queue)
       IN  /\ \E k \in Conn : owner' = [owner EXCEPT ![k] = r]
           /\ at' = [at EXCEPT ![r] = Granted[at[r]]]
    /\ queue' = Tail(queue)

Acquire ==
    /\ queue # <<>>
    /\ LET r == Head(queue)
       IN  /\ \E k \in Conn : Free(k) /\ owner' = [owner EXCEPT ![k] = r]
           /\ at' = [at EXCEPT ![r] = Granted[at[r]]]
    /\ queue' = Tail(queue)

EndQuery(r) == at[r] = "query" /\ Release(r, "idle")

(* The DELETE of DeletePost, between two statements of its transaction.    *)
Nest(r) == r \in Deleter /\ Wait(r, "tx", "nest_wait")

EndNest(r) == at[r] = "nest" /\ Release(r, "closing")

(* Mutant: an error return leaves the transaction open.                    *)
EndTxUnclosed(r) ==
    \/ at[r] = "closing" /\ Release(r, "idle")
    \/ /\ at[r] = "tx"
       /\ at' = [at EXCEPT ![r] = "idle"]
       /\ UNCHANGED <<owner, queue>>

(* Commit, or the deferred Rollback.                                       *)
EndTx(r) == at[r] \in {"tx", "closing"} /\ Release(r, "idle")

Serve(r) == EndQuery(r) \/ Nest(r) \/ EndNest(r) \/ EndTx(r)

Next == Acquire \/ \E r \in Request : Query(r) \/ Begin(r) \/ Serve(r)

Spec == Init /\ [][Next]_vars

(* The database answers every statement, and the pool hands out what is    *)
(* free.  Nobody owes the pool another request.                            *)
FairSpec == Spec /\ WF_vars(Acquire) /\ \A r \in Request : WF_vars(Serve(r))

-----------------------------------------------------------------------------
(* Every connection is in the hands of a DeletePost that waits for one.    *)
Jammed == \A k \in Conn : owner[k] \in Request /\ at[owner[k]] = "nest_wait"

(* Nobody waits twice.                                                     *)
EachOnce(q) == \A i, j \in 1..Len(q) : q[i] = q[j] => i = j

TypeOK ==
    /\ at \in [Request -> Label]
    /\ owner \in [Conn -> Request \cup {None}]
    /\ queue \in Seq(Request) /\ EachOnce(queue)

(* A request holds as many connections as the point it has reached needs,  *)
(* on every path through commit, rollback and the nested DELETE; none when *)
(* it returns.                                                             *)
ConnsAccounted ==
    \A r \in Request : Cardinality(Held(r)) =
        CASE at[r] \in {"idle", "query_wait", "tx_wait"} -> 0
          [] at[r] \in {"query", "tx", "nest_wait", "closing"} -> 1
          [] at[r] = "nest" -> 2

(* A jam never ends: no request can let go of a connection any more.       *)
JamIsForever == [][Jammed => Jammed']_vars

(* A DeletePost that has begun completes: the integration test of the      *)
(* endpoint says "delete post request should complete".                    *)
DeletionsComplete ==
    \A r \in Deleter : at[r] = "nest_wait" ~> at[r] = "idle"

=============================================================================
