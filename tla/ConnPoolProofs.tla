--------------------------- MODULE ConnPoolProofs ---------------------------
(***************************************************************************)
(* Proofs about ConnPool, for any connections, requests and deletions.     *)
(***************************************************************************)
EXTENDS ConnPool, FiniteSetTheorems, TLAPS

-----------------------------------------------------------------------------
(* The connections a request holds by where it is, and the queue.          *)

HeldInv ==
    \A r \in Request :
        /\ at[r] \in {"idle", "query_wait", "tx_wait"} => Held(r) = {}
        /\ at[r] \in {"query", "tx", "nest_wait", "closing"}
                => \E k \in Conn : Held(r) = {k}
        /\ at[r] = "nest" => \E j, k \in Conn : j # k /\ Held(r) = {j, k}

QueueInv ==
    /\ \A i \in 1..Len(queue) : at[queue[i]] \in Waiting
    /\ \A i, j \in 1..Len(queue) : queue[i] = queue[j] => i = j

DeleterInv == \A r \in Request : at[r] \in {"nest_wait", "nest"} => r \in Deleter

PoolInv == TypeOK /\ HeldInv /\ QueueInv /\ DeleterInv

(* The empty pool satisfies the invariant.                                 *)
LEMMA InitPoolInv == Init => PoolInv
<1> SUFFICES ASSUME Init PROVE PoolInv
  OBVIOUS
<1>1. TypeOK /\ QueueInv /\ DeleterInv
  BY DEF Init, TypeOK, EachOnce, QueueInv, DeleterInv, Label
<1>2. HeldInv
  BY NoneAssumption DEF Init, HeldInv, Held
<1> QED
  BY <1>1, <1>2 DEF PoolInv

(* Nobody's connections change while a request starts to wait.             *)
LEMMA WaitPoolInv ==
    ASSUME PoolInv, NEW r \in Request, NEW from \in Label, NEW label \in Waiting,
           Wait(r, from, label),
           \/ from = "idle" /\ label \in {"query_wait", "tx_wait"}
           \/ from = "tx" /\ label = "nest_wait" /\ r \in Deleter
    PROVE  PoolInv'
<1> USE DEF PoolInv, Wait
<1>1. HeldInv'
  <2> SUFFICES ASSUME NEW q \in Request
               PROVE  /\ at'[q] \in {"idle", "query_wait", "tx_wait"}
                            => Held(q)' = {}
                      /\ at'[q] \in {"query", "tx", "nest_wait", "closing"}
                            => \E k \in Conn : Held(q)' = {k}
                      /\ at'[q] = "nest"
                            => \E j, k \in Conn : j # k /\ Held(q)' = {j, k}
    BY DEF HeldInv
  <2>1. Held(q)' = Held(q)
    BY DEF Held
  <2>2. at'[q] = IF q = r THEN label ELSE at[q]
    BY DEF TypeOK
  <2> QED
    BY <2>1, <2>2 DEF HeldInv
<1>2. QueueInv'
  <2>1. from \notin Waiting /\ at[r] = from
    BY DEF Waiting
  <2>2. \A i \in 1..Len(queue) : queue[i] # r /\ queue[i] \in Request
    BY <2>1 DEF QueueInv, TypeOK
  <2>3. /\ Len(queue') = Len(queue) + 1 /\ Len(queue) \in Nat
        /\ \A i \in 1..Len(queue) : queue'[i] = queue[i]
        /\ queue'[Len(queue) + 1] = r
    BY DEF TypeOK
  <2>4. \A i \in 1..Len(queue') :
            i \in 1..Len(queue) \/ i = Len(queue) + 1
    BY <2>3
  <2>5. \A q \in Request : at'[q] = IF q = r THEN label ELSE at[q]
    BY DEF TypeOK
  <2>6. \A i \in 1..Len(queue') : at'[queue'[i]] \in Waiting
    BY <2>2, <2>3, <2>4, <2>5 DEF QueueInv
  <2>7. \A i, j \in 1..Len(queue') : queue'[i] = queue'[j] => i = j
    BY <2>2, <2>3, <2>4 DEF QueueInv
  <2> QED
    BY <2>6, <2>7 DEF QueueInv
<1>3. TypeOK'
  <2>1. EachOnce(queue')
    BY <1>2 DEF QueueInv, EachOnce
  <2> QED
    BY <2>1 DEF TypeOK, Label
<1>4. DeleterInv'
  BY DEF DeleterInv, TypeOK
<1> QED
  BY <1>3, <1>1, <1>2, <1>4

(* The head of the queue gets one more connection and no one else does.    *)
LEMMA AcquirePoolInv == PoolInv /\ Acquire => PoolInv'
<1> SUFFICES ASSUME PoolInv, Acquire PROVE PoolInv'
  OBVIOUS
<1> USE DEF PoolInv
<1>1. PICK r \in Request, c \in Conn :
        /\ r = Head(queue) /\ Free(c)
        /\ owner' = [owner EXCEPT ![c] = r]
        /\ at' = [at EXCEPT ![r] = Granted[at[r]]]
  <2>1. Head(queue) \in Request
    BY DEF Acquire, TypeOK
  <2> QED
    BY <2>1 DEF Acquire
<1>2. queue # <<>> /\ queue' = Tail(queue)
  BY DEF Acquire
<1>3. /\ Len(queue) \in Nat \ {0} /\ queue[1] = r
      /\ Len(queue') = Len(queue) - 1
      /\ \A i \in 1..Len(queue') : queue'[i] = queue[i + 1]
  BY <1>1, <1>2 DEF TypeOK
<1>4. at[r] \in Waiting
  BY <1>3 DEF QueueInv
<1>5. /\ at[r] = "query_wait" => at'[r] = "query"
      /\ at[r] = "tx_wait" => at'[r] = "tx"
      /\ at[r] = "nest_wait" => at'[r] = "nest"
      /\ \A q \in Request \ {r} : at'[q] = at[q]
  BY <1>1, <1>4 DEF Granted, Waiting, TypeOK
<1>6. /\ Held(r)' = Held(r) \cup {c} /\ c \notin Held(r)
      /\ \A q \in Request \ {r} : Held(q)' = Held(q)
  BY <1>1, NoneAssumption DEF Held, Free, TypeOK
<1>7. HeldInv'
  <2>1. CASE at[r] \in {"query_wait", "tx_wait"}
    <3>1. Held(r)' = {c}
      BY <1>6, <2>1 DEF HeldInv
    <3> QED
      BY <1>5, <1>6, <2>1, <3>1 DEF HeldInv
  <2>2. CASE at[r] = "nest_wait"
    <3>1. PICK k \in Conn : Held(r) = {k}
      BY <2>2 DEF HeldInv
    <3>2. Held(r)' = {c, k} /\ c # k
      BY <1>6, <3>1
    <3> QED
      BY <1>5, <1>6, <2>2, <3>2 DEF HeldInv
  <2> QED
    BY <1>4, <2>1, <2>2 DEF Waiting
<1>8. QueueInv'
  <2>1. \A i \in 1..Len(queue') : i + 1 \in 1..Len(queue) /\ i + 1 # 1
    BY <1>3
  <2>2. \A i \in 1..Len(queue') : queue'[i] \in Request \ {r}
    BY <1>3, <2>1 DEF QueueInv, TypeOK
  <2>3. \A i \in 1..Len(queue') : at'[queue'[i]] \in Waiting
    BY <1>3, <1>5, <2>1, <2>2 DEF QueueInv
  <2>4. ASSUME NEW i \in 1..Len(queue'), NEW j \in 1..Len(queue'),
               queue'[i] = queue'[j]
        PROVE  i = j
    <3>1. i + 1 = j + 1
      BY <1>3, <2>1, <2>4 DEF QueueInv
    <3> QED
      BY <1>3, <3>1
  <2> QED
    BY <2>3, <2>4 DEF QueueInv
<1>9. TypeOK'
  <2>1. at' \in [Request -> Label]
    BY <1>1, <1>4, <1>5 DEF TypeOK, Label, Waiting
  <2>2. queue' \in Seq(Request)
    BY <1>2 DEF TypeOK
  <2>3. EachOnce(queue')
    BY <1>8 DEF QueueInv, EachOnce
  <2> QED
    BY <1>1, <2>1, <2>2, <2>3 DEF TypeOK
<1>10. DeleterInv'
  BY <1>4, <1>5 DEF DeleterInv, Waiting
<1> QED
  BY <1>9, <1>7, <1>8, <1>10

(* A request lets go of one of its connections.                            *)
LEMMA ReleasePoolInv ==
    ASSUME PoolInv, NEW r \in Request, NEW label \in Label, Release(r, label),
           \/ at[r] \in {"query", "tx", "closing"} /\ label = "idle"
           \/ at[r] = "nest" /\ label = "closing"
    PROVE  PoolInv'
<1> USE DEF PoolInv
<1>1. PICK c \in Held(r) : owner' = [owner EXCEPT ![c] = None]
  BY DEF Release
<1>2. c \in Conn /\ owner[c] = r
  BY DEF Held
<1>3. TypeOK'
  BY <1>1, <1>2 DEF Release, TypeOK
<1>4. \A q \in Request : at'[q] = IF q = r THEN label ELSE at[q]
  BY DEF Release, TypeOK
<1>5. /\ Held(r)' = Held(r) \ {c}
      /\ \A q \in Request \ {r} : Held(q)' = Held(q)
  BY <1>1, <1>2, NoneAssumption DEF Held, TypeOK
<1>6. HeldInv'
  <2>1. CASE at[r] \in {"query", "tx", "closing"} /\ label = "idle"
    <3>1. PICK k \in Conn : Held(r) = {k}
      BY <2>1 DEF HeldInv
    <3>2. Held(r)' = {}
      BY <1>1, <1>5, <3>1
    <3> QED
      BY <1>4, <1>5, <2>1, <3>2 DEF HeldInv
  <2>2. CASE at[r] = "nest" /\ label = "closing"
    <3>1. PICK j, k \in Conn : j # k /\ Held(r) = {j, k}
      BY <2>2 DEF HeldInv
    <3>2. \E k1 \in Conn : Held(r)' = {k1}
      BY <1>1, <1>5, <3>1
    <3> QED
      BY <1>4, <1>5, <2>2, <3>2 DEF HeldInv
  <2> QED
    BY <2>1, <2>2
<1>7. QueueInv'
  <2>1. \A i \in 1..Len(queue) : queue[i] \in Request /\ queue[i] # r
    BY DEF QueueInv, TypeOK, Waiting
  <2> QED
    BY <1>4, <2>1 DEF QueueInv, Release
<1>8. DeleterInv'
  BY <1>4 DEF DeleterInv
<1> QED
  BY <1>3, <1>6, <1>7, <1>8

(* Every step of a request or of the pool keeps the invariant.             *)
LEMMA NextPoolInv == PoolInv /\ [Next]_vars => PoolInv'
<1> SUFFICES ASSUME PoolInv, [Next]_vars PROVE PoolInv'
  OBVIOUS
<1>1. CASE Acquire
  BY <1>1, AcquirePoolInv
<1>2. ASSUME NEW r \in Request, Query(r) \/ Begin(r) PROVE PoolInv'
  BY <1>2, WaitPoolInv DEF Query, Begin, Label, Waiting
<1>3. ASSUME NEW r \in Request, Nest(r) PROVE PoolInv'
  BY <1>3, WaitPoolInv DEF Nest, Label, Waiting
<1>4. ASSUME NEW r \in Request, EndQuery(r) \/ EndNest(r) \/ EndTx(r)
      PROVE  PoolInv'
  BY <1>4, ReleasePoolInv DEF EndQuery, EndNest, EndTx, Label
<1>5. CASE UNCHANGED vars
  BY <1>5 DEF vars, PoolInv, TypeOK, HeldInv, Held, QueueInv, DeleterInv
<1> QED
  BY <1>1, <1>2, <1>3, <1>4, <1>5 DEF Next, Serve

(* The invariant of the pool holds always.                                 *)
LEMMA PoolCorrect == Spec => []PoolInv
<1> QED
  BY InitPoolInv, NextPoolInv, PTL DEF Spec

(* The state of the pool is well-typed.                                    *)
THEOREM TypeCorrect == Spec => []TypeOK
<1>1. PoolInv => TypeOK
  BY DEF PoolInv
<1> QED
  BY <1>1, PoolCorrect, PTL

(* What the invariant says of the connections, counted.                    *)
LEMMA PoolInvAccounts == PoolInv => ConnsAccounted
<1> SUFFICES ASSUME PoolInv, NEW r \in Request
             PROVE  Cardinality(Held(r)) =
                CASE at[r] \in {"idle", "query_wait", "tx_wait"} -> 0
                  [] at[r] \in {"query", "tx", "nest_wait", "closing"} -> 1
                  [] at[r] = "nest" -> 2
  BY DEF ConnsAccounted
<1> USE DEF PoolInv, HeldInv
<1>1. CASE at[r] \in {"idle", "query_wait", "tx_wait"}
  BY <1>1, FS_EmptySet
<1>2. CASE at[r] \in {"query", "tx", "nest_wait", "closing"}
  BY <1>2, FS_Singleton
<1>3. CASE at[r] = "nest"
  <2>1. PICK j, k \in Conn : j # k /\ Held(r) = {j, k}
    BY <1>3
  <2>2. Held(r) = {j} \cup {k} /\ k \notin {j}
    BY <2>1
  <2>3. IsFiniteSet({j}) /\ Cardinality({j}) = 1
    BY FS_Singleton
  <2>4. Cardinality({j} \cup {k}) = 2
    BY <2>2, <2>3, FS_AddElement
  <2> QED
    BY <1>3, <2>2, <2>4
<1> QED
  BY <1>1, <1>2, <1>3 DEF TypeOK, Label, Waiting

(* No connection leaks and none is held twice: every request holds what    *)
(* the point it has reached needs, and nothing when it returns.            *)
THEOREM ConnsHeldAsNeeded == Spec => []ConnsAccounted
BY PoolInvAccounts, PoolCorrect, PTL

-----------------------------------------------------------------------------
(* Jams.                                                                   *)

(* When every connection is in the hands of a DeletePost that waits for    *)
(* another, no step of a request, waiting or new, changes that.            *)
LEMMA NextJammed == PoolInv /\ [Next]_vars => (Jammed => Jammed')
<1> SUFFICES ASSUME PoolInv, [Next]_vars, Jammed PROVE Jammed'
  OBVIOUS
<1> USE DEF Jammed
<1>1. CASE Acquire
  BY <1>1, NoneAssumption DEF Acquire, Free
<1>2. ASSUME NEW r \in Request, Query(r) \/ Begin(r) \/ Nest(r)
      PROVE  Jammed'
  <2>1. at[r] # "nest_wait" /\ owner' = owner
    BY <1>2 DEF Query, Begin, Nest, Wait
  <2>2. \A q \in Request \ {r} : at'[q] = at[q]
    BY <1>2 DEF Query, Begin, Nest, Wait, PoolInv, TypeOK
  <2> QED
    BY <2>1, <2>2
<1>3. ASSUME NEW r \in Request, EndQuery(r) \/ EndNest(r) \/ EndTx(r)
      PROVE  FALSE
  BY <1>3 DEF EndQuery, EndNest, EndTx, Release, Held
<1>4. CASE UNCHANGED vars
  BY <1>4 DEF vars
<1> QED
  BY <1>1, <1>2, <1>3, <1>4 DEF Next, Serve

(* A pool that has jammed stays so: the deletions wait for each other.     *)
THEOREM JamNeverEnds == Spec => JamIsForever
BY NextJammed, PoolCorrect, PTL DEF Spec, JamIsForever

(* With fewer deletions in flight than connections the pool is not jammed: *)
(* each of them holds one connection, so one is left for somebody else.    *)
LEMMA SpareLeft ==
    ASSUME PoolInv, IsFiniteSet(Conn), IsFiniteSet(Deleter),
           Cardinality(Deleter) < Cardinality(Conn)
    PROVE  ~Jammed
<1> SUFFICES ASSUME Jammed PROVE FALSE
  OBVIOUS
<1>1. owner \in [Conn -> Deleter]
  BY DEF PoolInv, TypeOK, DeleterInv, Jammed
<1>2. PICK j, k \in Conn : j # k /\ owner[j] = owner[k]
  BY <1>1, FS_PigeonHole
<1>3. owner[j] \in Request /\ at[owner[j]] = "nest_wait"
  BY DEF Jammed
<1>4. j \in Held(owner[j]) /\ k \in Held(owner[j])
  BY <1>2 DEF Held
<1>5. \E c \in Conn : Held(owner[j]) = {c}
  BY <1>3 DEF PoolInv, HeldInv
<1> QED
  BY <1>2, <1>4, <1>5

(* With fewer deletions in flight than connections the pool never jams.    *)
THEOREM SpareConnection ==
    ASSUME IsFiniteSet(Conn), IsFiniteSet(Deleter),
           Cardinality(Deleter) < Cardinality(Conn)
    PROVE  Spec => []~Jammed
<1>1. PoolInv => ~Jammed
  BY SpareLeft
<1> QED
  BY <1>1, PoolCorrect, PTL

=============================================================================
