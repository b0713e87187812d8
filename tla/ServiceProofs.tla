---------------------------- MODULE ServiceProofs ----------------------------
(***************************************************************************)
(* Proofs about Service, for any connections, requests and deletions: what *)
(* ConnPoolProofs shows of the pool holds in the process that is stopped.  *)
(***************************************************************************)
EXTENDS Service, ConnPoolProofs

-----------------------------------------------------------------------------
(* The queue, when a request leaves it out of turn.                        *)

Queued(q) == \E i \in 1..Len(queue) : queue[i] = q

(* Who waits is in the queue, so that leaving it takes out the right one.  *)
WaitersQueued == \A q \in Request : at[q] \in Waiting => Queued(q)

(* The queue without its k-th is what was before and what came after.      *)
LEMMA WithoutKth ==
    ASSUME queue \in Seq(Request), EachOnce(queue),
           NEW k \in 1..Len(queue)
    PROVE  /\ Without(queue[k]) \in Seq(Request)
           /\ Len(Without(queue[k])) = Len(queue) - 1
           /\ \A i \in 1..Len(queue)-1 :
                Without(queue[k])[i] = IF i < k THEN queue[i] ELSE queue[i + 1]
<1> DEFINE n == Len(queue)
           rest == Without(queue[k])
<1>1. n \in Nat \ {0} /\ n - 1 \in Nat /\ k \in 1..n
  OBVIOUS
<1>2. \A i \in 1..n : queue[i] \in Request
  OBVIOUS
<1>3. \A i \in 1..n-1 : (\E j \in 1..i : queue[j] = queue[k]) <=> k <= i
  <2> SUFFICES ASSUME NEW i \in 1..n-1
               PROVE  (\E j \in 1..i : queue[j] = queue[k]) <=> k <= i
    OBVIOUS
  <2>1. ASSUME NEW j \in 1..i, queue[j] = queue[k] PROVE k <= i
    <3>1. j \in 1..n
      BY <1>1
    <3> QED
      BY <2>1, <3>1 DEF EachOnce
  <2>2. k <= i => k \in 1..i
    BY <1>1
  <2> QED
    BY <2>1, <2>2
<1>4. rest = [i \in 1..n-1 |-> IF i < k THEN queue[i] ELSE queue[i + 1]]
  <2>1. \A i \in 1..n-1 : ~(k <= i) <=> i < k
    BY <1>1
  <2> QED
    BY <1>3, <2>1 DEF Without
<1>5. \A i \in 1..n-1 : i \in 1..n /\ i + 1 \in 1..n
  BY <1>1
<1>6. rest \in [1..n-1 -> Request]
  BY <1>2, <1>4, <1>5
<1>7. rest \in Seq(Request) /\ Len(rest) = n - 1
  BY <1>1, <1>6
<1> QED
  BY <1>4, <1>7

(* It has all the others, each once.                                       *)
LEMMA WithoutLeaves ==
    ASSUME PoolInv, WaitersQueued, NEW r \in Request, at[r] \in Waiting,
           queue' = Without(r)
    PROVE  /\ queue' \in Seq(Request) /\ EachOnce(queue')
           /\ \A i \in 1..Len(queue') :
                queue'[i] # r /\ \E j \in 1..Len(queue) : queue'[i] = queue[j]
           /\ \A q \in Request \ {r} : Queued(q) => Queued(q)'
<1>1. PICK k \in 1..Len(queue) : queue[k] = r
  BY DEF WaitersQueued, Queued
<1>2. queue \in Seq(Request) /\ EachOnce(queue)
  BY DEF PoolInv, TypeOK
<1> DEFINE n == Len(queue)
<1>3. /\ queue' \in Seq(Request) /\ Len(queue') = n - 1
      /\ \A i \in 1..n-1 :
            queue'[i] = IF i < k THEN queue[i] ELSE queue[i + 1]
  BY <1>1, <1>2, WithoutKth
<1>4. n \in Nat \ {0}
  BY <1>1, <1>2
<1> DEFINE from(i) == IF i < k THEN i ELSE i + 1
<1>5. \A i \in 1..n-1 :
        from(i) \in 1..n /\ from(i) # k /\ queue'[i] = queue[from(i)]
  BY <1>3, <1>4
<1>6. \A i, j \in 1..n-1 : from(i) = from(j) => i = j
  BY <1>4
<1>7. \A j \in 1..n \ {k} : \E i \in 1..n-1 : from(i) = j
  <2> SUFFICES ASSUME NEW j \in 1..n, j # k
               PROVE  \E i \in 1..n-1 : from(i) = j
    OBVIOUS
  <2>1. CASE j < k
    <3>1. j \in 1..n-1 /\ from(j) = j
      BY <1>4, <2>1
    <3> QED
      BY <3>1
  <2>2. CASE j > k
    <3>1. j - 1 \in 1..n-1 /\ from(j - 1) = j
      BY <1>4, <2>2
    <3> QED
      BY <3>1
  <2> QED
    BY <1>4, <2>1, <2>2
<1> HIDE DEF from
<1>8. EachOnce(queue')
  BY <1>2, <1>3, <1>5, <1>6 DEF EachOnce
<1>9. \A i \in 1..Len(queue') :
        queue'[i] # r /\ \E j \in 1..Len(queue) : queue'[i] = queue[j]
  BY <1>1, <1>2, <1>3, <1>5 DEF EachOnce
<1>10. ASSUME NEW q \in Request \ {r}, Queued(q)
       PROVE  Queued(q)'
  <2>1. PICK j \in 1..n : queue[j] = q
    BY <1>10 DEF Queued
  <2>2. j # k
    BY <1>1, <2>1
  <2>3. PICK i \in 1..n-1 : from(i) = j
    BY <1>7, <2>2
  <2>4. queue'[i] = q
    BY <1>5, <2>1, <2>3
  <2> QED
    BY <1>3, <2>4 DEF Queued
<1> QED
  BY <1>3, <1>8, <1>9, <1>10

(* A request that is refused keeps what it holds and is in nobody's way.   *)
LEMMA RefusePoolInv ==
    ASSUME PoolInv, WaitersQueued, NEW r \in Request, Refuse(r)
    PROVE  PoolInv' /\ WaitersQueued'
<1> USE DEF PoolInv
<1>1. /\ at[r] \in Waiting /\ queue' = Without(r) /\ owner' = owner
      /\ at' = [at EXCEPT ![r] = IF @ = "nest_wait" THEN "closing" ELSE "idle"]
  BY DEF Refuse
<1>2. /\ at' \in [Request -> Label]
      /\ at[r] = "nest_wait" => at'[r] = "closing"
      /\ at[r] \in {"query_wait", "tx_wait"} => at'[r] = "idle"
      /\ at'[r] \notin Waiting
      /\ \A q \in Request \ {r} : at'[q] = at[q]
  BY <1>1 DEF TypeOK, Label, Waiting
<1>3. /\ queue' \in Seq(Request) /\ EachOnce(queue')
      /\ \A i \in 1..Len(queue') :
            queue'[i] # r /\ \E j \in 1..Len(queue) : queue'[i] = queue[j]
      /\ \A q \in Request \ {r} : Queued(q) => Queued(q)'
  BY <1>1, WithoutLeaves
<1>4. TypeOK'
  BY <1>1, <1>2, <1>3 DEF TypeOK
<1>5. HeldInv'
  <2>1. \A q \in Request : Held(q)' = Held(q)
    BY <1>1 DEF Held
  <2>2. at[r] \in {"query_wait", "tx_wait", "nest_wait"}
    BY <1>1 DEF Waiting
  <2> QED
    BY <1>2, <2>1, <2>2 DEF HeldInv
<1>6. QueueInv'
  <2>1. ASSUME NEW i \in 1..Len(queue') PROVE at'[queue'[i]] \in Waiting
    <3>1. PICK j \in 1..Len(queue) : queue'[i] = queue[j] /\ queue[j] # r
      BY <1>3
    <3>2. queue[j] \in Request /\ at[queue[j]] \in Waiting
      BY DEF QueueInv, TypeOK
    <3> QED
      BY <1>2, <3>1, <3>2
  <2> QED
    BY <1>3, <2>1 DEF QueueInv, EachOnce
<1>7. DeleterInv'
  BY <1>1, <1>2 DEF DeleterInv, Waiting
<1>8. WaitersQueued'
  <2>1. ASSUME NEW q \in Request, at'[q] \in Waiting PROVE Queued(q)'
    <3>1. q # r /\ at[q] \in Waiting
      BY <1>2, <2>1
    <3> QED
      BY <1>3, <3>1 DEF WaitersQueued
  <2> QED
    BY <2>1 DEF WaitersQueued
<1> QED
  BY <1>4, <1>5, <1>6, <1>7, <1>8

(* In the pool itself only the head of the queue leaves it.                *)
LEMMA NextQueued ==
    ASSUME PoolInv, WaitersQueued, [Next]_vars
    PROVE  WaitersQueued'
<1> USE DEF PoolInv
<1> SUFFICES ASSUME NEW q \in Request, at'[q] \in Waiting
             PROVE  Queued(q)'
  BY DEF WaitersQueued
<1>1. queue \in Seq(Request)
  BY DEF TypeOK
<1>2. CASE Acquire
  <2>1. /\ queue # <<>> /\ queue' = Tail(queue)
        /\ at' = [at EXCEPT ![Head(queue)] = Granted[at[Head(queue)]]]
    BY <1>2 DEF Acquire
  <2>2. Head(queue) = queue[1] /\ queue[1] \in Request /\ at[queue[1]] \in Waiting
    BY <1>1, <2>1 DEF QueueInv
  <2>3. at'[queue[1]] \notin Waiting
    BY <2>1, <2>2 DEF Granted, Waiting, TypeOK
  <2>4. q # queue[1] /\ at[q] \in Waiting
    BY <2>1, <2>2, <2>3 DEF TypeOK
  <2>5. PICK i \in 1..Len(queue) : queue[i] = q
    BY <2>4 DEF WaitersQueued, Queued
  <2>6. i - 1 \in 1..Len(queue') /\ queue'[i - 1] = q
    BY <1>1, <2>1, <2>4, <2>5
  <2> QED
    BY <2>6 DEF Queued
<1>3. ASSUME NEW r \in Request, NEW from, NEW label, Wait(r, from, label)
      PROVE  Queued(q)'
  <2>1. queue' = Append(queue, r) /\ at' = [at EXCEPT ![r] = label]
    BY <1>3 DEF Wait
  <2>2. /\ Len(queue') = Len(queue) + 1 /\ Len(queue) \in Nat
        /\ queue'[Len(queue) + 1] = r
        /\ \A i \in 1..Len(queue) : queue'[i] = queue[i]
    BY <1>1, <2>1
  <2>3. CASE q = r
    <3>1. Len(queue) + 1 \in 1..Len(queue')
      BY <2>2
    <3> QED
      BY <2>2, <2>3, <3>1 DEF Queued
  <2>4. CASE q # r
    <3>1. PICK i \in 1..Len(queue) : queue[i] = q
      BY <2>1, <2>4 DEF WaitersQueued, Queued, TypeOK
    <3>2. i \in 1..Len(queue') /\ queue'[i] = q
      BY <2>2, <3>1
    <3> QED
      BY <3>2 DEF Queued
  <2> QED
    BY <2>3, <2>4
<1>4. ASSUME NEW r \in Request, NEW label \in {"idle", "closing"},
             Release(r, label)
      PROVE  Queued(q)'
  <2>1. queue' = queue /\ at' = [at EXCEPT ![r] = label] /\ label \notin Waiting
    BY <1>4 DEF Release, Waiting
  <2>2. at[q] \in Waiting
    BY <2>1 DEF TypeOK
  <2> QED
    BY <2>1, <2>2 DEF WaitersQueued, Queued
<1>5. CASE UNCHANGED vars
  BY <1>5 DEF vars, WaitersQueued, Queued
<1> QED
  BY <1>2, <1>3, <1>4, <1>5
     DEF Next, Serve, Query, Begin, Nest, EndQuery, EndNest, EndTx


-----------------------------------------------------------------------------
(* The shutdown.                                                           *)

(* Who is in the pool has been accepted and not answered.                  *)
OpenInv == \A r \in Request : at[r] # "idle" => r \in open

(* Only who listens accepts: requests that are all answered then stay so   *)
(* until main says goodbye.  Until main has closed the listener nobody     *)
(* else has, and main's error is lost only while main is about to ask.     *)
ClosedInv ==
    /\ main \in {"serving", "stopping"} =>
        /\ listen # "closed"
        /\ listen # "listening" => open = {}
    /\ listen = "starting" => open = {}
    /\ listen # "listening" /\ ~overwritten =>
        /\ main = "checking" /\ err = None => open = {}
        /\ said = "shut down gracefully" => open = {}
    /\ said # None => main = "down"

ServiceInv ==
    /\ ServiceTypeOK /\ PoolInv /\ WaitersQueued
    /\ OpenInv /\ ClosedInv

(* The process begins with an empty pool.                                  *)
LEMMA InitServiceInv == ServiceInit => ServiceInv
<1> SUFFICES ASSUME ServiceInit PROVE ServiceInv
  OBVIOUS
<1>1. PoolInv /\ \A r \in Request : at[r] = "idle"
  BY InitPoolInv DEF ServiceInit, Init
<1>2. ServiceTypeOK /\ ClosedInv
  BY DEF ServiceInit, ServiceTypeOK, ClosedInv
<1>3. WaitersQueued /\ OpenInv
  BY <1>1 DEF WaitersQueued, OpenInv, Waiting
<1> QED
  BY <1>1, <1>2, <1>3 DEF ServiceInv

(* What the invariant says of the goodbye.                                 *)
LEMMA ServiceHonest == ServiceInv => GoodbyeIsHonest
BY DEF ServiceInv, ClosedInv, GoodbyeIsHonest

(* What main, the listening goroutine and time do is nothing to the pool.  *)
LEMMA ProcessServiceInv ==
    ASSUME ServiceInv, UNCHANGED vars, open' = open,
           \/ Listen \/ ListenReturns \/ ListenChecks
           \/ GetSignal \/ Stop \/ TenSeconds
    PROVE  ServiceInv'
<1> USE DEF ServiceInv
<1>1. PoolInv' /\ WaitersQueued' /\ OpenInv'
  BY NextPoolInv, NextQueued DEF OpenInv, vars
<1>2. ServiceTypeOK' /\ ClosedInv'
  <2> USE NilAssumption DEF ServiceTypeOK, ClosedInv, Error, Goodbye
  <2>1. CASE Listen
    BY <2>1 DEF Listen
  <2>2. CASE ListenReturns
    <3>1. /\ listen = "closed" /\ listen' = "returned" /\ err' = None
          /\ overwritten' \in BOOLEAN
          /\ ~overwritten' => ~overwritten /\ (main = "checking" => err = None)
          /\ UNCHANGED <<open, main, late, waited, said>>
      BY <2>2 DEF ListenReturns
    <3>2. ServiceTypeOK'
      BY <3>1
    <3> QED
      BY <3>1, <3>2
  <2>9. CASE ListenChecks
    BY <2>9 DEF ListenChecks, Down
  <2>3. CASE GetSignal
    BY <2>3 DEF GetSignal
  <2>4. CASE CloseListeners
    BY <2>4 DEF CloseListeners
  <2>5. CASE Poll \/ PollAgain
    BY <2>5 DEF Poll, PollAgain
  <2>6. CASE GiveUp
    BY <2>6 DEF GiveUp
  <2>7. CASE SayGoodbye
    BY <2>7 DEF SayGoodbye, Down
  <2>8. CASE TenSeconds
    BY <2>8 DEF TenSeconds
  <2> QED
    BY <2>1, <2>2, <2>3, <2>4, <2>5, <2>6, <2>7, <2>8, <2>9 DEF Stop
<1> QED
  BY <1>1, <1>2

(* A request in the pool, and the pool, change nothing but the pool.       *)
LEMMA PoolServiceInv ==
    ASSUME ServiceInv, UNCHANGED svars,
           \/ Grant
           \/ \E r \in Request : Ask(r) \/ Proceed(r) \/ Refuse(r)
    PROVE  ServiceInv'
<1> USE DEF ServiceInv
<1>1. ServiceTypeOK' /\ ClosedInv'
  BY DEF svars, ServiceTypeOK, ClosedInv
<1>2. PoolInv' /\ WaitersQueued'
  <2>1. CASE Grant
    <3>1. Next
      BY <2>1 DEF Grant, Next
    <3> QED
      BY <3>1, NextPoolInv, NextQueued
  <2>2. ASSUME NEW r \in Request, Ask(r) \/ Proceed(r)
        PROVE  PoolInv' /\ WaitersQueued'
    <3>1. Next
      BY <2>2 DEF Ask, Proceed, Next, Serve
    <3> QED
      BY <3>1, NextPoolInv, NextQueued
  <2> QED
    BY <2>1, <2>2, RefusePoolInv
<1>3. OpenInv'
  <2>1. open' = open
    BY DEF svars
  <2>2. CASE Grant
    <3>1. Head(queue) \in Request /\ at[Head(queue)] \in Waiting
      BY <2>2 DEF Grant, Acquire, PoolInv, TypeOK, QueueInv
    <3>2. \A q \in Request \ {Head(queue)} : at'[q] = at[q]
      BY <2>2, <3>1 DEF Grant, Acquire, PoolInv, TypeOK
    <3> QED
      BY <2>1, <3>1, <3>2 DEF OpenInv, Waiting
  <2>3. ASSUME NEW r \in Request, Ask(r) \/ Proceed(r) \/ Refuse(r)
        PROVE  OpenInv'
    <3>1. r \in open
      BY <2>3 DEF Ask, Proceed, Refuse, EndQuery, EndNest, EndTx, Nest, Wait,
                  OpenInv, Waiting
    <3>2. \A q \in Request \ {r} : at'[q] = at[q]
      BY <2>3 DEF Ask, Proceed, Refuse, EndQuery, EndNest, EndTx, Nest, Wait,
                  Query, Begin, Release, PoolInv, TypeOK
    <3> QED
      BY <2>1, <3>1, <3>2 DEF OpenInv
  <2> QED
    BY <2>2, <2>3
<1> QED
  BY <1>1, <1>2, <1>3

(* A request comes while the process listens, and goes when it is done.    *)
LEMMA RequestServiceInv ==
    ASSUME ServiceInv, NEW r \in Request, Accept(r) \/ Answer(r)
    PROVE  ServiceInv'
<1> USE DEF ServiceInv
<1>1. /\ UNCHANGED vars /\ UNCHANGED process
      /\ \/ listen = "listening" /\ open' = open \cup {r}
         \/ at[r] = "idle" /\ open' = open \ {r}
  BY DEF Accept, Answer
<1>2. PoolInv' /\ WaitersQueued'
  BY <1>1, NextPoolInv, NextQueued
<1>3. ServiceTypeOK' /\ ClosedInv' /\ OpenInv'
  BY <1>1 DEF ServiceTypeOK, ClosedInv, OpenInv, process, vars
<1> QED
  BY <1>2, <1>3

(* Every step of the process keeps the invariant.                          *)
LEMMA NextServiceInv == ServiceInv /\ [ServiceNext]_allvars => ServiceInv'
<1> SUFFICES ASSUME ServiceInv, [ServiceNext]_allvars PROVE ServiceInv'
  OBVIOUS
<1>1. ASSUME NEW r \in Request, Ask(r) \/ Proceed(r) \/ Refuse(r)
      PROVE  ServiceInv'
  <2>1. UNCHANGED svars
    BY <1>1 DEF Ask, Proceed, Refuse, svars
  <2> QED
    BY <1>1, <2>1, PoolServiceInv
<1>2. CASE Grant
  BY <1>2, PoolServiceInv DEF Grant
<1>3. CASE Listen \/ ListenReturns \/ ListenChecks \/ GetSignal \/ Stop \/ TenSeconds
  <2>1. UNCHANGED vars /\ open' = open
    BY <1>3 DEF Listen, ListenReturns, ListenChecks, GetSignal, Stop,
         CloseListeners, Poll, PollAgain, GiveUp, SayGoodbye, TenSeconds
  <2> QED
    BY <1>3, <2>1, ProcessServiceInv
<1>4. CASE UNCHANGED allvars
  <2>1. UNCHANGED vars /\ UNCHANGED svars
    BY <1>4 DEF allvars
  <2>2. PoolInv' /\ WaitersQueued'
    BY <2>1, NextPoolInv, NextQueued DEF ServiceInv
  <2> QED
    BY <2>1, <2>2 DEF vars, svars, ServiceInv, ServiceTypeOK, OpenInv, ClosedInv
<1> QED
  BY <1>1, <1>2, <1>3, <1>4, RequestServiceInv DEF ServiceNext

(* The invariant of the process holds.                                     *)
LEMMA ServiceCorrect == ServiceSpec => []ServiceInv
BY InitServiceInv, NextServiceInv, PTL DEF ServiceSpec

-----------------------------------------------------------------------------
(* The theorems.  FairService states fairness and implies ServiceSpec.     *)

(* The state of the process, and of its pool, is well-typed.               *)
THEOREM ServiceTypesCorrect == ServiceSpec => [](ServiceTypeOK /\ TypeOK)
<1>1. ServiceInv => ServiceTypeOK /\ TypeOK
  BY DEF ServiceInv, PoolInv
<1> QED
  BY <1>1, ServiceCorrect, PTL

(* No connection leaks in a process that is stopped: requests that are     *)
(* refused, before or within their transaction, hold what they should.     *)
THEOREM ServiceConnsHeldAsNeeded == ServiceSpec => []ConnsAccounted
<1>1. ServiceInv => ConnsAccounted
  BY PoolInvAccounts DEF ServiceInv
<1> QED
  BY <1>1, ServiceCorrect, PTL

(* The process says it has shut down gracefully only when every request    *)
(* was answered, whether Listen has returned or not, unless its nil was    *)
(* written over main's error or it began to listen after the signal.       *)
THEOREM GoodbyeAlwaysHonest == ServiceSpec => []GoodbyeIsHonest
BY ServiceHonest, ServiceCorrect, PTL

(* Every connection is back in the pool that main leaves after such a      *)
(* goodbye.                                                                *)
THEOREM GoodbyeLeavesNothing ==
    ServiceSpec =>
        [](said = "shut down gracefully" /\ ~overwritten /\ listen # "listening"
            => \A k \in Conn : Free(k))
<1>1. ASSUME ServiceInv, open = {} PROVE \A k \in Conn : Free(k)
  <2> SUFFICES ASSUME NEW k \in Conn, owner[k] # None PROVE FALSE
    BY DEF Free
  <2>1. owner[k] \in Request /\ k \in Held(owner[k])
    BY <1>1 DEF ServiceInv, PoolInv, TypeOK, Held
  <2>2. at[owner[k]] = "idle"
    BY <1>1, <2>1 DEF ServiceInv, OpenInv
  <2> QED
    BY <1>1, <2>1, <2>2 DEF ServiceInv, PoolInv, HeldInv
<1>2. ServiceInv =>
        (said = "shut down gracefully" /\ ~overwritten /\ listen # "listening"
            => \A k \in Conn : Free(k))
  BY <1>1, ServiceHonest DEF GoodbyeIsHonest
<1> QED
  BY <1>2, ServiceCorrect, PTL

(* Nothing but the end of the requests' contexts dissolves a jam.          *)
THEOREM JamsUntilStopped == ServiceSpec => JamLastsUntilStopped
<1>1. ServiceInv /\ [ServiceNext]_allvars =>
        [Jammed => Jammed' \/ Canceled]_allvars
  <2> SUFFICES ASSUME ServiceInv, [ServiceNext]_allvars, Jammed, ~Canceled
               PROVE  Jammed'
    OBVIOUS
  <2>1. CASE [Next]_vars
    BY <2>1, NextJammed DEF ServiceInv
  <2>2. [Next]_vars
    <3>1. CASE UNCHANGED vars
      BY <3>1
    <3>2. ASSUME NEW r \in Request, Ask(r) \/ Proceed(r) \/ Refuse(r)
          PROVE  Next
      BY <3>2 DEF Ask, Proceed, Refuse, Next, Serve
    <3>3. CASE Grant
      BY <3>3 DEF Grant, Next
    <3>4. CASE UNCHANGED allvars
      BY <3>4 DEF allvars
    <3> QED
      BY <3>1, <3>2, <3>3, <3>4
         DEF ServiceNext, Accept, Answer, Listen, ListenReturns, ListenChecks,
             GetSignal, Stop, CloseListeners, Poll, PollAgain, GiveUp,
             SayGoodbye, TenSeconds
  <2> QED
    BY <2>1, <2>2
<1> QED
  BY <1>1, ServiceCorrect, PTL DEF ServiceSpec, JamLastsUntilStopped

(* Neither does a process that is stopped jam, with fewer deletions than   *)
(* connections: one that is refused holds its one until it rolls back.     *)
THEOREM ServiceSpareConnection ==
    ASSUME IsFiniteSet(Conn), IsFiniteSet(Deleter),
           Cardinality(Deleter) < Cardinality(Conn)
    PROVE  ServiceSpec => []~Jammed
<1>1. ServiceInv => ~Jammed
  BY SpareLeft DEF ServiceInv
<1> QED
  BY <1>1, ServiceCorrect, PTL

=============================================================================
