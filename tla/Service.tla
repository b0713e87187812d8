------------------------------- MODULE Service -------------------------------
(***************************************************************************)
(* The process of cmd/main.go around the requests and the pool they share: *)
(* a goroutine listens, main waits for a signal and then for the requests  *)
(* in flight, until a context ends that was made, for ten seconds, when    *)
(* the process began.  The two share the variable err without a lock.      *)
(* Listen returns nil when its listener is closed.  fasthttp then ends the *)
(* context of every request, which the handlers pass to the pool and the   *)
(* database, closes idle connections and polls the number of open ones.    *)
(***************************************************************************)
EXTENDS ConnPool

VARIABLES
    open,       \* requests accepted and not answered yet
    main,       \* where main is
    listen,     \* where the goroutine that listens is
    err,        \* None, or what the two wrote there last
    late,       \* the context has ended: ten seconds since the start
    waited,     \* history: ten seconds since the signal
    said,       \* the last line of the log, or None
    overwritten \* history: Listen's nil replaced the error of main's

svars == <<open, main, listen, err, late, waited, said, overwritten>>
allvars == <<vars, svars>>

(* What the goroutine and main may put into err, and into the log.         *)
Error == {"cannot listen", "deadline"}

Goodbye == {"error starting server", "shut down gracefully", "forced kill"}

ASSUME NilAssumption == None \notin Error \cup Goodbye

process == <<main, listen, err, late, waited, said, overwritten>>

Up == main # "down"

Down(word) == main' = "down" /\ said' = word

(* The requests' contexts end when the listener is closed.                 *)
Canceled == listen \in {"closed", "returned", "done"}

(* The queue when r, who is in it, has left it.                            *)
Without(r) ==
    [i \in 1..Len(queue)-1 |->
        IF \E j \in 1..i : queue[j] = r THEN queue[i + 1] ELSE queue[i]]

-----------------------------------------------------------------------------
ServiceInit ==
    /\ Init
    /\ open = {}
    /\ main = "serving" /\ listen = "starting"
    /\ err = None /\ said = None
    /\ late = FALSE /\ waited = FALSE /\ overwritten = FALSE

-----------------------------------------------------------------------------
(* The requests: any number of queries and transactions, then an answer.   *)

Accept(r) ==
    /\ Up /\ listen = "listening"
    /\ r \notin open
    /\ open' = open \cup {r}
    /\ UNCHANGED <<vars, process>>

Ask(r) ==
    /\ Up /\ ~Canceled
    /\ r \in open
    /\ Query(r) \/ Begin(r)
    /\ UNCHANGED svars

Proceed(r) ==
    /\ Up
    /\ \/ EndQuery(r) \/ EndNest(r) \/ EndTx(r)
       \/ ~Canceled /\ Nest(r)
    /\ UNCHANGED svars

(* Acquire returns the end of the context as an error, and the handler     *)
(* returns; DeletePost rolls its transaction back first.                   *)
Refuse(r) ==
    /\ Up /\ Canceled
    /\ at[r] \in Waiting
    /\ queue' = Without(r)
    /\ at' = [at EXCEPT ![r] = IF @ = "nest_wait" THEN "closing" ELSE "idle"]
    /\ UNCHANGED <<owner, svars>>

Grant == Up /\ Acquire /\ UNCHANGED svars

Answer(r) ==
    /\ Up
    /\ r \in open /\ at[r] = "idle"
    /\ open' = open \ {r}
    /\ UNCHANGED <<vars, process>>

-----------------------------------------------------------------------------
(* The goroutine that listens.                                             *)

Listen ==
    /\ Up /\ listen = "starting"
    /\ \/ listen' = "listening" /\ UNCHANGED err
       \/ listen' = "returned" /\ err' = "cannot listen"
    /\ UNCHANGED <<vars, open, main, late, waited, said, overwritten>>

ListenReturns ==
    /\ Up /\ listen = "closed"
    /\ listen' = "returned" /\ err' = None
    /\ overwritten' = (overwritten \/ (main = "checking" /\ err # None))
    /\ UNCHANGED <<vars, open, main, late, waited, said>>

(* if err != nil: what it reads may have been written by main meanwhile.   *)
ListenChecks ==
    /\ Up /\ listen = "returned"
    /\ \/ err = None /\ listen' = "done" /\ UNCHANGED <<main, said>>
       \/ err # None /\ Down("error starting server") /\ UNCHANGED listen
    /\ UNCHANGED <<vars, open, err, late, waited, overwritten>>

-----------------------------------------------------------------------------
(* main.                                                                   *)

GetSignal ==
    /\ main = "serving"
    /\ main' = "stopping"
    /\ UNCHANGED <<vars, open, listen, err, late, waited, said, overwritten>>

(* Mutant: to shut down what does not listen yet is an error.              *)
CloseRunningListeners ==
    /\ main = "stopping"
    /\ \/ /\ listen = "listening"
          /\ listen' = "closed" /\ main' = "polling" /\ UNCHANGED err
       \/ /\ listen # "listening"
          /\ main' = "checking" /\ err' = "not running" /\ UNCHANGED listen
    /\ UNCHANGED <<vars, open, late, waited, said, overwritten>>

(* ShutdownWithContext has nothing to do when nobody listens yet.          *)
CloseListeners ==
    /\ main = "stopping"
    /\ \/ /\ listen = "listening"
          /\ listen' = "closed" /\ main' = "polling" /\ UNCHANGED err
       \/ /\ listen # "listening"
          /\ main' = "checking" /\ err' = None /\ UNCHANGED listen
    /\ UNCHANGED <<vars, open, late, waited, said, overwritten>>

(* Mutant: the poll is satisfied with one connection still open.           *)
PollAlmost ==
    /\ main = "polling"
    /\ \/ Cardinality(open) < 2 /\ main' = "checking" /\ err' = None
       \/ Cardinality(open) > 1 /\ main' = "selecting" /\ UNCHANGED err
    /\ UNCHANGED <<vars, open, listen, late, waited, said, overwritten>>

Poll ==
    /\ main = "polling"
    /\ \/ open = {} /\ main' = "checking" /\ err' = None
       \/ open # {} /\ main' = "selecting" /\ UNCHANGED err
    /\ UNCHANGED <<vars, open, listen, late, waited, said, overwritten>>

(* The ticker of the poll.  A tick that finds the context ended as well    *)
(* and requests still open would only come back here.                      *)
PollAgain ==
    /\ main = "selecting"
    /\ late => open = {}
    /\ main' = "polling"
    /\ UNCHANGED <<vars, open, listen, err, late, waited, said, overwritten>>

(* Mutant: main waits for the requests without a time limit.               *)
GiveUpNever ==
    /\ main = "selecting" /\ late /\ open = {}
    /\ main' = "checking" /\ err' = "deadline"
    /\ UNCHANGED <<vars, open, listen, late, waited, said, overwritten>>

GiveUp ==
    /\ main = "selecting" /\ late
    /\ main' = "checking" /\ err' = "deadline"
    /\ UNCHANGED <<vars, open, listen, late, waited, said, overwritten>>

(* What main reads may have been overwritten by the goroutine meanwhile.   *)
SayGoodbye ==
    /\ main = "checking"
    /\ Down(IF err = None THEN "shut down gracefully" ELSE "forced kill")
    /\ UNCHANGED <<vars, open, listen, err, late, waited, overwritten>>

-----------------------------------------------------------------------------
(* Time: ten seconds since the start are over before those since the signal*)
TenSeconds ==
    /\ Up
    /\ \/ ~late /\ late' = TRUE /\ UNCHANGED waited
       \/ late /\ main # "serving" /\ ~waited /\ waited' = TRUE /\ UNCHANGED late
    /\ UNCHANGED <<vars, open, main, listen, err, said, overwritten>>

Stop == CloseListeners \/ Poll \/ PollAgain \/ GiveUp \/ SayGoodbye

ServiceNext ==
    \/ \E r \in Request :
            Accept(r) \/ Ask(r) \/ Proceed(r) \/ Refuse(r) \/ Answer(r)
    \/ Grant
    \/ Listen \/ ListenReturns \/ ListenChecks
    \/ GetSignal \/ Stop \/ TenSeconds

ServiceSpec == ServiceInit /\ [][ServiceNext]_allvars

(* The runtime schedules main and every goroutine, the pool hands out what *)
(* is free, the database answers, and time goes by.  Nobody owes the       *)
(* process a request or a signal.                                          *)
FairService ==
    /\ ServiceSpec
    /\ WF_allvars(Grant) /\ WF_allvars(TenSeconds)
    /\ WF_allvars(Listen) /\ WF_allvars(Stop)
    /\ \A r \in Request : WF_allvars(Proceed(r)) /\ WF_allvars(Refuse(r))

-----------------------------------------------------------------------------
(* Properties.                                                             *)

ServiceTypeOK ==
    /\ open \subseteq Request
    /\ main \in {"serving", "stopping", "polling", "selecting", "checking", "down"}
    /\ listen \in {"starting", "listening", "closed", "returned", "done"}
    /\ err \in Error \cup {None}
    /\ {late, waited, overwritten} \subseteq BOOLEAN
    /\ said \in Goodbye \cup {None}

(* The process says it has shut down gracefully only when every request    *)
(* was answered, also after Listen has returned.  Two ways out are left:   *)
(* that Listen returned its nil after main had given up and before it      *)
(* asked, and that the signal came when nothing listened, so that there    *)
(* was nothing to shut down, and the goroutine has listened since.         *)
GoodbyeIsHonest ==
    said = "shut down gracefully" /\ ~overwritten /\ listen # "listening"
        => open = {}

(* Whoever waits for a connection gets one or is refused it, unless the    *)
(* pool jams or the process ends: nothing else starves a request.          *)
ServedUntilStopped ==
    \A r \in Request :
        at[r] \in Waiting ~> at[r] \notin Waiting \/ Jammed \/ ~Up

(* Nothing but the end of the requests' contexts dissolves a jam.          *)
JamLastsUntilStopped == [][Jammed => Jammed' \/ Canceled]_allvars

(* A signal ends the process, even one whose pool has jammed.              *)
StopsInTheEnd == main = "stopping" ~> ~Up

(* main gives the requests in flight ten seconds from the signal on: the   *)
(* context is made for a graceful shutdown, and only its end is logged as  *)
(* "timeout, forced kill!".                                                *)
RequestsMayFinish == said = "forced kill" => waited \/ open = {}

=============================================================================
