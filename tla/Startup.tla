------------------------------- MODULE Startup -------------------------------
(***************************************************************************)
(* A worker process from its first attempt at Postgres to its exit (run    *)
(* and main of worker/main.py, Database.connect and close of worker/db.py),*)
(* and the topology that it and the API declare, each from its own source  *)
(* and in its own language, on whatever the other has declared before.     *)
(*                                                                         *)
(* What happens to messages in between is Worker's part; of a handler there*)
(* is only what keeps others waiting: the connection of the pool it holds, *)
(* and its pipeline's thread.  The API is only the declarations of a       *)
(* connect().                                                              *)
(***************************************************************************)
EXTENDS Integers, Sequences

CONSTANTS
    StartupRetryMax,   \* startup_retry_max: 30 in the code
    MaxLosses          \* bound on the connections to RabbitMQ that are lost

ASSUME StartupAssumption == StartupRetryMax \in Nat \ {0} /\ MaxLosses \in Nat

VARIABLES
    declared,     \* what exists in RabbitMQ: durable, never removed
    refused,      \* a declaration was refused, and its channel closed
    phase,        \* the await that run() is at
    tries,        \* of the retry loop it is in
    next,         \* the worker's next declaration
    pool, link,   \* to Postgres and RabbitMQ; a lost link is being restored
    job,          \* what the handler that holds the in_flight lock waits for
    stop,         \* the stop event is set
    apiNext,      \* the API's next declaration
    losses

startupVars == <<declared, refused, phase, tries, next, pool, link, job,
                 stop, apiNext, losses>>

-----------------------------------------------------------------------------
(* The topology *)

Exchange(name) == [kind |-> "exchange", name |-> name]
Queue(name, dlx, key) == [kind |-> "queue", name |-> name, dlx |-> dlx, key |-> key]
PlainQueue(name) == Queue(name, "none", "none")
Binding(queue, exchange, key) ==
    [kind |-> "binding", queue |-> queue, exchange |-> exchange, key |-> key]

(* Mutants: no dead-letter exchange; another routing key. *)
WorkerJobsQueuePlain == PlainQueue("transcription.jobs")
WorkerDeadBindingRetry == Binding("transcription.dead", "scribeflow.dlx", "retry")

WorkerJobsQueue == Queue("transcription.jobs", "scribeflow.dlx", "dead")
WorkerDeadBinding == Binding("transcription.dead", "scribeflow.dlx", "dead")

(* declare_topology *)
WorkerDeclares ==
    <<Exchange("scribeflow"), Exchange("scribeflow.dlx"),
      WorkerJobsQueue,
      Binding("transcription.jobs", "scribeflow", "job"),
      Queue("transcription.retry", "scribeflow", "job"),
      Binding("transcription.retry", "scribeflow", "retry"),
      PlainQueue("transcription.dead"),
      WorkerDeadBinding>>

(* assertTopology *)
ApiDeclares ==
    <<Exchange("scribeflow"), Exchange("scribeflow.dlx"),
      Queue("transcription.jobs", "scribeflow.dlx", "dead"),
      Binding("transcription.jobs", "scribeflow", "job"),
      Queue("transcription.retry", "scribeflow", "job"),
      Binding("transcription.retry", "scribeflow", "retry"),
      PlainQueue("transcription.dead"),
      Binding("transcription.dead", "scribeflow.dlx", "dead")>>

(* A queue of this name with other arguments; a binding of what is not.    *)
Refuses(d) ==
    \/ /\ d.kind = "queue"
       /\ \E e \in declared : e.kind = "queue" /\ e.name = d.name /\ e # d
    \/ /\ d.kind = "binding"
       /\ \/ Exchange(d.exchange) \notin declared
          \/ \A e \in declared : e.kind # "queue" \/ e.name # d.queue

Declare(d) ==
    /\ refused' = (refused \/ Refuses(d))
    /\ declared' = IF Refuses(d) THEN declared ELSE declared \cup {d}

(* The queues a direct exchange routes a message to.                       *)
Route(exchange, key) ==
    {b.queue : b \in {d \in declared : /\ d.kind = "binding"
                                       /\ d.exchange = exchange /\ d.key = key}}

(* Where what a queue rejects or expires goes.                             *)
DeadLetters(queue) ==
    UNION {Route(q.dlx, q.key) : q \in {d \in declared : d.kind = "queue" /\ d.name = queue}}

-----------------------------------------------------------------------------
Starting == {"pool", "broker", "declare", "consume"}
Ended == {"joining", "exited", "killed"}
Phase == Starting \cup {"serving", "drain", "close", "release"} \cup Ended

(* With a lost link connect_robust goes on trying. *)
Connected == link \in {"open", "lost"}

StartupTypeOK ==
    /\ declared \subseteq {WorkerDeclares[i] : i \in DOMAIN WorkerDeclares}
                      \cup {ApiDeclares[i] : i \in DOMAIN ApiDeclares}
    /\ refused \in BOOLEAN
    /\ phase \in Phase
    /\ tries \in 1..StartupRetryMax
    /\ next \in 1..(Len(WorkerDeclares) + 1)
    /\ pool \in {"none", "open", "closed"}
    /\ link \in {"none", "open", "lost", "closed"}
    /\ job \in {"none", "statement", "pipeline"}
    /\ stop \in BOOLEAN
    /\ apiNext \in 1..(Len(ApiDeclares) + 1)
    /\ losses \in 0..MaxLosses

Init ==
    /\ declared = {} /\ refused = FALSE
    /\ phase = "pool" /\ tries = 1 /\ next = 1
    /\ pool = "none" /\ link = "none"
    /\ job = "none" /\ stop = FALSE
    /\ apiNext = 1
    /\ losses = 0

topology == <<declared, refused, apiNext>>

-----------------------------------------------------------------------------
(* run *)

(* Mutant of Retry: one attempt too many. *)
RetryOnceMore(otherwise) ==
    IF tries <= StartupRetryMax
    THEN tries' = tries + 1 /\ UNCHANGED phase
    ELSE phase' = otherwise /\ UNCHANGED tries

(* One more attempt after a pause, or the error is raised.                 *)
Retry(otherwise) ==
    IF tries < StartupRetryMax
    THEN tries' = tries + 1 /\ UNCHANGED phase
    ELSE phase' = otherwise /\ UNCHANGED tries

(* Database.connect, before the try block *)
ConnectPool ==
    /\ phase = "pool"
    /\ \/ pool' = "open" /\ phase' = "broker" /\ tries' = 1
       \/ Retry("joining") /\ UNCHANGED pool
    /\ UNCHANGED <<topology, next, link, job, stop, losses>>

(* Mutant of ConnectBroker: the finally block does not cover it. *)
ConnectBrokerUncovered ==
    /\ phase = "broker"
    /\ \/ link' = "open" /\ phase' = "declare" /\ UNCHANGED tries
       \/ Retry("joining") /\ UNCHANGED link
    /\ UNCHANGED <<topology, next, pool, job, stop, losses>>

ConnectBroker ==
    /\ phase = "broker"
    /\ \/ link' = "open" /\ phase' = "declare" /\ UNCHANGED tries
       \/ Retry("release") /\ UNCHANGED link
    /\ UNCHANGED <<topology, next, pool, job, stop, losses>>

(* On a new channel with its prefetch set.  Once all is declared the       *)
(* signal handlers are installed at once.                                  *)
DeclareTopology ==
    /\ phase = "declare"
    /\ LET d == WorkerDeclares[next]
       IN  /\ Declare(d)
           /\ IF Refuses(d)
              THEN phase' = "close" /\ UNCHANGED next
              ELSE /\ next' = next + 1
                   /\ phase' = IF next = Len(WorkerDeclares) THEN "consume" ELSE phase
    /\ UNCHANGED <<apiNext, tries, pool, link, job, stop, losses>>

(* What raises before the consumer is up is not retried: async with closes *)
(* the connection.  Later on nobody awaits it but CancelConsumer.          *)
LoseConnection ==
    /\ phase \in {"declare", "consume", "serving", "drain"}
    /\ link = "open"
    /\ losses < MaxLosses
    /\ losses' = losses + 1
    /\ link' = "lost"
    /\ phase' = IF phase \in Starting THEN "close" ELSE phase
    /\ UNCHANGED <<topology, tries, next, pool, job, stop>>

(* connect_robust connects again, restores the channel and the consumer.   *)
RestoreConnection ==
    /\ phase \in {"serving", "drain"} /\ link = "lost"
    /\ link' = "open"
    /\ UNCHANGED <<topology, phase, tries, next, pool, job, stop, losses>>

StartConsumer ==
    /\ phase = "consume"
    /\ phase' = "serving"
    /\ UNCHANGED <<topology, tries, next, pool, link, job, stop, losses>>

(* The cancellation is answered. *)
CancelConsumer ==
    /\ phase = "serving" /\ stop /\ link = "open"
    /\ phase' = "drain"
    /\ UNCHANGED <<topology, tries, next, pool, link, job, stop, losses>>

(* On a lost link cancel may raise, which skips the drain; or it waits for *)
(* the link to be restored, which no time-out ends.                        *)
CancelRaises ==
    /\ phase = "serving" /\ stop /\ link = "lost"
    /\ phase' = "close"
    /\ UNCHANGED <<topology, tries, next, pool, link, job, stop, losses>>

(* Mutant of Drain: the wait has no timeout. *)
DrainPatiently ==
    /\ phase = "drain" /\ job = "none"
    /\ phase' = "close"
    /\ UNCHANGED <<topology, tries, next, pool, link, job, stop, losses>>

(* The lock was free in time, or the grace period is over.                 *)
Drain ==
    /\ phase = "drain"
    /\ phase' = "close"
    /\ UNCHANGED <<topology, tries, next, pool, link, job, stop, losses>>

CloseConnection ==
    /\ phase = "close"
    /\ link' = "closed"
    /\ phase' = "release"
    /\ UNCHANGED <<topology, tries, next, pool, job, stop, losses>>

(* The finally block.  close() waits, without a time-out, for the          *)
(* connection that a statement of the handler holds.                       *)
ClosePool ==
    /\ phase = "release" /\ job # "statement"
    /\ pool' = "closed"
    /\ phase' = "joining"
    /\ UNCHANGED <<topology, tries, next, link, job, stop, losses>>

(* run() has ended.  asyncio.run cancels a handler that is left, but waits *)
(* for its pipeline's thread, which cannot be cancelled.                   *)
LeaveMain ==
    /\ phase = "joining" /\ job # "pipeline"
    /\ job' = "none"
    /\ phase' = "exited"
    /\ UNCHANGED <<topology, tries, next, pool, link, stop, losses>>

-----------------------------------------------------------------------------
(* The handler of a message *)

TakeJob ==
    /\ phase = "serving" /\ link = "open" /\ job = "none"
    /\ job' = "statement"
    /\ UNCHANGED <<topology, phase, tries, next, pool, link, stop, losses>>

(* Progress, or what comes after the pipeline.  A pool that is closing     *)
(* hands out no connection.                                                *)
Execute ==
    /\ job = "pipeline" /\ pool = "open" /\ phase # "release"
    /\ job' = "statement"
    /\ UNCHANGED <<topology, phase, tries, next, pool, link, stop, losses>>

EndStatement ==
    /\ job = "statement"
    /\ job' \in {"none", "pipeline"}
    /\ UNCHANGED <<topology, phase, tries, next, pool, link, stop, losses>>

EndPipeline ==
    /\ job = "pipeline"
    /\ job' = "none"
    /\ UNCHANGED <<topology, phase, tries, next, pool, link, stop, losses>>

-----------------------------------------------------------------------------
(* Signals, and the API *)

Handled == phase \in {"consume", "serving", "drain"}

Signal ==
    /\ Handled
    /\ stop' = TRUE
    /\ UNCHANGED <<topology, phase, tries, next, pool, link, job, losses>>

(* Ctrl-C before the handlers are installed cancels run() at its await.    *)
Interrupt ==
    /\ phase \in Starting \ {"consume"}
    /\ phase' = CASE phase = "pool"    -> "joining"
                  [] phase = "broker"  -> "release"
                  [] phase = "declare" -> "close"
    /\ UNCHANGED <<topology, tries, next, pool, link, job, stop, losses>>

(* SIGKILL; or SIGTERM before the handlers are installed, unless the       *)
(* process is the container's first: that one ignores it.                  *)
Kill ==
    /\ phase \notin {"exited", "killed"}
    /\ phase' = "killed"
    /\ pool' = "none" /\ link' = "none" /\ job' = "none"
    /\ UNCHANGED <<topology, tries, next, stop, losses>>

ApiReady == apiNext > Len(ApiDeclares)

(* A connect() that fails is begun again.                                  *)
ApiDeclare ==
    /\ ~ApiReady
    /\ \/ /\ Declare(ApiDeclares[apiNext])
          /\ apiNext' = IF Refuses(ApiDeclares[apiNext]) THEN 1 ELSE apiNext + 1
          /\ UNCHANGED losses
       \/ /\ losses < MaxLosses
          /\ losses' = losses + 1
          /\ apiNext' = 1
          /\ UNCHANGED <<declared, refused>>
    /\ UNCHANGED <<phase, tries, next, pool, link, job, stop>>

-----------------------------------------------------------------------------
Run ==
    \/ ConnectPool
    \/ ConnectBroker
    \/ DeclareTopology
    \/ StartConsumer
    \/ CancelConsumer
    \/ Drain
    \/ CloseConnection
    \/ ClosePool
    \/ LeaveMain

Handler ==
    \/ TakeJob
    \/ Execute
    \/ EndStatement
    \/ EndPipeline

Next ==
    \/ Run
    \/ CancelRaises
    \/ LoseConnection
    \/ RestoreConnection
    \/ Handler
    \/ Signal
    \/ Interrupt
    \/ Kill
    \/ ApiDeclare

Spec == Init /\ [][Next]_startupVars

(* Connection attempts and the closing of a connection come to an end, one *)
(* way or the other.  Two waits of the shutdown have no time-out and end   *)
(* with what others do: a lost link is restored at last, unless cancel     *)
(* raises, and Postgres answers the statements it has been given.  Whether *)
(* an attempt ever succeeds, or a pipeline ever ends, is left open.        *)
FairSpec ==
    /\ Spec
    /\ WF_startupVars(Run)
    /\ WF_startupVars(RestoreConnection)
    /\ WF_startupVars(EndStatement)

-----------------------------------------------------------------------------
(* Properties *)

(* topology.ts: "Declarations here must stay identical to                  *)
(* worker/queue_topology.py."  Whichever side comes first, and wherever a  *)
(* lost connection left it, no declaration of the other is refused.        *)
NothingRefused == ~refused

(* From the moment a side goes to work messages go where Broker has them   *)
(* go, even if the other side never came up: no exchange drops a message   *)
(* that a job depends on, and parked messages stay parked.                 *)
Routed ==
    ApiReady \/ phase \in {"serving", "drain"} =>
        /\ Route("scribeflow", "job") = {"transcription.jobs"}
        /\ Route("scribeflow", "retry") = {"transcription.retry"}
        /\ Route("scribeflow.dlx", "dead") = {"transcription.dead"}
        /\ DeadLetters("transcription.retry") = {"transcription.jobs"}
        /\ DeadLetters("transcription.jobs") = {"transcription.dead"}
        /\ DeadLetters("transcription.dead") = {}

(* However run() ends, it leaves nothing open, and the connection goes     *)
(* before the pool: a handler that is still busy must not find the table   *)
(* closed while it can publish, which would cost its job a retry.          *)
ReleasedInOrder ==
    /\ phase \in {"joining", "exited"} => pool # "open" /\ ~Connected
    /\ pool = "closed" => ~Connected

(* A stop that was noticed ends run(), however long the pipeline of the job*)
(* in hand takes: the broker can redeliver the job and the table is let    *)
(* go.  The process itself stays until the pipeline's thread is through or *)
(* it is killed.                                                           *)
StopHonoured == stop ~> phase \in Ended
=============================================================================
