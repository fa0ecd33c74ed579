------------------------------- MODULE Worker -------------------------------
(***************************************************************************)
(* The worker processes (worker/main.py) between the broker and the jobs   *)
(* table: consume, read the status, mark the row, run the pipeline, commit *)
(* the transcript, acknowledge; and handle_failure's route for everything  *)
(* that raised.  Every await is a separate step, so the steps of workers,  *)
(* of the broker and of fire-and-forget progress writes interleave, and a  *)
(* crash, a lost channel or a failing statement may come between any two.  *)
(*                                                                         *)
(* A worker runs one handler at a time (the in_flight lock).  When its     *)
(* channel is lost the broker takes back what it held; the handler of the  *)
(* lost delivery may be cancelled, or run on while a newer delivery waits  *)
(* for the lock: which of the two is the AMQP library's choice, and both   *)
(* are modelled.  owns[w] says that the delivery the running handler was   *)
(* called with is still the channel's; settling it otherwise raises.       *)
(***************************************************************************)
EXTENDS JobStore, Broker

CONSTANTS
    Faults,        \* the kinds of fault that may strike
    MaxFaults,     \* how often altogether
    Extra          \* messages on the queue that the API did not publish

FaultKinds == {"crash",       \* the process dies
               "stop",        \* SIGTERM
               "disconnect",  \* the AMQP connection is lost
               "db",          \* a statement raises, not executed
               "commitLost",  \* a statement raises, executed nevertheless
               "refused"}     \* the broker refuses (nacks) a publish

ASSUME WorkerAssumption ==
    /\ Faults \subseteq FaultKinds
    /\ MaxFaults \in Nat
    /\ Extra \subseteq Message

VARIABLES
    mode,          \* per worker: "up", "stopping" or "down"
    pc,            \* per worker: the await its handler is about to make
    cur,           \* per worker: the message that handler was called with
    owns,          \* per worker: that message is its channel's delivery
    stale,         \* per worker: lost deliveries whose handlers await the lock
    lastReported,  \* per worker: the progress last handed to the event loop
    writes,        \* bag of progress writes scheduled and not yet executed
    faults         \* number of faults so far

workerVars == <<mode, pc, cur, owns, stale, lastReported, writes>>
vars == <<jobs, brokerVars, workerVars, faults>>

PC == {"idle", "get_status", "mark_processing", "run_pipeline", "complete",
       "ack", "skip", "park", "publish", "record", "settle", "requeue"}

Write == [worker : Workers, job : Jobs, progress : 0..FullProgress]

TypeOK ==
    /\ JobStoreTypeOK
    /\ BrokerTypeOK
    /\ mode \in [Workers -> {"up", "stopping", "down"}]
    /\ pc \in [Workers -> PC]
    /\ cur \in [Workers -> Message]
    /\ owns \in [Workers -> BOOLEAN]
    /\ stale \in [Workers -> SUBSET Message]
    /\ lastReported \in [Workers -> 0..FullProgress]
    /\ writes \in [Write -> Nat]
    /\ faults \in 0..MaxFaults

WorkerInit ==
    /\ mode = [w \in Workers |-> "up"]
    /\ pc = [w \in Workers |-> "idle"]
    /\ cur = [w \in Workers |-> Malformed]
    /\ owns = [w \in Workers |-> FALSE]
    /\ stale = [w \in Workers |-> {}]
    /\ lastReported = [w \in Workers |-> 0]
    /\ writes = [x \in Write |-> 0]
    /\ faults = 0

(* The API has inserted and published every job; it may have deleted the   *)
(* row again when the confirmation of a publish it made was lost.          *)
Init ==
    /\ jobs \in [Jobs -> {NewRow, NoRow}]
    /\ jobsQueue = AddAll(EmptyQueue, {JobMessage(j) : j \in Jobs} \cup Extra)
    /\ retryQueue = EmptyQueue
    /\ deadQueue = EmptyQueue
    /\ unacked = [w \in Workers |-> {}]
    /\ WorkerInit

-----------------------------------------------------------------------------
(* Helpers *)

Spend(kind) ==
    /\ kind \in Faults
    /\ faults < MaxFaults
    /\ faults' = faults + 1

At(w, label) == mode[w] # "down" /\ pc[w] = label

Goto(w, label) ==
    /\ pc' = [pc EXCEPT ![w] = label]
    /\ UNCHANGED <<mode, cur, owns, stale, lastReported, writes>>

(* The handler returns, or raises out of its task: the lock is released. *)
Leave(w) ==
    /\ pc' = [pc EXCEPT ![w] = "idle"]
    /\ cur' = [cur EXCEPT ![w] = Malformed]

Return(w) == Leave(w) /\ UNCHANGED <<mode, stale, lastReported, writes>>

(* Its delivery is no longer the channel's: settled, or taken back. *)
Disown(w) == owns' = [owns EXCEPT ![w] = FALSE]

CurJob(w) == cur[w].job

(* An SQL statement on the current job's row: it succeeds; or raises       *)
(* without effect; or takes effect while its acknowledgement is lost.      *)
Statement(w, row, done, raised) ==
    \/ /\ Update(CurJob(w), row)
       /\ Goto(w, done)
       /\ UNCHANGED faults
    \/ /\ Spend("db")
       /\ Goto(w, raised)
       /\ UNCHANGED jobs
    \/ /\ Spend("commitLost")
       /\ Update(CurJob(w), row)
       /\ Goto(w, raised)

-----------------------------------------------------------------------------
(* handle_message *)

(* The next handler to get the lock, which is fair, parses its message. *)
Begin(w) ==
    /\ At(w, "idle")
    /\ \E m \in Message :
          /\ \/ /\ stale[w] = {}
                /\ ~owns[w]
                /\ m \in unacked[w]
                /\ owns' = [owns EXCEPT ![w] = TRUE]
                /\ UNCHANGED stale
             \/ /\ m \in stale[w]
                /\ stale' = [stale EXCEPT ![w] = @ \ {m}]
                /\ UNCHANGED owns
          /\ cur' = [cur EXCEPT ![w] = m]
          /\ pc' = [pc EXCEPT ![w] =
                       IF m.job = NoJob THEN "park" ELSE "get_status"]
    /\ UNCHANGED <<jobs, brokerVars, mode, lastReported, writes, faults>>

(* Mutants of AfterStatus: a job someone seems to be processing is skipped; *)
(* a completed job is processed again.                                     *)
AfterStatusSkipsBusy(status) ==
    CASE status = "absent"                     -> "park"
      [] status \in {"processing", "completed"} -> "skip"
      [] OTHER                                 -> "mark_processing"
AfterStatusRedoes(status) ==
    IF status = "absent" THEN "park" ELSE "mark_processing"

AfterStatus(status) ==
    CASE status = "absent"    -> "park"
      [] status = "completed" -> "skip"
      [] OTHER                -> "mark_processing"

GetStatus(w) ==
    /\ At(w, "get_status")
    /\ \/ /\ Goto(w, AfterStatus(jobs[CurJob(w)].status))
          /\ UNCHANGED faults
       \/ /\ Spend("db")
          /\ Goto(w, "requeue")
    /\ UNCHANGED <<jobs, brokerVars>>

MarkAttempt(w) ==
    /\ At(w, "mark_processing")
    /\ Statement(w, MarkProcessing(jobs[CurJob(w)]), "run_pipeline", "publish")
    /\ UNCHANGED brokerVars

(* The pipeline thread reports a fraction a step above the last one.  The  *)
(* reporter, with last_reported = 0, is made when the pipeline starts.     *)
ReportProgress(w) ==
    /\ At(w, "run_pipeline")
    /\ \E p \in 1..FullProgress :
          /\ p > lastReported[w]
          /\ lastReported' = [lastReported EXCEPT ![w] = p]
          /\ LET x == [worker |-> w, job |-> CurJob(w), progress |-> p]
             IN  writes' = [writes EXCEPT ![x] = @ + 1]
    /\ UNCHANGED <<jobs, brokerVars, mode, pc, cur, owns, stale, faults>>

(* A scheduled write executes, or fails and is only logged. *)
WriteProgress(w) ==
    /\ mode[w] # "down"
    /\ \E x \in Write :
          /\ x.worker = w
          /\ writes[x] > 0
          /\ writes' = [writes EXCEPT ![x] = @ - 1]
          /\ \/ /\ Update(x.job, UpdateProgress(jobs[x.job], x.progress))
                /\ UNCHANGED faults
             \/ /\ Spend("db")
                /\ UNCHANGED jobs
    /\ UNCHANGED <<brokerVars, mode, pc, cur, owns, stale, lastReported>>

(* probe, normalize and transcribe return a transcript, or raise. *)
EndPipeline(w) ==
    /\ At(w, "run_pipeline")
    /\ \E label \in {"complete", "publish"} : pc' = [pc EXCEPT ![w] = label]
    /\ lastReported' = [lastReported EXCEPT ![w] = 0]
    /\ UNCHANGED <<jobs, brokerVars, mode, cur, owns, stale, writes, faults>>

Complete(w) ==
    /\ At(w, "complete")
    /\ Statement(w, CompleteRow(jobs[CurJob(w)]), "ack", "publish")
    /\ UNCHANGED brokerVars

(* message.ack() on the channel that made the delivery; its frame may be   *)
(* written to a connection that dies before the broker reads it.           *)
AckDelivery(w) ==
    /\ owns[w]
    /\ \/ Ack(w) /\ UNCHANGED faults
       \/ Requeue(w) /\ Spend("disconnect")
    /\ Disown(w)
    /\ Return(w)

(* Settling on a closed channel raises. *)
SettleRaises(w) ==
    /\ ~owns[w]
    /\ UNCHANGED <<brokerVars, faults>>

(* Inside the try block: a raising ack is handled as a failed job. *)
AckCompleted(w) ==
    /\ At(w, "ack")
    /\ \/ AckDelivery(w)
       \/ SettleRaises(w) /\ Goto(w, "publish")
    /\ UNCHANGED jobs

SkipCompleted(w) ==
    /\ At(w, "skip")
    /\ \/ AckDelivery(w)
       \/ SettleRaises(w) /\ Return(w) /\ UNCHANGED owns
    /\ UNCHANGED jobs

(* Poison: a malformed body or an unknown job. *)
Park(w) ==
    /\ At(w, "park")
    /\ \/ owns[w] /\ DeadLetter(w) /\ Disown(w) /\ UNCHANGED faults
       \/ SettleRaises(w) /\ UNCHANGED owns
    /\ Return(w)
    /\ UNCHANGED jobs

-----------------------------------------------------------------------------
(* handle_failure *)

(* Mutant of PublishCopy: the dead copy is never published. *)
PublishCopyDropsDead(w) ==
    IF MayRetry(cur[w]) THEN PublishRetry(RetryCopy(cur[w])) ELSE UNCHANGED brokerVars

(* decide: the retry queue with the header incremented, or the dead queue. *)
PublishCopy(w) == IF MayRetry(cur[w]) THEN PublishRetry(RetryCopy(cur[w]))
                                      ELSE PublishDead(cur[w])

PublishFailure(w) ==
    /\ At(w, "publish")
    /\ PublishCopy(w)
    /\ Goto(w, "record")
    /\ UNCHANGED <<jobs, faults>>

(* The publish raises: the broker refused the copy; or the channel was     *)
(* lost, and the copy was enqueued or not.                                 *)
PublishRaises(w) ==
    /\ At(w, "publish")
    /\ \/ Spend("refused") /\ UNCHANGED brokerVars
       \/ ~owns[w] /\ UNCHANGED <<brokerVars, faults>>
       \/ ~owns[w] /\ PublishCopy(w) /\ UNCHANGED faults
    /\ Goto(w, "requeue")
    /\ UNCHANGED jobs

RecordFailure(w) ==
    /\ At(w, "record")
    /\ Statement(w, IF MayRetry(cur[w]) THEN RecordRetry(jobs[CurJob(w)])
                                        ELSE FailRow(jobs[CurJob(w)]),
                 "settle", "requeue")
    /\ UNCHANGED brokerVars

SettleFailure(w) ==
    /\ At(w, "settle")
    /\ \/ AckDelivery(w)
       \/ SettleRaises(w) /\ Goto(w, "requeue")
    /\ UNCHANGED jobs

(* Mutant of NackRequeue: after the pause the handler just returns. *)
NackForgotten(w) ==
    /\ At(w, "requeue")
    /\ Return(w)
    /\ UNCHANGED <<jobs, brokerVars, owns, faults>>

(* After the 5 s pause; a nack on a closed channel raises out of the task. *)
NackRequeue(w) ==
    /\ At(w, "requeue")
    /\ \/ owns[w] /\ Requeue(w) /\ Disown(w) /\ UNCHANGED faults
       \/ SettleRaises(w) /\ UNCHANGED owns
    /\ Return(w)
    /\ UNCHANGED jobs

-----------------------------------------------------------------------------
(* Connection and process *)

Consume(w) ==
    /\ mode[w] = "up"
    /\ Deliver(w)
    /\ UNCHANGED <<jobs, workerVars, faults>>

(* The handlers of the lost deliveries run on, or wait on, disowned. *)
RunOn(w) ==
    /\ stale' = [stale EXCEPT ![w] = IF owns[w] THEN @ ELSE @ \cup unacked[w]]
    /\ UNCHANGED <<pc, cur, lastReported, writes>>

(* The handler of the lost delivery is cancelled where it awaits, but not  *)
(* the pipeline's thread: the reports it has still to make are scheduled.  *)
Cancel(w) ==
    /\ IF owns[w] THEN Leave(w) ELSE UNCHANGED <<pc, cur>>
    /\ IF owns[w] /\ pc[w] = "run_pipeline"
       THEN /\ lastReported' = [lastReported EXCEPT ![w] = 0]
            /\ writes' = [x \in Write |->
                  IF x.worker = w /\ x.job = CurJob(w)
                                 /\ x.progress > lastReported[w]
                  THEN writes[x] + 1 ELSE writes[x]]
       ELSE UNCHANGED <<lastReported, writes>>
    /\ UNCHANGED stale

(* The robust connection comes back by itself; the delivery tag does not. *)
Disconnect(w) ==
    /\ mode[w] # "down"
    /\ unacked[w] # {}
    /\ Spend("disconnect")
    /\ Requeue(w)
    /\ Disown(w)
    /\ RunOn(w) \/ Cancel(w)
    /\ UNCHANGED <<jobs, mode>>

(* Everything in memory is gone; the broker takes back the delivery. *)
Die(w) ==
    /\ Requeue(w)
    /\ Disown(w)
    /\ mode' = [mode EXCEPT ![w] = "down"]
    /\ Leave(w)
    /\ stale' = [stale EXCEPT ![w] = {}]
    /\ lastReported' = [lastReported EXCEPT ![w] = 0]
    /\ writes' = [x \in Write |-> IF x.worker = w THEN 0 ELSE writes[x]]
    /\ UNCHANGED jobs

Crash(w) ==
    /\ mode[w] # "down"
    /\ Spend("crash")
    /\ Die(w)

(* SIGTERM: the consumer is cancelled, a running handler may finish. *)
Stop(w) ==
    /\ mode[w] = "up"
    /\ Spend("stop")
    /\ mode' = [mode EXCEPT ![w] = "stopping"]
    /\ UNCHANGED <<jobs, brokerVars, pc, cur, owns, stale, lastReported, writes>>

(* The lock was acquired, or the grace period elapsed with it held. *)
Exit(w) ==
    /\ mode[w] = "stopping"
    /\ Die(w)
    /\ UNCHANGED faults

Restart(w) ==
    /\ mode[w] = "down"
    /\ mode' = [mode EXCEPT ![w] = "up"]
    /\ UNCHANGED <<jobs, brokerVars, faults,
                   pc, cur, owns, stale, lastReported, writes>>

Expire ==
    /\ ExpireMessage
    /\ UNCHANGED <<jobs, workerVars, faults>>

-----------------------------------------------------------------------------
Handler(w) ==
    \/ Begin(w)
    \/ GetStatus(w)
    \/ MarkAttempt(w)
    \/ EndPipeline(w)
    \/ Complete(w)
    \/ AckCompleted(w)
    \/ SkipCompleted(w)
    \/ Park(w)
    \/ PublishFailure(w)
    \/ PublishRaises(w)
    \/ RecordFailure(w)
    \/ SettleFailure(w)
    \/ NackRequeue(w)

Process(w) ==
    \/ Consume(w)
    \/ Disconnect(w)
    \/ Crash(w)
    \/ Stop(w)
    \/ Exit(w)
    \/ Restart(w)

Next ==
    \/ \E w \in Workers : \/ Handler(w)
                          \/ ReportProgress(w)
                          \/ WriteProgress(w)
                          \/ Process(w)
    \/ Expire

Spec == Init /\ [][Next]_vars

-----------------------------------------------------------------------------
(* Properties *)

(* A failed job's message is parked in the dead-letter queue, whichever    *)
(* copies of it were processed where: the copy is published before the row *)
(* is marked, and nobody consumes the queue.                               *)
FailedIsParked ==
    \A j \in Jobs : jobs[j].status = "failed" => Holds(deadQueue, j)

(* Some message for job j will still be processed. *)
Live(j) ==
    \/ Holds(jobsQueue, j)
    \/ Holds(retryQueue, j)
    \/ \E w \in Workers : \E m \in unacked[w] : m.job = j

(* Accepted work is never lost: a job a client sees as queued or           *)
(* processing has a message on its way, through retries, redeliveries,     *)
(* crashes and shutdowns.                                                  *)
NoLostWork ==
    \A j \in Jobs : jobs[j].status \in {"queued", "processing"} => Live(j)

(* A handler never returns leaving its delivery unsettled on an open       *)
(* channel: with prefetch 1 that worker would not be sent another message. *)
NoWedgedWorker == \A w \in Workers : owns[w] => pc[w] # "idle"

(* A job is reported failed only after it was attempted once per delivery  *)
(* the back-off schedule allows: 1 + MaxRetries times.                     *)
FailedAfterAllAttempts ==
    \A j \in Jobs : jobs[j].status = "failed" => jobs[j].attempts > MaxRetries

(***************************************************************************)
(* The service as its clients see it: the rows' status and attempts, and   *)
(* whether the job's message is parked, follow JobLifecycle: no step skips *)
(* a state, completes twice, fails early or fails without parking.         *)
(***************************************************************************)
Lifecycle == INSTANCE JobLifecycle WITH
    status   <- [j \in Jobs |-> jobs[j].status],
    attempts <- [j \in Jobs |-> jobs[j].attempts],
    parked   <- {j \in Jobs : Holds(deadQueue, j)}

ImplementsLifecycle == Lifecycle!Spec

(* README.md, job state machine: "completed --> [*]", "Terminal". *)
CompletedIsFinal ==
    [][\A j \in Jobs : jobs[j].status = "completed"
                          => jobs'[j].status = "completed"]_vars
=============================================================================
