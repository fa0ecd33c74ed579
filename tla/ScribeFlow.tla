----------------------------- MODULE ScribeFlow -----------------------------
(***************************************************************************)
(* The whole service: the upload path of the API (Upload), the worker and  *)
(* the broker (Worker), over one jobs table.  API and worker never call    *)
(* each other: they meet in the table, on the work queue, and on the audio *)
(* volume, and every step of one interleaves with every step of the other. *)
(***************************************************************************)
EXTENDS Worker, Upload

sysVars == <<vars, uploadVars>>

SystemTypeOK == TypeOK /\ UploadTypeOK

(* Nothing has been uploaded; what else is on the queue is Extra. *)
SystemInit ==
    /\ UploadInit
    /\ jobsQueue = AddAll(EmptyQueue, Extra)
    /\ retryQueue = EmptyQueue
    /\ deadQueue = EmptyQueue
    /\ unacked = [w \in Workers |-> {}]
    /\ WorkerInit

WorkerStep == Next /\ UNCHANGED uploadVars

ApiStep == UploadNext /\ UNCHANGED <<workerVars, faults>>

SystemNext == WorkerStep \/ ApiStep

SystemSpec == SystemInit /\ [][SystemNext]_sysVars

(***************************************************************************)
(* Both event loops keep running handlers, pipelines come to an end, the   *)
(* broker keeps delivering and expiring, and whoever operates the service  *)
(* starts a process again that stopped.  Progress writes need not run,     *)
(* clients need not send anything, and no fault need ever strike.          *)
(***************************************************************************)
SystemFairness ==
    /\ \A w \in Workers : /\ WF_sysVars(Handler(w) /\ UNCHANGED uploadVars)
                          /\ WF_sysVars(Consume(w) /\ UNCHANGED uploadVars)
                          /\ WF_sysVars(Exit(w) /\ UNCHANGED uploadVars)
                          /\ WF_sysVars(Restart(w) /\ UNCHANGED uploadVars)
    /\ WF_sysVars(Expire /\ UNCHANGED uploadVars)
    /\ \A u \in Jobs : WF_sysVars(Request(u) /\ UNCHANGED <<workerVars, faults>>)
    /\ \A a \in Apis : WF_sysVars(ApiStart(a) /\ UNCHANGED <<workerVars, faults>>)

FairSystemSpec == SystemSpec /\ SystemFairness

-----------------------------------------------------------------------------
(* Properties *)

(* An accepted upload is durable: its row and its audio stay, and as long  *)
(* as a client sees it queued or processing a message will see to it.      *)
AcceptedIsDurable ==
    \A u \in Jobs : answer[u] = "accepted" =>
        /\ jobs[u].status # "absent"
        /\ jobs[u].status \in {"queued", "processing"} => Live(u)

(* The worker finds the audio of every job it finds: the file is in place  *)
(* before the row is inserted and is removed after the row is deleted,     *)
(* even when another process, starting meanwhile, purges the upload.       *)
FileOutlivesRow == \A j \in Jobs : jobs[j].status # "absent" => j \in stored

(* A 503 is an undone upload: the row is gone for good, although the       *)
(* message may be on the queue and a worker may have been working on the   *)
(* job; the file is gone too, but for one whose unlink failed, which       *)
(* StorageService.remove swallows.                                         *)
UnavailableIsUndone ==
    \A u \in Jobs : answer[u] = "unavailable" =>
        /\ jobs[u].status = "absent"
        /\ u \in stored => u \in unremoved

(* Every accepted upload comes to rest: transcribed, or failed with its    *)
(* error on record.                                                        *)
AcceptedSettles ==
    \A u \in Jobs :
        [](answer[u] = "accepted"
              => <>[](jobs[u].status \in {"completed", "failed"}))
=============================================================================
