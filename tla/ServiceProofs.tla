--------------------------- MODULE ServiceProofs ----------------------------
(***************************************************************************)
(* Proofs about the composed service, for every number of uploads, API     *)
(* processes and workers, and every choice of faults on both sides, and    *)
(* about a client that pages through the list while it runs.               *)
(***************************************************************************)
EXTENDS Readers, LostWorkProofs, FiniteSetTheorems, SequenceTheorems

SystemInv == TypeInv /\ UploadTypeOK

(* The steps of a request that touch the table write its own row only. *)
LEMMA RowOfRequest ==
    ASSUME NEW u \in Jobs, Save(u) \/ UndoRow(u)
    PROVE  \/ UNCHANGED jobs
           \/ jobs' = [jobs EXCEPT ![u] = NewRow] /\ Save(u)
           \/ jobs' = [jobs EXCEPT ![u] = NoRow] /\ UndoRow(u)
    BY DEF Save, UndoRow

(* The row that is inserted, and its absence, are rows. *)
LEMMA NewRowType == NewRow \in Row /\ NoRow \in Row
<1>1. NoRow \in Row
    BY JobStoreAssumption DEF NoRow, Row, Status
<1> QED
    BY <1>1 DEF NewRow, Row, Status

(* The initial states of the service are well typed. *)
LEMMA SystemInitType == SystemInit => SystemInv
<1> SUFFICES ASSUME SystemInit PROVE SystemInv
    OBVIOUS
<1>1. JobStoreTypeOK
    BY NewRowType DEF SystemInit, UploadInit, JobStoreTypeOK
<1>2. EmptyQueue \in Queue
    BY DEF EmptyQueue, Queue
<1>3. BrokerTypeOK
    BY <1>2, QueueOps, MalformedMessage DEF SystemInit, BrokerTypeOK
<1>4. TypeInv
    BY <1>1, <1>3, MalformedMessage, ContractAssumption, JobStoreAssumption,
       WorkerAssumption
    DEF SystemInit, WorkerInit, TypeInv, TypeOK, HandlerOK, PC
<1>5. UploadTypeOK
    BY UploadAssumption DEF SystemInit, UploadInit, UploadTypeOK, ReqPC, InTemp, Answer
<1> QED
    BY <1>4, <1>5 DEF SystemInv

(* Requests keep the state of the upload path well typed. *)
LEMMA RequestType ==
    ASSUME SystemInv, NEW u \in Jobs, Refuse(u) \/ Receive(u) \/ Request(u)
    PROVE  UploadTypeOK'
<1> USE UploadAssumption DEF SystemInv, UploadTypeOK, ReqPC, InTemp, AfterPromote, Answer,
        Proceed, Respond, ApiSpend
<1>1. CASE Refuse(u) \/ Receive(u) \/ Hash(u)
    BY <1>1 DEF Refuse, Receive, Hash
<1>2. CASE Lookup(u)
    BY <1>2 DEF Lookup, Completed
<1>3. CASE Discard(u) \/ Promote(u)
    BY <1>3 DEF Discard, Promote
<1>4. CASE Save(u) \/ PublishJob(u)
    BY <1>4 DEF Save, PublishJob
<1>5. CASE Confirm(u) \/ UndoRow(u) \/ UndoFile(u)
    BY <1>5 DEF Confirm, UndoRow, UndoFile
<1> QED
    BY <1>1, <1>2, <1>3, <1>4, <1>5 DEF Request

(* So do the crash and the start of an API process. *)
LEMMA ProcessType ==
    ASSUME SystemInv, NEW a \in Apis, ApiCrash(a) \/ ApiStart(a)
    PROVE  UploadTypeOK'
<1> USE UploadAssumption DEF SystemInv, UploadTypeOK
<1>1. CASE ApiCrash(a)
    <2>1. reqPc' \in [Jobs -> ReqPC]
        BY <1>1 DEF ApiCrash, ReqPC
    <2>2. answer' \in [Jobs -> Answer]
        BY <1>1 DEF ApiCrash, Answer
    <2> QED
        BY <1>1, <2>1, <2>2 DEF ApiCrash, ApiSpend
<1>2. CASE ApiStart(a)
    BY <1>2 DEF ApiStart, ApiSpend
<1> QED
    BY <1>1, <1>2

(* The API's steps keep the table, the queues and the worker well typed. *)
LEMMA ApiKeepsWorkerType ==
    ASSUME SystemInv, ApiStep
    PROVE  TypeInv'
<1> USE DEF SystemInv, TypeInv, TypeOK, JobStoreTypeOK, BrokerTypeOK
<1>1. jobs' \in [Jobs -> Row] /\ jobsQueue' \in Queue
         /\ UNCHANGED <<retryQueue, deadQueue, unacked>>
    <2>1. ASSUME NEW u \in Jobs, PublishJob(u)
          PROVE  jobsQueue' \in Queue
        <3>1. JobMessage(u) \in Message
            BY ContractAssumption DEF JobMessage, Message, Corrupt
        <3> QED
            BY <2>1, <3>1, QueueOps DEF PublishJob
    <2>2. ASSUME NEW u \in Jobs, Save(u) \/ UndoRow(u)
          PROVE  jobs' \in [Jobs -> Row]
        BY <2>2, NewRowType, RowOfRequest
    <2>3. ASSUME NEW u \in Jobs, Refuse(u) \/ Receive(u) \/ Request(u)
          PROVE  jobs' \in [Jobs -> Row] /\ jobsQueue' \in Queue
                    /\ UNCHANGED <<retryQueue, deadQueue, unacked>>
        BY <2>1, <2>2, <2>3
        DEF Refuse, Receive, Request, Hash, Lookup, Discard, Promote, Save, PublishJob,
            Confirm, UndoRow, UndoFile, brokerVars
    <2>4. ASSUME NEW a \in Apis, ApiCrash(a) \/ ApiStart(a)
          PROVE  UNCHANGED <<jobs, brokerVars>>
        BY <2>4 DEF ApiCrash, ApiStart
    <2> QED
        BY <2>3, <2>4 DEF ApiStep, UploadNext, brokerVars
<1> QED
    BY <1>1 DEF ApiStep, workerVars, HandlerOK, CurJob

(* Hence every step of the service keeps its types. *)
LEMMA SystemNextType == SystemInv /\ [SystemNext]_sysVars => SystemInv'
<1> SUFFICES ASSUME SystemInv, [SystemNext]_sysVars PROVE SystemInv'
    OBVIOUS
<1>1. CASE WorkerStep
    BY <1>1, NextType DEF WorkerStep, SystemInv, uploadVars, UploadTypeOK
<1>2. CASE ApiStep
    BY <1>2, RequestType, ProcessType, ApiKeepsWorkerType
    DEF ApiStep, UploadNext, SystemInv
<1>3. CASE UNCHANGED sysVars
    BY <1>3, NextType DEF sysVars, SystemInv, uploadVars, UploadTypeOK
<1> QED
    BY <1>1, <1>2, <1>3 DEF SystemNext

(***************************************************************************)
(* Type correctness of the composed service.                               *)
(***************************************************************************)
THEOREM ServiceTypeCorrect == SystemSpec => []SystemTypeOK
<1>1. SystemInv => SystemTypeOK
    BY DEF SystemInv, TypeInv, SystemTypeOK
<1> QED
    BY <1>1, SystemInitType, SystemNextType, PTL DEF SystemSpec

-----------------------------------------------------------------------------
(* The audio outlives the row *)

Absent(u) == jobs[u].status = "absent"

(* Where a request is tells what it has made: no row before the insert,    *)
(* its file from the promotion on, no row after the undo.                  *)
RequestMade(u) ==
    /\ reqPc[u] \in {"unsent", "save", "remove"} \cup InTemp => Absent(u)
    /\ reqPc[u] \in AfterPromote => u \in stored
    /\ answer[u] # "none" <=> reqPc[u] = "answered"
    /\ answer[u] = "unavailable" => Absent(u) /\ (u \in stored => u \in unremoved)
    /\ ~Absent(u) => u \in stored
    /\ reqPc[u] \in {"publish", "confirm"} \/ answer[u] = "accepted" => ~Absent(u)

MadeInv == SystemInv /\ \A u \in Jobs : RequestMade(u)

(* A worker's step neither makes nor deletes a row. *)
LEMMA WorkerKeepsRows ==
    ASSUME SystemInv, Next, NEW u \in Jobs
    PROVE  Absent(u)' <=> Absent(u)
<1>1. jobs[u] \in Row
    BY DEF SystemInv, TypeInv, TypeOK, JobStoreTypeOK
<1>2. CASE Absent(u)
    BY <1>2, RowStep DEF SystemInv, Absent
<1>3. CASE ~Absent(u)
    <2>1. FailRow(jobs[u]).status # "absent"
        BY <1>1 DEF Row, FailRow
    <2>2. \A r \in Statements(jobs[u]) : r.status # "absent"
        BY <1>1, <1>3 DEF Absent, Statements, Row, MarkProcessing, CompleteRow,
            RecordRetry, UpdateProgress
    <2> QED
        BY <1>3, <2>1, <2>2, RowStep DEF SystemInv, Absent
<1> QED
    BY <1>2, <1>3

(* A request keeps what it has made in the order file, row, message. *)
LEMMA RequestSteps ==
    ASSUME MadeInv, NEW u \in Jobs, Refuse(u) \/ Receive(u) \/ Request(u)
    PROVE  \A v \in Jobs : RequestMade(v)'
<1> USE DEF MadeInv
<1>t. /\ jobs \in [Jobs -> Row]
      /\ reqPc \in [Jobs -> ReqPC]
      /\ answer \in [Jobs -> Answer]
      /\ stored \subseteq Jobs /\ unremoved \subseteq Jobs
    BY DEF SystemInv, TypeInv, TypeOK, JobStoreTypeOK, UploadTypeOK
<1>1. ASSUME NEW v \in Jobs, v # u PROVE RequestMade(v)'
    <2>1. /\ jobs'[v] = jobs[v] /\ reqPc'[v] = reqPc[v] /\ answer'[v] = answer[v]
          /\ v \in stored' <=> v \in stored
          /\ v \in unremoved' <=> v \in unremoved
        BY <1>t, <1>1
        DEF Refuse, Receive, Request, Hash, Lookup, Discard, Promote, Save, PublishJob,
            Confirm, UndoRow, UndoFile, Proceed, Respond
    <2>2. RequestMade(v)
        OBVIOUS
    <2> QED
        BY <2>1, <2>2 DEF RequestMade, Absent
<1>u. RequestMade(u)
    OBVIOUS
<1> USE DEF RequestMade, Absent, InTemp, AfterPromote, Proceed, Respond
<1>2. CASE Refuse(u) \/ Receive(u) \/ Hash(u) \/ Lookup(u) \/ Discard(u)
    BY <1>t, <1>u, <1>2 DEF Refuse, Receive, Hash, Lookup, Discard
<1>3. CASE Promote(u)
    BY <1>t, <1>u, <1>3 DEF Promote
<1>4. CASE Save(u)
    BY <1>t, <1>u, <1>4 DEF Save, NewRow, NoRow
<1>5. CASE PublishJob(u) \/ Confirm(u)
    BY <1>t, <1>u, <1>5 DEF PublishJob, Confirm
<1>6. CASE UndoRow(u)
    BY <1>t, <1>u, <1>6 DEF UndoRow, NoRow
<1>7. CASE UndoFile(u)
    BY <1>t, <1>u, <1>7 DEF UndoFile
<1>8. RequestMade(u)'
    BY <1>2, <1>3, <1>4, <1>5, <1>6, <1>7 DEF Request
<1> QED
    BY <1>1, <1>8

(* One case per party: a worker only updates rows that are there, an API   *)
(* process makes and undoes them in order.                                 *)
LEMMA MadeStep == MadeInv /\ [SystemNext]_sysVars => MadeInv'
<1> SUFFICES ASSUME MadeInv, [SystemNext]_sysVars PROVE MadeInv'
    OBVIOUS
<1>1. SystemInv'
    BY SystemNextType DEF MadeInv
<1>2. CASE WorkerStep
    BY <1>1, <1>2, WorkerKeepsRows DEF WorkerStep, uploadVars, MadeInv, RequestMade, Absent
<1>3. CASE ApiStep
    <2>1. ASSUME NEW u \in Jobs, Refuse(u) \/ Receive(u) \/ Request(u) PROVE MadeInv'
        BY <1>1, <2>1, RequestSteps DEF MadeInv
    <2>2. ASSUME NEW a \in Apis, ApiCrash(a) PROVE MadeInv'
        <3>1. \A u \in Jobs :
                 \/ reqPc'[u] = reqPc[u] /\ answer'[u] = answer[u]
                 \/ reqPc'[u] = "answered" /\ answer'[u] = "dropped"
            BY <2>2 DEF ApiCrash
        <3>2. UNCHANGED <<jobs, stored, unremoved>>
            BY <2>2 DEF ApiCrash
        <3> QED
            BY <1>1, <3>1, <3>2 DEF MadeInv, RequestMade, Absent, InTemp, AfterPromote
    <2>3. ASSUME NEW a \in Apis, ApiStart(a) PROVE MadeInv'
        BY <1>1, <2>3 DEF ApiStart, MadeInv, RequestMade, Absent
    <2> QED
        BY <1>3, <2>1, <2>2, <2>3 DEF ApiStep, UploadNext
<1>4. CASE UNCHANGED sysVars
    BY <1>1, <1>4 DEF sysVars, vars, uploadVars, MadeInv, RequestMade, Absent
<1> QED
    BY <1>2, <1>3, <1>4 DEF SystemNext

(* Nothing has been made before the first upload. *)
LEMMA MadeInit == SystemInit => MadeInv
<1> SUFFICES ASSUME SystemInit PROVE MadeInv
    OBVIOUS
<1>1. \A u \in Jobs : RequestMade(u)
    BY DEF SystemInit, UploadInit, NoRow, RequestMade, Absent, AfterPromote
<1> QED
    BY <1>1, SystemInitType DEF MadeInv

(***************************************************************************)
(* The worker finds the audio of every job whose row it finds, through     *)
(* crashes of the API, lost confirmations and rollbacks.                   *)
(***************************************************************************)
THEOREM AudioOutlivesRow == SystemSpec => []FileOutlivesRow
<1>1. MadeInv => FileOutlivesRow
    BY DEF MadeInv, RequestMade, Absent, FileOutlivesRow
<1> QED
    BY <1>1, MadeInit, MadeStep, PTL DEF SystemSpec

(***************************************************************************)
(* After a 503 the row is gone for good, even when a worker was processing *)
(* the job when it was undone, and so is the file, unless its unlink       *)
(* failed; of that nobody is told.                                         *)
(***************************************************************************)
THEOREM RefusalIsClean == SystemSpec => []UnavailableIsUndone
<1>1. MadeInv => UnavailableIsUndone
    BY DEF MadeInv, RequestMade, Absent, UnavailableIsUndone
<1> QED
    BY <1>1, MadeInit, MadeStep, PTL DEF SystemSpec

-----------------------------------------------------------------------------
(* What is accepted is kept *)

(* The broker has taken the messages of these requests.                    *)
Published == {u \in Jobs : reqPc[u] = "confirm" \/ answer[u] = "accepted"}

DurableInv == MadeInv /\ LostWorkInv(Published)

(* Messages come from the API and never go to it. *)
LEMMA MessagesStay ==
    ASSUME SystemInv, ApiStep
    PROVE  /\ UNCHANGED <<retryQueue, unacked, workerVars>>
           /\ \A j : Elsewhere(j) => Elsewhere(j)'
           /\ \A j : Live(j) => Live(j)'
           /\ \A u \in Jobs : PublishJob(u) /\ reqPc'[u] = "confirm" => Elsewhere(u)'
<1>1. UNCHANGED <<retryQueue, unacked, workerVars>>
    BY DEF ApiStep, UploadNext, Refuse, Receive, Request, Hash, Lookup, Discard, Promote,
       Save, PublishJob, Confirm, UndoRow, UndoFile, ApiCrash, ApiStart, brokerVars
<1>2. \/ UNCHANGED jobsQueue
      \/ \E u \in Jobs : jobsQueue' = Add(jobsQueue, JobMessage(u))
    BY DEF ApiStep, UploadNext, Refuse, Receive, Request, Hash, Lookup, Discard, Promote,
       Save, PublishJob, Confirm, UndoRow, UndoFile, ApiCrash, ApiStart, brokerVars
<1>3. jobsQueue \in [Message -> Nat]
    BY DEF SystemInv, TypeInv, TypeOK, BrokerTypeOK, Queue
<1>4. \A u \in Jobs : JobMessage(u) \in Message /\ JobMessage(u).job = u
    BY ContractAssumption DEF JobMessage, Message, Corrupt
<1>5. \A m \in Message : jobsQueue[m] > 0 => jobsQueue'[m] > 0
    BY <1>2, <1>3, <1>4 DEF Add
<1>6. \A j : Elsewhere(j) => Elsewhere(j)'
    BY <1>1, <1>5 DEF Elsewhere, Holds
<1>7. \A j : Live(j) => Live(j)'
    BY <1>1, <1>5 DEF Live, Holds
<1>8. ASSUME NEW u \in Jobs, PublishJob(u), reqPc'[u] = "confirm" PROVE Elsewhere(u)'
    <2>1. reqPc \in [Jobs -> ReqPC]
        BY DEF SystemInv, UploadTypeOK
    <2>2. jobsQueue' = Add(jobsQueue, JobMessage(u))
        BY <1>8, <2>1 DEF PublishJob, Proceed
    <2>3. jobsQueue'[JobMessage(u)] > 0
        BY <1>3, <1>4, <2>2 DEF Add
    <2> QED
        BY <1>4, <2>3 DEF Elsewhere, Holds
<1> QED
    BY <1>1, <1>6, <1>7, <1>8

(* A request's row is written before its message is published, and after   *)
(* that only by a request that is to answer 503.                           *)
LEMMA PublishedStep ==
    ASSUME MadeInv, ApiStep, NEW j \in Published'
    PROVE  jobs'[j] = jobs[j] /\ (j \in Published \/ Elsewhere(j)')
<1>t. /\ jobs \in [Jobs -> Row]
      /\ reqPc \in [Jobs -> ReqPC]
      /\ answer \in [Jobs -> Answer]
      /\ j \in Jobs /\ RequestMade(j)
    BY DEF MadeInv, SystemInv, TypeInv, TypeOK, JobStoreTypeOK, UploadTypeOK, Published
<1>p. reqPc'[j] = "confirm" \/ answer'[j] = "accepted"
    BY DEF Published
<1>1. ASSUME NEW u \in Jobs, Refuse(u) \/ Receive(u) \/ Request(u)
      PROVE  jobs'[j] = jobs[j] /\ (j \in Published \/ Elsewhere(j)')
    <2>1. CASE u # j
        <3>1. jobs'[j] = jobs[j] /\ reqPc'[j] = reqPc[j] /\ answer'[j] = answer[j]
            BY <1>t, <1>1, <2>1
            DEF Refuse, Receive, Request, Hash, Lookup, Discard, Promote, Save, PublishJob,
                Confirm, UndoRow, UndoFile, Proceed, Respond
        <3> QED
            BY <1>t, <1>p, <3>1 DEF Published
    <2>2. CASE u = j /\ PublishJob(u)
        <3>1. UNCHANGED <<jobs, answer>>
            BY <2>2 DEF PublishJob, Proceed
        <3>2. reqPc[j] = "publish"
            BY <2>2 DEF PublishJob
        <3>3. answer'[j] # "accepted"
            BY <1>t, <3>1, <3>2 DEF RequestMade
        <3> QED
            BY <1>p, <2>2, <3>1, <3>3, MessagesStay DEF MadeInv
    <2>3. CASE u = j /\ Confirm(u)
        BY <1>t, <2>3 DEF Confirm, Published
    <2>4. CASE u = j /\ ~PublishJob(u) /\ ~Confirm(u)
        <3>1. reqPc[j] # "answered" /\ reqPc'[j] # "confirm" /\ answer'[j] # "accepted"
            BY <1>t, <1>1, <2>4
            DEF Refuse, Receive, Request, Hash, Lookup, Discard, Promote, Save, UndoRow,
                UndoFile, Proceed, Respond, RequestMade
        <3> QED
            BY <1>p, <3>1
    <2> QED
        BY <2>1, <2>2, <2>3, <2>4
<1>2. ASSUME NEW a \in Apis, ApiCrash(a) \/ ApiStart(a)
      PROVE  jobs'[j] = jobs[j] /\ j \in Published
    <2>1. /\ UNCHANGED jobs
          /\ \/ reqPc'[j] = reqPc[j] /\ answer'[j] = answer[j]
             \/ reqPc'[j] = "answered" /\ answer'[j] = "dropped"
        BY <1>t, <1>2 DEF ApiCrash, ApiStart
    <2> QED
        BY <1>t, <1>p, <2>1 DEF Published
<1> QED
    BY <1>1, <1>2 DEF ApiStep, UploadNext

(* The API's steps: a request joins the published ones with its message on *)
(* the queue.                                                              *)
LEMMA ApiKeepsWork ==
    ASSUME DurableInv, ApiStep
    PROVE  LostWorkInv(Published)'
<1> USE DEF DurableInv, LostWorkInv, WorkInv
<1>1. TypeInv'
    BY ApiKeepsWorkerType DEF MadeInv
<1>2. /\ UNCHANGED <<retryQueue, unacked, workerVars>>
      /\ \A j : Elsewhere(j) => Elsewhere(j)'
      /\ \A j : Live(j) => Live(j)'
    BY MessagesStay DEF MadeInv
<1>3. OneDelivery' /\ OwnsOne' /\ DisownedLive' /\ Copied'
    BY <1>2 DEF OneDelivery, OwnsOne, DisownedLive, Copied, workerVars, CurJob
<1>4. Kept(Published)'
    BY <1>2, PublishedStep DEF Kept, Live, Elsewhere
<1>5. SafeToSettle(Published)'
    BY <1>2, PublishedStep DEF SafeToSettle, AtRest, workerVars, CurJob
<1> QED
    BY <1>1, <1>3, <1>4, <1>5

(* The worker's steps: with one worker it loses none of the work that is   *)
(* published.                                                              *)
LEMMA WorkerKeepsWork ==
    ASSUME DurableInv, SingleWorker, [Next]_vars, UNCHANGED uploadVars
    PROVE  LostWorkInv(Published)'
<1>1. PICK K \in SUBSET Jobs : K = Published
    BY DEF Published
<1>2. K = Published'
    BY <1>1 DEF Published, uploadVars
<1>3. LostWorkInv(K)
    BY <1>1 DEF DurableInv
<1>4. TypeInv' /\ OneDelivery' /\ WorkInv(K)'
    BY <1>3, NextType, OneDeliveryStep, WorkStep DEF LostWorkInv
<1> QED
    BY <1>2, <1>4 DEF LostWorkInv, WorkInv, SafeToSettle, Kept

(* Nothing has been accepted at first.                                     *)
LEMMA DurableInit == SystemInit => DurableInv
<1> SUFFICES ASSUME SystemInit PROVE DurableInv
    OBVIOUS
<1>1. MadeInv /\ TypeInv
    BY MadeInit DEF MadeInv, SystemInv
<1>2. Published = {}
    BY DEF SystemInit, UploadInit, Published
<1>3. OneDelivery /\ OwnsOne /\ DisownedLive /\ Copied
    BY DEF SystemInit, WorkerInit, OneDelivery, OwnsOne, DisownedLive, Copied
<1>4. SafeToSettle(Published) /\ Kept(Published)
    BY <1>2 DEF SafeToSettle, Kept
<1> QED
    BY <1>1, <1>3, <1>4 DEF DurableInv, LostWorkInv, WorkInv

(* With one worker, what was accepted stays: steps of either side.         *)
LEMMA DurableStep ==
    ASSUME SingleWorker
    PROVE  DurableInv /\ [SystemNext]_sysVars => DurableInv'
<1> SUFFICES ASSUME DurableInv, [SystemNext]_sysVars PROVE DurableInv'
    OBVIOUS
<1>1. MadeInv'
    BY MadeStep DEF DurableInv
<1>2. CASE ApiStep
    BY <1>1, <1>2, ApiKeepsWork DEF DurableInv
<1>3. CASE WorkerStep \/ UNCHANGED sysVars
    BY <1>1, <1>3, WorkerKeepsWork DEF DurableInv, WorkerStep, sysVars
<1> QED
    BY <1>2, <1>3 DEF SystemNext

(***************************************************************************)
(* With one worker, an upload that was answered 202 keeps its row, and a   *)
(* message on its way until it is completed or failed: whatever the API's  *)
(* and the worker's faults, and however many other uploads come and go.    *)
(***************************************************************************)
THEOREM AcceptedStays ==
    ASSUME SingleWorker
    PROVE  SystemSpec => []AcceptedIsDurable
<1>1. DurableInv => AcceptedIsDurable
    BY DEF DurableInv, MadeInv, RequestMade, Absent, LostWorkInv, WorkInv, Kept,
       Published, AcceptedIsDurable
<1> QED
    BY <1>1, DurableInit, DurableStep, PTL DEF SystemSpec

-----------------------------------------------------------------------------
(* A duplicate is sent to a completed job *)

(* The faults that reopen or delete a completed job are left out, and what *)
(* others put on the queue names no job.                                   *)
HarmlessFaults ==
    /\ Faults \cap {"disconnect", "commitLost"} = {}
    /\ "lostConfirm" \notin ApiFaults
    /\ \A m \in Extra : m.job = NoJob

(* A handler about to write, or to decide on a failure, has its delivery   *)
(* and a job that is not completed.                                        *)
WritesOpenRow ==
    \A w \in Workers :
        /\ pc[w] # "idle" => owns[w]
        /\ stale[w] = {}
        /\ pc[w] \in {"mark_processing", "run_pipeline", "complete", "publish", "record"}
              => jobs[CurJob(w)].status # "completed"

(* No worker has heard of a request that has not published yet, nor of one *)
(* that is being undone.                                                   *)
Unheard(u) ==
    reqPc[u] \notin {"confirm", "answered"} =>
        /\ \A m \in Message : m.job = u => ~Afoot(m)
        /\ jobs[u].status # "completed"

DuplicateDone ==
    \A u \in Jobs : reqPc[u] = "discard" \/ answer[u] = "duplicate" =>
        duplicateOf[u] \in Jobs /\ jobs[duplicateOf[u]].status = "completed"

DuplicateInv ==
    /\ MadeInv
    /\ ResultCoherent
    /\ WritesOpenRow
    /\ \A u \in Jobs : Unheard(u)
    /\ DuplicateDone

(* A status is changed by the handler of its job only. *)
LEMMA StatusWriters ==
    ASSUME TypeInv, [Next]_vars, NEW j \in Jobs, jobs'[j].status # jobs[j].status
    PROVE  \E w \in Workers : /\ pc[w] \in {"mark_processing", "complete", "record"}
                              /\ CurJob(w) = j
<1>t. jobs \in [Jobs -> Row]
    BY DEF TypeInv, TypeOK, JobStoreTypeOK
<1>u. ASSUME NEW i \in Jobs, NEW row, Update(i, row)
      PROVE  \/ jobs'[j] = jobs[j]
             \/ i = j /\ jobs'[j] = row
    BY <1>t, <1>u DEF Update
<1>1. ASSUME NEW w \in Workers, MarkAttempt(w) \/ Complete(w) \/ RecordFailure(w)
      PROVE  pc[w] \in {"mark_processing", "complete", "record"} /\ CurJob(w) = j
    <2>1. pc[w] \in {"mark_processing", "complete", "record"} /\ CurJob(w) \in Jobs
        BY <1>1 DEF MarkAttempt, Complete, RecordFailure, At, TypeInv, HandlerOK
    <2>2. \/ UNCHANGED jobs
          \/ \E row : Update(CurJob(w), row)
        BY <1>1 DEF MarkAttempt, Complete, RecordFailure, Statement
    <2> QED
        BY <1>u, <2>1, <2>2
<1>2. ASSUME NEW w \in Workers, WriteProgress(w) PROVE FALSE
    <2>1. PICK x \in Write : \/ Update(x.job, UpdateProgress(jobs[x.job], x.progress))
                             \/ UNCHANGED jobs
        BY <1>2 DEF WriteProgress
    <2>2. x.job \in Jobs /\ UpdateProgress(jobs[x.job], x.progress).status = jobs[x.job].status
        BY <1>t DEF Write, UpdateProgress, Row
    <2> QED
        BY <1>u, <2>1, <2>2
<1>3. ASSUME NEW w \in Workers,
             \/ Begin(w) \/ GetStatus(w) \/ ReportProgress(w) \/ EndPipeline(w)
             \/ AckCompleted(w) \/ SkipCompleted(w) \/ Park(w)
             \/ PublishFailure(w) \/ PublishRaises(w) \/ SettleFailure(w)
             \/ NackRequeue(w) \/ Process(w)
      PROVE  UNCHANGED jobs
    BY <1>3 DEF Begin, GetStatus, ReportProgress, EndPipeline, AckCompleted,
        SkipCompleted, Park, PublishFailure, PublishRaises, SettleFailure,
        NackRequeue, Process, Consume, Disconnect, Crash, Stop, Exit, Restart,
        Die
<1>4. Expire \/ UNCHANGED vars => UNCHANGED jobs
    BY DEF Expire, vars
<1> QED
    BY <1>1, <1>2, <1>3, <1>4 DEF Next, Handler

(* Statements that cannot take effect and raise, and acks that cannot: a   *)
(* handler gets to handle_failure with an open row only.                   *)
LEMMA WritesOpenRowHandler ==
    ASSUME TypeInv, WritesOpenRow, SingleWorker, HarmlessFaults, NEW w \in Workers, Handler(w)
    PROVE  WritesOpenRow'
<1> DEFINE Writing == {"mark_processing", "run_pipeline", "complete", "publish", "record"}
<1>s. \A v \in Workers : v = w
    BY DEF SingleWorker
<1>t. /\ pc \in [Workers -> PC] /\ owns \in [Workers -> BOOLEAN]
      /\ cur \in [Workers -> Message] /\ stale \in [Workers -> SUBSET Message]
      /\ jobs \in [Jobs -> Row]
    BY DEF TypeInv, TypeOK, JobStoreTypeOK
<1>f. /\ pc[w] # "idle" => owns[w]
      /\ stale[w] = {}
      /\ pc[w] \in Writing => jobs[CurJob(w)].status # "completed"
    BY DEF WritesOpenRow
<1>j. pc[w] \notin {"idle", "park"} => CurJob(w) \in Jobs
    BY DEF TypeInv, HandlerOK
<1>g. ASSUME owns'[w], stale'[w] = {}, pc'[w] \in Writing => jobs'[cur'[w].job].status # "completed"
      PROVE  WritesOpenRow'
    BY <1>s, <1>g DEF WritesOpenRow, CurJob
<1>1. CASE Begin(w)
    <2>1. owns'[w] /\ stale'[w] = {} /\ pc'[w] \in {"park", "get_status"}
        BY <1>t, <1>f, <1>1 DEF Begin, At
    <2> QED
        BY <1>g, <2>1
<1>2. CASE GetStatus(w)
    <2>1. /\ UNCHANGED <<jobs, owns, stale, cur>> /\ owns[w]
          /\ pc'[w] \in {AfterStatus(jobs[CurJob(w)].status), "requeue"}
        BY <1>t, <1>f, <1>2 DEF GetStatus, At, Goto
    <2>2. jobs[CurJob(w)].status = "completed" => AfterStatus(jobs[CurJob(w)].status) = "skip"
        BY DEF AfterStatus
    <2>3. pc'[w] \in Writing => jobs[CurJob(w)].status # "completed"
        BY <2>1, <2>2
    <2> QED
        BY <1>f, <1>g, <2>1, <2>3 DEF CurJob
<1>3. CASE MarkAttempt(w)
    <2>1. pc[w] = "mark_processing" /\ CurJob(w) \in Jobs
        BY <1>j, <1>3 DEF MarkAttempt, At
    <2>2. Update(CurJob(w), MarkProcessing(jobs[CurJob(w)])) \/ UNCHANGED jobs
        BY <1>3 DEF MarkAttempt, Statement
    <2>3. jobs'[CurJob(w)].status # "completed"
        <3>1. jobs[CurJob(w)] \in Row /\ jobs[CurJob(w)].status # "completed"
            BY <1>t, <1>f, <2>1
        <3>2. MarkProcessing(jobs[CurJob(w)]).status = "processing"
            BY <3>1 DEF MarkProcessing, Row
        <3> QED
            BY <1>t, <2>1, <2>2, <3>1, <3>2 DEF Update
    <2>4. owns[w] /\ UNCHANGED <<owns, stale, cur>>
        BY <1>f, <1>3, <2>1 DEF MarkAttempt, Statement, Goto
    <2> QED
        BY <1>f, <1>g, <2>3, <2>4 DEF CurJob
<1>4. CASE EndPipeline(w)
    BY <1>f, <1>g, <1>4 DEF EndPipeline, At, CurJob
<1>5. CASE Complete(w)
    <2>1. \/ pc'[w] = "ack"
          \/ pc'[w] = "publish" /\ UNCHANGED jobs
        BY <1>t, <1>5 DEF Complete, Statement, Goto, Spend, HarmlessFaults
    <2>2. pc[w] = "complete" /\ UNCHANGED <<owns, stale, cur>>
        BY <1>5 DEF Complete, Statement, Goto, At
    <2> QED
        BY <1>f, <1>g, <2>1, <2>2 DEF CurJob
<1>6. CASE RecordFailure(w)
    <2>1. pc'[w] \in {"settle", "requeue"} /\ owns'[w] /\ stale'[w] = {}
        BY <1>t, <1>f, <1>6 DEF RecordFailure, Statement, Goto, At
    <2> QED
        BY <1>g, <2>1
<1>7. CASE AckCompleted(w) \/ SkipCompleted(w) \/ Park(w) \/ SettleFailure(w) \/ NackRequeue(w)
    <2>1. owns[w]
        BY <1>f, <1>7 DEF AckCompleted, SkipCompleted, Park, SettleFailure, NackRequeue, At
    <2>2. pc'[w] = "idle" /\ UNCHANGED stale
        BY <1>t, <1>7, <2>1 DEF AckCompleted, SkipCompleted, Park, SettleFailure,
           NackRequeue, AckDelivery, SettleRaises, Return, Leave
    <2> QED
        BY <1>s, <1>f, <2>2 DEF WritesOpenRow
<1>8. CASE PublishFailure(w) \/ PublishRaises(w)
    <2>1. pc[w] = "publish" /\ UNCHANGED <<jobs, stale, cur, owns>>
        BY <1>8 DEF PublishFailure, PublishRaises, At, Goto
    <2> QED
        BY <1>f, <1>g, <2>1 DEF CurJob
<1> QED
    BY <1>1, <1>2, <1>3, <1>4, <1>5, <1>6, <1>7, <1>8 DEF Handler

(* Nobody else writes a status while the one handler is at work. *)
LEMMA WritesOpenRowStep ==
    ASSUME TypeInv, WritesOpenRow, SingleWorker, HarmlessFaults, [Next]_vars
    PROVE  WritesOpenRow'
<1>t. pc \in [Workers -> PC] /\ \A w \in Workers : pc[w] \notin {"idle", "park"} => CurJob(w) \in Jobs
    BY DEF TypeInv, TypeOK, HandlerOK
<1>1. ASSUME NEW w \in Workers, Handler(w) PROVE WritesOpenRow'
    BY <1>1, WritesOpenRowHandler
<1>2. ASSUME NEW w \in Workers, ReportProgress(w) \/ Consume(w) \/ Stop(w) \/ Restart(w)
      PROVE  WritesOpenRow'
    BY <1>2 DEF ReportProgress, Consume, Stop, Restart, workerVars, WritesOpenRow, CurJob
<1>3. ASSUME NEW w \in Workers, WriteProgress(w) PROVE WritesOpenRow'
    <2>1. UNCHANGED <<pc, cur, owns, stale>>
        BY <1>3 DEF WriteProgress
    <2>2. \A j \in Jobs : jobs'[j].status = "completed" => jobs[j].status = "completed"
        <3>1. PICK x \in Write : \/ Update(x.job, UpdateProgress(jobs[x.job], x.progress))
                                 \/ UNCHANGED jobs
            BY <1>3 DEF WriteProgress
        <3>2. jobs \in [Jobs -> Row]
            BY DEF TypeInv, TypeOK, JobStoreTypeOK
        <3>3. x.job \in Jobs /\ UpdateProgress(jobs[x.job], x.progress).status = jobs[x.job].status
            BY <3>2 DEF Write, UpdateProgress, Row
        <3> QED
            BY <3>1, <3>2, <3>3 DEF Update
    <2> QED
        BY <1>t, <2>1, <2>2 DEF WritesOpenRow, CurJob
<1>4. ASSUME NEW w \in Workers, Crash(w) \/ Exit(w) PROVE WritesOpenRow'
    <2>1. \A v \in Workers : v = w
        BY DEF SingleWorker
    <2>2. pc'[w] = "idle" /\ stale'[w] = {}
        BY <1>t, <1>4 DEF Crash, Exit, Die, Leave, TypeInv, TypeOK
    <2> QED
        BY <2>1, <2>2 DEF WritesOpenRow
<1>5. ASSUME NEW w \in Workers, Disconnect(w) PROVE FALSE
    BY <1>5 DEF Disconnect, Spend, HarmlessFaults
<1>6. Expire \/ UNCHANGED vars => WritesOpenRow'
    BY DEF Expire, vars, workerVars, WritesOpenRow, CurJob
<1> QED
    BY <1>1, <1>2, <1>3, <1>4, <1>5, <1>6 DEF Next, Process

(* What the API does to the rows and the messages of requests. *)
LEMMA RequestWrites ==
    ASSUME SystemInv, ApiStep, NEW j \in Jobs
    PROVE  /\ \/ jobs'[j] = jobs[j]
              \/ jobs'[j] = NewRow /\ reqPc[j] = "save"
              \/ jobs'[j] = NoRow /\ reqPc[j] = "undo"
           /\ \A m \in Message : Afoot(m)' =>
                 Afoot(m) \/ m.job # j \/ reqPc'[j] = "confirm"
<1>t. /\ jobs \in [Jobs -> Row] /\ reqPc \in [Jobs -> ReqPC]
      /\ jobsQueue \in [Message -> Nat]
    BY DEF SystemInv, TypeInv, TypeOK, JobStoreTypeOK, BrokerTypeOK, UploadTypeOK, Queue
<1>w. UNCHANGED <<retryQueue, unacked, workerVars>>
    BY MessagesStay
<1>1. ASSUME NEW u \in Jobs, Save(u) \/ UndoRow(u)
      PROVE  /\ UNCHANGED jobsQueue
             /\ \/ jobs'[j] = jobs[j]
                \/ jobs'[j] = NewRow /\ reqPc[j] = "save"
                \/ jobs'[j] = NoRow /\ reqPc[j] = "undo"
    <2>1. UNCHANGED jobsQueue
        BY <1>1 DEF Save, UndoRow, brokerVars
    <2>2. /\ Save(u) => reqPc[u] = "save"
          /\ UndoRow(u) => reqPc[u] = "undo"
        BY DEF Save, UndoRow
    <2> QED
        BY <1>t, <1>1, <2>1, <2>2, RowOfRequest
<1>2. ASSUME NEW u \in Jobs, PublishJob(u)
      PROVE  /\ UNCHANGED jobs
             /\ \A m \in Message : jobsQueue'[m] > 0 =>
                   jobsQueue[m] > 0 \/ m.job # j \/ reqPc'[j] = "confirm"
    <2>1. UNCHANGED jobs
        BY <1>2 DEF PublishJob
    <2>2. CASE UNCHANGED jobsQueue
        BY <2>1, <2>2
    <2>3. CASE jobsQueue' = Add(jobsQueue, JobMessage(u)) /\ Proceed(u, "confirm")
        <3>1. JobMessage(u) \in Message /\ JobMessage(u).job = u
            BY ContractAssumption DEF JobMessage, Message, Corrupt
        <3>2. \A m \in Message : m # JobMessage(u) => jobsQueue'[m] = jobsQueue[m]
            BY <1>t, <2>3, <3>1 DEF Add
        <3>3. reqPc'[u] = "confirm"
            BY <1>t, <2>3 DEF Proceed
        <3> QED
            BY <2>1, <3>1, <3>2, <3>3
    <2> QED
        BY <1>2, <2>2, <2>3 DEF PublishJob
<1>3. ASSUME NEW u \in Jobs,
             \/ Refuse(u) \/ Receive(u) \/ Hash(u) \/ Lookup(u) \/ Discard(u)
             \/ Promote(u) \/ Confirm(u) \/ UndoFile(u)
      PROVE  UNCHANGED <<jobs, jobsQueue>>
    BY <1>3 DEF Refuse, Receive, Hash, Lookup, Discard, Promote, Confirm, UndoFile, brokerVars
<1>4. ASSUME NEW a \in Apis, ApiCrash(a) \/ ApiStart(a)
      PROVE  UNCHANGED <<jobs, jobsQueue>>
    BY <1>4 DEF ApiCrash, ApiStart, brokerVars
<1>5. /\ \/ jobs'[j] = jobs[j]
         \/ jobs'[j] = NewRow /\ reqPc[j] = "save"
         \/ jobs'[j] = NoRow /\ reqPc[j] = "undo"
      /\ \A m \in Message : jobsQueue'[m] > 0 =>
            jobsQueue[m] > 0 \/ m.job # j \/ reqPc'[j] = "confirm"
    BY <1>1, <1>2, <1>3, <1>4 DEF ApiStep, UploadNext, Request
<1>6. \A m \in Message : Afoot(m)' => Afoot(m) \/ m.job # j \/ reqPc'[j] = "confirm"
    BY <1>w, <1>5 DEF Afoot, workerVars
<1> QED
    BY <1>5, <1>6

(* The request of a job only ever moves on; without a lost confirmation    *)
(* the undo is reached from a publish that did not take place.             *)
LEMMA RequestMovesOn ==
    ASSUME UploadTypeOK, HarmlessFaults, ApiStep, NEW u \in Jobs
    PROVE  reqPc'[u] \notin {"confirm", "answered"} => reqPc[u] \notin {"confirm", "answered"}
<1> USE DEF UploadTypeOK, Proceed, Respond
<1>1. ASSUME NEW v \in Jobs, \/ Refuse(v) \/ Receive(v) \/ Hash(v) \/ Lookup(v) \/ Discard(v)
                             \/ Promote(v) \/ Save(v) \/ PublishJob(v) \/ UndoRow(v)
                             \/ UndoFile(v)
      PROVE  /\ reqPc[v] \notin {"confirm", "answered"}
             /\ u # v => reqPc'[u] = reqPc[u]
    BY <1>1 DEF Refuse, Receive, Hash, Lookup, Discard, Promote, Save, PublishJob, UndoRow,
       UndoFile
<1>2. ASSUME NEW v \in Jobs, Confirm(v)
      PROVE  /\ reqPc'[v] = "answered"
             /\ u # v => reqPc'[u] = reqPc[u]
    BY <1>2 DEF Confirm, ApiSpend, HarmlessFaults
<1>3. ASSUME NEW a \in Apis, ApiCrash(a) \/ ApiStart(a)
      PROVE  reqPc'[u] \in {reqPc[u], "answered"}
    BY <1>3 DEF ApiCrash, ApiStart
<1> QED
    BY <1>1, <1>2, <1>3 DEF ApiStep, UploadNext, Request

(* A handler's message is afoot. *)
LEMMA HandlersMessage ==
    ASSUME DuplicateInv, NEW w \in Workers, NEW u \in Jobs, CurJob(w) = u
    PROVE  reqPc[u] \in {"confirm", "answered"}
<1>1. cur[w] \in Message /\ Afoot(cur[w])
    BY DEF DuplicateInv, MadeInv, SystemInv, TypeInv, TypeOK, Afoot
<1> QED
    BY <1>1 DEF DuplicateInv, Unheard, CurJob

(* Nobody hears of a request before it publishes. *)
LEMMA UnheardStep ==
    ASSUME DuplicateInv, HarmlessFaults, [SystemNext]_sysVars, NEW u \in Jobs
    PROVE  Unheard(u)'
<1> SUFFICES ASSUME reqPc'[u] \notin {"confirm", "answered"}
             PROVE  /\ \A m \in Message : m.job = u => ~Afoot(m)'
                    /\ jobs'[u].status # "completed"
    BY DEF Unheard
<1>i. SystemInv /\ TypeInv /\ UploadTypeOK
    BY DEF DuplicateInv, MadeInv, SystemInv
<1>1. CASE WorkerStep \/ UNCHANGED sysVars
    <2>1. [Next]_vars /\ reqPc'[u] = reqPc[u]
        BY <1>1 DEF WorkerStep, sysVars, uploadVars
    <2>2. /\ \A m \in Message : m.job = u => ~Afoot(m)
          /\ jobs[u].status # "completed"
        BY <2>1 DEF DuplicateInv, Unheard
    <2>3. \A w \in Workers : CurJob(w) # u
        BY <2>1, HandlersMessage
    <2>4. jobs'[u].status # "completed"
        BY <1>i, <2>1, <2>2, <2>3, StatusWriters
    <2>5. ASSUME NEW m \in Message, m.job = u, Afoot(m)' PROVE FALSE
        <3>1. m # Malformed
            BY <2>5, ContractAssumption DEF Malformed
        <3>2. PICK w \in Workers : m = RetryCopy(cur[w])
            BY <1>i, <2>1, <2>2, <2>5, <3>1, MessageOrigin
        <3>3. cur[w] \in Message
            BY <1>i DEF TypeInv, TypeOK
        <3>4. m.job = cur[w].job
            BY <3>2, <3>3 DEF RetryCopy, Message
        <3> QED
            BY <2>3, <2>5, <3>4 DEF CurJob
    <2> QED
        BY <2>4, <2>5
<1>2. CASE ApiStep
    <2>1. reqPc[u] \notin {"confirm", "answered"}
        BY <1>2, <1>i, RequestMovesOn
    <2>2. /\ \A m \in Message : m.job = u => ~Afoot(m)
          /\ jobs[u].status # "completed"
        BY <2>1 DEF DuplicateInv, Unheard
    <2>3. NewRow.status # "completed" /\ NoRow.status # "completed"
        BY DEF NewRow, NoRow
    <2> QED
        BY <1>2, <1>i, <2>2, <2>3, RequestWrites
<1> QED
    BY <1>1, <1>2 DEF SystemNext

(* Once completed, always completed. *)
LEMMA CompletedStays ==
    ASSUME DuplicateInv, HarmlessFaults, [SystemNext]_sysVars,
           NEW j \in Jobs, jobs[j].status = "completed"
    PROVE  jobs'[j].status = "completed"
<1>i. SystemInv /\ TypeInv
    BY DEF DuplicateInv, MadeInv, SystemInv
<1>1. CASE WorkerStep \/ UNCHANGED sysVars
    <2>1. [Next]_vars
        BY <1>1 DEF WorkerStep, sysVars
    <2>2. \A w \in Workers : pc[w] \in {"mark_processing", "complete", "record"} => CurJob(w) # j
        BY DEF DuplicateInv, WritesOpenRow
    <2> QED
        BY <1>i, <2>1, <2>2, StatusWriters
<1>2. CASE ApiStep
    BY <1>i, <1>2, RequestWrites DEF DuplicateInv, Unheard
<1> QED
    BY <1>1, <1>2 DEF SystemNext

(* What a request was told of, or is about to be, was found completed.     *)
LEMMA DuplicateStep ==
    ASSUME DuplicateInv, HarmlessFaults, [SystemNext]_sysVars
    PROVE  DuplicateDone'
<1>i. UploadTypeOK /\ \A u \in Jobs : RequestMade(u)
    BY DEF DuplicateInv, MadeInv, SystemInv
<1> DEFINE Told(u) == reqPc[u] = "discard" \/ answer[u] = "duplicate"
           FoundNow(u) == /\ duplicateOf'[u] \in Jobs
                          /\ jobs[duplicateOf'[u]].status = "completed"
           SameFind(u) == Told(u) /\ duplicateOf'[u] = duplicateOf[u]
<1> SUFFICES ASSUME NEW u \in Jobs, Told(u)' PROVE SameFind(u) \/ FoundNow(u)
    BY CompletedStays DEF DuplicateInv, DuplicateDone
<1>1. CASE WorkerStep \/ UNCHANGED sysVars
    BY <1>1 DEF WorkerStep, sysVars, uploadVars
<1>2. ASSUME NEW v \in Jobs, Refuse(v) \/ Receive(v) \/ Request(v), v # u
      PROVE  SameFind(u)
    <2>1. /\ reqPc'[u] = reqPc[u] /\ answer'[u] = answer[u]
          /\ duplicateOf'[u] = duplicateOf[u]
        BY <1>i, <1>2
        DEF Refuse, Receive, Request, Hash, Lookup, Discard, Promote, Save, PublishJob,
            Confirm, UndoRow, UndoFile, Proceed, Respond, UploadTypeOK
    <2> QED
        BY <2>1
<1>3. CASE Lookup(u)
    <2>1. reqPc[u] = "lookup" /\ answer[u] = "none"
        BY <1>i, <1>3 DEF Lookup, RequestMade
    <2>2. \E j \in Completed(u) : duplicateOf' = [duplicateOf EXCEPT ![u] = j]
        BY <1>i, <1>3, <2>1 DEF Lookup, Proceed, Respond, UploadTypeOK
    <2> QED
        BY <1>i, <2>2 DEF Completed, UploadTypeOK
<1>4. CASE Discard(u)
    BY <1>4 DEF Discard
<1>5. CASE \/ Refuse(u) \/ Receive(u) \/ Hash(u) \/ Promote(u) \/ Save(u) \/ PublishJob(u)
           \/ Confirm(u) \/ UndoRow(u) \/ UndoFile(u)
    <2>1. reqPc[u] # "answered" /\ answer[u] = "none"
        BY <1>i, <1>5 DEF Refuse, Receive, Hash, Promote, Save, PublishJob, Confirm, UndoRow,
           UndoFile, RequestMade
    <2>2. ~Told(u)'
        BY <1>i, <1>5, <2>1 DEF Refuse, Receive, Hash, Promote, Save, PublishJob, Confirm,
           UndoRow, UndoFile, Proceed, Respond, UploadTypeOK
    <2> QED
        BY <2>2
<1>6. ASSUME NEW a \in Apis, ApiCrash(a) \/ ApiStart(a)
      PROVE  SameFind(u)
    <2>1. /\ UNCHANGED duplicateOf
          /\ \/ reqPc'[u] = reqPc[u] /\ answer'[u] = answer[u]
             \/ reqPc'[u] = "answered" /\ answer'[u] = "dropped"
        BY <1>6 DEF ApiCrash, ApiStart
    <2> QED
        BY <2>1
<1> QED
    BY <1>1, <1>2, <1>3, <1>4, <1>5, <1>6 DEF SystemNext, ApiStep, UploadNext, Request

(* Whoever writes a row, it stays coherent. *)
LEMMA CoherentStep ==
    ASSUME SystemInv, ResultCoherent, [SystemNext]_sysVars
    PROVE  ResultCoherent'
<1> SUFFICES ASSUME NEW j \in Jobs PROVE RowCoherent(jobs'[j])
    BY DEF ResultCoherent
<1>i. TypeInv /\ jobs[j] \in Row /\ RowCoherent(jobs[j])
    BY DEF SystemInv, TypeInv, TypeOK, JobStoreTypeOK, ResultCoherent
<1>1. CASE WorkerStep \/ UNCHANGED sysVars
    <2>1. [Next]_vars
        BY <1>1 DEF WorkerStep, sysVars
    <2> QED
        BY <1>i, <2>1, RowStep, StatementsCoherent
<1>2. CASE ApiStep
    <2>1. RowCoherent(NewRow) /\ RowCoherent(NoRow)
        BY DEF RowCoherent, NewRow, NoRow
    <2> QED
        BY <1>2, <1>i, <2>1, RequestWrites
<1> QED
    BY <1>1, <1>2 DEF SystemNext

(* With faults that are harmless, nothing has been heard or sent at first. *)
LEMMA DuplicateInit == HarmlessFaults /\ SystemInit => DuplicateInv
<1> SUFFICES ASSUME HarmlessFaults, SystemInit PROVE DuplicateInv
    OBVIOUS
<1>1. MadeInv
    BY MadeInit
<1>2. \A j \in Jobs : jobs[j] = NoRow
    BY DEF SystemInit, UploadInit
<1>3. ResultCoherent
    <2>1. RowCoherent(NoRow)
        BY DEF RowCoherent, NoRow
    <2> QED
        BY <1>2, <2>1 DEF ResultCoherent
<1>4. WritesOpenRow
    BY DEF SystemInit, WorkerInit, WritesOpenRow
<1>5. ASSUME NEW m \in Message, m.job \in Jobs PROVE ~Afoot(m)
    <2>1. m \notin Extra /\ m # Malformed
        BY <1>5, ContractAssumption DEF HarmlessFaults, Malformed
    <2> QED
        BY <2>1 DEF SystemInit, WorkerInit, Afoot, AddAll, EmptyQueue
<1>6. \A u \in Jobs : Unheard(u)
    BY <1>2, <1>5 DEF Unheard, NoRow
<1>7. DuplicateDone
    BY DEF SystemInit, UploadInit, DuplicateDone
<1> QED
    BY <1>1, <1>3, <1>4, <1>6, <1>7 DEF DuplicateInv

(* Every step of the service keeps the invariant of the duplicates.        *)
LEMMA DuplicateInvStep ==
    ASSUME SingleWorker, HarmlessFaults
    PROVE  DuplicateInv /\ [SystemNext]_sysVars => DuplicateInv'
<1> SUFFICES ASSUME DuplicateInv, [SystemNext]_sysVars PROVE DuplicateInv'
    OBVIOUS
<1>i. MadeInv /\ SystemInv /\ TypeInv /\ WritesOpenRow
    BY DEF DuplicateInv, MadeInv, SystemInv
<1>1. MadeInv' /\ ResultCoherent'
    BY <1>i, MadeStep, CoherentStep DEF DuplicateInv
<1>2. WritesOpenRow'
    <2>1. CASE WorkerStep \/ UNCHANGED sysVars
        BY <1>i, <2>1, WritesOpenRowStep DEF WorkerStep, sysVars
    <2>2. CASE ApiStep
        <3>1. ASSUME NEW w \in Workers,
                     pc[w] \in {"mark_processing", "run_pipeline", "complete", "publish", "record"}
              PROVE  jobs'[CurJob(w)].status # "completed"
            <4>1. CurJob(w) \in Jobs /\ jobs[CurJob(w)].status # "completed"
                BY <1>i, <3>1 DEF TypeInv, HandlerOK, WritesOpenRow
            <4>2. NewRow.status # "completed" /\ NoRow.status # "completed"
                BY DEF NewRow, NoRow
            <4> QED
                BY <1>i, <2>2, <4>1, <4>2, RequestWrites
        <3>2. UNCHANGED workerVars
            BY <2>2 DEF ApiStep
        <3> QED
            BY <1>i, <3>1, <3>2 DEF WritesOpenRow, CurJob, workerVars
    <2> QED
        BY <2>1, <2>2 DEF SystemNext
<1> QED
    BY <1>1, <1>2, UnheardStep, DuplicateStep DEF DuplicateInv

(***************************************************************************)
(* A client sent to an existing job finds its transcript then and ever     *)
(* after, with one worker, as many uploads as there are, and the faults    *)
(* that neither reopen nor delete a completed job.                         *)
(***************************************************************************)
THEOREM DuplicatesStayCompleted ==
    ASSUME SingleWorker, HarmlessFaults
    PROVE  ReadersSpec => []DuplicateIsCompleted
<1>1. ReadersInit => DuplicateInv
    BY DuplicateInit DEF ReadersInit
<1>2. DuplicateInv /\ [ReadersNext]_readersVars => DuplicateInv'
    <2>1. [ReadersNext]_readersVars => [SystemNext]_sysVars
        BY DEF ReadersNext, Serve, Read, readersVars
    <2> QED
        BY <2>1, DuplicateInvStep
<1>3. DuplicateInv => DuplicateIsCompleted
    <2> SUFFICES ASSUME DuplicateInv, NEW u \in Jobs, answer[u] = "duplicate"
                 PROVE  /\ Detail(duplicateOf[u]).transcript
                        /\ Export(duplicateOf[u]) = "subtitles"
        BY DEF DuplicateIsCompleted
    <2>1. duplicateOf[u] \in Jobs /\ jobs[duplicateOf[u]].status = "completed"
        BY DEF DuplicateInv, DuplicateDone
    <2>2. jobs[duplicateOf[u]].transcript
        BY <2>1 DEF DuplicateInv, ResultCoherent, RowCoherent
    <2> QED
        BY <2>1, <2>2 DEF Detail, Export
<1> QED
    BY <1>1, <1>2, <1>3, PTL DEF ReadersSpec

-----------------------------------------------------------------------------
(* A walk of the list misses no more jobs than were undone *)

(* The sets of rows of P that hold, with a row, every newer one: what a    *)
(* client has behind it after some pages.                                  *)
Newest(P, at) == {U \in SUBSET P : \A u \in U : \A k \in P : at[k] > at[u] => k \in U}

(* A finite set of rows has an oldest.                                     *)
LEMMA OldestRow ==
    ASSUME NEW U \in SUBSET Jobs, IsFiniteSet(U), U # {}, NEW at \in [Jobs -> Nat]
    PROVE  \E o \in U : \A u \in U : at[o] <= at[u]
<1> DEFINE Older(u) == {k \in U : at[k] <= at[u]}
           T == {Older(u) : u \in U}
<1>1. T \subseteq FiniteSubsetsOf(U)
    <2>1. \A u \in U : Older(u) \subseteq U /\ IsFiniteSet(Older(u))
        BY FS_Subset
    <2> QED
        BY <2>1 DEF FiniteSubsetsOf
<1>2. T # {}
    <2>1. PICK u : u \in U
        OBVIOUS
    <2>2. Older(u) \in T
        BY <2>1
    <2> QED
        BY <2>2
<1>3. PICK x \in T : \A y \in T : <<y, x>> \notin StrictSubsetOrdering(U)
    <2> HIDE DEF T
    <2> QED
        BY <1>1, <1>2, FS_StrictSubsetOrderingWellFounded, WFMin
<1>4. PICK o \in U : x = Older(o)
    OBVIOUS
<1>5. ASSUME NEW u \in U, at[u] < at[o] PROVE FALSE
    <2>1. at[u] \in Nat /\ at[o] \in Nat
        OBVIOUS
    <2>2. Older(u) \subseteq Older(o)
        BY <1>5, <2>1
    <2>3. o \in Older(o) /\ o \notin Older(u)
        BY <1>5, <2>1
    <2>4. <<Older(u), Older(o)>> \in StrictSubsetOrdering(U)
        BY <2>2, <2>3 DEF StrictSubsetOrdering
    <2> QED
        BY <1>3, <1>4, <2>4
<1> QED
    BY <1>5

(* When a row is deleted at most one row slips behind the client.          *)
LEMMA DeletedRow ==
    ASSUME NEW P \in SUBSET Jobs, IsFiniteSet(P), NEW at \in [Jobs -> Nat],
           \A j, k \in P : at[j] = at[k] => j = k,
           NEW d \in P, NEW U \in Newest(P \ {d}, at)
    PROVE  \E V \in Newest(P, at), x \in Jobs :
              Cardinality(V) <= Cardinality(U) /\ P \ V \subseteq ((P \ {d}) \ U) \cup {x}
<1>1. U \subseteq P \ {d} /\ IsFiniteSet(U) /\ Cardinality(U) \in Nat
    BY FS_Subset, FS_CardinalityType DEF Newest
<1>2. CASE \A u \in U : at[d] < at[u]
    <2>1. U \in Newest(P, at)
        BY <1>1, <1>2 DEF Newest
    <2>2. P \ U \subseteq ((P \ {d}) \ U) \cup {d}
        OBVIOUS
    <2> QED
        BY <1>1, <2>1, <2>2
<1>3. CASE \E u \in U : ~(at[d] < at[u])
    <2>1. PICK o \in U : \A u \in U : at[o] <= at[u]
        BY <1>1, <1>3, OldestRow
    <2>2. at[o] < at[d]
        <3>1. PICK u \in U : ~(at[d] < at[u])
            BY <1>3
        <3>2. at[o] \in Nat /\ at[u] \in Nat /\ at[d] \in Nat /\ at[o] <= at[u] /\ at[o] # at[d]
            BY <1>1, <2>1
        <3> QED
            BY <3>1, <3>2
    <2> DEFINE V == (U \cup {d}) \ {o}
    <2>3. V \in Newest(P, at)
        <3>1. V \subseteq P
            BY <1>1
        <3>2. ASSUME NEW u \in V, NEW k \in P, at[k] > at[u] PROVE k \in V
            <4>1. at[o] <= at[u] /\ at[k] \in Nat /\ at[u] \in Nat /\ at[o] \in Nat
                BY <1>1, <2>1, <2>2
            <4>2. k # o
                BY <3>2, <4>1
            <4>3. CASE k = d
                BY <4>2, <4>3
            <4>4. CASE k # d /\ u = d
                <5>1. at[k] > at[o]
                    BY <3>2, <4>1
                <5> QED
                    BY <1>1, <4>2, <4>4, <5>1 DEF Newest
            <4>5. CASE k # d /\ u # d
                BY <3>2, <4>2, <4>5 DEF Newest
            <4> QED
                BY <4>3, <4>4, <4>5
        <3> QED
            BY <3>1, <3>2 DEF Newest
    <2>4. Cardinality(V) = Cardinality(U)
        <3>1. /\ IsFiniteSet(U \cup {d})
              /\ Cardinality(U \cup {d}) = Cardinality(U) + 1
            BY <1>1, FS_AddElement
        <3>2. Cardinality(V) = Cardinality(U \cup {d}) - 1
            BY <3>1, FS_RemoveElement
        <3> QED
            BY <1>1, <3>1, <3>2
    <2>5. P \ V \subseteq ((P \ {d}) \ U) \cup {o}
        OBVIOUS
    <2> QED
        BY <1>1, <2>3, <2>4, <2>5
<1> QED
    BY <1>2, <1>3

(* B holds no more than m rows, and the newest of all. *)
Leading(B, P, at, m) ==
    /\ B \in Newest(P, at)
    /\ Cardinality(B) <= m
    /\ \A U \in Newest(P, at) : Cardinality(U) <= m => U \subseteq B

(* The first rows of a listing, by date, are the newest ones.              *)
LEMMA FirstRows ==
    ASSUME NEW P \in SUBSET Jobs, IsFiniteSet(P), NEW at \in [Jobs -> Nat],
           \A j, k \in P : at[j] = at[k] => j = k,
           NEW n \in Nat, NEW s \in Bijection(1..n, P),
           \A a, b \in 1..n : a < b => at[s[a]] >= at[s[b]],
           NEW m \in Nat, m <= n, NEW B, B = {s[i] : i \in 1..m}
    PROVE  Leading(B, P, at, m)
<1>s. /\ s \in [1..n -> P]
      /\ \A a, b \in 1..n : s[a] = s[b] => a = b
      /\ \A j \in P : \E i \in 1..n : s[i] = j
    <2>1. s \in Injection(1..n, P) /\ s \in Surjection(1..n, P)
        BY DEF Bijection
    <2>2. s \in [1..n -> P] /\ \A a, b \in 1..n : s[a] = s[b] => a = b
        BY <2>1 DEF Injection, IsInjective
    <2>3. \A j \in P : \E i \in 1..n : s[i] = j
        BY <2>1 DEF Surjection
    <2> QED
        BY <2>2, <2>3
<1>d. \A a, b \in 1..n : at[s[a]] > at[s[b]] => a < b
    <2> SUFFICES ASSUME NEW a \in 1..n, NEW b \in 1..n, at[s[a]] > at[s[b]] PROVE a < b
        OBVIOUS
    <2>1. at[s[a]] \in Nat /\ at[s[b]] \in Nat
        BY <1>s
    <2>2. a # b
        BY <2>1
    <2>3. ~(b < a)
        BY <2>1
    <2> QED
        BY <2>2, <2>3
<1>1. B \in Newest(P, at)
    <2>1. B \subseteq P
        BY <1>s
    <2>2. ASSUME NEW u \in B, NEW k \in P, at[k] > at[u] PROVE k \in B
        <3>1. PICK i \in 1..m : u = s[i]
            OBVIOUS
        <3>2. PICK a \in 1..n : k = s[a]
            BY <1>s
        <3>3. a < i
            BY <1>d, <2>2, <3>1, <3>2
        <3> QED
            BY <3>1, <3>2, <3>3
    <2> QED
        BY <2>1, <2>2 DEF Newest
<1>2. Cardinality(B) <= m
    <2>1. [i \in 1..m |-> s[i]] \in Surjection(1..m, B)
        BY DEF Surjection
    <2>2. IsFiniteSet(1..m) /\ Cardinality(1..m) = m
        BY FS_Interval
    <2> QED
        BY <2>1, <2>2, FS_Surjection
<1>3. ASSUME NEW U \in Newest(P, at), Cardinality(U) <= m, NEW u \in U, u \notin B PROVE FALSE
    <2>1. PICK i \in 1..n : u = s[i]
        BY <1>s DEF Newest
    <2>2. m < i
        BY <1>3, <2>1
    <2>3. \A a \in 1..i : s[a] \in U
        <3> SUFFICES ASSUME NEW a \in 1..i, a < i PROVE s[a] \in U
            BY <2>1
        <3>1. a \in 1..n
            OBVIOUS
        <3>2. at[s[a]] \in Nat /\ at[s[i]] \in Nat /\ at[s[a]] # at[s[i]] /\ at[s[a]] >= at[s[i]]
            BY <1>s, <3>1
        <3>3. at[s[a]] > at[u]
            BY <2>1, <3>2
        <3> QED
            BY <1>s, <3>1, <3>3 DEF Newest
    <2>4. [a \in 1..i |-> s[a]] \in Injection(1..i, U)
        <3> DEFINE f == [a \in 1..i |-> s[a]]
        <3>1. f \in [1..i -> U]
            BY <2>3
        <3>2. ASSUME NEW a \in 1..i, NEW b \in 1..i, f[a] = f[b] PROVE a = b
            <4>1. a \in 1..n /\ b \in 1..n /\ s[a] = s[b]
                BY <3>2
            <4> QED
                BY <1>s, <4>1
        <3>3. f \in Injection(1..i, U)
            <4> HIDE DEF f
            <4> QED
                BY <3>1, <3>2 DEF Injection, IsInjective
        <3> QED
            BY <3>3
    <2>5. IsFiniteSet(U)
        BY FS_Subset DEF Newest
    <2>6. Cardinality(1..i) = i
        BY FS_Interval
    <2>7. i <= Cardinality(U) /\ Cardinality(U) \in Nat
        BY <2>4, <2>5, <2>6, FS_Injection, FS_CardinalityType
    <2> QED
        BY <1>3, <2>2, <2>7
<1> QED
    BY <1>1, <1>2, <1>3 DEF Leading

(* The page shows the rows from the o-th, counted from 0, to the m-th.     *)
Shows(page, s, o, m) ==
    /\ page = <<>> <=> m <= o
    /\ o <= m => Len(page) = m - o
    /\ {page[i] : i \in DOMAIN page} = {s[i] : i \in o + 1..m}

(* A page of a listing. *)
LEMMA PageRows ==
    ASSUME NEW P, NEW n \in Nat, NEW s \in [1..n -> P], NEW o \in Nat, NEW m \in Nat, m <= n,
           NEW page, page = SubSeq(s, o + 1, m)
    PROVE  Shows(page, s, o, m)
<1>1. /\ page \in Seq(P)
      /\ Len(page) = IF o + 1 <= m THEN m - (o + 1) + 1 ELSE 0
      /\ \A i \in 1..m - (o + 1) + 1 : page[i] = s[o + 1 + i - 1]
    BY SubSeqProperties
<1>2. page = <<>> <=> Len(page) = 0
    BY <1>1
<1>3. DOMAIN page = 1..Len(page)
    BY <1>1
<1>4. ASSUME NEW i \in DOMAIN page PROVE \E a \in o + 1..m : page[i] = s[a]
    <2>1. i \in 1..m - (o + 1) + 1 /\ o + 1 + i - 1 \in o + 1..m
        BY <1>1, <1>3
    <2> QED
        BY <1>1, <2>1
<1>5. ASSUME NEW a \in o + 1..m PROVE \E i \in DOMAIN page : page[i] = s[a]
    <2>1. a - o \in 1..m - (o + 1) + 1 /\ o + 1 + (a - o) - 1 = a
        OBVIOUS
    <2>2. page[a - o] = s[a] /\ a - o \in DOMAIN page
        BY <1>1, <1>3, <2>1
    <2> QED
        BY <2>2
<1>6. (page = <<>> <=> m <= o) /\ (o <= m => Len(page) = m - o)
    <2>1. Len(page) = IF o < m THEN m - o ELSE 0
        BY <1>1
    <2> QED
        BY <1>2, <2>1
<1>7. {page[i] : i \in DOMAIN page} = {s[i] : i \in o + 1..m}
    <2>1. ASSUME NEW x \in {page[i] : i \in DOMAIN page} PROVE x \in {s[i] : i \in o + 1..m}
        <3>1. PICK i \in DOMAIN page : x = page[i]
            BY <2>1
        <3>2. PICK a \in o + 1..m : page[i] = s[a]
            BY <1>4
        <3> QED
            BY <3>1, <3>2
    <2>2. ASSUME NEW x \in {s[i] : i \in o + 1..m} PROVE x \in {page[i] : i \in DOMAIN page}
        <3>1. PICK a \in o + 1..m : x = s[a]
            BY <2>2
        <3>2. PICK i \in DOMAIN page : page[i] = s[a]
            BY <1>5
        <3> QED
            BY <3>1, <3>2
    <2> QED
        BY <2>1, <2>2
<1> QED
    BY <1>6, <1>7 DEF Shows

(* The jobs on the client's list that it has not seen and will not see,    *)
(* when U is what it has behind it.                                        *)
Missed(U) == pending \ (Present(jobs) \ U)

(* No two rows have one created_at. *)
Dated ==
    /\ now \in Nat
    /\ created \in [Jobs -> Nat]
    /\ \A j \in Present(jobs) : created[j] <= now
    /\ \A j, k \in Present(jobs) : created[j] = created[k] => j = k

WalkTypeOK ==
    /\ offset \in Nat
    /\ walking \in {"not yet", "walking", "done"}
    /\ pending \subseteq Jobs
    /\ undone \subseteq Jobs
    /\ IsFiniteSet(Present(jobs)) /\ IsFiniteSet(pending) /\ IsFiniteSet(undone)

(* What is undone does not come back. *)
UndoneGone ==
    \A j \in undone : j \notin Present(jobs) /\ reqPc[j] \in {"remove", "answered"}

(* However the client's offset cuts the list, it misses no more jobs than  *)
(* were undone.                                                            *)
MissedBounded ==
    \A U \in Newest(Present(jobs), created) :
        Cardinality(U) <= offset => Cardinality(Missed(U)) <= Cardinality(undone)

WalkInv ==
    /\ MadeInv
    /\ Dated
    /\ WalkTypeOK
    /\ UndoneGone
    /\ walking = "not yet" => offset = 0
    /\ walking = "walking" => pending \subseteq Present(jobs) \cup undone /\ MissedBounded
    /\ WalkMissesOnlyUndone

(* What a step of the service does to the set of rows. *)
LEMMA TableStep ==
    ASSUME MadeInv, [SystemNext]_sysVars
    PROVE  /\ \/ Present(jobs') = Present(jobs)
              \/ \E u \in Jobs : /\ reqPc[u] = "save" /\ u \notin Present(jobs)
                                 /\ Present(jobs') = Present(jobs) \cup {u}
              \/ \E u \in Present(jobs) : /\ reqPc'[u] = "remove"
                                          /\ Present(jobs') = Present(jobs) \ {u}
           /\ \A j \in Jobs : reqPc[j] \in {"remove", "answered"}
                                 => reqPc'[j] \in {"remove", "answered"}
<1>i. /\ SystemInv /\ jobs \in [Jobs -> Row] /\ reqPc \in [Jobs -> ReqPC]
      /\ \A u \in Jobs : RequestMade(u)
    BY DEF MadeInv, SystemInv, TypeInv, TypeOK, JobStoreTypeOK, UploadTypeOK
<1>1. CASE WorkerStep \/ UNCHANGED sysVars
    <2>1. UNCHANGED reqPc
        BY <1>1 DEF WorkerStep, sysVars, uploadVars
    <2>2. \A u \in Jobs : Absent(u)' <=> Absent(u)
        <3>1. CASE WorkerStep
            BY <1>i, <3>1, WorkerKeepsRows DEF WorkerStep
        <3>2. CASE UNCHANGED sysVars
            BY <3>2 DEF sysVars, vars, Absent
        <3> QED
            BY <1>1, <3>1, <3>2
    <2>3. Present(jobs') = Present(jobs)
        BY <2>2 DEF Present, Absent
    <2> QED
        BY <2>1, <2>3
<1>2. ASSUME NEW u \in Jobs, Save(u)
      PROVE  /\ \/ Present(jobs') = Present(jobs)
                \/ /\ reqPc[u] = "save" /\ u \notin Present(jobs)
                   /\ Present(jobs') = Present(jobs) \cup {u}
             /\ \A j \in Jobs : reqPc[j] \in {"remove", "answered"} => reqPc'[j] = reqPc[j]
    <2>1. reqPc[u] = "save" /\ u \notin Present(jobs)
        BY <1>i, <1>2 DEF Save, RequestMade, Absent, Present
    <2>2. UNCHANGED jobs \/ jobs' = [jobs EXCEPT ![u] = NewRow]
        BY <1>2 DEF Save
    <2>3. jobs' = [jobs EXCEPT ![u] = NewRow] => Present(jobs') = Present(jobs) \cup {u}
        <3>1. NewRow.status # "absent"
            BY DEF NewRow, NoRow
        <3> QED
            BY <1>i, <3>1 DEF Present
    <2>4. \A j \in Jobs : reqPc[j] \in {"remove", "answered"} => reqPc'[j] = reqPc[j]
        BY <1>i, <1>2, <2>1 DEF Save, Proceed, Respond
    <2> QED
        BY <2>1, <2>2, <2>3, <2>4
<1>3. ASSUME NEW u \in Jobs, UndoRow(u)
      PROVE  /\ \/ Present(jobs') = Present(jobs)
                \/ /\ u \in Present(jobs) /\ reqPc'[u] = "remove"
                   /\ Present(jobs') = Present(jobs) \ {u}
             /\ \A j \in Jobs : reqPc[j] \in {"remove", "answered"} => reqPc'[j] = reqPc[j]
    <2>1. \/ UNCHANGED jobs
          \/ jobs' = [jobs EXCEPT ![u] = NoRow] /\ reqPc'[u] = "remove"
        BY <1>i, <1>3 DEF UndoRow, Proceed
    <2>2. jobs' = [jobs EXCEPT ![u] = NoRow] => Present(jobs') = Present(jobs) \ {u}
        <3>1. NoRow.status = "absent"
            BY DEF NoRow
        <3> QED
            BY <1>i, <3>1 DEF Present
    <2>3. \A j \in Jobs : reqPc[j] \in {"remove", "answered"} => reqPc'[j] = reqPc[j]
        BY <1>i, <1>3 DEF UndoRow, Proceed, Respond
    <2> QED
        BY <2>1, <2>2, <2>3
<1>4. ASSUME NEW u \in Jobs,
             \/ Refuse(u) \/ Receive(u) \/ Hash(u) \/ Lookup(u) \/ Discard(u)
             \/ Promote(u) \/ PublishJob(u) \/ Confirm(u) \/ UndoFile(u)
      PROVE  /\ UNCHANGED jobs
             /\ \A j \in Jobs : reqPc[j] \in {"remove", "answered"}
                                   => reqPc'[j] \in {"remove", "answered"}
    BY <1>i, <1>4 DEF Refuse, Receive, Hash, Lookup, Discard, Promote, PublishJob, Confirm,
       UndoFile, Proceed, Respond
<1>5. ASSUME NEW a \in Apis, ApiCrash(a) \/ ApiStart(a)
      PROVE  /\ UNCHANGED jobs
             /\ \A j \in Jobs : reqPc'[j] \in {reqPc[j], "answered"}
    BY <1>5 DEF ApiCrash, ApiStart
<1> QED
    BY <1>1, <1>2, <1>3, <1>4, <1>5 DEF SystemNext, ApiStep, UploadNext, Request

(* An insert moves rows away from the client, never past it. *)
LEMMA InsertMisses ==
    ASSUME WalkInv, walking = "walking", NEW u \in Jobs, u \notin Present(jobs),
           u \notin undone, Present(jobs') = Present(jobs) \cup {u},
           \A j \in Present(jobs) : created'[j] = created[j],
           UNCHANGED <<offset, pending, undone>>
    PROVE  MissedBounded'
<1> SUFFICES ASSUME NEW U \in Newest(Present(jobs'), created'), Cardinality(U) <= offset
             PROVE  Cardinality(pending \ (Present(jobs') \ U)) <= Cardinality(undone)
    BY DEF MissedBounded, Missed
<1> DEFINE P == Present(jobs)
           V == U \ {u}
<1>1. IsFiniteSet(P) /\ IsFiniteSet(pending) /\ pending \subseteq P \cup undone
    BY DEF WalkInv, WalkTypeOK
<1>2. IsFiniteSet(U) /\ U \subseteq P \cup {u}
    BY <1>1, FS_AddElement, FS_Subset DEF Newest
<1>3. V \in Newest(P, created)
    BY <1>2 DEF Newest
<1>4. Cardinality(V) <= offset
    <2>1. Cardinality(V) <= Cardinality(U) /\ Cardinality(V) \in Nat /\ Cardinality(U) \in Nat
        BY <1>2, FS_Subset, FS_CardinalityType
    <2> QED
        BY <2>1 DEF WalkInv, WalkTypeOK
<1>5. Cardinality(Missed(V)) <= Cardinality(undone)
    BY <1>3, <1>4 DEF WalkInv, MissedBounded
<1>6. pending \ (Present(jobs') \ U) \subseteq Missed(V)
    BY <1>1 DEF Missed
<1>7. IsFiniteSet(Missed(V)) /\ Cardinality(Missed(V)) \in Nat
         /\ Cardinality(undone) \in Nat
    BY <1>1, FS_Subset, FS_CardinalityType DEF Missed, WalkInv, WalkTypeOK
<1>8. Cardinality(pending \ (Present(jobs') \ U)) <= Cardinality(Missed(V))
         /\ Cardinality(pending \ (Present(jobs') \ U)) \in Nat
    BY <1>6, <1>7, FS_Subset, FS_CardinalityType
<1> QED
    BY <1>5, <1>7, <1>8

(* A deletion moves one row past it, at most. *)
LEMMA DeleteMisses ==
    ASSUME WalkInv, walking = "walking", NEW d \in Present(jobs),
           Present(jobs') = Present(jobs) \ {d}, undone' = undone \cup {d},
           UNCHANGED <<created, offset, pending>>
    PROVE  MissedBounded'
<1> DEFINE P == Present(jobs)
<1> SUFFICES ASSUME NEW U \in Newest(P \ {d}, created), Cardinality(U) <= offset
             PROVE  Cardinality(pending \ ((P \ {d}) \ U)) <= Cardinality(undone')
    BY DEF MissedBounded, Missed
<1>1. /\ IsFiniteSet(P) /\ IsFiniteSet(pending) /\ IsFiniteSet(undone)
      /\ P \subseteq Jobs /\ d \notin undone /\ offset \in Nat
      /\ created \in [Jobs -> Nat] /\ \A j, k \in P : created[j] = created[k] => j = k
    BY DEF WalkInv, WalkTypeOK, Dated, UndoneGone, Present
<1>2. PICK V \in Newest(P, created), x \in Jobs :
              Cardinality(V) <= Cardinality(U) /\ P \ V \subseteq ((P \ {d}) \ U) \cup {x}
    BY <1>1, DeletedRow
<1>3. Cardinality(V) <= offset
    <2>1. IsFiniteSet(V) /\ IsFiniteSet(U)
        BY <1>1, FS_Subset DEF Newest
    <2>2. Cardinality(V) \in Nat /\ Cardinality(U) \in Nat
        BY <2>1, FS_CardinalityType
    <2> QED
        BY <1>1, <1>2, <2>2
<1>4. Cardinality(Missed(V)) <= Cardinality(undone)
    BY <1>3 DEF WalkInv, MissedBounded
<1>5. pending \ ((P \ {d}) \ U) \subseteq Missed(V) \cup {x}
    BY <1>2 DEF Missed
<1>6. IsFiniteSet(Missed(V))
    BY <1>1, FS_Subset DEF Missed
<1>7. /\ Cardinality(Missed(V)) \in Nat
      /\ IsFiniteSet(Missed(V) \cup {x})
      /\ Cardinality(Missed(V) \cup {x}) <= Cardinality(Missed(V)) + 1
    <2>1. Cardinality(Missed(V)) \in Nat
        BY <1>6, FS_CardinalityType
    <2>2. /\ IsFiniteSet(Missed(V) \cup {x})
          /\ Cardinality(Missed(V) \cup {x}) =
                IF x \in Missed(V) THEN Cardinality(Missed(V)) ELSE Cardinality(Missed(V)) + 1
        BY <1>6, FS_AddElement
    <2> QED
        BY <2>1, <2>2
<1>8. /\ Cardinality(pending \ ((P \ {d}) \ U)) <= Cardinality(Missed(V) \cup {x})
      /\ Cardinality(pending \ ((P \ {d}) \ U)) \in Nat
      /\ Cardinality(Missed(V) \cup {x}) \in Nat
    BY <1>5, <1>7, FS_Subset, FS_CardinalityType
<1>9. Cardinality(undone') = Cardinality(undone) + 1 /\ Cardinality(undone) \in Nat
    BY <1>1, FS_AddElement, FS_CardinalityType
<1> QED
    BY <1>4, <1>7, <1>8, <1>9

(* A page takes its rows off the client's list before they fall behind it. *)
LEMMA PageMisses ==
    ASSUME WalkInv, NextPage, UNCHANGED <<jobs, created>>
    PROVE  /\ pending' \subseteq pending
           /\ offset' \in Nat
           /\ walking' \in {"walking", "done"}
           /\ walking' = "walking" => MissedBounded'
           /\ walking' = "done" => Cardinality(pending') <= Cardinality(undone')
<1> DEFINE P == Present(jobs)
           n == Cardinality(P)
<1>1. /\ IsFiniteSet(P) /\ IsFiniteSet(pending) /\ IsFiniteSet(undone)
      /\ P \subseteq Jobs /\ offset \in Nat /\ n \in Nat
      /\ created \in [Jobs -> Nat] /\ \A j, k \in P : created[j] = created[k] => j = k
      /\ Limit \in Nat \ {0}
    <2>1. IsFiniteSet(P) /\ IsFiniteSet(pending) /\ IsFiniteSet(undone) /\ offset \in Nat
        BY DEF WalkInv, WalkTypeOK
    <2>2. created \in [Jobs -> Nat] /\ \A j, k \in P : created[j] = created[k] => j = k
        BY DEF WalkInv, Dated
    <2>3. P \subseteq Jobs /\ Limit \in Nat \ {0}
        BY ReadersAssumption DEF Present
    <2> QED
        BY <2>1, <2>2, <2>3, FS_CardinalityType
<1>2. walking = "walking" /\ MissedBounded /\ UNCHANGED undone
    BY DEF NextPage, WalkInv
<1>3. PICK page \in List(Limit, offset) :
          /\ pending' = pending \ {page[i] : i \in DOMAIN page}
          /\ IF page = <<>>
             THEN walking' = "done" /\ offset' = 0
             ELSE walking' = "walking" /\ offset' = offset + Len(page)
    BY DEF NextPage
<1>4. PICK s \in Orders :
          page = SubSeq(s, offset + 1, IF offset + Limit <= Len(s) THEN offset + Limit ELSE Len(s))
    BY DEF List
<1>5. /\ s \in Bijection(1..n, P) /\ s \in [1..n -> P] /\ Len(s) = n
      /\ \A a, b \in 1..n : a < b => created[s[a]] >= created[s[b]]
    <2>1. s \in Bijection(1..n, P)
        BY DEF Orders, Listings
    <2>2. s \in [1..n -> P]
        BY <2>1 DEF Bijection, Injection
    <2>3. DOMAIN s = 1..n /\ Len(s) = n
        BY <1>1, <2>2
    <2> QED
        BY <2>1, <2>2, <2>3 DEF Orders
<1>d. /\ P \in SUBSET Jobs /\ IsFiniteSet(P) /\ created \in [Jobs -> Nat]
      /\ \A j, k \in P : created[j] = created[k] => j = k
      /\ s \in Bijection(1..n, P)
      /\ \A a, b \in 1..n : a < b => created[s[a]] >= created[s[b]]
    BY <1>1, <1>5
<1>6. PICK m \in Nat : /\ m = IF offset + Limit <= n THEN offset + Limit ELSE n
                       /\ m <= n
                       /\ page = SubSeq(s, offset + 1, m)
    <2> HIDE DEF n, P
    <2> QED
        BY <1>1, <1>4, <1>5
<1> DEFINE Shown == {s[i] : i \in offset + 1..m}
<1>7. /\ page = <<>> <=> m <= offset
      /\ offset <= m => Len(page) = m - offset
      /\ pending' = pending \ Shown
    <2> HIDE DEF n, P
    <2>1. /\ n \in Nat /\ offset \in Nat /\ m \in Nat /\ m <= n
          /\ s \in [1..n -> P] /\ page = SubSeq(s, offset + 1, m)
        BY <1>1, <1>5, <1>6
    <2>2. Shows(page, s, offset, m)
        BY <2>1, PageRows
    <2> QED
        BY <1>3, <2>2 DEF Shows
<1>8. ASSUME m > offset PROVE walking' = "walking" /\ offset' = m
    <2>1. page # <<>> /\ Len(page) = m - offset
        BY <1>1, <1>6, <1>7, <1>8
    <2>2. walking' = "walking" /\ offset' = offset + Len(page)
        BY <1>3, <2>1
    <2> QED
        BY <1>1, <1>6, <2>1, <2>2
<1>9. ASSUME m <= offset PROVE walking' = "done" /\ offset' = 0 /\ n <= offset /\ pending' = pending
    <2>1. Shown = {}
        BY <1>1, <1>6, <1>9
    <2>2. pending' = pending
        BY <1>7, <2>1
    <2>3. walking' = "done" /\ offset' = 0
        BY <1>3, <1>7, <1>9
    <2>4. n <= offset
        <3> HIDE DEF n
        <3> QED
            BY <1>1, <1>6, <1>9
    <2> QED
        BY <2>2, <2>3, <2>4
<1>10. ASSUME m > offset PROVE MissedBounded'
    <2> SUFFICES ASSUME NEW U \in Newest(P, created), Cardinality(U) <= m
                 PROVE  Cardinality(pending' \ (P \ U)) <= Cardinality(undone)
        BY <1>2, <1>8, <1>10 DEF MissedBounded, Missed
    <2> DEFINE Behind == {s[i] : i \in 1..offset}
    <2>1. Behind \in Newest(P, created) /\ Cardinality(Behind) <= offset
        <3> HIDE DEF n, P
        <3>1. n \in Nat /\ offset \in Nat /\ offset <= n
            BY <1>1, <1>6, <1>10
        <3>2. PICK B : B = Behind
            OBVIOUS
        <3>3. Leading(B, P, created, offset)
            BY <1>d, <3>1, <3>2, FirstRows
        <3> QED
            BY <3>2, <3>3 DEF Leading
    <2>2. U \subseteq {s[i] : i \in 1..m}
        <3> HIDE DEF n, P
        <3>1. n \in Nat /\ m \in Nat /\ m <= n
            BY <1>1, <1>6
        <3>2. PICK B : B = {s[i] : i \in 1..m}
            OBVIOUS
        <3>3. Leading(B, P, created, m)
            BY <1>d, <3>1, <3>2, FirstRows
        <3> QED
            BY <3>2, <3>3 DEF Leading
    <2>3. U \subseteq Behind \cup Shown
        BY <1>1, <1>6, <1>10, <2>2
    <2>4. pending' \ (P \ U) \subseteq Missed(Behind)
        <3> HIDE DEF Behind, Shown
        <3> QED
            BY <1>7, <2>3 DEF Missed
    <2>5. Cardinality(Missed(Behind)) <= Cardinality(undone)
        BY <1>2, <2>1 DEF MissedBounded
    <2>6. IsFiniteSet(Missed(Behind))
        BY <1>1, FS_Subset DEF Missed
    <2>7. Cardinality(pending' \ (P \ U)) <= Cardinality(Missed(Behind))
        BY <2>4, <2>6, FS_Subset
    <2>8. /\ Cardinality(pending' \ (P \ U)) \in Nat /\ Cardinality(Missed(Behind)) \in Nat
          /\ Cardinality(undone) \in Nat
        BY <1>1, <2>4, <2>6, FS_Subset, FS_CardinalityType
    <2> QED
        BY <2>5, <2>7, <2>8
<1>11. ASSUME m <= offset PROVE Cardinality(pending') <= Cardinality(undone')
    <2>1. P \in Newest(P, created) /\ Cardinality(P) <= offset
        BY <1>9, <1>11 DEF Newest
    <2>2. Missed(P) = pending
        BY DEF Missed
    <2> QED
        BY <1>2, <1>9, <1>11, <2>1, <2>2 DEF MissedBounded
<1> QED
    BY <1>1, <1>6, <1>7, <1>8, <1>9, <1>10, <1>11

(* A walk starts with nothing behind it. *)
LEMMA StartMisses ==
    ASSUME WalkInv, StartWalk, UNCHANGED <<jobs, created>>
    PROVE  MissedBounded'
<1> DEFINE P == Present(jobs)
<1> SUFFICES ASSUME NEW U \in Newest(P, created), Cardinality(U) <= 0
             PROVE  Cardinality(P \ (P \ U)) <= Cardinality({})
    BY DEF WalkInv, StartWalk, MissedBounded, Missed
<1>1. IsFiniteSet(U)
    BY FS_Subset DEF WalkInv, WalkTypeOK, Newest
<1>2. Cardinality(U) = 0
    BY <1>1, FS_CardinalityType
<1>3. P \ (P \ U) = {}
    BY <1>1, <1>2, FS_EmptySet
<1> QED
    BY <1>3, FS_EmptySet

(* The client's steps. *)
LEMMA WalkRead ==
    ASSUME WalkInv, Read
    PROVE  WalkInv'
<1>u. UNCHANGED <<sysVars, now, created, jobs, reqPc>>
    BY DEF Read, tableVars, sysVars, vars, uploadVars
<1>i. WalkTypeOK /\ IsFiniteSet(Present(jobs)) /\ Present(jobs) \subseteq Jobs
    BY DEF WalkInv, WalkTypeOK, Present
<1>1. MadeInv' /\ Dated'
    BY <1>u, MadeStep DEF WalkInv, Dated
<1>2. CASE StartWalk
    <2>1. /\ walking' = "walking" /\ pending' = Present(jobs) /\ undone' = {}
          /\ UNCHANGED offset
        BY <1>2 DEF StartWalk
    <2>2. WalkTypeOK'
        BY <1>i, <1>u, <2>1, FS_EmptySet DEF WalkTypeOK
    <2>3. MissedBounded'
        BY <1>u, <1>2, StartMisses
    <2> QED
        BY <1>1, <1>u, <2>1, <2>2, <2>3 DEF WalkInv, UndoneGone, WalkMissesOnlyUndone
<1>3. CASE NextPage
    <2>1. /\ pending' \subseteq pending
          /\ offset' \in Nat
          /\ walking' \in {"walking", "done"}
          /\ walking' = "walking" => MissedBounded'
          /\ walking' = "done" => Cardinality(pending') <= Cardinality(undone')
        BY <1>u, <1>3, PageMisses
    <2>2. walking = "walking" /\ UNCHANGED undone
        BY <1>3 DEF NextPage
    <2>3. WalkTypeOK'
        <3>1. IsFiniteSet(pending')
            BY <1>i, <2>1, FS_Subset DEF WalkTypeOK
        <3> QED
            BY <1>i, <1>u, <2>1, <2>2, <3>1 DEF WalkTypeOK
    <2>4. UndoneGone'
        BY <1>u, <2>2 DEF WalkInv, UndoneGone
    <2>5. pending' \subseteq Present(jobs') \cup undone'
        BY <1>u, <2>1, <2>2 DEF WalkInv
    <2> QED
        BY <1>1, <2>1, <2>3, <2>4, <2>5 DEF WalkInv, WalkMissesOnlyUndone
<1> QED
    BY <1>2, <1>3 DEF Read

(* The service's steps. *)
LEMMA WalkServe ==
    ASSUME WalkInv, Serve
    PROVE  WalkInv'
<1> DEFINE P == Present(jobs)
           Q == Present(jobs')
<1>i. /\ MadeInv /\ Dated /\ WalkTypeOK /\ UndoneGone
      /\ IsFiniteSet(P) /\ IsFiniteSet(undone)
    BY DEF WalkInv, WalkTypeOK
<1>s. /\ MadeInv' /\ UNCHANGED <<offset, walking, pending>>
      /\ now' = IF Q \ P = {} THEN now ELSE now + 1
      /\ created' = [j \in Jobs |-> IF j \in Q \ P THEN now' ELSE created[j]]
      /\ undone' = IF walking = "walking" THEN undone \cup (P \ Q) ELSE undone
    BY <1>i, MadeStep DEF Serve, readerVars
<1>r. \A j \in Jobs : reqPc[j] \in {"remove", "answered"}
                         => reqPc'[j] \in {"remove", "answered"}
    BY <1>i, TableStep DEF Serve
<1>c. created \in [Jobs -> Nat] /\ now \in Nat /\ P \subseteq Jobs /\ undone \subseteq Jobs
    BY <1>i DEF Dated, Present, WalkTypeOK
<1>1. ASSUME Q = P
      PROVE  WalkInv'
    <2>1. UNCHANGED <<now, created, undone>>
        BY <1>s, <1>c, <1>1
    <2>2. Dated'
        BY <1>i, <1>1, <2>1 DEF Dated
    <2>3. UndoneGone'
        BY <1>i, <1>c, <1>r, <1>1, <2>1 DEF UndoneGone
    <2>4. WalkTypeOK'
        BY <1>i, <1>s, <1>1, <2>1 DEF WalkTypeOK
    <2>5. (walking = "walking" => MissedBounded')
        BY <1>s, <1>1, <2>1 DEF WalkInv, MissedBounded, Missed
    <2> QED
        BY <1>s, <1>1, <2>1, <2>2, <2>3, <2>4, <2>5 DEF WalkInv, WalkMissesOnlyUndone
<1>2. ASSUME NEW u \in Jobs, reqPc[u] = "save", u \notin P, Q = P \cup {u}
      PROVE  WalkInv'
    <2>1. /\ now' = now + 1 /\ UNCHANGED undone
          /\ created' = [j \in Jobs |-> IF j = u THEN now + 1 ELSE created[j]]
        BY <1>s, <1>c, <1>2
    <2>2. Dated'
        BY <1>i, <1>c, <1>2, <2>1 DEF Dated
    <2>3. u \notin undone
        BY <1>i, <1>2 DEF UndoneGone
    <2>4. UndoneGone'
        BY <1>i, <1>c, <1>r, <1>2, <2>1, <2>3 DEF UndoneGone
    <2>5. IsFiniteSet(Q)
        BY <1>i, <1>2, FS_AddElement
    <2>6. WalkTypeOK'
        BY <1>i, <1>s, <2>1, <2>5 DEF WalkTypeOK
    <2>7. walking = "walking" => MissedBounded'
        BY <1>s, <1>c, <1>2, <2>1, <2>3, InsertMisses
    <2> QED
        BY <1>s, <1>2, <2>1, <2>2, <2>4, <2>6, <2>7 DEF WalkInv, WalkMissesOnlyUndone
<1>3. ASSUME NEW d \in P, reqPc'[d] = "remove", Q = P \ {d}
      PROVE  WalkInv'
    <2>1. /\ UNCHANGED <<now, created>>
          /\ undone' = IF walking = "walking" THEN undone \cup {d} ELSE undone
        BY <1>s, <1>c, <1>3
    <2>2. Dated'
        BY <1>i, <1>3, <2>1 DEF Dated
    <2>3. UndoneGone'
        BY <1>i, <1>c, <1>r, <1>3, <2>1 DEF UndoneGone
    <2>4. WalkTypeOK'
        <3>1. IsFiniteSet(Q) /\ IsFiniteSet(undone \cup {d})
            BY <1>i, <1>3, FS_RemoveElement, FS_AddElement
        <3> QED
            BY <1>i, <1>s, <1>c, <1>3, <2>1, <3>1 DEF WalkTypeOK
    <2>5. walking = "walking" => MissedBounded'
        BY <1>s, <1>3, <2>1, DeleteMisses
    <2> QED
        BY <1>s, <1>3, <2>1, <2>2, <2>3, <2>4, <2>5 DEF WalkInv, WalkMissesOnlyUndone
<1> QED
    BY <1>i, <1>1, <1>2, <1>3, TableStep DEF Serve

(* A walk that has not begun has missed nothing.                          *)
LEMMA WalkInit == ReadersInit => WalkInv
<1> SUFFICES ASSUME ReadersInit PROVE WalkInv
    OBVIOUS
<1>1. Present(jobs) = {}
    BY DEF ReadersInit, SystemInit, UploadInit, Present, NoRow
<1>2. MadeInv
    BY MadeInit DEF ReadersInit
<1>3. Dated
    BY <1>1 DEF ReadersInit, Dated
<1>4. WalkTypeOK /\ UndoneGone
    BY <1>1, FS_EmptySet DEF ReadersInit, WalkTypeOK, UndoneGone
<1> QED
    BY <1>2, <1>3, <1>4 DEF ReadersInit, WalkInv, WalkMissesOnlyUndone

(***************************************************************************)
(* A client that walks the list page by page, of whatever size, misses a   *)
(* job of those that were there when it began only for a job that was      *)
(* undone meanwhile: whatever is inserted and updated, however many        *)
(* workers and API processes there are, and whatever fails.                *)
(***************************************************************************)
THEOREM WalkIsComplete == ReadersSpec => []WalkMissesOnlyUndone
<1>1. WalkInv /\ [ReadersNext]_readersVars => WalkInv'
    <2> SUFFICES ASSUME WalkInv, [ReadersNext]_readersVars PROVE WalkInv'
        OBVIOUS
    <2>1. CASE UNCHANGED readersVars
        <3>1. UNCHANGED <<sysVars, now, created, offset, walking, pending, undone, jobs, reqPc>>
            BY <2>1 DEF readersVars, readerVars, tableVars, sysVars, vars, uploadVars
        <3>2. MadeInv'
            BY <3>1, MadeStep DEF WalkInv
        <3> QED
            BY <3>1, <3>2 DEF WalkInv, Dated, WalkTypeOK, UndoneGone, MissedBounded, Missed,
               WalkMissesOnlyUndone
    <2> QED
        BY <2>1, WalkRead, WalkServe DEF ReadersNext
<1>2. WalkInv => WalkMissesOnlyUndone
    BY DEF WalkInv
<1> QED
    BY <1>1, <1>2, WalkInit, PTL DEF ReadersSpec

=============================================================================
