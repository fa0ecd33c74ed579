--------------------------- MODULE LostWorkProofs ---------------------------
(***************************************************************************)
(* With a single worker no accepted work is lost, whatever faults strike.  *)
(* With two it can be (run LostWork), so the assumption is needed.  From   *)
(* the same invariant: what it does to a job is what JobLifecycle allows.  *)
(***************************************************************************)
EXTENDS WorkerProofs

SingleWorker == \A v, w \in Workers : v = w

(* A message for job j is in a queue that leads back to the workers. *)
Elsewhere(j) == Holds(jobsQueue, j) \/ Holds(retryQueue, j)

AtRest(j) == jobs[j].status \notin {"queued", "processing"}

(* prefetch_count = 1. *)
OneDelivery == \A w \in Workers : \A m, n \in unacked[w] : m = n

(* The delivery a handler owns is its channel's only one, and no handler   *)
(* of an older, lost delivery still waits for the lock.                    *)
OwnsOne ==
    \A w \in Workers :
        owns[w] => unacked[w] = {cur[w]} /\ stale[w] = {} /\ pc[w] # "idle"

(* The broker still has the message of every lost delivery whose handler   *)
(* runs on or waits: nobody can settle it before that handler is done.     *)
DisownedLive ==
    \A w \in Workers :
        /\ pc[w] # "idle" /\ ~owns[w] => Live(CurJob(w))
        /\ \A m \in stale[w] : Live(m.job)

(* The retry copy is published before the retry is recorded. *)
Copied ==
    \A w \in Workers :
        owns[w] /\ pc[w] = "record" /\ MayRetry(cur[w]) => Elsewhere(CurJob(w))

(* A handler settles a delivery for good only when its job needs no more   *)
(* work or another message will see to it.                                 *)
SafeToSettle(K) ==
    \A w \in Workers :
        owns[w] /\ pc[w] \in {"ack", "skip", "park", "settle"} /\ CurJob(w) \in K
            => AtRest(CurJob(w)) \/ Elsewhere(CurJob(w))

(* No work is lost of the jobs in K: here all, elsewhere those that are    *)
(* published.                                                              *)
Kept(K) ==
    \A j \in K : jobs[j].status \in {"queued", "processing"} => Live(j)

WorkInv(K) == OwnsOne /\ DisownedLive /\ Copied /\ SafeToSettle(K) /\ Kept(K)

LostWorkInv(K) == TypeInv /\ OneDelivery /\ WorkInv(K)

-----------------------------------------------------------------------------
(* What does not disturb the messages *)

(* Steps inside a handler that touch neither the queues nor its delivery.  *)
LEMMA QuietStep ==
    ASSUME NEW K \in SUBSET Jobs, LostWorkInv(K),
           SingleWorker, NEW w \in Workers,
           UNCHANGED <<brokerVars, owns, stale>>, cur'[w] = cur[w],
           pc[w] # "idle", pc'[w] # "idle"
    PROVE  /\ OwnsOne' /\ DisownedLive'
           /\ \A j : Elsewhere(j) => Elsewhere(j)'
           /\ \A j : Live(j) => Live(j)'
<1> USE DEF SingleWorker, LostWorkInv, WorkInv, brokerVars
<1>1. \A v \in Workers : v = w
    OBVIOUS
<1>2. \A j : Elsewhere(j) => Elsewhere(j)'
    BY DEF Elsewhere, Holds
<1>3. \A j : Live(j) => Live(j)'
    BY DEF Live, Holds
<1>4. OwnsOne'
    BY <1>1 DEF OwnsOne
<1>5. DisownedLive'
    BY <1>1, <1>3 DEF DisownedLive, CurJob
<1> QED
    BY <1>2, <1>3, <1>4, <1>5

(* An owned delivery keeps its job live. *)
LEMMA OwnedLive ==
    ASSUME NEW K \in SUBSET Jobs, LostWorkInv(K),
           NEW w \in Workers, pc[w] # "idle"
    PROVE  Live(CurJob(w))
    BY DEF LostWorkInv, WorkInv, OwnsOne, DisownedLive, Live, CurJob

(* Statements on the current job's row. *)
LEMMA UpdateKeepsOthers ==
    ASSUME TypeInv, NEW i \in Jobs, NEW row \in Row, Update(i, row)
    PROVE  /\ \A j \in Jobs : j # i => jobs'[j] = jobs[j]
           /\ \/ jobs'[i] = row
              \/ jobs'[i] = jobs[i] /\ jobs[i].status = "absent"
    BY DEF Update, TypeInv, TypeOK, JobStoreTypeOK

(* Past the parsing of its message a handler works on a job that can be    *)
(* named in a statement.                                                   *)
LEMMA HandlerRow ==
    ASSUME TypeInv, NEW w \in Workers, pc[w] \notin {"idle", "park"}
    PROVE  CurJob(w) \in Jobs /\ jobs[CurJob(w)] \in Row
    BY DEF TypeInv, TypeOK, HandlerOK, JobStoreTypeOK

(* A statement in the middle of a handler loses no work, because the job   *)
(* of a running handler is always live.                                    *)
LEMMA StatementKeepsWork ==
    ASSUME NEW K \in SUBSET Jobs, LostWorkInv(K),
           SingleWorker, NEW w \in Workers,
           pc[w] \notin {"idle", "park"}, UNCHANGED brokerVars,
           NEW row \in Row, Update(CurJob(w), row) \/ UNCHANGED jobs
    PROVE  Kept(K)'
<1> USE DEF LostWorkInv, WorkInv
<1>1. Live(CurJob(w)) /\ CurJob(w) \in Jobs
    BY OwnedLive, HandlerRow
<1>2. \A j : Live(j) => Live(j)'
    BY DEF Live, Holds, brokerVars
<1>3. \A j \in Jobs : j # CurJob(w) => jobs'[j] = jobs[j]
    BY <1>1, UpdateKeepsOthers
<1> QED
    BY <1>1, <1>2, <1>3 DEF Kept

(* mark_processing, complete and the recording of a failure. *)
LEMMA StatementSteps ==
    ASSUME NEW K \in SUBSET Jobs, LostWorkInv(K),
           SingleWorker, NEW w \in Workers,
           MarkAttempt(w) \/ Complete(w) \/ RecordFailure(w)
    PROVE  WorkInv(K)'
<1> USE DEF LostWorkInv, WorkInv
<1>s. \A v \in Workers : v = w
    BY DEF SingleWorker
<1>t. pc \in [Workers -> PC] /\ w \in Workers
    BY DEF TypeInv, TypeOK
<1>1. /\ UNCHANGED <<brokerVars, owns, stale, cur>>
      /\ pc[w] \in {"mark_processing", "complete", "record"}
      /\ pc'[w] # "idle"
    BY <1>t DEF MarkAttempt, Complete, RecordFailure, Statement, Goto, At
<1>2. CurJob(w) \in Jobs /\ jobs[CurJob(w)] \in Row
    BY <1>1, HandlerRow
<1>3. /\ OwnsOne' /\ DisownedLive'
      /\ \A j : Elsewhere(j) => Elsewhere(j)'
    BY <1>1, QuietStep
<1>4. Kept(K)'
    <2> DEFINE r == jobs[CurJob(w)]
    <2>1. /\ MarkProcessing(r) \in Row /\ CompleteRow(r) \in Row
          /\ RecordRetry(r) \in Row /\ FailRow(r) \in Row
        BY <1>2, RowType, JobStoreAssumption
    <2>2. \/ UNCHANGED jobs
          \/ Update(CurJob(w), MarkProcessing(r))
          \/ Update(CurJob(w), CompleteRow(r))
          \/ Update(CurJob(w), RecordRetry(r))
          \/ Update(CurJob(w), FailRow(r))
        BY DEF MarkAttempt, Complete, RecordFailure, Statement
    <2> HIDE DEF r
    <2> QED
        BY <1>1, <2>1, <2>2, StatementKeepsWork
<1>5. Copied'
    BY <1>s, <1>t, <1>1 DEF Copied, MarkAttempt, Complete, RecordFailure, Statement, Goto
<1>6. SafeToSettle(K)'
    <2>1. CASE MarkAttempt(w)
        BY <1>s, <1>t, <2>1 DEF SafeToSettle, MarkAttempt, Statement, Goto
    <2>2. CASE Complete(w)
        <3>1. pc'[w] = "ack" => AtRest(CurJob(w))'
            <4>1. pc'[w] = "ack" => Update(CurJob(w), CompleteRow(jobs[CurJob(w)]))
                BY <1>t, <2>2 DEF Complete, Statement, Goto
            <4>2. /\ CompleteRow(jobs[CurJob(w)]) \in Row
                  /\ CompleteRow(jobs[CurJob(w)]).status = "completed"
                BY <1>2, RowType, JobStoreAssumption DEF Row, CompleteRow
            <4> QED
                BY <1>1, <1>2, <4>1, <4>2, UpdateKeepsOthers DEF AtRest, CurJob
        <3>2. pc'[w] \in {"ack", "publish"}
            BY <1>t, <2>2 DEF Complete, Statement, Goto
        <3> QED
            BY <1>s, <3>1, <3>2 DEF SafeToSettle
    <2>3. CASE RecordFailure(w)
        <3>1. pc'[w] \in {"settle", "requeue"}
            BY <1>t, <2>3 DEF RecordFailure, Statement, Goto
        <3>2. CASE owns[w] /\ MayRetry(cur[w])
            <4>1. Elsewhere(CurJob(w))
                BY <2>3, <3>2 DEF Copied, RecordFailure, At
            <4> QED
                BY <1>s, <1>1, <1>3, <4>1 DEF SafeToSettle, CurJob
        <3>3. CASE ~MayRetry(cur[w])
            <4>1. pc'[w] = "settle" => AtRest(CurJob(w))'
                <5>1. pc'[w] = "settle" => Update(CurJob(w), FailRow(jobs[CurJob(w)]))
                    BY <1>t, <2>3, <3>3 DEF RecordFailure, Statement, Goto
                <5>2. /\ FailRow(jobs[CurJob(w)]) \in Row
                      /\ FailRow(jobs[CurJob(w)]).status = "failed"
                    BY <1>2, RowType, JobStoreAssumption DEF Row, FailRow
                <5> QED
                    BY <1>1, <1>2, <5>1, <5>2, UpdateKeepsOthers DEF AtRest, CurJob
            <4> QED
                BY <1>s, <3>1, <4>1 DEF SafeToSettle
        <3>4. CASE ~owns[w]
            BY <1>s, <1>1, <3>4 DEF SafeToSettle
        <3> QED
            BY <3>2, <3>3, <3>4
    <2> QED
        BY <2>1, <2>2, <2>3
<1> QED
    BY <1>3, <1>4, <1>5, <1>6

(* Reading the status: a job about to be skipped is completed. *)
LEMMA GetStatusStep ==
    ASSUME NEW K \in SUBSET Jobs, LostWorkInv(K),
           SingleWorker, NEW w \in Workers, GetStatus(w)
    PROVE  WorkInv(K)'
<1> USE DEF LostWorkInv, WorkInv
<1>s. \A v \in Workers : v = w
    BY DEF SingleWorker
<1>t. pc \in [Workers -> PC]
    BY DEF TypeInv, TypeOK
<1>1. /\ UNCHANGED <<jobs, brokerVars, owns, stale, cur>>
      /\ pc[w] = "get_status"
      /\ pc'[w] \in {"requeue", AfterStatus(jobs[CurJob(w)].status)}
    BY <1>t DEF GetStatus, Goto, At
<1>2. /\ pc'[w] \in {"requeue", "park", "skip", "mark_processing"}
      /\ pc'[w] \in {"park", "skip"} => AtRest(CurJob(w))
    BY <1>1 DEF AfterStatus, AtRest
<1>3. OwnsOne' /\ DisownedLive'
    BY <1>1, <1>2, QuietStep
<1>4. Kept(K)'
    BY <1>1 DEF Kept, Live, Holds, brokerVars
<1>5. Copied' /\ SafeToSettle(K)'
    BY <1>s, <1>1, <1>2 DEF Copied, SafeToSettle, AtRest, CurJob
<1> QED
    BY <1>3, <1>4, <1>5

(* Progress never changes what a row's status says. *)
LEMMA ProgressSteps ==
    ASSUME NEW K \in SUBSET Jobs, LostWorkInv(K),
           SingleWorker, NEW w \in Workers,
           ReportProgress(w) \/ WriteProgress(w) \/ EndPipeline(w)
    PROVE  WorkInv(K)'
<1> USE DEF LostWorkInv, WorkInv
<1>s. \A v \in Workers : v = w
    BY DEF SingleWorker
<1>t. pc \in [Workers -> PC] /\ jobs \in [Jobs -> Row]
    BY DEF TypeInv, TypeOK, JobStoreTypeOK
<1>1. /\ UNCHANGED <<brokerVars, owns, stale, cur>>
      /\ \/ UNCHANGED pc
         \/ pc[w] = "run_pipeline" /\ pc'[w] \in {"complete", "publish"}
    BY <1>t DEF ReportProgress, WriteProgress, EndPipeline, At
<1>2. \A j \in Jobs : jobs'[j].status = jobs[j].status
    <2>1. CASE WriteProgress(w)
        <3>1. PICK x \in Write : \/ Update(x.job, UpdateProgress(jobs[x.job], x.progress))
                                 \/ UNCHANGED jobs
            BY <2>1 DEF WriteProgress
        <3>2. x.job \in Jobs /\ x.progress \in 0..FullProgress
            BY DEF Write
        <3>3. UpdateProgress(jobs[x.job], x.progress).status = jobs[x.job].status
            BY <1>t, <3>2 DEF UpdateProgress, Row
        <3> QED
            BY <1>t, <3>1, <3>2, <3>3 DEF Update
    <2>2. CASE ~WriteProgress(w)
        BY <2>2 DEF ReportProgress, EndPipeline
    <2> QED
        BY <2>1, <2>2
<1>3. /\ \A j : Live(j)' <=> Live(j)
      /\ \A j : Elsewhere(j)' <=> Elsewhere(j)
    BY <1>1 DEF Live, Elsewhere, Holds, brokerVars
<1>4. Kept(K)'
    BY <1>2, <1>3 DEF Kept
<1>5. OwnsOne' /\ DisownedLive'
    BY <1>s, <1>1, <1>3 DEF OwnsOne, DisownedLive, brokerVars, CurJob
<1>6. Copied' /\ SafeToSettle(K)'
    BY <1>s, <1>1, <1>2, <1>3 DEF Copied, SafeToSettle, AtRest, CurJob
<1> QED
    BY <1>4, <1>5, <1>6

-----------------------------------------------------------------------------
(* Publishing *)

(* Publishing takes no message away from any job, and a retry copy keeps   *)
(* its own job live whatever becomes of the delivery.                      *)
LEMMA CopyPublished ==
    ASSUME TypeInv, NEW w \in Workers, PublishCopy(w)
    PROVE  /\ UNCHANGED <<jobsQueue, unacked>>
           /\ \A j : Elsewhere(j) => Elsewhere(j)'
           /\ \A j : Live(j) => Live(j)'
           /\ cur' = cur /\ MayRetry(cur[w]) => Elsewhere(CurJob(w))'
<1> USE DEF TypeInv, TypeOK, BrokerTypeOK, Queue
<1>1. CASE MayRetry(cur[w])
    <2>1. PICK m \in Message : /\ m.job = CurJob(w)
                               /\ retryQueue' = [retryQueue EXCEPT ![m] = @ + 1]
                               /\ UNCHANGED <<jobsQueue, deadQueue, unacked>>
        BY <1>1, RetryCopyMessage DEF PublishCopy, PublishRetry, Add, CurJob
    <2>2. /\ \A n \in Message : retryQueue[n] > 0 => retryQueue'[n] > 0
          /\ retryQueue'[m] > 0
        BY <2>1
    <2>3. \A j : Holds(retryQueue, j) => Holds(retryQueue, j)'
        BY <2>2 DEF Holds
    <2>4. cur' = cur => Holds(retryQueue, CurJob(w))'
        BY <2>1, <2>2 DEF Holds, CurJob
    <2>5. \A j : Holds(jobsQueue, j) => Holds(jobsQueue, j)'
        BY <2>1 DEF Holds
    <2> QED
        BY <2>1, <2>3, <2>4, <2>5 DEF Elsewhere, Live
<1>2. CASE ~MayRetry(cur[w])
    BY <1>2 DEF PublishCopy, PublishDead, Elsewhere, Live, Holds
<1> QED
    BY <1>1, <1>2

(* The copy is published, or the publish raises. *)
LEMMA PublishSteps ==
    ASSUME NEW K \in SUBSET Jobs, LostWorkInv(K),
           SingleWorker, NEW w \in Workers,
           PublishFailure(w) \/ PublishRaises(w)
    PROVE  WorkInv(K)'
<1> USE DEF LostWorkInv, WorkInv
<1>s. \A v \in Workers : v = w
    BY DEF SingleWorker
<1>t. pc \in [Workers -> PC]
    BY DEF TypeInv, TypeOK
<1>1. /\ UNCHANGED <<jobs, owns, stale, cur>>
      /\ PublishCopy(w) \/ UNCHANGED brokerVars
      /\ pc[w] = "publish"
      /\ pc'[w] = "requeue" \/ (pc'[w] = "record" /\ PublishCopy(w))
    BY <1>t DEF PublishFailure, PublishRaises, Goto, At
<1>2. /\ UNCHANGED unacked
      /\ \A j : Live(j) => Live(j)'
    BY <1>1, CopyPublished DEF brokerVars, Live, Holds
<1>3. Kept(K)' /\ OwnsOne' /\ DisownedLive'
    BY <1>s, <1>1, <1>2 DEF Kept, OwnsOne, DisownedLive, CurJob
<1>4. Copied' /\ SafeToSettle(K)'
    BY <1>s, <1>1, CopyPublished DEF Copied, SafeToSettle, CurJob
<1> QED
    BY <1>3, <1>4

-----------------------------------------------------------------------------
(* Settling a delivery *)

(* What the broker takes back it still has. *)
LEMMA RequeueKeepsLive ==
    ASSUME TypeInv, SingleWorker, NEW w \in Workers, Requeue(w)
    PROVE  /\ \A j : Live(j) => Live(j)'
           /\ \A m \in unacked[w] : Elsewhere(m.job)'
           /\ unacked'[w] = {}
<1> USE DEF TypeInv, TypeOK, BrokerTypeOK, Queue
<1>s. \A v \in Workers : v = w
    BY DEF SingleWorker
<1>1. /\ \A m \in Message : jobsQueue[m] > 0 => jobsQueue'[m] > 0
      /\ \A m \in unacked[w] : m \in Message /\ jobsQueue'[m] > 0
      /\ UNCHANGED retryQueue
      /\ unacked'[w] = {}
    BY DEF Requeue, AddAll
<1>2. \A m \in unacked[w] : Holds(jobsQueue, m.job)'
    BY <1>1 DEF Holds
<1>3. \A j : Holds(jobsQueue, j) => Holds(jobsQueue, j)'
    BY <1>1 DEF Holds
<1>4. \A j : Holds(retryQueue, j) => Holds(retryQueue, j)'
    BY <1>1 DEF Holds
<1> QED
    BY <1>s, <1>1, <1>2, <1>3, <1>4 DEF Live, Elsewhere

(* Acknowledging, or dead-lettering, the one delivery a handler owns takes *)
(* away nothing but that message.                                          *)
LEMMA DroppedDelivery ==
    ASSUME NEW K \in SUBSET Jobs, LostWorkInv(K),
           SingleWorker, NEW w \in Workers, owns[w],
           Ack(w) \/ DeadLetter(w)
    PROVE  /\ unacked'[w] = {}
           /\ \A j : Live(j) => Live(j)' \/ j = CurJob(w)
           /\ \A j : Elsewhere(j) => Elsewhere(j)' /\ Live(j)'
<1>s. \A v \in Workers : v = w
    BY DEF SingleWorker
<1>1. unacked[w] = {cur[w]}
    BY DEF LostWorkInv, WorkInv, OwnsOne
<1>2. UNCHANGED <<jobsQueue, retryQueue>> /\ unacked'[w] = {}
    BY DEF Ack, DeadLetter, LostWorkInv, TypeInv, TypeOK, BrokerTypeOK
<1> QED
    BY <1>s, <1>1, <1>2 DEF Live, Elsewhere, Holds, CurJob

(* A handler that gives its delivery up and ends keeps the invariant. *)
LEMMA HandlerEnds ==
    ASSUME NEW K \in SUBSET Jobs, LostWorkInv(K),
           SingleWorker, NEW w \in Workers, Leave(w),
           UNCHANGED stale, ~owns'[w], Kept(K)',
           owns[w] \/ \A j : Live(j) => Live(j)'
    PROVE  WorkInv(K)'
<1> USE DEF LostWorkInv, WorkInv
<1>s. \A v \in Workers : v = w
    BY DEF SingleWorker
<1>1. pc'[w] = "idle"
    BY DEF Leave, TypeInv, TypeOK
<1>2. DisownedLive'
    BY <1>s, <1>1 DEF DisownedLive, OwnsOne
<1> QED
    BY <1>s, <1>1, <1>2 DEF OwnsOne, Copied, SafeToSettle

(* Acknowledging is safe where the handler has completed the job, found it *)
(* completed, or published a copy of its message.                          *)
LEMMA AckKeepsWork ==
    ASSUME NEW K \in SUBSET Jobs, LostWorkInv(K),
           SingleWorker, NEW w \in Workers, AckDelivery(w),
           UNCHANGED jobs, pc[w] \in {"ack", "skip", "settle"}
    PROVE  WorkInv(K)'
<1> USE DEF LostWorkInv, WorkInv
<1>1. /\ owns[w] /\ ~owns'[w] /\ Leave(w) /\ UNCHANGED stale
      /\ Ack(w) \/ Requeue(w)
    BY DEF AckDelivery, Disown, Return, TypeInv, TypeOK
<1>2. CurJob(w) \in K => AtRest(CurJob(w)) \/ Elsewhere(CurJob(w))
    BY <1>1 DEF SafeToSettle
<1>3. Kept(K)'
    <2>1. CASE Ack(w)
        BY <1>1, <1>2, <2>1, DroppedDelivery DEF Kept, AtRest
    <2>2. CASE Requeue(w)
        BY <2>2, RequeueKeepsLive DEF Kept
    <2> QED
        BY <1>1, <2>1, <2>2
<1> QED
    BY <1>1, <1>3, HandlerEnds

(* A settle that raises on a lost channel. *)
LEMMA RaisedSettle ==
    ASSUME NEW K \in SUBSET Jobs, LostWorkInv(K),
           SingleWorker, NEW w \in Workers, SettleRaises(w),
           UNCHANGED jobs, pc[w] # "idle",
           \/ \E label \in {"publish", "requeue"} : Goto(w, label)
           \/ Return(w) /\ UNCHANGED owns
    PROVE  WorkInv(K)'
<1> USE DEF LostWorkInv, WorkInv
<1>s. \A v \in Workers : v = w
    BY DEF SingleWorker
<1>1. ~owns[w] /\ UNCHANGED <<brokerVars, owns, stale>>
    BY DEF SettleRaises, Goto, Return
<1>2. Kept(K)' /\ \A j : Live(j) => Live(j)'
    BY <1>1 DEF Kept, Live, Holds, brokerVars
<1>3. CASE Return(w)
    BY <1>1, <1>2, <1>3, HandlerEnds DEF Return
<1>4. CASE \E label \in {"publish", "requeue"} : Goto(w, label)
    <2>1. pc'[w] # "idle" /\ UNCHANGED cur
        BY <1>4 DEF Goto, TypeInv, TypeOK
    <2>2. OwnsOne' /\ DisownedLive'
        BY <1>1, <2>1, QuietStep
    <2> QED
        BY <1>s, <1>1, <1>2, <2>2 DEF Copied, SafeToSettle
<1> QED
    BY <1>3, <1>4

(* Every way a handler settles its delivery. *)
LEMMA SettleSteps ==
    ASSUME NEW K \in SUBSET Jobs, LostWorkInv(K),
           SingleWorker, NEW w \in Workers,
           \/ AckCompleted(w) \/ SkipCompleted(w) \/ SettleFailure(w)
           \/ Park(w) \/ NackRequeue(w)
    PROVE  WorkInv(K)'
<1> USE DEF LostWorkInv, WorkInv
<1>1. CASE AckCompleted(w)
    BY <1>1, AckKeepsWork, RaisedSettle DEF AckCompleted, At
<1>2. CASE SkipCompleted(w)
    BY <1>2, AckKeepsWork, RaisedSettle DEF SkipCompleted, At
<1>3. CASE SettleFailure(w)
    BY <1>3, AckKeepsWork, RaisedSettle DEF SettleFailure, At
<1>4. CASE Park(w)
    <2>1. CASE owns[w] /\ DeadLetter(w) /\ Disown(w)
        <3>1. Kept(K)'
            BY <1>4, <2>1, DroppedDelivery
            DEF Kept, SafeToSettle, AtRest, Park, At
        <3>2. ~owns'[w] /\ Leave(w) /\ UNCHANGED stale
            BY <1>4, <2>1 DEF Disown, Park, Return, TypeInv, TypeOK
        <3> QED
            BY <2>1, <3>1, <3>2, HandlerEnds
    <2>2. CASE SettleRaises(w) /\ UNCHANGED owns
        BY <1>4, <2>2, RaisedSettle DEF Park, At
    <2> QED
        BY <1>4, <2>1, <2>2 DEF Park
<1>5. CASE NackRequeue(w)
    <2>1. CASE owns[w] /\ Requeue(w) /\ Disown(w)
        <3>1. Kept(K)'
            BY <1>5, <2>1, RequeueKeepsLive DEF Kept, NackRequeue
        <3>2. ~owns'[w] /\ Leave(w) /\ UNCHANGED stale
            BY <1>5, <2>1 DEF Disown, NackRequeue, Return, TypeInv, TypeOK
        <3> QED
            BY <2>1, <3>1, <3>2, HandlerEnds
    <2>2. CASE SettleRaises(w) /\ UNCHANGED owns
        BY <1>5, <2>2, RaisedSettle DEF NackRequeue, At
    <2> QED
        BY <1>5, <2>1, <2>2 DEF NackRequeue
<1> QED
    BY <1>1, <1>2, <1>3, <1>4, <1>5

-----------------------------------------------------------------------------
(* Deliveries, connections and processes *)

(* A handler begins with a delivery of its own, or with a lost one. *)
LEMMA BeginStep ==
    ASSUME NEW K \in SUBSET Jobs, LostWorkInv(K),
           SingleWorker, NEW w \in Workers, Begin(w)
    PROVE  WorkInv(K)'
<1> USE DEF LostWorkInv, WorkInv
<1>s. \A v \in Workers : v = w
    BY DEF SingleWorker
<1>t. /\ pc \in [Workers -> PC] /\ cur \in [Workers -> Message]
      /\ owns \in [Workers -> BOOLEAN] /\ stale \in [Workers -> SUBSET Message]
      /\ unacked \in [Workers -> SUBSET Message]
    BY DEF TypeInv, TypeOK, BrokerTypeOK
<1>1. PICK m \in Message :
         /\ \/ /\ stale[w] = {}
               /\ ~owns[w]
               /\ m \in unacked[w]
               /\ owns' = [owns EXCEPT ![w] = TRUE]
               /\ UNCHANGED stale
            \/ /\ m \in stale[w]
               /\ stale' = [stale EXCEPT ![w] = @ \ {m}]
               /\ UNCHANGED owns
         /\ cur' = [cur EXCEPT ![w] = m]
         /\ pc' = [pc EXCEPT ![w] = IF m.job = NoJob THEN "park" ELSE "get_status"]
    BY DEF Begin
<1>2. UNCHANGED <<jobs, brokerVars>>
    BY DEF Begin
<1>3. \A j : (Live(j)' <=> Live(j)) /\ (Elsewhere(j)' <=> Elsewhere(j))
    BY <1>2 DEF Live, Elsewhere, Holds, brokerVars
<1>4. Kept(K)'
    BY <1>2, <1>3 DEF Kept
<1>5. m.job = NoJob => m.job \notin Jobs
    BY ContractAssumption
<1>6. cur'[w] = m /\ pc'[w] \in {"park", "get_status"} /\ (pc'[w] = "park" => m.job = NoJob)
    BY <1>1, <1>t
<1>7. Copied' /\ SafeToSettle(K)'
    BY <1>s, <1>5, <1>6 DEF Copied, SafeToSettle, CurJob
<1>8. OwnsOne' /\ DisownedLive'
    <2>1. CASE m \in unacked[w] /\ stale[w] = {} /\ owns' = [owns EXCEPT ![w] = TRUE] /\ UNCHANGED stale
        <3>1. unacked[w] = {m}
            BY <1>t, <2>1 DEF OneDelivery
        <3> QED
            BY <1>s, <1>t, <1>2, <1>6, <2>1, <3>1 DEF OwnsOne, DisownedLive, brokerVars
    <2>2. CASE m \in stale[w] /\ stale' = [stale EXCEPT ![w] = @ \ {m}] /\ UNCHANGED owns
        <3>1. ~owns[w] /\ Live(m.job)
            BY <2>2 DEF OwnsOne, DisownedLive
        <3> QED
            BY <1>s, <1>t, <1>3, <1>6, <2>2, <3>1 DEF OwnsOne, DisownedLive, CurJob
    <2> QED
        BY <1>1, <2>1, <2>2
<1> QED
    BY <1>4, <1>7, <1>8

(* A delivery moves a message from the queue to the channel. *)
LEMMA ConsumeStep ==
    ASSUME NEW K \in SUBSET Jobs, LostWorkInv(K),
           SingleWorker, NEW w \in Workers, Consume(w)
    PROVE  WorkInv(K)'
<1> USE DEF LostWorkInv, WorkInv
<1>s. \A v \in Workers : v = w
    BY DEF SingleWorker
<1>t. /\ jobsQueue \in [Message -> Nat] /\ unacked \in [Workers -> SUBSET Message]
    BY DEF TypeInv, TypeOK, BrokerTypeOK, Queue
<1>1. PICK m \in Message :
         /\ jobsQueue[m] > 0
         /\ jobsQueue' = [jobsQueue EXCEPT ![m] = @ - 1]
         /\ unacked' = [unacked EXCEPT ![w] = {m}]
    BY DEF Consume, Deliver, Remove
<1>2. unacked[w] = {} /\ UNCHANGED <<jobs, retryQueue, workerVars>>
    BY DEF Consume, Deliver
<1>3. ~owns[w]
    BY <1>2 DEF OwnsOne
<1>4. \A j : Live(j) => Live(j)'
    <2> SUFFICES ASSUME NEW j, Live(j) PROVE Live(j)'
        OBVIOUS
    <2>1. CASE j = m.job
        BY <1>1, <1>t, <2>1 DEF Live
    <2>2. CASE j # m.job
        <3>1. \A n \in Message : n.job = j => jobsQueue'[n] = jobsQueue[n]
            BY <1>1, <1>t, <2>2
        <3> QED
            BY <1>s, <1>2, <3>1 DEF Live, Holds
    <2> QED
        BY <2>1, <2>2
<1>5. Kept(K)'
    BY <1>2, <1>4 DEF Kept
<1>6. OwnsOne' /\ DisownedLive'
    BY <1>s, <1>2, <1>3, <1>4 DEF OwnsOne, DisownedLive, workerVars, CurJob
<1>7. Copied' /\ SafeToSettle(K)'
    BY <1>s, <1>2, <1>3 DEF Copied, SafeToSettle, workerVars
<1> QED
    BY <1>5, <1>6, <1>7

(* A lost channel gives the delivery back, whether its handler runs on or  *)
(* is cancelled.                                                           *)
LEMMA DisconnectStep ==
    ASSUME NEW K \in SUBSET Jobs, LostWorkInv(K),
           SingleWorker, NEW w \in Workers, Disconnect(w)
    PROVE  WorkInv(K)'
<1> USE DEF LostWorkInv, WorkInv
<1>s. \A v \in Workers : v = w
    BY DEF SingleWorker
<1>t. /\ pc \in [Workers -> PC] /\ cur \in [Workers -> Message]
      /\ owns \in [Workers -> BOOLEAN] /\ stale \in [Workers -> SUBSET Message]
    BY DEF TypeInv, TypeOK
<1>1. Requeue(w) /\ UNCHANGED jobs /\ ~owns'[w]
    BY <1>t DEF Disconnect, Disown
<1>2. /\ \A j : Live(j) => Live(j)'
      /\ \A m \in unacked[w] : Live(m.job)'
    BY <1>1, RequeueKeepsLive DEF Live, Elsewhere
<1>3. Kept(K)'
    BY <1>1, <1>2 DEF Kept
<1>4. DisownedLive'
    <2>1. CASE RunOn(w)
        <3>1. UNCHANGED <<pc, cur>> /\ stale'[w] \subseteq stale[w] \cup unacked[w]
            BY <1>t, <2>1 DEF RunOn
        <3>2. pc[w] # "idle" => Live(CurJob(w))'
            BY <1>2, <3>1, OwnedLive DEF CurJob
        <3> QED
            BY <1>s, <1>2, <3>1, <3>2 DEF DisownedLive
    <2>2. CASE Cancel(w)
        <3>1. UNCHANGED stale /\ (pc'[w] = "idle" \/ (~owns[w] /\ UNCHANGED <<pc, cur>>))
            BY <1>t, <2>2 DEF Cancel, Leave
        <3> QED
            BY <1>s, <1>2, <3>1 DEF DisownedLive, CurJob
    <2> QED
        BY <2>1, <2>2 DEF Disconnect
<1>5. OwnsOne' /\ Copied' /\ SafeToSettle(K)'
    BY <1>s, <1>1 DEF OwnsOne, Copied, SafeToSettle
<1> QED
    BY <1>3, <1>4, <1>5

(* A dying process gives its delivery back. *)
LEMMA DieStep ==
    ASSUME NEW K \in SUBSET Jobs, LostWorkInv(K),
           SingleWorker, NEW w \in Workers, Die(w)
    PROVE  WorkInv(K)'
<1> USE DEF LostWorkInv, WorkInv
<1>s. \A v \in Workers : v = w
    BY DEF SingleWorker
<1>1. /\ Requeue(w) /\ UNCHANGED jobs
      /\ ~owns'[w] /\ pc'[w] = "idle" /\ stale'[w] = {}
    BY DEF Die, Disown, Leave, TypeInv, TypeOK
<1>2. Kept(K)'
    BY <1>1, RequeueKeepsLive DEF Kept
<1> QED
    BY <1>s, <1>1, <1>2 DEF OwnsOne, DisownedLive, Copied, SafeToSettle

(* An expired retry moves to the work queue. *)
LEMMA ExpireStep ==
    ASSUME NEW K \in SUBSET Jobs, LostWorkInv(K),
           Expire
    PROVE  WorkInv(K)'
<1> USE DEF LostWorkInv, WorkInv
<1>t. jobsQueue \in [Message -> Nat] /\ retryQueue \in [Message -> Nat]
    BY DEF TypeInv, TypeOK, BrokerTypeOK, Queue
<1>1. PICK m \in Message :
         /\ retryQueue' = [retryQueue EXCEPT ![m] = @ - 1]
         /\ jobsQueue' = [jobsQueue EXCEPT ![m] = @ + 1]
         /\ UNCHANGED <<deadQueue, unacked>>
    BY DEF Expire, ExpireMessage, Remove, Add
<1>2. \A j : Elsewhere(j) => Elsewhere(j)'
    <2> SUFFICES ASSUME NEW j, Elsewhere(j) PROVE Elsewhere(j)'
        OBVIOUS
    <2>1. PICK n \in Message : n.job = j /\ (jobsQueue[n] > 0 \/ retryQueue[n] > 0)
        BY DEF Elsewhere, Holds
    <2>2. jobsQueue'[n] > 0 \/ retryQueue'[n] > 0
        BY <1>t, <1>1, <2>1
    <2> QED
        BY <2>1, <2>2 DEF Elsewhere, Holds
<1>3. \A j : Live(j) => Live(j)'
    BY <1>1, <1>2 DEF Live, Elsewhere
<1>4. UNCHANGED <<jobs, workerVars, unacked>>
    BY <1>1 DEF Expire
<1> QED
    BY <1>2, <1>3, <1>4 DEF Kept, OwnsOne, DisownedLive, Copied, SafeToSettle,
        workerVars, CurJob, AtRest

(* A channel holds one unsettled delivery at most. *)
LEMMA OneDeliveryStep ==
    ASSUME TypeInv, OneDelivery, [Next]_vars
    PROVE  OneDelivery'
<1>t. unacked \in [Workers -> SUBSET Message]
    BY DEF TypeInv, TypeOK, BrokerTypeOK
<1> DEFINE Goal == \/ UNCHANGED unacked
                   \/ \E w \in Workers : \E S \in {{}} \cup {{m} : m \in Message} :
                         unacked' = [unacked EXCEPT ![w] = S]
<1>a. ASSUME NEW w \in Workers, Ack(w) \/ Requeue(w) \/ DeadLetter(w) PROVE Goal
    BY <1>a DEF Ack, Requeue, DeadLetter
<1>b. ASSUME NEW w \in Workers, PublishCopy(w) PROVE Goal
    BY <1>b DEF PublishCopy, PublishRetry, PublishDead
<1>c. ASSUME NEW w \in Workers, AckDelivery(w) PROVE Goal
    BY <1>a, <1>c DEF AckDelivery
<1>1. ASSUME NEW w \in Workers, Handler(w) PROVE Goal
    <2>1. \/ Ack(w) \/ Requeue(w) \/ DeadLetter(w) \/ PublishCopy(w) \/ AckDelivery(w)
          \/ UNCHANGED unacked
        BY <1>1 DEF Handler, Begin, GetStatus, MarkAttempt, EndPipeline, Complete,
            AckCompleted, SkipCompleted, Park, PublishFailure, PublishRaises,
            RecordFailure, SettleFailure, NackRequeue, SettleRaises, brokerVars
    <2> QED
        BY <1>a, <1>b, <1>c, <2>1
<1>2. ASSUME NEW w \in Workers, Consume(w) PROVE Goal
    BY <1>2 DEF Consume, Deliver
<1>3. ASSUME NEW w \in Workers, Process(w), ~Consume(w) PROVE Goal
    <2>1. Requeue(w) \/ UNCHANGED unacked
        BY <1>3 DEF Process, Disconnect, Crash, Stop, Exit, Restart, Die, brokerVars
    <2> QED
        BY <1>a, <2>1
<1>4. ASSUME NEW w \in Workers, ReportProgress(w) \/ WriteProgress(w) PROVE Goal
    BY <1>4 DEF ReportProgress, WriteProgress, brokerVars
<1>5. Expire \/ UNCHANGED vars => Goal
    BY DEF Expire, ExpireMessage, vars, brokerVars
<1>6. Goal
    BY <1>1, <1>2, <1>3, <1>4, <1>5 DEF Next
<1> QED
    BY <1>t, <1>6 DEF OneDelivery

(* One case per step of the worker and its surroundings. *)
LEMMA WorkStep ==
    ASSUME NEW K \in SUBSET Jobs, LostWorkInv(K),
           SingleWorker, [Next]_vars
    PROVE  WorkInv(K)'
<1>1. ASSUME NEW w \in Workers, Handler(w) PROVE WorkInv(K)'
    BY <1>1, BeginStep, GetStatusStep, StatementSteps, ProgressSteps, SettleSteps,
       PublishSteps DEF Handler
<1>2. ASSUME NEW w \in Workers, ReportProgress(w) \/ WriteProgress(w) PROVE WorkInv(K)'
    BY <1>2, ProgressSteps
<1>3. ASSUME NEW w \in Workers, Process(w) PROVE WorkInv(K)'
    <2>1. Stop(w) \/ Restart(w) => UNCHANGED <<jobs, brokerVars, pc, cur, owns, stale>>
        BY DEF Stop, Restart
    <2>2. Stop(w) \/ Restart(w) => WorkInv(K)'
        BY <2>1 DEF LostWorkInv, WorkInv, Kept, OwnsOne, DisownedLive, Copied,
            SafeToSettle, AtRest, Elsewhere, Live, Holds, CurJob, brokerVars
    <2> QED
        BY <1>3, <2>2, ConsumeStep, DisconnectStep, DieStep DEF Process, Crash, Exit
<1>4. UNCHANGED vars => WorkInv(K)'
    BY DEF LostWorkInv, WorkInv, Kept, OwnsOne, DisownedLive, Copied,
        SafeToSettle, AtRest, Elsewhere, Live, Holds, CurJob, vars, brokerVars, workerVars
<1> QED
    BY <1>1, <1>2, <1>3, <1>4, ExpireStep DEF Next

(* Every job has its message on the work queue, or no row. *)
LEMMA InitWork == Init => LostWorkInv(Jobs)
<1> SUFFICES ASSUME Init PROVE LostWorkInv(Jobs)
    OBVIOUS
<1>1. TypeInv
    BY InitType
<1>2. OneDelivery /\ OwnsOne /\ DisownedLive /\ Copied /\ SafeToSettle(Jobs)
    BY DEF Init, WorkerInit, OneDelivery, OwnsOne, DisownedLive, Copied, SafeToSettle
<1>3. ASSUME NEW j \in Jobs PROVE Live(j)
    <2>1. JobMessage(j) \in Message /\ JobMessage(j).job = j
        BY ContractAssumption DEF JobMessage, Message, Corrupt
    <2>2. jobsQueue[JobMessage(j)] = 1
        BY <2>1 DEF Init, WorkerInit, AddAll, EmptyQueue
    <2> QED
        BY <2>1, <2>2 DEF Live, Holds
<1> QED
    BY <1>1, <1>2, <1>3 DEF LostWorkInv, WorkInv, Kept

(***************************************************************************)
(* With one worker, a job that a client sees as queued or processing has a *)
(* message on its way: through every retry, redelivery, failing statement, *)
(* refused publish, lost channel, crash and shutdown.                      *)
(***************************************************************************)
THEOREM SingleWorkerLosesNothing ==
    ASSUME SingleWorker
    PROVE  Spec => []NoLostWork
<1>1. Init => LostWorkInv(Jobs)
    BY InitWork
<1>2. LostWorkInv(Jobs) /\ [Next]_vars => LostWorkInv(Jobs)'
    BY NextType, OneDeliveryStep, WorkStep DEF LostWorkInv
<1>3. LostWorkInv(Jobs) => NoLostWork
    BY DEF LostWorkInv, WorkInv, Kept, NoLostWork
<1> QED
    BY <1>1, <1>2, <1>3, PTL DEF Spec

-----------------------------------------------------------------------------
(* The life of a job *)

(* No connection is lost, and no statement: only processes end, and the    *)
(* broker refuses messages.                                                *)
CalmFaults == Faults \subseteq {"crash", "stop", "refused"}

(* What a handler has read of its row is still so when it acts on it.      *)
RowAsFound ==
    \A w \in Workers :
        /\ pc[w] # "idle" => owns[w]
        /\ stale[w] = {}
        /\ pc[w] = "mark_processing" =>
              jobs[CurJob(w)].status \in {"queued", "processing", "failed"}
        /\ pc[w] \in {"run_pipeline", "complete", "publish", "record"} =>
              jobs[CurJob(w)].status = "processing"
        /\ pc[w] = "park" /\ CurJob(w) \in Jobs => jobs[CurJob(w)].status = "absent"

LifeInv == LostWorkInv({}) /\ AttemptInv /\ ParkedFirst /\ RowAsFound

(* The invariant behind the refinement holds of a fresh queue.             *)
LEMMA LifeInit == CountedFaults /\ Init => LifeInv
<1> SUFFICES ASSUME CountedFaults, Init PROVE LifeInv
    OBVIOUS
<1>1. LostWorkInv({})
    BY InitWork DEF LostWorkInv, WorkInv, SafeToSettle, Kept
<1>2. AttemptInv
    BY InitAttempt
<1>3. ParkedFirst /\ RowAsFound
    BY DEF Init, WorkerInit, ParkedFirst, RowAsFound
<1> QED
    BY <1>1, <1>2, <1>3 DEF LifeInv

(* The statement of a handler takes effect, or is not executed at all.     *)
LEMMA OwnRow ==
    ASSUME TypeInv, CalmFaults, NEW w \in Workers, CurJob(w) \in Jobs,
           NEW row, NEW done, NEW raised, Statement(w, row, done, raised),
           jobs[CurJob(w)].status # "absent"
    PROVE  /\ jobs' = [jobs EXCEPT ![CurJob(w)] = row]
           /\ Goto(w, done)
    BY DEF Statement, Spend, CalmFaults, Update, TypeInv, TypeOK, JobStoreTypeOK

(* The one worker's handler. *)
LEMMA RowAsFoundHandler ==
    ASSUME LifeInv, SingleWorker, CalmFaults, NEW w \in Workers, Handler(w)
    PROVE  RowAsFound'
<1>s. \A v \in Workers : v = w
    BY DEF SingleWorker
<1>t. /\ pc \in [Workers -> PC] /\ owns \in [Workers -> BOOLEAN]
      /\ cur \in [Workers -> Message] /\ stale \in [Workers -> SUBSET Message]
      /\ jobs \in [Jobs -> Row]
      /\ TypeInv /\ NoJob \notin Jobs
    BY ContractAssumption
    DEF LifeInv, LostWorkInv, TypeInv, TypeOK, JobStoreTypeOK
<1>f. /\ pc[w] # "idle" => owns[w]
      /\ stale[w] = {}
      /\ pc[w] = "mark_processing" =>
            jobs[CurJob(w)].status \in {"queued", "processing", "failed"}
      /\ pc[w] \in {"run_pipeline", "complete", "publish", "record"} =>
            jobs[CurJob(w)].status = "processing"
      /\ pc[w] = "park" /\ CurJob(w) \in Jobs => jobs[CurJob(w)].status = "absent"
    BY DEF LifeInv, RowAsFound
<1>j. pc[w] \notin {"idle", "park"} => CurJob(w) \in Jobs
    BY <1>t DEF TypeInv, HandlerOK
<1>1. CASE Begin(w)
    <2>1. /\ owns'[w] /\ UNCHANGED <<stale, jobs>>
          /\ pc'[w] \in {"park", "get_status"}
          /\ pc'[w] = "park" => cur'[w].job = NoJob
        BY <1>t, <1>f, <1>1 DEF Begin, At
    <2> QED
        BY <1>s, <1>t, <1>f, <2>1 DEF RowAsFound, CurJob
<1>2. CASE GetStatus(w)
    <2>1. /\ UNCHANGED <<jobs, owns, stale, cur>> /\ owns[w]
          /\ pc'[w] = AfterStatus(jobs[CurJob(w)].status)
        BY <1>t, <1>f, <1>2 DEF GetStatus, At, Goto, Spend, CalmFaults
    <2>2. jobs[CurJob(w)].status \in Status \cup {"absent"}
        BY <1>t, <1>j, <1>2 DEF GetStatus, At, Row
    <2>3. /\ pc'[w] \in {"park", "skip", "mark_processing"}
          /\ pc'[w] = "park" => jobs[CurJob(w)].status = "absent"
          /\ pc'[w] = "mark_processing" =>
                jobs[CurJob(w)].status \in {"queued", "processing", "failed"}
        BY <2>1, <2>2 DEF AfterStatus, Status
    <2> QED
        BY <1>s, <1>f, <2>1, <2>3 DEF RowAsFound, CurJob
<1>3. CASE MarkAttempt(w)
    <2>1. pc[w] = "mark_processing" /\ CurJob(w) \in Jobs
        BY <1>j, <1>3 DEF MarkAttempt, At
    <2>2. /\ jobs' = [jobs EXCEPT ![CurJob(w)] = MarkProcessing(jobs[CurJob(w)])]
          /\ Goto(w, "run_pipeline")
        BY <1>t, <1>f, <1>3, <2>1, OwnRow DEF MarkAttempt
    <2>3. /\ UNCHANGED <<stale, cur, owns>> /\ owns[w] /\ pc'[w] = "run_pipeline"
          /\ jobs'[CurJob(w)].status = "processing"
        BY <1>t, <1>f, <2>1, <2>2 DEF Goto, MarkProcessing, Row
    <2> QED
        BY <1>s, <1>f, <2>3 DEF RowAsFound, CurJob
<1>4. CASE EndPipeline(w)
    BY <1>s, <1>t, <1>f, <1>4 DEF EndPipeline, At, RowAsFound, CurJob
<1>5. CASE Complete(w) \/ RecordFailure(w)
    <2>1. pc[w] \in {"complete", "record"} /\ CurJob(w) \in Jobs
        BY <1>j, <1>5 DEF Complete, RecordFailure, At
    <2>2. Goto(w, "ack") \/ Goto(w, "settle")
        BY <1>t, <1>f, <1>5, <2>1, OwnRow DEF Complete, RecordFailure
    <2>3. UNCHANGED <<stale, cur, owns>> /\ owns[w] /\ pc'[w] \in {"ack", "settle"}
        BY <1>t, <1>f, <2>1, <2>2 DEF Goto
    <2> QED
        BY <1>s, <1>f, <2>3 DEF RowAsFound, CurJob
<1>6. CASE AckCompleted(w) \/ SkipCompleted(w) \/ Park(w) \/ SettleFailure(w) \/ NackRequeue(w)
    <2>1. owns[w]
        BY <1>f, <1>6 DEF AckCompleted, SkipCompleted, Park, SettleFailure, NackRequeue, At
    <2>2. pc'[w] = "idle" /\ UNCHANGED stale
        BY <1>t, <1>6, <2>1 DEF AckCompleted, SkipCompleted, Park, SettleFailure,
           NackRequeue, AckDelivery, SettleRaises, Return, Leave
    <2> QED
        BY <1>s, <1>f, <2>2 DEF RowAsFound
<1>7. CASE PublishFailure(w) \/ PublishRaises(w)
    <2>1. /\ pc[w] = "publish" /\ owns[w]
          /\ UNCHANGED <<jobs, stale, cur, owns>> /\ pc'[w] \in {"record", "requeue"}
        BY <1>t, <1>f, <1>7 DEF PublishFailure, PublishRaises, At, Goto
    <2> QED
        BY <1>s, <1>f, <2>1 DEF RowAsFound, CurJob
<1> QED
    BY <1>1, <1>2, <1>3, <1>4, <1>5, <1>6, <1>7 DEF Handler

(* Nothing besides the handler changes a status, and it has the one        *)
(* delivery until it ends.                                                 *)
LEMMA RowAsFoundStep ==
    ASSUME LifeInv, SingleWorker, CalmFaults, [Next]_vars
    PROVE  RowAsFound'
<1>t. /\ pc \in [Workers -> PC] /\ jobs \in [Jobs -> Row] /\ TypeInv
    BY DEF LifeInv, LostWorkInv, TypeInv, TypeOK, JobStoreTypeOK
<1>1. ASSUME NEW w \in Workers, Handler(w) PROVE RowAsFound'
    BY <1>1, RowAsFoundHandler
<1>2. ASSUME NEW w \in Workers, ReportProgress(w) PROVE RowAsFound'
    BY <1>2 DEF ReportProgress, LifeInv, RowAsFound, CurJob
<1>3. ASSUME NEW w \in Workers, WriteProgress(w) PROVE RowAsFound'
    <2>1. \A j \in Jobs : jobs'[j].status = jobs[j].status
        <3>1. PICK x \in Write : \/ Update(x.job, UpdateProgress(jobs[x.job], x.progress))
                                 \/ UNCHANGED jobs
            BY <1>3 DEF WriteProgress
        <3>2. x.job \in Jobs /\ UpdateProgress(jobs[x.job], x.progress).status = jobs[x.job].status
            BY <1>t DEF Write, UpdateProgress, Row
        <3> QED
            BY <1>t, <3>1, <3>2 DEF Update
    <2>2. UNCHANGED <<pc, cur, owns, stale>>
        BY <1>3 DEF WriteProgress
    <2>3. \A w1 \in Workers : pc[w1] \notin {"idle", "park"} => CurJob(w1) \in Jobs
        BY <1>t DEF TypeInv, HandlerOK
    <2> QED
        BY <2>1, <2>2, <2>3 DEF LifeInv, RowAsFound, CurJob
<1>4. ASSUME NEW w \in Workers, Crash(w) \/ Exit(w) PROVE RowAsFound'
    <2>1. \A v \in Workers : v = w
        BY DEF SingleWorker
    <2>2. pc'[w] = "idle" /\ stale'[w] = {}
        BY <1>t, <1>4 DEF Crash, Exit, Die, Leave, TypeInv, TypeOK
    <2> QED
        BY <2>1, <2>2 DEF RowAsFound
<1>5. ASSUME NEW w \in Workers, Consume(w) \/ Stop(w) \/ Restart(w) PROVE RowAsFound'
    BY <1>5 DEF Consume, Stop, Restart, workerVars, LifeInv, RowAsFound, CurJob
<1>6. ASSUME NEW w \in Workers, Disconnect(w) PROVE FALSE
    BY <1>6 DEF Disconnect, Spend, CalmFaults
<1>7. Expire \/ UNCHANGED vars => RowAsFound'
    BY DEF Expire, vars, workerVars, LifeInv, RowAsFound, CurJob
<1> QED
    BY <1>1, <1>2, <1>3, <1>4, <1>5, <1>6, <1>7 DEF Next, Process

(* Every step of a single worker keeps it, whatever fails.                 *)
LEMMA LifeStep ==
    ASSUME SingleWorker, CountedFaults, CalmFaults
    PROVE  LifeInv /\ [Next]_vars => LifeInv'
<1> SUFFICES ASSUME LifeInv, [Next]_vars PROVE LifeInv'
    OBVIOUS
<1>1. LostWorkInv({})'
    <2>1. {} \in SUBSET Jobs /\ LostWorkInv({})
        BY DEF LifeInv
    <2>2. TypeInv' /\ OneDelivery'
        BY <2>1, NextType, OneDeliveryStep DEF LostWorkInv
    <2>3. WorkInv({})'
        BY <2>1, WorkStep
    <2> QED
        BY <2>2, <2>3 DEF LostWorkInv
<1>2. AttemptInv'
    BY NextType, MessagesCountedStep, AttemptCountedStep, FailedStep DEF LifeInv, AttemptInv
<1>3. ParkedFirst'
    BY ParkedFirstStep DEF LifeInv, AttemptInv
<1> QED
    BY <1>1, <1>2, <1>3, RowAsFoundStep DEF LifeInv

-----------------------------------------------------------------------------
(* The steps of the promise *)

(* What a message added to the dead-letter queue parks. *)
LEMMA DeadAdd ==
    ASSUME TypeInv, NEW m \in Message,
           deadQueue' = Add(deadQueue, m) \/ deadQueue' = AddAll(deadQueue, {m})
    PROVE  \A j \in Jobs : Holds(deadQueue, j)' <=> Holds(deadQueue, j) \/ j = m.job
<1>1. deadQueue \in [Message -> Nat]
    BY DEF TypeInv, TypeOK, BrokerTypeOK, Queue
<1>2. \A n \in Message : deadQueue'[n] > 0 <=> deadQueue[n] > 0 \/ n = m
    BY <1>1 DEF Add, AddAll
<1> QED
    BY <1>2 DEF Holds

(* A step that parks no message and keeps every status and attempt. *)
LEMMA Stutters ==
    ASSUME UNCHANGED deadQueue,
           \A j \in Jobs : /\ jobs'[j].status = jobs[j].status
                           /\ jobs'[j].attempts = jobs[j].attempts
    PROVE  UNCHANGED Lifecycle!vars
<1>1. [j \in Jobs |-> jobs'[j].status] = [j \in Jobs |-> jobs[j].status]
    OBVIOUS
<1>2. [j \in Jobs |-> jobs'[j].attempts] = [j \in Jobs |-> jobs[j].attempts]
    OBVIOUS
<1>3. {j \in Jobs : Holds(deadQueue, j)}' = {j \in Jobs : Holds(deadQueue, j)}
    BY DEF Holds
<1> QED
    BY <1>1, <1>2, <1>3 DEF Lifecycle!vars

(* What a step that writes one row does to what the promise is about. *)
LEMMA RowChanges ==
    ASSUME TypeInv, UNCHANGED deadQueue, NEW i \in Jobs, NEW row \in Row,
           jobs' = [jobs EXCEPT ![i] = row]
    PROVE  /\ [j \in Jobs |-> jobs'[j].status]
                 = [[j \in Jobs |-> jobs[j].status] EXCEPT ![i] = row.status]
           /\ [j \in Jobs |-> jobs'[j].attempts]
                 = [[j \in Jobs |-> jobs[j].attempts] EXCEPT ![i] = row.attempts]
           /\ {j \in Jobs : Holds(deadQueue, j)}' = {j \in Jobs : Holds(deadQueue, j)}
<1>1. jobs \in [Jobs -> Row]
    BY DEF TypeInv, TypeOK, JobStoreTypeOK
<1>2. {j \in Jobs : Holds(deadQueue, j)}' = {j \in Jobs : Holds(deadQueue, j)}
    BY DEF Holds
<1> QED
    BY <1>1, <1>2

(* A step that parks the message of a job whose row allows it. *)
LEMMA Parks ==
    ASSUME TypeInv, UNCHANGED jobs, NEW m \in Message,
           deadQueue' = Add(deadQueue, m) \/ deadQueue' = AddAll(deadQueue, {m}),
           m.job \in Jobs =>
               \/ jobs[m.job].status = "absent"
               \/ jobs[m.job].status = "processing" /\ jobs[m.job].attempts > MaxRetries
    PROVE  [Lifecycle!Next]_(Lifecycle!vars)
<1>1. \A j \in Jobs : Holds(deadQueue, j)' <=> Holds(deadQueue, j) \/ j = m.job
    BY DeadAdd
<1>2. UNCHANGED <<[j \in Jobs |-> jobs[j].status], [j \in Jobs |-> jobs[j].attempts]>>
    OBVIOUS
<1>3. CASE m.job \in Jobs
    <2>1. {j \in Jobs : Holds(deadQueue, j)}'
             = {j \in Jobs : Holds(deadQueue, j)} \cup {m.job}
        BY <1>1, <1>3
    <2>2. Lifecycle!Park(m.job)
        BY <1>2, <1>3, <2>1 DEF Lifecycle!Park
    <2> QED
        BY <1>3, <2>2 DEF Lifecycle!Next
<1>4. CASE m.job \notin Jobs
    <2>1. {j \in Jobs : Holds(deadQueue, j)}' = {j \in Jobs : Holds(deadQueue, j)}
        BY <1>1, <1>4
    <2> QED
        BY <1>2, <2>1 DEF Lifecycle!vars
<1> QED
    BY <1>3, <1>4

(* Every step of the handler is a step of the promise, or none.            *)
LEMMA LifecycleHandler ==
    ASSUME LifeInv, SingleWorker, CalmFaults, NEW w \in Workers, Handler(w)
    PROVE  [Lifecycle!Next]_(Lifecycle!vars)
<1>t. /\ TypeInv /\ jobs \in [Jobs -> Row] /\ cur \in [Workers -> Message]
      /\ unacked \in [Workers -> SUBSET Message]
    BY DEF LifeInv, LostWorkInv, TypeInv, TypeOK, JobStoreTypeOK, BrokerTypeOK
<1>j. pc[w] \notin {"idle", "park"} => CurJob(w) \in Jobs /\ jobs[CurJob(w)] \in Row
    BY <1>t DEF TypeInv, HandlerOK
<1>f. /\ pc[w] # "idle" => owns[w] /\ unacked[w] = {cur[w]}
      /\ pc[w] = "mark_processing" =>
            jobs[CurJob(w)].status \in {"queued", "processing", "failed"}
      /\ pc[w] \in {"run_pipeline", "complete", "publish", "record"} =>
            jobs[CurJob(w)].status = "processing"
      /\ pc[w] = "park" /\ CurJob(w) \in Jobs => jobs[CurJob(w)].status = "absent"
    BY DEF LifeInv, RowAsFound, LostWorkInv, WorkInv, OwnsOne
<1>a. pc[w] \in {"publish", "record"} /\ ~MayRetry(cur[w])
          => jobs[CurJob(w)].attempts > MaxRetries
    <2> SUFFICES ASSUME pc[w] \in {"publish", "record"}, ~MayRetry(cur[w])
                 PROVE  jobs[CurJob(w)].attempts > MaxRetries
        OBVIOUS
    <2>1. RetryCount(cur[w]) < jobs[CurJob(w)].attempts
        BY DEF LifeInv, AttemptInv, AttemptCounted, Found
    <2>2. RetryCount(cur[w]) >= MaxRetries /\ RetryCount(cur[w]) \in Nat
        BY <1>t, ContractAssumption DEF MayRetry, RetryCount, Message, Corrupt
    <2>3. jobs[CurJob(w)].attempts \in Nat
        BY <1>j DEF Row
    <2> QED
        BY <2>1, <2>2, <2>3, ContractAssumption
<1>1. CASE Begin(w) \/ GetStatus(w) \/ EndPipeline(w)
    <2>1. UNCHANGED <<jobs, deadQueue>>
        BY <1>1 DEF Begin, GetStatus, EndPipeline, brokerVars
    <2> QED
        BY <2>1, Stutters
<1>2. CASE MarkAttempt(w)
    <2> DEFINE row == MarkProcessing(jobs[CurJob(w)])
    <2>1. pc[w] = "mark_processing" /\ CurJob(w) \in Jobs /\ jobs[CurJob(w)] \in Row
          /\ UNCHANGED deadQueue
        BY <1>j, <1>2 DEF MarkAttempt, At, brokerVars
    <2>2. jobs' = [jobs EXCEPT ![CurJob(w)] = row]
        BY <1>t, <1>f, <1>2, <2>1, OwnRow DEF MarkAttempt
    <2>3. /\ row \in Row /\ row.status = "processing"
          /\ row.attempts = jobs[CurJob(w)].attempts + 1
        BY <2>1, RowType, JobStoreAssumption DEF MarkProcessing, Row
    <2> HIDE DEF row
    <2>4. ASSUME NEW i \in Jobs, i = CurJob(w) PROVE Lifecycle!Start(i)
        BY <2>4, <1>t, <1>f, <2>1, <2>2, <2>3, RowChanges DEF Lifecycle!Start, Lifecycle!Become
    <2> QED
        BY <2>1, <2>4 DEF Lifecycle!Next
<1>3. CASE Complete(w)
    <2> DEFINE row == CompleteRow(jobs[CurJob(w)])
    <2>1. pc[w] = "complete" /\ CurJob(w) \in Jobs /\ jobs[CurJob(w)] \in Row
          /\ UNCHANGED deadQueue
        BY <1>j, <1>3 DEF Complete, At, brokerVars
    <2>2. jobs' = [jobs EXCEPT ![CurJob(w)] = row]
        BY <1>t, <1>f, <1>3, <2>1, OwnRow DEF Complete
    <2>3. /\ row \in Row /\ row.status = "completed"
          /\ row.attempts = jobs[CurJob(w)].attempts
        BY <2>1, RowType, JobStoreAssumption DEF CompleteRow, Row
    <2> HIDE DEF row
    <2>4. ASSUME NEW i \in Jobs, i = CurJob(w) PROVE Lifecycle!Finish(i)
        BY <2>4, <1>t, <1>f, <2>1, <2>2, <2>3, RowChanges DEF Lifecycle!Finish, Lifecycle!Become
    <2> QED
        BY <2>1, <2>4 DEF Lifecycle!Next
<1>4. CASE RecordFailure(w)
    <2> DEFINE row == IF MayRetry(cur[w]) THEN RecordRetry(jobs[CurJob(w)])
                                          ELSE FailRow(jobs[CurJob(w)])
    <2>1. pc[w] = "record" /\ CurJob(w) \in Jobs /\ jobs[CurJob(w)] \in Row
          /\ UNCHANGED deadQueue
        BY <1>j, <1>4 DEF RecordFailure, At, brokerVars
    <2>2. jobs' = [jobs EXCEPT ![CurJob(w)] = row]
        BY <1>t, <1>f, <1>4, <2>1, OwnRow DEF RecordFailure
    <2>3. /\ row \in Row /\ row.attempts = jobs[CurJob(w)].attempts
          /\ row.status = IF MayRetry(cur[w]) THEN "queued" ELSE "failed"
        BY <2>1, RowType, JobStoreAssumption DEF RecordRetry, FailRow, Row
    <2> HIDE DEF row
    <2>4. CASE MayRetry(cur[w])
        <3>1. ASSUME NEW i \in Jobs, i = CurJob(w) PROVE Lifecycle!BackOff(i)
            BY <3>1, <1>t, <1>f, <2>1, <2>2, <2>3, <2>4, RowChanges
            DEF Lifecycle!BackOff, Lifecycle!Become
        <3> QED
            BY <2>1, <3>1 DEF Lifecycle!Next
    <2>5. CASE ~MayRetry(cur[w])
        <3>1. Holds(deadQueue, CurJob(w))
            BY <2>1, <2>5 DEF LifeInv, ParkedFirst
        <3>2. ASSUME NEW i \in Jobs, i = CurJob(w) PROVE Lifecycle!GiveUp(i)
            BY <3>2, <1>t, <1>f, <1>a, <2>1, <2>2, <2>3, <2>5, <3>1, RowChanges
            DEF Lifecycle!GiveUp, Lifecycle!Become
        <3> QED
            BY <2>1, <3>2 DEF Lifecycle!Next
    <2> QED
        BY <2>4, <2>5
<1>5. CASE AckCompleted(w) \/ SkipCompleted(w) \/ SettleFailure(w) \/ NackRequeue(w)
    <2>1. UNCHANGED <<jobs, deadQueue>>
        BY <1>5 DEF AckCompleted, SkipCompleted, SettleFailure, NackRequeue, AckDelivery,
           SettleRaises, Ack, Requeue, brokerVars
    <2> QED
        BY <2>1, Stutters
<1>6. CASE Park(w)
    <2>1. pc[w] = "park" /\ owns[w] /\ unacked[w] = {cur[w]} /\ UNCHANGED jobs
        BY <1>f, <1>6 DEF Park, At
    <2>2. deadQueue' = AddAll(deadQueue, {cur[w]}) /\ cur[w] \in Message
        BY <1>t, <1>6, <2>1 DEF Park, SettleRaises, DeadLetter
    <2>3. cur[w].job \in Jobs => jobs[cur[w].job].status = "absent"
        BY <1>f, <2>1 DEF CurJob
    <2> QED
        BY <1>t, <2>1, <2>2, <2>3, Parks
<1>7. CASE PublishFailure(w)
    <2>1. pc[w] = "publish" /\ UNCHANGED jobs /\ cur[w] \in Message
        BY <1>t, <1>7 DEF PublishFailure, At
    <2>2. CASE MayRetry(cur[w])
        <3>1. UNCHANGED deadQueue
            BY <1>7, <2>2 DEF PublishFailure, PublishCopy, PublishRetry
        <3> QED
            BY <2>1, <3>1, Stutters
    <2>3. CASE ~MayRetry(cur[w])
        <3>1. deadQueue' = Add(deadQueue, cur[w])
            BY <1>7, <2>3 DEF PublishFailure, PublishCopy, PublishDead
        <3>2. /\ jobs[cur[w].job].status = "processing"
              /\ jobs[cur[w].job].attempts > MaxRetries
            BY <1>f, <1>a, <2>1, <2>3 DEF CurJob
        <3> QED
            BY <1>t, <2>1, <3>1, <3>2, Parks
    <2> QED
        BY <2>2, <2>3
<1>8. CASE PublishRaises(w)
    <2>1. owns[w]
        BY <1>f, <1>8 DEF PublishRaises, At
    <2>2. UNCHANGED <<jobs, deadQueue>>
        BY <1>8, <2>1 DEF PublishRaises, brokerVars
    <2> QED
        BY <2>2, Stutters
<1> QED
    BY <1>1, <1>2, <1>3, <1>4, <1>5, <1>6, <1>7, <1>8 DEF Handler

(* Every step of the worker is a step of the life cycle, or none.          *)
LEMMA LifecycleStep ==
    ASSUME LifeInv, SingleWorker, CalmFaults, [Next]_vars
    PROVE  [Lifecycle!Next]_(Lifecycle!vars)
<1>1. ASSUME NEW w \in Workers, Handler(w) PROVE [Lifecycle!Next]_(Lifecycle!vars)
    BY <1>1, LifecycleHandler
<1>2. ASSUME NEW w \in Workers, WriteProgress(w) PROVE UNCHANGED Lifecycle!vars
    <2>1. jobs \in [Jobs -> Row] /\ UNCHANGED deadQueue
        BY <1>2 DEF WriteProgress, brokerVars, LifeInv, LostWorkInv, TypeInv, TypeOK,
           JobStoreTypeOK
    <2>2. PICK x \in Write : \/ Update(x.job, UpdateProgress(jobs[x.job], x.progress))
                             \/ UNCHANGED jobs
        BY <1>2 DEF WriteProgress
    <2>3. /\ x.job \in Jobs
          /\ UpdateProgress(jobs[x.job], x.progress).status = jobs[x.job].status
          /\ UpdateProgress(jobs[x.job], x.progress).attempts = jobs[x.job].attempts
        BY <2>1 DEF Write, UpdateProgress, Row
    <2>4. \A j \in Jobs : /\ jobs'[j].status = jobs[j].status
                          /\ jobs'[j].attempts = jobs[j].attempts
        BY <2>1, <2>2, <2>3 DEF Update
    <2> QED
        BY <2>1, <2>4, Stutters
<1>3. ASSUME NEW w \in Workers, ReportProgress(w) \/ Process(w)
      PROVE  UNCHANGED Lifecycle!vars
    <2>1. UNCHANGED <<jobs, deadQueue>>
        BY <1>3 DEF ReportProgress, Process, Consume, Deliver, Disconnect, Crash, Stop,
           Exit, Restart, Die, Requeue, brokerVars
    <2> QED
        BY <2>1, Stutters
<1>4. Expire \/ UNCHANGED vars => UNCHANGED Lifecycle!vars
    <2>1. Expire \/ UNCHANGED vars => UNCHANGED <<jobs, deadQueue>>
        BY DEF Expire, ExpireMessage, vars, brokerVars
    <2> QED
        BY <2>1, Stutters
<1> QED
    BY <1>1, <1>2, <1>3, <1>4 DEF Next

(* A fresh queue is where the life cycle begins.                           *)
LEMMA LifecycleInit == Init => Lifecycle!Init
<1> SUFFICES ASSUME Init PROVE Lifecycle!Init
    OBVIOUS
<1>1. \A j \in Jobs : jobs[j].status \in {"queued", "absent"} /\ jobs[j].attempts = 0
    BY DEF Init, WorkerInit, NewRow, NoRow
<1>2. \A j \in Jobs : ~Holds(deadQueue, j)
    BY DEF Init, WorkerInit, EmptyQueue, Holds
<1> QED
    BY <1>1, <1>2 DEF Lifecycle!Init

(***************************************************************************)
(* One worker keeps the promise made to a job's owner (JobLifecycle) as    *)
(* long as only processes end and publishes are refused: no state is       *)
(* skipped, no job fails early or unparked, and a completed job stays so.  *)
(***************************************************************************)
THEOREM WorkerImplementsLifecycle ==
    ASSUME SingleWorker, CountedFaults, CalmFaults
    PROVE  Spec => ImplementsLifecycle
<1>1. Init => LifeInv
    BY LifeInit
<1>2. LifeInv /\ [Next]_vars => LifeInv'
    BY LifeStep
<1>3. LifeInv /\ [Next]_vars => [Lifecycle!Next]_(Lifecycle!vars)
    BY LifecycleStep
<1> QED
    BY <1>1, <1>2, <1>3, LifecycleInit, PTL DEF Spec, ImplementsLifecycle, Lifecycle!Spec
=============================================================================
