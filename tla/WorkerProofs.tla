---------------------------- MODULE WorkerProofs ----------------------------
(***************************************************************************)
(* Machine-checked proofs about Worker, for every number of jobs, workers, *)
(* retries, progress steps and faults, and every choice of fault kinds.    *)
(***************************************************************************)
EXTENDS Worker, TLAPS

(* The handler past parsing has a usable job id. *)
HandlerOK == \A w \in Workers : pc[w] \notin {"idle", "park"} => CurJob(w) \in Jobs

TypeInv == TypeOK /\ HandlerOK

-----------------------------------------------------------------------------
(* Lemmas about rows and messages *)

(* Every statement leaves a row a row. *)
LEMMA RowType ==
    ASSUME NEW r \in Row, NEW p \in 0..FullProgress
    PROVE  /\ MarkProcessing(r) \in Row
           /\ UpdateProgress(r, p) \in Row
           /\ CompleteRow(r) \in Row
           /\ RecordRetry(r) \in Row
           /\ FailRow(r) \in Row
<1>1. 0 \in 0..FullProgress /\ FullProgress \in 0..FullProgress
    BY JobStoreAssumption
<1>2. MarkProcessing(r) \in Row
    <2>1. r.attempts + 1 \in Nat
        BY DEF Row
    <2> QED
        BY <1>1, <2>1 DEF Row, Status, MarkProcessing
<1>3. UpdateProgress(r, p) \in Row
    BY DEF Row, Status, UpdateProgress
<1>4. CompleteRow(r) \in Row
    BY <1>1 DEF Row, Status, CompleteRow
<1>5. RecordRetry(r) \in Row /\ FailRow(r) \in Row
    BY DEF Row, Status, RecordRetry, FailRow
<1> QED
    BY <1>2, <1>3, <1>4, <1>5

(* The copy of a message that may be retried is a message of the same job, *)
(* its header one higher and readable. *)
LEMMA RetryCopyMessage ==
    ASSUME NEW m \in Message, MayRetry(m)
    PROVE  /\ RetryCopy(m) \in Message
           /\ RetryCopy(m).job = m.job
           /\ RetryCopy(m).retries = m.retries + 1
           /\ m.retries < MaxRetries
    BY ContractAssumption DEF Message, MayRetry, RetryCopy, RetryCount, Corrupt

(* A malformed body is a message too. *)
LEMMA MalformedMessage == Malformed \in Message
    BY ContractAssumption DEF Malformed, Message, Corrupt

(* Adding to, and taking from, a bag of messages. *)
LEMMA QueueOps ==
    ASSUME NEW q \in Queue, NEW m \in Message, NEW S
    PROVE  /\ Add(q, m) \in Queue
           /\ q[m] > 0 => Remove(q, m) \in Queue
           /\ AddAll(q, S) \in Queue
    BY DEF Queue, Add, Remove, AddAll

-----------------------------------------------------------------------------
(* Type correctness *)

(* A statement leaves the table well typed. *)
LEMMA UpdateType ==
    ASSUME JobStoreTypeOK, NEW j \in Jobs, NEW row \in Row, Update(j, row)
    PROVE  JobStoreTypeOK'
    BY DEF JobStoreTypeOK, Update

(* The initial states of the worker are well typed. *)
LEMMA InitType == Init => TypeInv
<1> SUFFICES ASSUME Init PROVE TypeInv
    OBVIOUS
<1> USE ContractAssumption, JobStoreAssumption, WorkerAssumption
<1>1. NewRow \in Row /\ NoRow \in Row
    <2>1. NoRow \in Row
        BY DEF NoRow, Row, Status
    <2> QED
        BY <2>1 DEF NewRow, Row, Status
<1>2. JobStoreTypeOK
    BY <1>1 DEF Init, WorkerInit, JobStoreTypeOK
<1>3. EmptyQueue \in Queue
    BY DEF EmptyQueue, Queue
<1>4. BrokerTypeOK
    BY <1>3, QueueOps, MalformedMessage DEF Init, WorkerInit, BrokerTypeOK, Queue, AddAll, EmptyQueue
<1>5. writes \in [Write -> Nat]
    BY DEF Init, WorkerInit
<1>6. TypeOK
    BY <1>2, <1>4, <1>5, MalformedMessage DEF Init, WorkerInit, TypeOK, PC
<1>7. HandlerOK
    BY DEF Init, WorkerInit, HandlerOK
<1> QED
    BY <1>6, <1>7 DEF TypeInv

(* What a channel does to the queues leaves them well typed. *)
LEMMA ChannelType ==
    ASSUME TypeInv, NEW w \in Workers
    PROVE  /\ Ack(w) => BrokerTypeOK'
           /\ Requeue(w) => BrokerTypeOK'
           /\ DeadLetter(w) => BrokerTypeOK'
    BY QueueOps DEF TypeInv, TypeOK, BrokerTypeOK, Ack, Requeue, DeadLetter

(* Publishing a copy keeps the queues bags of messages. *)
LEMMA PublishType ==
    ASSUME TypeInv, NEW w \in Workers, PublishCopy(w)
    PROVE  BrokerTypeOK'
<1>1. cur[w] \in Message
    BY DEF TypeInv, TypeOK
<1>2. CASE MayRetry(cur[w])
    <2>1. RetryCopy(cur[w]) \in Message
        BY <1>1, <1>2, RetryCopyMessage
    <2> QED
        BY <1>2, <2>1, QueueOps DEF PublishCopy, PublishRetry, TypeInv, TypeOK, BrokerTypeOK
<1>3. CASE ~MayRetry(cur[w])
    BY <1>1, <1>3, QueueOps DEF PublishCopy, PublishDead, TypeInv, TypeOK, BrokerTypeOK
<1> QED
    BY <1>2, <1>3

(* Ending a handler. *)
LEMMA LeaveType ==
    ASSUME TypeInv, NEW w \in Workers, Leave(w)
    PROVE  /\ pc' \in [Workers -> PC]
           /\ cur' \in [Workers -> Message]
           /\ HandlerOK'
    BY MalformedMessage DEF TypeInv, TypeOK, HandlerOK, CurJob, Leave, PC

(* Settling a delivery, whether the broker hears of it or not. *)
LEMMA SettleType ==
    ASSUME TypeInv, NEW w \in Workers, AckDelivery(w), UNCHANGED jobs
    PROVE  TypeInv'
<1>1. BrokerTypeOK'
    BY ChannelType DEF AckDelivery
<1>2. faults' \in 0..MaxFaults
    BY WorkerAssumption DEF TypeInv, TypeOK, AckDelivery, Spend
<1> QED
    BY <1>1, <1>2, LeaveType
    DEF TypeInv, TypeOK, JobStoreTypeOK, AckDelivery, Disown, Return

(* The end of a process. *)
LEMMA DieType ==
    ASSUME TypeInv, NEW w \in Workers, Die(w), faults' \in 0..MaxFaults
    PROVE  TypeInv'
<1>1. BrokerTypeOK' /\ JobStoreTypeOK'
    BY ChannelType DEF Die, TypeInv, TypeOK, JobStoreTypeOK
<1>2. writes' \in [Write -> Nat]
    BY DEF Die, TypeInv, TypeOK
<1> QED
    BY <1>1, <1>2, LeaveType, JobStoreAssumption DEF Die, Disown, TypeInv, TypeOK

(* One case per action of the worker. *)
LEMMA NextType == TypeInv /\ [Next]_vars => TypeInv'
<1> SUFFICES ASSUME TypeInv, [Next]_vars PROVE TypeInv'
    OBVIOUS
<1> USE ContractAssumption, JobStoreAssumption, WorkerAssumption
<1> USE DEF TypeInv, TypeOK, HandlerOK, JobStoreTypeOK, BrokerTypeOK, brokerVars,
            PC, At, CurJob
<1>1. ASSUME NEW w \in Workers, Begin(w) PROVE TypeInv'
    <2>1. PICK m \in Message :
             /\ \/ owns' = [owns EXCEPT ![w] = TRUE] /\ UNCHANGED stale
                \/ stale' = [stale EXCEPT ![w] = @ \ {m}] /\ UNCHANGED owns
             /\ cur' = [cur EXCEPT ![w] = m]
             /\ pc' = [pc EXCEPT ![w] =
                          IF m.job = NoJob THEN "park" ELSE "get_status"]
        BY <1>1 DEF Begin
    <2>2. owns' \in [Workers -> BOOLEAN] /\ stale' \in [Workers -> SUBSET Message]
        BY <2>1, ZenonT(30)
    <2>3. HandlerOK'
        BY <2>1 DEF Message
    <2> QED
        BY <1>1, <2>1, <2>2, <2>3 DEF Begin
<1>2. ASSUME NEW w \in Workers, GetStatus(w) PROVE TypeInv'
    BY <1>2 DEF GetStatus, AfterStatus, Goto, Spend
<1>3. ASSUME NEW w \in Workers, MarkAttempt(w) PROVE TypeInv'
    <2>1. jobs' \in [Jobs -> Row]
        BY <1>3, RowType DEF MarkAttempt, Statement, Update
    <2> QED
        BY <1>3, <2>1 DEF MarkAttempt, Statement, Goto, Spend
<1>4. ASSUME NEW w \in Workers, ReportProgress(w) PROVE TypeInv'
    <2>1. PICK p \in 1..FullProgress :
             /\ lastReported' = [lastReported EXCEPT ![w] = p]
             /\ writes' = [writes EXCEPT
                   ![[worker |-> w, job |-> CurJob(w), progress |-> p]] = @ + 1]
        BY <1>4 DEF ReportProgress
    <2>2. p \in 0..FullProgress
        OBVIOUS
    <2>3. lastReported' \in [Workers -> 0..FullProgress]
        BY <2>1, <2>2
    <2>4. writes' \in [Write -> Nat]
        <3> DEFINE x == [worker |-> w, job |-> CurJob(w), progress |-> p]
        <3>1. writes' = [writes EXCEPT ![x] = @ + 1]
            BY <2>1
        <3>2. x \in Write
            BY <1>4, <2>2 DEF ReportProgress, Write
        <3> HIDE DEF x
        <3> QED
            BY <3>1, <3>2
    <2> QED
        BY <1>4, <2>3, <2>4 DEF ReportProgress
<1>5. ASSUME NEW w \in Workers, WriteProgress(w) PROVE TypeInv'
    <2>1. PICK x \in Write :
             /\ writes[x] > 0
             /\ writes' = [writes EXCEPT ![x] = @ - 1]
             /\ \/ Update(x.job, UpdateProgress(jobs[x.job], x.progress))
                \/ UNCHANGED jobs
             /\ UNCHANGED faults \/ Spend("db")
        BY <1>5 DEF WriteProgress
    <2>2. x.job \in Jobs /\ x.progress \in 0..FullProgress
        BY DEF Write
    <2>3. jobs' \in [Jobs -> Row]
        <3>1. UpdateProgress(jobs[x.job], x.progress) \in Row
            BY <2>2, RowType
        <3> QED
            BY <2>1, <2>2, <3>1 DEF Update
    <2>4. writes' \in [Write -> Nat]
        BY <2>1
    <2> QED
        BY <1>5, <2>1, <2>3, <2>4 DEF WriteProgress, Spend
<1>6. ASSUME NEW w \in Workers, EndPipeline(w) PROVE TypeInv'
    BY <1>6 DEF EndPipeline
<1>7. ASSUME NEW w \in Workers, Complete(w) PROVE TypeInv'
    <2>1. jobs' \in [Jobs -> Row]
        BY <1>7, RowType DEF Complete, Statement, Update
    <2> QED
        BY <1>7, <2>1 DEF Complete, Statement, Goto, Spend
<1>8. ASSUME NEW w \in Workers, AckCompleted(w) PROVE TypeInv'
    BY <1>8, SettleType DEF AckCompleted, SettleRaises, Goto
<1>9. ASSUME NEW w \in Workers, SkipCompleted(w) PROVE TypeInv'
    <2>1. CASE AckDelivery(w)
        BY <1>9, <2>1, SettleType DEF SkipCompleted
    <2>2. CASE SettleRaises(w) /\ Return(w) /\ UNCHANGED owns
        BY <1>9, <2>2, LeaveType DEF SkipCompleted, SettleRaises, Return
    <2> QED
        BY <1>9, <2>1, <2>2 DEF SkipCompleted
<1>10. ASSUME NEW w \in Workers, Park(w) PROVE TypeInv'
    <2>1. BrokerTypeOK' /\ faults' = faults
        BY <1>10, ChannelType DEF Park, SettleRaises
    <2>2. owns' \in [Workers -> BOOLEAN]
        BY <1>10 DEF Park, Disown
    <2> QED
        BY <1>10, <2>1, <2>2, LeaveType DEF Park, Return
<1>11. ASSUME NEW w \in Workers, PublishFailure(w) PROVE TypeInv'
    BY <1>11, PublishType DEF PublishFailure, Goto
<1>12. ASSUME NEW w \in Workers, PublishRaises(w) PROVE TypeInv'
    BY <1>12, PublishType DEF PublishRaises, Goto, Spend
<1>13. ASSUME NEW w \in Workers, RecordFailure(w) PROVE TypeInv'
    <2>1. jobs' \in [Jobs -> Row]
        BY <1>13, RowType DEF RecordFailure, Statement, Update
    <2> QED
        BY <1>13, <2>1 DEF RecordFailure, Statement, Goto, Spend
<1>14. ASSUME NEW w \in Workers, SettleFailure(w) PROVE TypeInv'
    BY <1>14, SettleType DEF SettleFailure, SettleRaises, Goto
<1>15. ASSUME NEW w \in Workers, NackRequeue(w) PROVE TypeInv'
    <2>1. BrokerTypeOK' /\ faults' = faults
        BY <1>15, ChannelType DEF NackRequeue, SettleRaises
    <2>2. owns' \in [Workers -> BOOLEAN]
        BY <1>15 DEF NackRequeue, Disown
    <2> QED
        BY <1>15, <2>1, <2>2, LeaveType DEF NackRequeue, Return
<1>16. ASSUME NEW w \in Workers, Consume(w) PROVE TypeInv'
    <2>1. PICK m \in Message :
             /\ jobsQueue[m] > 0
             /\ jobsQueue' = Remove(jobsQueue, m)
             /\ unacked' = [unacked EXCEPT ![w] = {m}]
        BY <1>16 DEF Consume, Deliver
    <2>2. BrokerTypeOK'
        BY <1>16, <2>1, QueueOps DEF Consume, Deliver
    <2> QED
        BY <1>16, <2>2 DEF Consume, workerVars
<1>17. ASSUME NEW w \in Workers, Disconnect(w) PROVE TypeInv'
    <2>1. BrokerTypeOK' /\ faults' \in 0..MaxFaults
        BY <1>17, ChannelType DEF Disconnect, Spend
    <2>2. owns' \in [Workers -> BOOLEAN]
        BY <1>17 DEF Disconnect, Disown
    <2>3. CASE RunOn(w)
        BY <1>17, <2>1, <2>2, <2>3 DEF Disconnect, RunOn
    <2>4. CASE Cancel(w)
        <3>1. pc' \in [Workers -> PC] /\ cur' \in [Workers -> Message] /\ HandlerOK'
            BY <2>4, LeaveType DEF Cancel
        <3>2. lastReported' \in [Workers -> 0..FullProgress] /\ writes' \in [Write -> Nat]
            BY <2>4 DEF Cancel
        <3> QED
            BY <1>17, <2>1, <2>2, <2>4, <3>1, <3>2 DEF Disconnect, Cancel
    <2> QED
        BY <1>17, <2>3, <2>4 DEF Disconnect
<1>18. ASSUME NEW w \in Workers, Crash(w) PROVE TypeInv'
    BY <1>18, DieType DEF Crash, Spend
<1>19. ASSUME NEW w \in Workers, Stop(w) PROVE TypeInv'
    BY <1>19 DEF Stop, Spend
<1>20. ASSUME NEW w \in Workers, Exit(w) PROVE TypeInv'
    BY <1>20, DieType DEF Exit
<1>21. ASSUME NEW w \in Workers, Restart(w) PROVE TypeInv'
    BY <1>21 DEF Restart
<1>22. ASSUME Expire PROVE TypeInv'
    <2>1. BrokerTypeOK'
        BY <1>22, QueueOps DEF Expire, ExpireMessage
    <2> QED
        BY <1>22, <2>1 DEF Expire, workerVars
<1>23. ASSUME UNCHANGED vars PROVE TypeInv'
    BY <1>23 DEF vars, workerVars
<1> QED
    BY <1>1, <1>2, <1>3, <1>4, <1>5, <1>6, <1>7, <1>8, <1>9, <1>10, <1>11, <1>12,
       <1>13, <1>14, <1>15, <1>16, <1>17, <1>18, <1>19, <1>20, <1>21, <1>22, <1>23
    DEF Next, Handler, Process

(***************************************************************************)
(* Type correctness of the worker, the broker and the jobs table.          *)
(***************************************************************************)
THEOREM TypeCorrect == Spec => []TypeOK
<1>1. TypeInv => TypeOK
    BY DEF TypeInv
<1> QED
    BY <1>1, InitType, NextType, PTL DEF Spec

-----------------------------------------------------------------------------
(* What a step may do to a row *)

Statements(r) ==
    {MarkProcessing(r), CompleteRow(r), RecordRetry(r)}
        \cup {UpdateProgress(r, p) : p \in 0..FullProgress}

(* A row changes only by the statements of the code, which touch no row    *)
(* that is not there; it becomes "failed" only when a handler whose        *)
(* message has no retries left records that.                               *)
LEMMA RowStep ==
    ASSUME TypeInv, [Next]_vars, NEW j \in Jobs
    PROVE  \/ jobs'[j] = jobs[j]
           \/ /\ jobs[j].status # "absent"
              /\ \/ jobs'[j] \in Statements(jobs[j])
                 \/ /\ jobs'[j] = FailRow(jobs[j])
                    /\ \E w \in Workers : /\ pc[w] = "record"
                                          /\ ~MayRetry(cur[w])
                                          /\ CurJob(w) = j
<1> DEFINE Goal == \/ jobs'[j] = jobs[j]
                   \/ /\ jobs[j].status # "absent"
                      /\ \/ jobs'[j] \in Statements(jobs[j])
                         \/ /\ jobs'[j] = FailRow(jobs[j])
                            /\ \E w \in Workers : /\ pc[w] = "record"
                                                  /\ ~MayRetry(cur[w])
                                                  /\ CurJob(w) = j
<1>t. jobs \in [Jobs -> Row]
    BY DEF TypeInv, TypeOK, JobStoreTypeOK
<1>u. ASSUME NEW i \in Jobs, NEW row, Update(i, row)
      PROVE  \/ jobs'[j] = jobs[j]
             \/ i = j /\ jobs'[j] = row /\ jobs[j].status # "absent"
    BY <1>t, <1>u DEF Update
<1>1. ASSUME NEW w \in Workers, MarkAttempt(w) PROVE Goal
    <2>1. CurJob(w) \in Jobs
        BY <1>1 DEF MarkAttempt, At, TypeInv, HandlerOK
    <2> QED
        BY <1>1, <1>u, <2>1 DEF MarkAttempt, Statement, Statements
<1>2. ASSUME NEW w \in Workers, WriteProgress(w) PROVE Goal
    <2>1. PICK x \in Write : \/ Update(x.job, UpdateProgress(jobs[x.job], x.progress))
                             \/ UNCHANGED jobs
        BY <1>2 DEF WriteProgress
    <2>2. x.job \in Jobs /\ x.progress \in 0..FullProgress
        BY DEF Write
    <2> QED
        BY <1>u, <2>1, <2>2 DEF Statements
<1>3. ASSUME NEW w \in Workers, Complete(w) PROVE Goal
    <2>1. CurJob(w) \in Jobs
        BY <1>3 DEF Complete, At, TypeInv, HandlerOK
    <2> QED
        BY <1>3, <1>u, <2>1 DEF Complete, Statement, Statements
<1>4. ASSUME NEW w \in Workers, RecordFailure(w) PROVE Goal
    <2>1. CurJob(w) \in Jobs /\ pc[w] = "record"
        BY <1>4 DEF RecordFailure, At, TypeInv, HandlerOK
    <2>2. CASE MayRetry(cur[w])
        BY <1>4, <1>u, <2>1, <2>2 DEF RecordFailure, Statement, Statements
    <2>3. CASE ~MayRetry(cur[w])
        BY <1>4, <1>u, <2>1, <2>3 DEF RecordFailure, Statement
    <2> QED
        BY <2>2, <2>3
<1>5. ASSUME NEW w \in Workers,
             \/ Begin(w) \/ GetStatus(w) \/ ReportProgress(w) \/ EndPipeline(w)
             \/ AckCompleted(w) \/ SkipCompleted(w) \/ Park(w)
             \/ PublishFailure(w) \/ PublishRaises(w) \/ SettleFailure(w)
             \/ NackRequeue(w) \/ Process(w)
      PROVE  UNCHANGED jobs
    BY <1>5 DEF Begin, GetStatus, ReportProgress, EndPipeline, AckCompleted,
        SkipCompleted, Park, PublishFailure, PublishRaises, SettleFailure,
        NackRequeue, Process, Consume, Disconnect, Crash, Stop, Exit, Restart,
        Die
<1>6. Expire \/ UNCHANGED vars => UNCHANGED jobs
    BY DEF Expire, vars
<1> QED
    BY <1>1, <1>2, <1>3, <1>4, <1>5, <1>6 DEF Next, Handler

(* Each of those statements leaves a row coherent. *)
LEMMA StatementsCoherent ==
    ASSUME NEW r \in Row, RowCoherent(r)
    PROVE  /\ \A s \in Statements(r) : RowCoherent(s)
           /\ RowCoherent(FailRow(r))
<1> USE DEF Row, RowCoherent
<1>1. RowCoherent(MarkProcessing(r)) /\ RowCoherent(RecordRetry(r))
    BY DEF MarkProcessing, RecordRetry
<1>2. RowCoherent(CompleteRow(r)) /\ RowCoherent(FailRow(r))
    BY DEF CompleteRow, FailRow
<1>3. ASSUME NEW p \in 0..FullProgress PROVE RowCoherent(UpdateProgress(r, p))
    BY DEF UpdateProgress
<1> QED
    BY <1>1, <1>2, <1>3 DEF Statements

(***************************************************************************)
(* A completed job has its transcript, full progress and no error, and a   *)
(* failed one its error, however late the progress writes land and however *)
(* many workers process the job.                                           *)
(***************************************************************************)
THEOREM ResultsCoherent == Spec => []ResultCoherent
<1> DEFINE Inv == TypeInv /\ ResultCoherent
<1>1. Init => Inv
    BY InitType DEF Init, WorkerInit, ResultCoherent, RowCoherent, NewRow, NoRow
<1>2. Inv /\ [Next]_vars => Inv'
    <2> SUFFICES ASSUME Inv, [Next]_vars, NEW j \in Jobs PROVE RowCoherent(jobs'[j])
        BY NextType DEF ResultCoherent
    <2>1. jobs[j] \in Row /\ RowCoherent(jobs[j])
        BY DEF TypeInv, TypeOK, JobStoreTypeOK, ResultCoherent
    <2> QED
        BY <2>1, RowStep, StatementsCoherent
<1> QED
    BY <1>1, <1>2, PTL DEF Spec

-----------------------------------------------------------------------------
(* Failed jobs are parked *)

(* Nobody takes a message out of the dead-letter queue. *)
LEMMA DeadQueueGrows ==
    ASSUME TypeInv, [Next]_vars, NEW j, Holds(deadQueue, j)
    PROVE  Holds(deadQueue, j)'
<1> USE DEF TypeInv, TypeOK, BrokerTypeOK, Queue
<1>1. PICK m \in Message : m.job = j /\ deadQueue[m] > 0
    BY DEF Holds
<1> SUFFICES deadQueue'[m] > 0
    BY <1>1 DEF Holds
<1>2. ASSUME NEW w \in Workers, DeadLetter(w) PROVE deadQueue'[m] > 0
    BY <1>1, <1>2 DEF DeadLetter, AddAll
<1>3. ASSUME NEW w \in Workers, PublishCopy(w) PROVE deadQueue'[m] > 0
    BY <1>1, <1>3 DEF PublishCopy, PublishRetry, PublishDead, Add
<1>4. ASSUME NEW w \in Workers, AckDelivery(w) PROVE UNCHANGED deadQueue
    BY <1>4 DEF AckDelivery, Ack, Requeue
<1>5. ASSUME NEW w \in Workers, Handler(w) PROVE deadQueue'[m] > 0
    BY <1>1, <1>2, <1>3, <1>4, <1>5
    DEF Handler, Begin, GetStatus, MarkAttempt, EndPipeline, Complete, AckCompleted,
        SkipCompleted, Park, PublishFailure, PublishRaises, RecordFailure,
        SettleFailure, NackRequeue, SettleRaises, Requeue, brokerVars
<1>6. ASSUME NEW w \in Workers, Process(w) PROVE UNCHANGED deadQueue
    BY <1>6 DEF Process, Consume, Deliver, Disconnect, Crash, Stop, Exit, Restart,
        Die, Requeue, brokerVars
<1>7. ASSUME NEW w \in Workers, ReportProgress(w) \/ WriteProgress(w)
      PROVE  UNCHANGED deadQueue
    BY <1>7 DEF ReportProgress, WriteProgress, brokerVars
<1>8. Expire \/ UNCHANGED vars => UNCHANGED deadQueue
    BY DEF Expire, ExpireMessage, vars, brokerVars
<1> QED
    BY <1>1, <1>5, <1>6, <1>7, <1>8 DEF Next

(* The copy is parked before the failure is recorded. *)
ParkedFirst ==
    \A w \in Workers :
        pc[w] = "record" /\ ~MayRetry(cur[w]) => Holds(deadQueue, CurJob(w))

(* A handler is about to record a failure only after it published the copy. *)
LEMMA ReachesRecord ==
    ASSUME TypeInv, [Next]_vars, NEW w \in Workers, pc'[w] = "record"
    PROVE  /\ cur'[w] = cur[w]
           /\ pc[w] = "record" \/ PublishFailure(w)
<1> USE DEF TypeInv, TypeOK
<1> DEFINE Goal == cur'[w] = cur[w] /\ (pc[w] = "record" \/ PublishFailure(w))
<1>1. ASSUME NEW v \in Workers, Handler(v) PROVE Goal
    <2>1. CASE v = w
        BY <1>1, <2>1
        DEF Handler, Begin, GetStatus, AfterStatus, MarkAttempt, EndPipeline, Complete,
            AckCompleted, SkipCompleted, Park, PublishFailure, PublishRaises,
            RecordFailure, SettleFailure, NackRequeue, AckDelivery, Statement,
            Goto, Return, Leave, At
    <2>2. CASE v # w
        BY <1>1, <2>2
        DEF Handler, Begin, GetStatus, AfterStatus, MarkAttempt, EndPipeline, Complete,
            AckCompleted, SkipCompleted, Park, PublishFailure, PublishRaises,
            RecordFailure, SettleFailure, NackRequeue, AckDelivery, Statement,
            Goto, Return, Leave, At
    <2> QED
        BY <2>1, <2>2
<1>2. ASSUME NEW v \in Workers, Process(v) PROVE Goal
    BY <1>2 DEF Process, Consume, Disconnect, RunOn, Cancel, Crash, Stop, Exit,
        Restart, Die, Leave, workerVars
<1>3. ASSUME NEW v \in Workers, ReportProgress(v) \/ WriteProgress(v) PROVE Goal
    BY <1>3 DEF ReportProgress, WriteProgress
<1>4. Expire \/ UNCHANGED vars => Goal
    BY DEF Expire, vars, workerVars
<1> QED
    BY <1>1, <1>2, <1>3, <1>4 DEF Next

(* So it goes on to be. *)
LEMMA ParkedFirstStep ==
    ASSUME TypeInv, ParkedFirst, [Next]_vars
    PROVE  ParkedFirst'
<1> SUFFICES ASSUME NEW w \in Workers, pc'[w] = "record", ~MayRetry(cur'[w])
             PROVE  Holds(deadQueue, CurJob(w))'
    BY DEF ParkedFirst
<1>1. cur'[w] = cur[w] /\ (pc[w] = "record" \/ PublishFailure(w))
    BY ReachesRecord
<1>2. CASE pc[w] = "record"
    <2>1. Holds(deadQueue, CurJob(w))
        BY <1>1, <1>2 DEF ParkedFirst
    <2> QED
        BY <1>1, <2>1, DeadQueueGrows DEF CurJob, Holds
<1>3. CASE PublishFailure(w)
    <2>1. deadQueue' = Add(deadQueue, cur[w])
        BY <1>1, <1>3 DEF PublishFailure, PublishCopy, PublishDead
    <2>2. cur[w] \in Message /\ deadQueue \in [Message -> Nat]
        BY DEF TypeInv, TypeOK, BrokerTypeOK, Queue
    <2>3. deadQueue'[cur[w]] > 0
        BY <2>1, <2>2 DEF Add
    <2> QED
        BY <1>1, <2>2, <2>3 DEF Holds, CurJob
<1> QED
    BY <1>1, <1>2, <1>3

(***************************************************************************)
(* A failed job's message is parked for inspection.                        *)
(***************************************************************************)
THEOREM FailedJobsParked == Spec => []FailedIsParked
<1> DEFINE Inv == TypeInv /\ ParkedFirst /\ FailedIsParked
<1>1. Init => Inv
    BY InitType DEF Init, WorkerInit, ParkedFirst, FailedIsParked, NewRow, NoRow
<1>2. Inv /\ [Next]_vars => Inv'
    <2> SUFFICES ASSUME Inv, [Next]_vars PROVE Inv'
        OBVIOUS
    <2>1. TypeInv'
        BY NextType
    <2>2. ParkedFirst'
        BY ParkedFirstStep
    <2>3. FailedIsParked'
        <3> SUFFICES ASSUME NEW j \in Jobs, jobs'[j].status = "failed"
                     PROVE  Holds(deadQueue, j)'
            BY DEF FailedIsParked
        <3>1. jobs[j] \in Row
            BY DEF TypeInv, TypeOK, JobStoreTypeOK
        <3>2. CASE jobs[j].status = "failed"
            BY <3>2, DeadQueueGrows DEF FailedIsParked
        <3>3. CASE jobs[j].status # "failed"
            <4>1. \A s \in Statements(jobs[j]) : s.status # "failed"
                BY <3>1, <3>3 DEF Statements, Row, MarkProcessing, CompleteRow,
                    RecordRetry, UpdateProgress
            <4>2. Holds(deadQueue, j)
                BY <3>3, <4>1, RowStep DEF ParkedFirst
            <4> QED
                BY <4>2, DeadQueueGrows
        <3> QED
            BY <3>2, <3>3
    <2> QED
        BY <2>1, <2>2, <2>3
<1> QED
    BY <1>1, <1>2, PTL DEF Spec

-----------------------------------------------------------------------------
(* No worker is wedged *)

(* A handler that ends has settled its delivery, or no longer owns it. *)
LEMMA EndsDisowned ==
    ASSUME TypeInv, NEW w \in Workers, owns[w] => pc[w] # "idle", Handler(w)
    PROVE  owns'[w] => pc'[w] # "idle"
<1> USE DEF TypeInv, TypeOK
<1>1. CASE Begin(w)
    BY <1>1 DEF Begin
<1>2. ASSUME AckDelivery(w) PROVE ~owns'[w]
    BY <1>2 DEF AckDelivery, Disown
<1>3. CASE AckCompleted(w) \/ SkipCompleted(w) \/ SettleFailure(w)
    BY <1>2, <1>3 DEF AckCompleted, SkipCompleted, SettleFailure, SettleRaises, Goto
<1>4. CASE Park(w) \/ NackRequeue(w)
    BY <1>4 DEF Park, NackRequeue, Disown, SettleRaises
<1>5. CASE \/ GetStatus(w) \/ MarkAttempt(w) \/ EndPipeline(w) \/ Complete(w)
           \/ PublishFailure(w) \/ PublishRaises(w) \/ RecordFailure(w)
    BY <1>5 DEF GetStatus, AfterStatus, MarkAttempt, EndPipeline, Complete,
        PublishFailure, PublishRaises, RecordFailure, Statement, Goto
<1> QED
    BY <1>1, <1>3, <1>4, <1>5 DEF Handler

(* A worker's handler is its own. *)
LEMMA OthersUntouched ==
    ASSUME TypeInv, NEW v \in Workers, NEW w \in Workers, v # w,
           Handler(v) \/ Process(v)
    PROVE  owns'[w] = owns[w] /\ pc'[w] = pc[w]
<1> USE DEF TypeInv, TypeOK
<1>1. CASE Handler(v)
    BY <1>1
    DEF Handler, Begin, GetStatus, MarkAttempt, EndPipeline, Complete, AckCompleted,
        SkipCompleted, Park, PublishFailure, PublishRaises, RecordFailure,
        SettleFailure, NackRequeue, AckDelivery, Statement, Goto, Return, Leave, Disown
<1>2. CASE Process(v)
    BY <1>2 DEF Process, Consume, Disconnect, RunOn, Cancel, Crash, Stop, Exit,
        Restart, Die, Leave, Disown, workerVars
<1> QED
    BY <1>1, <1>2

(***************************************************************************)
(* No handler ends leaving its delivery unsettled on an open channel, so   *)
(* prefetch 1 never starves a worker of further messages.                  *)
(***************************************************************************)
THEOREM WorkersNotWedged == Spec => []NoWedgedWorker
<1> DEFINE Inv == TypeInv /\ NoWedgedWorker
<1>1. Init => Inv
    BY InitType DEF Init, WorkerInit, NoWedgedWorker
<1>2. Inv /\ [Next]_vars => Inv'
    <2> SUFFICES ASSUME Inv, [Next]_vars, NEW w \in Workers
                 PROVE  owns'[w] => pc'[w] # "idle"
        BY NextType DEF NoWedgedWorker
    <2> USE DEF NoWedgedWorker
    <2>1. CASE Handler(w)
        BY <2>1, EndsDisowned
    <2>2. CASE Process(w)
        BY <2>2 DEF Process, Consume, Disconnect, Crash, Stop, Exit, Restart, Die,
            Disown, workerVars, TypeInv, TypeOK
    <2>3. CASE \E v \in Workers : v # w /\ (Handler(v) \/ Process(v))
        BY <2>3, OthersUntouched
    <2>4. CASE \/ \E v \in Workers : ReportProgress(v) \/ WriteProgress(v)
               \/ Expire \/ UNCHANGED vars
        BY <2>4 DEF ReportProgress, WriteProgress, Expire, vars, workerVars
    <2> QED
        BY <2>1, <2>2, <2>3, <2>4 DEF Next
<1> QED
    BY <1>1, <1>2, PTL DEF Spec

-----------------------------------------------------------------------------
(* A job is failed only after 1 + MaxRetries attempts, however many workers *)
(* there are and whatever duplicates crashes and redeliveries make, unless  *)
(* a statement fails without effect: mark_processing is inside the try      *)
(* block, so its failure uses up a retry uncounted.                         *)

(* No statement is lost without effect, and what others put on the queue   *)
(* claims no earlier retries.                                              *)
CountedFaults ==
    /\ "db" \notin Faults
    /\ \A m \in Extra : m.job \in Jobs => m.retries = 0

(* The header of a message never claims more retries than its job had      *)
(* attempts.                                                               *)
Counted(m) == m.job \in Jobs => RetryCount(m) <= jobs[m.job].attempts

(* The messages that are, or are about to be, processed. *)
Afoot(m) ==
    \/ jobsQueue[m] > 0
    \/ retryQueue[m] > 0
    \/ \E w \in Workers : m \in unacked[w] \cup stale[w] \cup {cur[w]}

MessagesCounted == \A m \in Message : Afoot(m) => Counted(m)

Found == {"mark_processing", "run_pipeline", "complete", "ack", "publish",
          "record", "settle"}

(* The handler found the row; past mark_processing its attempt is counted. *)
AttemptCounted ==
    \A w \in Workers :
        pc[w] \in Found =>
            /\ jobs[CurJob(w)].status # "absent"
            /\ pc[w] # "mark_processing" =>
                  RetryCount(cur[w]) < jobs[CurJob(w)].attempts

AttemptInv ==
    /\ TypeInv
    /\ MessagesCounted
    /\ AttemptCounted
    /\ FailedAfterAllAttempts

-----------------------------------------------------------------------------
(* Rows only ever gain attempts, and do not vanish. *)
LEMMA AttemptsGrow ==
    ASSUME TypeInv, [Next]_vars, NEW j \in Jobs
    PROVE  /\ jobs[j].attempts <= jobs'[j].attempts
           /\ jobs[j].status # "absent" => jobs'[j].status # "absent"
<1>1. jobs[j] \in Row
    BY DEF TypeInv, TypeOK, JobStoreTypeOK
<1> DEFINE Grows(s) == /\ jobs[j].attempts <= s.attempts
                       /\ jobs[j].status # "absent" => s.status # "absent"
<1>2. Grows(MarkProcessing(jobs[j]))
    BY <1>1 DEF Row, MarkProcessing
<1>3. Grows(CompleteRow(jobs[j])) /\ Grows(RecordRetry(jobs[j])) /\ Grows(FailRow(jobs[j]))
    BY <1>1 DEF Row, CompleteRow, RecordRetry, FailRow
<1>4. Grows(jobs[j])
    BY <1>1 DEF Row
<1>5. ASSUME NEW p \in 0..FullProgress PROVE Grows(UpdateProgress(jobs[j], p))
    BY <1>1 DEF Row, UpdateProgress
<1> HIDE DEF Grows
<1>6. Grows(jobs'[j])
    BY <1>2, <1>3, <1>4, <1>5, RowStep DEF Statements
<1> QED
    BY <1>6 DEF Grows

(* An attempt once counted stays counted: attempts only grow. *)
LEMMA CountedStays ==
    ASSUME TypeInv, [Next]_vars, NEW m \in Message, Counted(m)
    PROVE  Counted(m)'
<1>1. RetryCount(m) \in Nat
    BY ContractAssumption DEF RetryCount, Message, Corrupt
<1>2. CASE m.job \in Jobs
    <2>1. jobs[m.job].attempts \in Nat /\ jobs'[m.job].attempts \in Nat
        BY <1>2, NextType DEF TypeInv, TypeOK, JobStoreTypeOK, Row
    <2> QED
        BY <1>1, <1>2, <2>1, AttemptsGrow DEF Counted
<1> QED
    BY <1>2 DEF Counted

(* No step makes a message up, but for the retry copy. *)
LEMMA MessageOrigin ==
    ASSUME TypeInv, [Next]_vars, NEW m \in Message, Afoot(m)', m # Malformed
    PROVE  \/ Afoot(m)
           \/ \E w \in Workers : /\ pc[w] = "publish"
                                 /\ MayRetry(cur[w])
                                 /\ m = RetryCopy(cur[w])
<1> DEFINE CopyOf(w) == pc[w] = "publish" /\ MayRetry(cur[w]) /\ m = RetryCopy(cur[w])
           Queued == jobsQueue[m] > 0 \/ retryQueue[m] > 0
           Held(w) == m \in unacked[w] \cup stale[w] \cup {cur[w]}
<1>t. /\ jobsQueue \in [Message -> Nat] /\ retryQueue \in [Message -> Nat]
      /\ unacked \in [Workers -> SUBSET Message] /\ stale \in [Workers -> SUBSET Message]
      /\ cur \in [Workers -> Message]
    BY DEF TypeInv, TypeOK, BrokerTypeOK, Queue
<1>a. ASSUME NEW w \in Workers, Ack(w) \/ Requeue(w) \/ DeadLetter(w)
      PROVE  /\ Queued' => Queued \/ m \in unacked[w]
             /\ \A v \in Workers : unacked'[v] \subseteq unacked[v]
    BY <1>t, <1>a DEF Ack, Requeue, DeadLetter, AddAll
<1>b. ASSUME NEW w \in Workers, PublishCopy(w), pc[w] = "publish"
      PROVE  UNCHANGED unacked /\ (Queued' => Queued \/ CopyOf(w))
    <2>1. RetryCopy(cur[w]) \in Message \/ ~MayRetry(cur[w])
        BY <1>t, RetryCopyMessage
    <2> QED
        BY <1>t, <1>b, <2>1 DEF PublishCopy, PublishRetry, PublishDead, Add
<1>c. ASSUME NEW w \in Workers, UNCHANGED brokerVars \/ SettleRaises(w)
      PROVE  UNCHANGED unacked /\ (Queued' => Queued)
    BY <1>c DEF brokerVars, SettleRaises
<1>1. ASSUME NEW w \in Workers, Handler(w)
      PROVE  Afoot(m) \/ CopyOf(w)
    <2>1. /\ Queued' => Queued \/ m \in unacked[w] \/ CopyOf(w)
          /\ \A v \in Workers : unacked'[v] \subseteq unacked[v]
        <3>1. \/ Ack(w) \/ Requeue(w) \/ DeadLetter(w)
              \/ PublishCopy(w) /\ pc[w] = "publish"
              \/ UNCHANGED brokerVars \/ SettleRaises(w)
            BY <1>1 DEF Handler, Begin, GetStatus, MarkAttempt, EndPipeline, Complete,
                AckCompleted, SkipCompleted, Park, PublishFailure, PublishRaises,
                RecordFailure, SettleFailure, NackRequeue, AckDelivery, At
        <3> QED
            BY <1>a, <1>b, <1>c, <3>1
    <2>2. \A v \in Workers : /\ stale'[v] \subseteq stale[v]
                             /\ \/ cur'[v] = cur[v]
                                \/ cur'[v] = Malformed
                                \/ cur'[v] \in unacked[v] \cup stale[v]
        <3>1. CASE Begin(w)
            BY <1>t, <3>1 DEF Begin
        <3>2. CASE ~Begin(w)
            BY <1>t, <1>1, <3>2
            DEF Handler, GetStatus, MarkAttempt, EndPipeline, Complete, AckCompleted,
                SkipCompleted, Park, PublishFailure, PublishRaises, RecordFailure,
                SettleFailure, NackRequeue, AckDelivery, Statement, Goto, Return, Leave
        <3> QED
            BY <3>1, <3>2
    <2>3. ASSUME NEW v \in Workers, Held(v)' PROVE Held(v)
        BY <2>1, <2>2, <2>3
    <2> QED
        BY <2>1, <2>3 DEF Afoot
<1>2. ASSUME NEW w \in Workers, Process(w) PROVE Afoot(m)
    <2>1. CASE Consume(w)
        <3>1. PICK n \in Message : /\ jobsQueue[n] > 0
                                   /\ jobsQueue' = [jobsQueue EXCEPT ![n] = @ - 1]
                                   /\ unacked' = [unacked EXCEPT ![w] = {n}]
            BY <2>1 DEF Consume, Deliver, Remove
        <3>2. UNCHANGED <<retryQueue, stale, cur>>
            BY <2>1 DEF Consume, Deliver, workerVars
        <3> QED
            BY <1>t, <3>1, <3>2 DEF Afoot
    <2>2. CASE Disconnect(w) \/ Crash(w) \/ Exit(w)
        <3>1. Requeue(w)
            BY <2>2 DEF Disconnect, Crash, Exit, Die
        <3>2. \A v \in Workers : /\ stale'[v] \subseteq stale[v] \cup unacked[v]
                                 /\ cur'[v] = cur[v] \/ cur'[v] = Malformed
            BY <1>t, <2>2 DEF Disconnect, RunOn, Cancel, Crash, Exit, Die, Leave
        <3>3. ASSUME NEW v \in Workers, Held(v)' PROVE Held(v)
            BY <1>a, <3>1, <3>2, <3>3
        <3> QED
            BY <1>a, <3>1, <3>3 DEF Afoot
    <2>3. CASE Stop(w) \/ Restart(w)
        BY <2>3 DEF Stop, Restart, Afoot, brokerVars
    <2> QED
        BY <1>2, <2>1, <2>2, <2>3 DEF Process
<1>3. ASSUME NEW w \in Workers, ReportProgress(w) \/ WriteProgress(w) PROVE Afoot(m)
    BY <1>3 DEF ReportProgress, WriteProgress, Afoot, brokerVars
<1>4. ASSUME Expire PROVE Afoot(m)
    BY <1>t, <1>4 DEF Expire, ExpireMessage, Add, Remove, Afoot, workerVars
<1>5. UNCHANGED vars => Afoot(m)
    BY DEF vars, brokerVars, workerVars, Afoot
<1> QED
    BY <1>1, <1>2, <1>3, <1>4, <1>5 DEF Next

-----------------------------------------------------------------------------
(* The invariant's parts *)

(* Every message that is anywhere carries no higher a header than its job  *)
(* has attempts: deliveries, expiries and retry copies keep it so.         *)
LEMMA MessagesCountedStep ==
    ASSUME AttemptInv, [Next]_vars
    PROVE  MessagesCounted'
<1> USE DEF AttemptInv
<1> SUFFICES ASSUME NEW m \in Message, Afoot(m)' PROVE Counted(m)'
    BY DEF MessagesCounted
<1>1. CASE m = Malformed
    BY <1>1, ContractAssumption DEF Malformed, Counted
<1>2. CASE Afoot(m)
    BY <1>2, CountedStays DEF MessagesCounted
<1>3. ASSUME NEW w \in Workers, pc[w] = "publish", MayRetry(cur[w]), m = RetryCopy(cur[w])
      PROVE  Counted(m)'
    <2>1. cur[w] \in Message /\ CurJob(w) \in Jobs
        BY <1>3 DEF TypeInv, TypeOK, HandlerOK
    <2>2. m.job = CurJob(w) /\ m.retries = cur[w].retries + 1 /\ cur[w].retries < MaxRetries
        BY <1>3, <2>1, RetryCopyMessage DEF CurJob
    <2>3. RetryCount(m) = RetryCount(cur[w]) + 1 /\ RetryCount(cur[w]) \in Nat
        BY <2>1, <2>2, ContractAssumption DEF RetryCount, Corrupt, Message
    <2>4. jobs[CurJob(w)].attempts \in Nat
        BY <2>1 DEF TypeInv, TypeOK, JobStoreTypeOK, Row
    <2>5. RetryCount(cur[w]) < jobs[CurJob(w)].attempts
        BY <1>3 DEF AttemptCounted, Found
    <2>6. Counted(m)
        BY <2>2, <2>3, <2>4, <2>5 DEF Counted
    <2> QED
        BY <2>6, CountedStays
<1> QED
    BY <1>1, <1>2, <1>3, MessageOrigin

(* A handler in one of these states has not just begun: its message is     *)
(* unchanged, and it was in one before or has just read the status.        *)
LEMMA ReachesFound ==
    ASSUME TypeInv, [Next]_vars, NEW w \in Workers, pc'[w] \in Found
    PROVE  /\ cur'[w] = cur[w]
           /\ \/ pc[w] = pc'[w]
              \/ pc[w] \in Found \ {"mark_processing"}
              \/ GetStatus(w) /\ pc'[w] = "mark_processing"
              \/ MarkAttempt(w)
<1> USE DEF TypeInv, TypeOK, Found
<1> DEFINE Goal == /\ cur'[w] = cur[w]
                   /\ \/ pc[w] = pc'[w]
                      \/ pc[w] \in Found \ {"mark_processing"}
                      \/ GetStatus(w) /\ pc'[w] = "mark_processing"
                      \/ MarkAttempt(w)
<1>1. CASE Handler(w)
    BY <1>1
    DEF Handler, Begin, GetStatus, AfterStatus, EndPipeline, Complete,
        AckCompleted, SkipCompleted, Park, PublishFailure, PublishRaises,
        RecordFailure, SettleFailure, NackRequeue, AckDelivery, MarkAttempt, Statement,
        Goto, Return, Leave, At
<1>2. ASSUME NEW v \in Workers, v # w, Handler(v) PROVE Goal
    BY <1>2
    DEF Handler, Begin, GetStatus, AfterStatus, EndPipeline, Complete,
        AckCompleted, SkipCompleted, Park, PublishFailure, PublishRaises,
        RecordFailure, SettleFailure, NackRequeue, AckDelivery, MarkAttempt, Statement,
        Goto, Return, Leave, At
<1>3. ASSUME NEW v \in Workers, Process(v) PROVE Goal
    BY <1>3 DEF Process, Consume, Disconnect, RunOn, Cancel, Crash, Stop, Exit,
        Restart, Die, Leave, workerVars
<1>4. ASSUME NEW v \in Workers, ReportProgress(v) \/ WriteProgress(v) PROVE Goal
    BY <1>4 DEF ReportProgress, WriteProgress
<1>5. Expire \/ UNCHANGED vars => Goal
    BY DEF Expire, vars, workerVars
<1> QED
    BY <1>1, <1>2, <1>3, <1>4, <1>5 DEF Next

(* A handler past mark_processing has its own attempt counted on top of    *)
(* those its message carries.                                              *)
LEMMA AttemptCountedStep ==
    ASSUME CountedFaults, AttemptInv, [Next]_vars
    PROVE  AttemptCounted'
<1> USE DEF AttemptInv
<1> SUFFICES ASSUME NEW w \in Workers, pc'[w] \in Found
             PROVE  /\ jobs'[CurJob(w)].status # "absent"
                    /\ pc'[w] # "mark_processing" =>
                          RetryCount(cur[w]) < jobs'[CurJob(w)].attempts
                    /\ cur'[w] = cur[w]
    BY DEF AttemptCounted, CurJob
<1>1. cur'[w] = cur[w]
    BY ReachesFound
<1>2. cur[w] \in Message /\ RetryCount(cur[w]) \in Nat
    BY ContractAssumption DEF TypeInv, TypeOK, RetryCount, Message, Corrupt
<1>3. CurJob(w) \in Jobs
    BY <1>1, NextType DEF TypeInv, HandlerOK, Found, CurJob
<1>4. jobs[CurJob(w)] \in Row /\ jobs'[CurJob(w)] \in Row
    BY <1>3, NextType DEF TypeInv, TypeOK, JobStoreTypeOK
<1>5. CASE pc[w] \in Found /\ (pc[w] = pc'[w] \/ pc[w] # "mark_processing")
    BY <1>1, <1>2, <1>3, <1>4, <1>5, AttemptsGrow DEF AttemptCounted, Row
<1>6. CASE GetStatus(w) /\ pc'[w] = "mark_processing"
    <2>1. jobs[CurJob(w)].status # "absent" /\ UNCHANGED jobs
        BY <1>6 DEF GetStatus, AfterStatus, Goto, TypeInv, TypeOK
    <2> QED
        BY <1>1, <1>6, <2>1
<1>7. CASE MarkAttempt(w)
    <2>1. Update(CurJob(w), MarkProcessing(jobs[CurJob(w)]))
        BY <1>7 DEF MarkAttempt, Statement, Spend, CountedFaults
    <2>2. jobs[CurJob(w)].status # "absent"
        BY <1>7 DEF MarkAttempt, At, AttemptCounted, Found
    <2>3. jobs'[CurJob(w)] = MarkProcessing(jobs[CurJob(w)])
        BY <1>3, <2>1, <2>2 DEF Update, TypeInv, TypeOK, JobStoreTypeOK
    <2>4. /\ jobs'[CurJob(w)].attempts = jobs[CurJob(w)].attempts + 1
          /\ jobs'[CurJob(w)].status = "processing"
        BY <1>4, <2>3 DEF MarkProcessing, Row
    <2>5. RetryCount(cur[w]) <= jobs[CurJob(w)].attempts
        BY <1>2, <1>3 DEF MessagesCounted, Afoot, Counted, CurJob
    <2> QED
        BY <1>1, <1>2, <1>4, <2>4, <2>5 DEF Row
<1> QED
    BY <1>1, <1>5, <1>6, <1>7, ReachesFound

(* Marking a job failed, the only step that could break the property, is   *)
(* taken by such a handler with no retries left.                           *)
LEMMA FailedStep ==
    ASSUME AttemptInv, [Next]_vars
    PROVE  FailedAfterAllAttempts'
<1> USE DEF AttemptInv
<1> SUFFICES ASSUME NEW j \in Jobs, jobs'[j].status = "failed"
             PROVE  jobs'[j].attempts > MaxRetries
    BY DEF FailedAfterAllAttempts
<1>1. jobs[j] \in Row /\ jobs'[j].attempts \in Nat
    BY NextType DEF TypeInv, TypeOK, JobStoreTypeOK, Row
<1>2. jobs[j].attempts <= jobs'[j].attempts /\ jobs[j].attempts \in Nat
    BY <1>1, AttemptsGrow DEF Row
<1>3. CASE jobs[j].status = "failed"
    BY <1>1, <1>2, <1>3, ContractAssumption DEF FailedAfterAllAttempts
<1>4. CASE jobs[j].status # "failed"
    <2>1. \A s \in Statements(jobs[j]) : s.status # "failed"
        BY <1>1, <1>4 DEF Statements, Row, MarkProcessing, CompleteRow, RecordRetry,
            UpdateProgress
    <2>2. PICK w \in Workers : pc[w] = "record" /\ ~MayRetry(cur[w]) /\ CurJob(w) = j
        BY <1>4, <2>1, RowStep
    <2>3. RetryCount(cur[w]) < jobs[j].attempts
        BY <2>2 DEF AttemptCounted, Found
    <2>4. RetryCount(cur[w]) \in Nat /\ RetryCount(cur[w]) >= MaxRetries
        BY <2>2, ContractAssumption
        DEF MayRetry, RetryCount, Message, Corrupt, TypeInv, TypeOK
    <2> QED
        BY <1>1, <1>2, <2>3, <2>4, ContractAssumption
<1> QED
    BY <1>3, <1>4

(* The API publishes without a header, and Extra messages are counted as   *)
(* assumed.                                                                *)
LEMMA InitAttempt == CountedFaults /\ Init => AttemptInv
<1> SUFFICES ASSUME CountedFaults, Init PROVE AttemptInv
    OBVIOUS
<1>1. \A j \in Jobs : jobs[j].attempts = 0 /\ jobs[j].status \in {"queued", "absent"}
    BY DEF Init, WorkerInit, NewRow, NoRow
<1>2. ASSUME NEW m \in Message, Afoot(m) PROVE Counted(m)
    <2>1. m \in {JobMessage(j) : j \in Jobs} \cup Extra \cup {Malformed}
        BY <1>2 DEF Afoot, Init, WorkerInit, AddAll, EmptyQueue
    <2>2. m.job \in Jobs => m.retries = 0
        BY <2>1, ContractAssumption DEF JobMessage, Malformed, CountedFaults
    <2>3. m.job \in Jobs => RetryCount(m) = 0
        BY <2>2, ContractAssumption DEF RetryCount, Corrupt
    <2> QED
        BY <1>1, <2>3 DEF Counted
<1>3. MessagesCounted /\ AttemptCounted /\ FailedAfterAllAttempts
    BY <1>1, <1>2 DEF MessagesCounted, AttemptCounted, Found, FailedAfterAllAttempts, Init, WorkerInit
<1> QED
    BY <1>3, InitType DEF AttemptInv

(***************************************************************************)
(* No job is given up early: a failed job was attempted once per delivery  *)
(* of the back-off schedule, for any number of workers, jobs and faults    *)
(* other than a statement that fails without effect.                       *)
(***************************************************************************)
THEOREM NoEarlyFailure ==
    ASSUME CountedFaults
    PROVE  Spec => []FailedAfterAllAttempts
<1>1. Init => AttemptInv
    BY InitAttempt
<1>2. AttemptInv /\ [Next]_vars => AttemptInv'
    BY NextType, MessagesCountedStep, AttemptCountedStep, FailedStep DEF AttemptInv
<1>3. AttemptInv => FailedAfterAllAttempts
    BY DEF AttemptInv
<1> QED
    BY <1>1, <1>2, <1>3, PTL DEF Spec
=============================================================================
