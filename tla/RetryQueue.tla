------------------------------ MODULE RetryQueue ------------------------------
(***************************************************************************)
(* The retry queue with its clock: handle_failure publishes a copy with a  *)
(* TTL of its own (worker/retry.py), and RabbitMQ, which looks at the head *)
(* of the queue only, returns it to the work queue when that TTL is over.  *)
(* A copy behind one with a longer TTL waits longer than it asked for.     *)
(*                                                                         *)
(* A copy's age is counted from its publication, in ticks; RabbitMQ acts   *)
(* on an overdue head before the next tick.  The queues besides are those  *)
(* of Broker, whose bag of waiting copies this queue implements.           *)
(***************************************************************************)
EXTENDS Contract, Sequences, FiniteSets

CONSTANTS
    Workers,
    Ttl,           \* RETRY_TTLS_MS, from 0: 1, 3 and 9 units in the code
    MaxCrashes     \* bound on the workers that die while they hold a message

ASSUME RetryQueueAssumption ==
    /\ Ttl \in [0..(MaxRetries - 1) -> Nat \ {0}]
    /\ MaxCrashes \in Nat

VARIABLES
    jobsQueue, deadQueue, unacked,
    line,          \* the retry queue, its head first
    copied,        \* workers whose copy is published, the ack still to come
    crashes

retryVars == <<jobsQueue, deadQueue, unacked, line, copied, crashes>>

(* The bag that Broker takes the retry queue for. *)
RetryBag ==
    [m \in Message |-> Cardinality({i \in DOMAIN line : line[i].copy = m})]

Bags == INSTANCE Broker WITH retryQueue <- RetryBag

Entry == [copy : Message, ttl : Nat \ {0}, age : Nat]

RetryTypeOK ==
    /\ Bags!BrokerTypeOK
    /\ line \in Seq(Entry)
    /\ copied \subseteq Workers
    /\ crashes \in 0..MaxCrashes

Init ==
    /\ jobsQueue = Bags!AddAll(Bags!EmptyQueue, {JobMessage(j) : j \in Jobs})
    /\ deadQueue = Bags!EmptyQueue
    /\ unacked = [w \in Workers |-> {}]
    /\ line = <<>>
    /\ copied = {}
    /\ crashes = 0

-----------------------------------------------------------------------------
(* The worker *)

(* Mutant of TtlOf: the delay of the attempt before. *)
TtlOfPrevious(m) == Ttl[IF RetryCount(m) = 0 THEN MaxRetries - 1 ELSE RetryCount(m) - 1]

TtlOf(m) == Ttl[RetryCount(m)]

Deliver(w) ==
    /\ UNCHANGED <<line, copied, crashes>>
    /\ Bags!Deliver(w)

(* The attempt succeeded. *)
Finish(w) ==
    /\ unacked[w] # {} /\ w \notin copied
    /\ UNCHANGED <<line, copied, crashes>>
    /\ Bags!Ack(w)

PublishRetry(w) ==
    /\ w \notin copied
    /\ \E m \in unacked[w] :
          /\ MayRetry(m)
          /\ line' = Append(line, [copy |-> RetryCopy(m), ttl |-> TtlOf(m), age |-> 0])
    /\ copied' = copied \cup {w}
    /\ UNCHANGED <<jobsQueue, deadQueue, unacked, crashes>>

PublishDead(w) ==
    /\ w \notin copied
    /\ copied' = copied \cup {w}
    /\ UNCHANGED <<line, crashes>>
    /\ \E m \in unacked[w] : ~MayRetry(m) /\ Bags!PublishDead(m)

Settle(w) ==
    /\ w \in copied
    /\ copied' = copied \ {w}
    /\ UNCHANGED <<line, crashes>>
    /\ Bags!Ack(w)

(* Its message comes back; a copy it published stays where it is. *)
Crash(w) ==
    /\ unacked[w] # {}
    /\ crashes < MaxCrashes
    /\ crashes' = crashes + 1
    /\ copied' = copied \ {w}
    /\ UNCHANGED line
    /\ Bags!Requeue(w)

-----------------------------------------------------------------------------
(* RabbitMQ *)

Overdue == line # <<>> /\ Head(line).age >= Head(line).ttl

(* Mutants of Expire: a copy's TTL starts when it becomes the head; what   *)
(* is overdue behind the head is dropped with it.                          *)
ExpireRestartsNext ==
    /\ Overdue
    /\ line' = [i \in DOMAIN Tail(line) |->
                  IF i = 1 THEN [line[2] EXCEPT !.ttl = @ + line[2].age] ELSE line[i + 1]]
    /\ jobsQueue' = Bags!Add(jobsQueue, Head(line).copy)
    /\ UNCHANGED <<deadQueue, unacked, copied, crashes>>
ExpireLost ==
    /\ Overdue
    /\ line' = SelectSeq(line, LAMBDA e : e.age < e.ttl)
    /\ jobsQueue' = Bags!Add(jobsQueue, Head(line).copy)
    /\ UNCHANGED <<deadQueue, unacked, copied, crashes>>

(* Only the head is looked at. *)
Expire ==
    /\ Overdue
    /\ line' = Tail(line)
    /\ jobsQueue' = Bags!Add(jobsQueue, Head(line).copy)
    /\ UNCHANGED <<deadQueue, unacked, copied, crashes>>

Tick ==
    /\ line # <<>>
    /\ ~Overdue
    /\ line' = [i \in DOMAIN line |-> [line[i] EXCEPT !.age = @ + 1]]
    /\ UNCHANGED <<jobsQueue, deadQueue, unacked, copied, crashes>>

-----------------------------------------------------------------------------
Next ==
    \/ \E w \in Workers : \/ Deliver(w)
                          \/ Finish(w)
                          \/ PublishRetry(w)
                          \/ PublishDead(w)
                          \/ Settle(w)
                          \/ Crash(w)
    \/ Expire
    \/ Tick

Spec == Init /\ [][Next]_retryVars

-----------------------------------------------------------------------------
(* Properties *)

(* Head-of-line blocking does not add up: however many copies queue up in  *)
(* whatever order, none waits longer than the longest of the delays        *)
(* (shared/message-schema.md only says that it "expires late").            *)
WaitBounded ==
    \A i \in DOMAIN line : \E r \in DOMAIN Ttl : line[i].age <= Ttl[r]

(* Nor does a copy come back early: one with header r has waited for the   *)
(* delay that the contract's table gives for r - 1.                        *)
BackedOff ==
    [][\A m \in Message :
          RetryBag'[m] < RetryBag[m] =>
              \E i \in DOMAIN line : /\ line[i].copy = m
                                     /\ line[i].age >= Ttl[m.retries - 1]]_retryVars

(* The bag of Broker, from which any copy may leave at any time, leaves    *)
(* nothing out that this queue can do, which covers what Worker and        *)
(* ScribeFlow show with it.                                                *)
ImplementsBags == [][Bags!BrokerStep]_(Bags!brokerVars)
=============================================================================
