------------------------------- MODULE Broker -------------------------------
(***************************************************************************)
(* RabbitMQ as the two services declare and use it: the work queue         *)
(* transcription.jobs, the TTL queue transcription.retry whose expired     *)
(* messages return to the work queue, the parking queue transcription.dead *)
(* which nobody consumes, and one consumer channel per worker with manual  *)
(* acknowledgement and prefetch_count = 1.                                 *)
(*                                                                         *)
(* A queue is a bag: redelivery, expiry and several producers already      *)
(* reorder messages, so nothing is promised about order and every order is *)
(* explored.  Expiry may take any time, which covers the head-of-line      *)
(* blocking of the single retry queue.  Queues are durable and messages    *)
(* persistent, so a broker restart is a disconnection of its consumers.    *)
(***************************************************************************)
EXTENDS Contract

CONSTANT Workers        \* worker processes

VARIABLES
    jobsQueue, retryQueue, deadQueue,
    unacked             \* per worker: delivered on its current channel, unsettled

brokerVars == <<jobsQueue, retryQueue, deadQueue, unacked>>

Queue == [Message -> Nat]
EmptyQueue == [m \in Message |-> 0]

Add(q, m) == [q EXCEPT ![m] = @ + 1]
Remove(q, m) == [q EXCEPT ![m] = @ - 1]
AddAll(q, S) == [m \in Message |-> IF m \in S THEN q[m] + 1 ELSE q[m]]

(* Some message for job j is in queue q. *)
Holds(q, j) == \E m \in Message : m.job = j /\ q[m] > 0

BrokerTypeOK ==
    /\ jobsQueue \in Queue
    /\ retryQueue \in Queue
    /\ deadQueue \in Queue
    /\ unacked \in [Workers -> SUBSET Message]

-----------------------------------------------------------------------------
(* Broker-driven steps. *)

(* basic.deliver: only while the channel has nothing unsettled (prefetch 1). *)
Deliver(w) ==
    /\ unacked[w] = {}
    /\ \E m \in Message :
          /\ jobsQueue[m] > 0
          /\ jobsQueue' = Remove(jobsQueue, m)
          /\ unacked' = [unacked EXCEPT ![w] = {m}]
    /\ UNCHANGED <<retryQueue, deadQueue>>

(* Mutant of ExpireMessage: the retry queue has no dead-letter exchange. *)
ExpireDropsMessage ==
    \E m \in Message :
        /\ retryQueue[m] > 0
        /\ retryQueue' = Remove(retryQueue, m)
        /\ UNCHANGED <<jobsQueue, deadQueue, unacked>>

(* A TTL ran out: x-dead-letter-exchange scribeflow, routing key job. *)
ExpireMessage ==
    \E m \in Message :
        /\ retryQueue[m] > 0
        /\ retryQueue' = Remove(retryQueue, m)
        /\ jobsQueue' = Add(jobsQueue, m)
        /\ UNCHANGED <<deadQueue, unacked>>

-----------------------------------------------------------------------------
(* What settling a delivery, or losing its channel, does. *)

Ack(w) ==
    /\ unacked' = [unacked EXCEPT ![w] = {}]
    /\ UNCHANGED <<jobsQueue, retryQueue, deadQueue>>

(* nack(requeue=True), and what a closed channel does to its deliveries. *)
Requeue(w) ==
    /\ jobsQueue' = AddAll(jobsQueue, unacked[w])
    /\ unacked' = [unacked EXCEPT ![w] = {}]
    /\ UNCHANGED <<retryQueue, deadQueue>>

(* nack(requeue=False): x-dead-letter-exchange scribeflow.dlx, key dead. *)
DeadLetter(w) ==
    /\ deadQueue' = AddAll(deadQueue, unacked[w])
    /\ unacked' = [unacked EXCEPT ![w] = {}]
    /\ UNCHANGED <<jobsQueue, retryQueue>>

PublishRetry(m) ==
    /\ retryQueue' = Add(retryQueue, m)
    /\ UNCHANGED <<jobsQueue, deadQueue, unacked>>

PublishDead(m) ==
    /\ deadQueue' = Add(deadQueue, m)
    /\ UNCHANGED <<jobsQueue, retryQueue, unacked>>

(* Whatever may happen to the queues, at any time: what a more detailed    *)
(* broker has to implement.                                                *)
BrokerStep ==
    \/ ExpireMessage
    \/ \E w \in Workers : Deliver(w) \/ Ack(w) \/ Requeue(w) \/ DeadLetter(w)
    \/ \E m \in Message : PublishRetry(m) \/ PublishDead(m)
=============================================================================
