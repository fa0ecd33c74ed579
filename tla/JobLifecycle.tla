---------------------------- MODULE JobLifecycle ----------------------------
(***************************************************************************)
(* What the transcription service promises about a job, whoever looks at   *)
(* the jobs table and at the dead-letter queue: the state machine drawn in *)
(* README.md, with two transitions the drawing leaves out.  A failed job   *)
(* may be attempted again (a crash between recording the failure and the   *)
(* acknowledgement makes the broker redeliver), and a job whose row was    *)
(* deleted has its message parked.                                         *)
(*                                                                         *)
(* It says nothing of queues, deliveries, workers or faults.               *)
(***************************************************************************)
EXTENDS Integers

CONSTANTS
    Jobs,
    MaxRetries

VARIABLES
    status,     \* what a client polling the job sees
    attempts,   \* how many times processing was started
    parked      \* jobs with a message in the dead-letter queue, for inspection

vars == <<status, attempts, parked>>

Init ==
    /\ status \in [Jobs -> {"queued", "absent"}]
    /\ attempts = [j \in Jobs |-> 0]
    /\ parked = {}

Become(j, new) == status' = [status EXCEPT ![j] = new]

(* An attempt starts: the first, a retry, a redelivery, or a reopening. *)
Start(j) ==
    /\ status[j] \in {"queued", "processing", "failed"}
    /\ Become(j, "processing")
    /\ attempts' = [attempts EXCEPT ![j] = @ + 1]
    /\ UNCHANGED parked

Finish(j) ==
    /\ status[j] = "processing"
    /\ Become(j, "completed")
    /\ UNCHANGED <<attempts, parked>>

(* Handled failure, retries left. *)
BackOff(j) ==
    /\ status[j] = "processing"
    /\ Become(j, "queued")
    /\ UNCHANGED <<attempts, parked>>

(* Retries exhausted, or nothing to process. *)
Park(j) ==
    /\ \/ status[j] = "absent"
       \/ status[j] = "processing" /\ attempts[j] > MaxRetries
    /\ parked' = parked \cup {j}
    /\ UNCHANGED <<status, attempts>>

GiveUp(j) ==
    /\ status[j] = "processing"
    /\ j \in parked
    /\ attempts[j] > MaxRetries
    /\ Become(j, "failed")
    /\ UNCHANGED <<attempts, parked>>

Next == \E j \in Jobs : Start(j) \/ Finish(j) \/ BackOff(j) \/ Park(j) \/ GiveUp(j)

Spec == Init /\ [][Next]_vars
=============================================================================
