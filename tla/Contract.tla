------------------------------ MODULE Contract ------------------------------
(***************************************************************************)
(* The queue contract shared by the API (producer) and the worker          *)
(* (consumer): what a transcription message carries, and what the worker   *)
(* decides from the retry header of a message whose processing failed.     *)
(*                                                                         *)
(* A message is abstracted to the job it names and its x-retry-count       *)
(* header.  The file path is a function of the job (<jobId>.<ext>), and    *)
(* the body's "attempt" field is written as 0 and never read.              *)
(***************************************************************************)
EXTENDS Integers

CONSTANTS
    Jobs,        \* job ids (the uuids generated by the API)
    NoJob,       \* stands for a body with no usable job id
    MaxRetries   \* number of back-off delays: 3 in the code

ASSUME ContractAssumption ==
    /\ NoJob \notin Jobs
    /\ MaxRetries \in Nat

(* The header value that int() cannot parse. *)
Corrupt == MaxRetries + 1

Message == [job : Jobs \cup {NoJob}, retries : 0..Corrupt]

(* What the API publishes for a new upload: no header, read as 0. *)
JobMessage(j) == [job |-> j, retries |-> 0]

(* A body that is not JSON, lacks a field, or whose jobId is not a uuid. *)
Malformed == [job |-> NoJob, retries |-> 0]

(* An unreadable header counts as "no retries left". *)
RetryCount(m) == IF m.retries = Corrupt THEN MaxRetries ELSE m.retries

(* Mutant of MayRetry: one retry too few. *)
MayRetryShort(m) == RetryCount(m) < MaxRetries - 1

(* decide(retry_count) returns Retry rather than Dead. *)
MayRetry(m) == RetryCount(m) < MaxRetries

RetryCopy(m) == [m EXCEPT !.retries = RetryCount(m) + 1]
=============================================================================
