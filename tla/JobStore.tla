------------------------------ MODULE JobStore ------------------------------
(***************************************************************************)
(* The jobs table in Postgres, the source of truth for what a client sees. *)
(* Each SQL statement the two services run is an operator from the row it  *)
(* finds to the row it leaves.  Text, language and duration are abstracted *)
(* to "the transcript column is set"; error text to "error is not NULL";   *)
(* progress is counted in reporting steps, FullProgress standing for 1.    *)
(***************************************************************************)
EXTENDS Contract

CONSTANT FullProgress   \* 1 / PROGRESS_REPORT_STEP: 10 in the code

ASSUME JobStoreAssumption == FullProgress \in Nat \ {0}

VARIABLE jobs           \* the row of every job id

Status == {"queued", "processing", "completed", "failed"}

Row == [status     : Status \cup {"absent"},
        attempts   : Nat,
        progress   : 0..FullProgress,
        transcript : BOOLEAN,
        error      : BOOLEAN]

(* No row has this id: never inserted, or deleted again. *)
NoRow == [status |-> "absent", attempts |-> 0, progress |-> 0,
          transcript |-> FALSE, error |-> FALSE]

(* Mutant of NewRow: a status the schema does not know. *)
NewRowPending == [NoRow EXCEPT !.status = "pending"]

(* The row the API inserts; the other columns take their defaults. *)
NewRow == [NoRow EXCEPT !.status = "queued"]

MarkProcessing(r) ==
    [r EXCEPT !.status = "processing", !.attempts = @ + 1, !.progress = 0]

(* Mutant of UpdateProgress: the WHERE clause forgets the status. *)
UpdateProgressUnguarded(r, p) == [r EXCEPT !.progress = p]

(* WHERE id = $1 AND status = 'processing' *)
UpdateProgress(r, p) ==
    IF r.status = "processing" THEN [r EXCEPT !.progress = p] ELSE r

(* Mutant of CompleteRow: percent for a fraction. *)
CompleteRowPercent(r) ==
    [r EXCEPT !.status = "completed", !.transcript = TRUE,
              !.progress = FullProgress + 1, !.error = FALSE]

CompleteRow(r) ==
    [r EXCEPT !.status = "completed", !.transcript = TRUE,
              !.progress = FullProgress, !.error = FALSE]

RecordRetry(r) == [r EXCEPT !.status = "queued", !.error = TRUE]

FailRow(r) == [r EXCEPT !.status = "failed", !.error = TRUE]

(* Mutant of Update: an upsert. *)
UpdateOrInsert(j, row) == jobs' = [jobs EXCEPT ![j] = row]

(* UPDATE jobs ... WHERE id = j touches nothing when there is no such row. *)
Update(j, row) ==
    jobs' = IF jobs[j].status = "absent" THEN jobs
            ELSE [jobs EXCEPT ![j] = row]

-----------------------------------------------------------------------------
JobStoreTypeOK == jobs \in [Jobs -> Row]

(***************************************************************************)
(* What the API may show is coherent: a completed job has its transcript,  *)
(* full progress and no error, although progress writes are fired and      *)
(* forgotten from the pipeline thread and land whenever the pool gets to   *)
(* them; a failed job always carries the error the API exposes.            *)
(***************************************************************************)
RowCoherent(r) ==
    /\ r.status = "completed" =>
          r.transcript /\ r.progress = FullProgress /\ ~r.error
    /\ r.status = "failed" => r.error

ResultCoherent == \A j \in Jobs : RowCoherent(jobs[j])
=============================================================================
