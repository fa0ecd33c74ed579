------------------------------- MODULE Readers -------------------------------
(***************************************************************************)
(* What clients read while uploads and workers go on: GET :id, GET         *)
(* :id/export, and GET with limit and offset, called page after page by a  *)
(* client that walks the whole list (transcriptions.controller.ts and      *)
(* transcriptions.service.ts, dto/job-response.dto.ts).                    *)
(*                                                                         *)
(* A request reads the table in one statement.  created_at is the order    *)
(* of the inserts; names, languages and dates are left out of the replies. *)
(***************************************************************************)
EXTENDS ScribeFlow, Sequences, FiniteSets, Functions

CONSTANT Limit     \* of the walking client: 20 by default, 1 to 100

ASSUME ReadersAssumption == Limit \in 1..100

VARIABLES
    now,        \* the time: it passes with every insert
    created,    \* per job: its created_at
    offset,     \* of the next page of the walk
    walking,    \* "not yet", "walking", or "done": a page came back empty
    pending,    \* jobs there when the walk began, not listed so far
    undone      \* rows deleted since then

readerVars == <<offset, walking, pending>>
tableVars == <<now, created>>
readersVars == <<sysVars, tableVars, readerVars, undone>>

Present(table) == {j \in Jobs : table[j].status # "absent"}

ReadersInit ==
    /\ SystemInit
    /\ now = 0
    /\ created = [j \in Jobs |-> 0]
    /\ offset = 0
    /\ walking = "not yet"
    /\ pending = {}
    /\ undone = {}

-----------------------------------------------------------------------------
(* What the endpoints answer *)

(* The rows of the table, each once, in some order. *)
Listings == Bijection(1..Cardinality(Present(jobs)), Present(jobs))

(* Mutant of Orders: the query has no ORDER BY, the rows come in whatever  *)
(* order the updates of the workers left them.                             *)
OrdersAny == Listings

(* ORDER BY created_at DESC *)
Orders == {s \in Listings : \A a, b \in DOMAIN s :
                                a < b => created[s[a]] >= created[s[b]]}

(* The pages that list(limit, from) may return. *)
List(limit, from) ==
    {SubSeq(s, from + 1, IF from + limit <= Len(s) THEN from + limit ELSE Len(s))
        : s \in Orders}

(* toJobDetail: error and transcript are shown in their own state only. *)
Detail(j) ==
    LET r == jobs[j]
    IN  [status     |-> r.status,
         error      |-> r.status = "failed" /\ r.error,
         transcript |-> r.status = "completed" /\ r.transcript]

Export(j) ==
    IF jobs[j].status = "absent" THEN "not found"
    ELSE IF jobs[j].status = "completed" /\ jobs[j].transcript THEN "subtitles"
    ELSE "conflict"

-----------------------------------------------------------------------------
(* A client that walks the list: an empty one has nothing to miss. *)

StartWalk ==
    /\ walking = "not yet"
    /\ Present(jobs) # {}
    /\ walking' = "walking"
    /\ pending' = Present(jobs)
    /\ undone' = {}
    /\ UNCHANGED offset

NextPage ==
    /\ walking = "walking"
    /\ \E page \in List(Limit, offset) :
          /\ pending' = pending \ {page[i] : i \in DOMAIN page}
          /\ IF page = <<>>
             THEN walking' = "done" /\ offset' = 0
             ELSE walking' = "walking" /\ offset' = offset + Len(page)
    /\ UNCHANGED undone

Read ==
    /\ StartWalk \/ NextPage
    /\ UNCHANGED <<sysVars, tableVars>>

(* A step of the service, with the history of the table. *)
Serve ==
    /\ SystemNext
    /\ LET inserted == Present(jobs') \ Present(jobs)
       IN  /\ now' = IF inserted = {} THEN now ELSE now + 1
           /\ created' = [j \in Jobs |-> IF j \in inserted THEN now' ELSE created[j]]
    /\ undone' = IF walking = "walking"
                 THEN undone \cup (Present(jobs) \ Present(jobs')) ELSE undone
    /\ UNCHANGED readerVars

ReadersNext == Serve \/ Read

ReadersSpec == ReadersInit /\ [][ReadersNext]_readersVars

-----------------------------------------------------------------------------
(* Properties *)

(* A client that is sent to an existing job finds it completed, then and   *)
(* ever after: the poll shows its transcript and the export never          *)
(* conflicts, whatever becomes of other uploads, of retries and crashes.   *)
(* Three faults are left out: a completed job is reopened when its commit  *)
(* or its acknowledgement is lost (CompletedIsFinal), and is deleted when  *)
(* the confirmation of its own publish is.                                 *)
DuplicateIsCompleted ==
    \A u \in Jobs : answer[u] = "duplicate" =>
        /\ Detail(duplicateOf[u]).transcript
        /\ Export(duplicateOf[u]) = "subtitles"

(* Walking the list page by page while uploads arrive, jobs change their   *)
(* status and refused uploads are undone: a job that was there when the    *)
(* walk began is listed, but for one at most for every row deleted since;  *)
(* inserts and updates hide nothing.                                       *)
WalkMissesOnlyUndone ==
    walking = "done" => Cardinality(pending) <= Cardinality(undone)
=============================================================================
