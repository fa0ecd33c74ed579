------------------------------- MODULE Upload -------------------------------
(***************************************************************************)
(* The upload path of the API: the file interceptor writes the upload to   *)
(* the temp directory, TranscriptionsService.create hashes it, looks for a *)
(* completed job with the same content, moves the file to its final name,  *)
(* inserts the row, publishes the message and waits for the broker's       *)
(* confirmation, or undoes the insert.  Every await is a step of its own.  *)
(*                                                                         *)
(* An upload request makes at most one job, whose id is drawn for it: a    *)
(* request and its job share a name.  A client that retries sends another  *)
(* request.  Several API processes may share the volume and the table.     *)
(***************************************************************************)
EXTENDS JobStore, Broker

CONSTANTS
    Apis,          \* API processes
    Content,       \* the sha256 of each request's file
    ApiFaults,     \* the kinds of fault that may strike the API
    MaxApiFaults   \* how often altogether

ApiFaultKinds == {"apiCrash",        \* a process dies
                  "statement",       \* a statement raises, not executed
                  "lostInsert",      \* the insert raises, executed nevertheless
                  "noChannel",       \* not connected, or the broker nacks
                  "lostConfirm",     \* enqueued, but the connection is lost
                  "unlink"}          \* a file cannot be removed

ASSUME UploadAssumption ==
    /\ Apis # {}
    /\ DOMAIN Content = Jobs
    /\ ApiFaults \subseteq ApiFaultKinds
    /\ MaxApiFaults \in Nat

VARIABLES
    serving,     \* per API process: it listens
    reqPc,       \* per request: the await its handler is about to make
    host,        \* per request: the process that handles it
    answer,      \* per request: what the client was told
    duplicateOf, \* per request: the completed job found for its content
    temp,        \* requests whose upload is in the temp directory
    stored,      \* jobs whose audio file is at its final path
    unremoved,   \* history: jobs whose final file failed to be removed
    apiFaults    \* number of faults so far

uploadVars == <<serving, reqPc, host, answer, duplicateOf, temp, stored,
                unremoved, apiFaults>>

InTemp == {"hash", "lookup", "discard", "promote"}
AfterPromote == {"save", "publish", "confirm", "undo", "remove"}
ReqPC == {"unsent", "answered"} \cup InTemp \cup AfterPromote

Answer == {"none", "unsupported", "duplicate", "accepted",
           "unavailable", "error", "dropped"}

UploadTypeOK ==
    /\ serving \in [Apis -> BOOLEAN]
    /\ reqPc \in [Jobs -> ReqPC]
    /\ host \in [Jobs -> Apis]
    /\ answer \in [Jobs -> Answer]
    /\ duplicateOf \in [Jobs -> Jobs \cup {NoJob}]
    /\ temp \subseteq Jobs
    /\ stored \subseteq Jobs
    /\ unremoved \subseteq Jobs
    /\ apiFaults \in 0..MaxApiFaults

UploadInit ==
    /\ jobs = [j \in Jobs |-> NoRow]
    /\ serving = [a \in Apis |-> TRUE]
    /\ reqPc = [u \in Jobs |-> "unsent"]
    /\ host \in [Jobs -> Apis]
    /\ answer = [u \in Jobs |-> "none"]
    /\ duplicateOf = [u \in Jobs |-> NoJob]
    /\ temp = {}
    /\ stored = {}
    /\ unremoved = {}
    /\ apiFaults = 0

-----------------------------------------------------------------------------
(* Helpers *)

ApiSpend(kind) ==
    /\ kind \in ApiFaults
    /\ apiFaults < MaxApiFaults
    /\ apiFaults' = apiFaults + 1

Proceed(u, label) ==
    /\ reqPc' = [reqPc EXCEPT ![u] = label]
    /\ UNCHANGED answer

Respond(u, code) ==
    /\ reqPc' = [reqPc EXCEPT ![u] = "answered"]
    /\ answer' = [answer EXCEPT ![u] = code]

(* Mutant of Completed: any job with the same content. *)
CompletedOrNot(u) == {j \in Jobs : jobs[j].status # "absent" /\ Content[j] = Content[u]}

(* A completed job with the same content hash. *)
Completed(u) == {j \in Jobs : jobs[j].status = "completed" /\ Content[j] = Content[u]}

-----------------------------------------------------------------------------
(* POST /v1/transcriptions *)

(* The interceptor's filter applies validateUpload before any byte reaches *)
(* the disk; create's own check of the same name and type then passes.     *)
Refuse(u) ==
    /\ reqPc[u] = "unsent"
    /\ serving[host[u]]
    /\ Respond(u, "unsupported")
    /\ UNCHANGED <<jobs, brokerVars, serving, host, duplicateOf, temp, stored, unremoved, apiFaults>>

Receive(u) ==
    /\ reqPc[u] = "unsent"
    /\ serving[host[u]]
    /\ temp' = temp \cup {u}
    /\ Proceed(u, "hash")
    /\ UNCHANGED <<jobs, brokerVars, serving, host, duplicateOf, stored, unremoved, apiFaults>>

(* Reading a temp file that is gone raises. *)
Hash(u) ==
    /\ reqPc[u] = "hash"
    /\ IF u \in temp THEN Proceed(u, "lookup") ELSE Respond(u, "error")
    /\ UNCHANGED <<jobs, brokerVars, serving, host, duplicateOf, temp, stored, unremoved, apiFaults>>

Lookup(u) ==
    /\ reqPc[u] = "lookup"
    /\ \/ /\ Completed(u) = {}
          /\ Proceed(u, "promote")
          /\ UNCHANGED <<duplicateOf, apiFaults>>
       \/ /\ \E j \in Completed(u) : duplicateOf' = [duplicateOf EXCEPT ![u] = j]
          /\ Proceed(u, "discard")
          /\ UNCHANGED apiFaults
       \/ /\ ApiSpend("statement")
          /\ Respond(u, "error")
          /\ UNCHANGED duplicateOf
    /\ UNCHANGED <<jobs, brokerVars, serving, host, temp, stored, unremoved>>

Discard(u) ==
    /\ reqPc[u] = "discard"
    /\ \/ temp' = temp \ {u} /\ UNCHANGED apiFaults
       \/ ApiSpend("unlink") /\ UNCHANGED temp
    /\ Respond(u, "duplicate")
    /\ UNCHANGED <<jobs, brokerVars, serving, host, duplicateOf, stored, unremoved>>

(* rename() of a temp file that is gone raises. *)
Promote(u) ==
    /\ reqPc[u] = "promote"
    /\ IF u \in temp
       THEN /\ temp' = temp \ {u}
            /\ stored' = stored \cup {u}
            /\ Proceed(u, "save")
       ELSE /\ Respond(u, "error")
            /\ UNCHANGED <<temp, stored>>
    /\ UNCHANGED <<jobs, brokerVars, serving, host, duplicateOf, unremoved, apiFaults>>

Save(u) ==
    /\ reqPc[u] = "save"
    /\ \/ /\ jobs' = [jobs EXCEPT ![u] = NewRow]
          /\ Proceed(u, "publish")
          /\ UNCHANGED apiFaults
       \/ /\ ApiSpend("statement")
          /\ Respond(u, "error")
          /\ UNCHANGED jobs
       \/ /\ ApiSpend("lostInsert")
          /\ jobs' = [jobs EXCEPT ![u] = NewRow]
          /\ Respond(u, "error")
    /\ UNCHANGED <<brokerVars, serving, host, duplicateOf, temp, stored, unremoved>>

(* Mutant of PublishJob: the outcome of the publish is not awaited. *)
PublishJobUnawaited(u) ==
    /\ reqPc[u] = "publish"
    /\ \/ jobsQueue' = Add(jobsQueue, JobMessage(u)) /\ UNCHANGED apiFaults
       \/ ApiSpend("noChannel") /\ UNCHANGED jobsQueue
    /\ Proceed(u, "confirm")
    /\ UNCHANGED <<jobs, retryQueue, deadQueue, unacked,
                   serving, host, duplicateOf, temp, stored, unremoved>>

(* The broker takes the message; its confirmation is still to come. *)
PublishJob(u) ==
    /\ reqPc[u] = "publish"
    /\ \/ /\ jobsQueue' = Add(jobsQueue, JobMessage(u))
          /\ Proceed(u, "confirm")
          /\ UNCHANGED apiFaults
       \/ /\ ApiSpend("noChannel")
          /\ Proceed(u, "undo")
          /\ UNCHANGED jobsQueue
    /\ UNCHANGED <<jobs, retryQueue, deadQueue, unacked,
                   serving, host, duplicateOf, temp, stored, unremoved>>

Confirm(u) ==
    /\ reqPc[u] = "confirm"
    /\ \/ Respond(u, "accepted") /\ UNCHANGED apiFaults
       \/ ApiSpend("lostConfirm") /\ Proceed(u, "undo")
    /\ UNCHANGED <<jobs, brokerVars, serving, host, duplicateOf, temp, stored, unremoved>>

(* Mutant of UndoRow: the file goes first. *)
UndoRowLast(u) ==
    /\ reqPc[u] = "undo"
    /\ stored' = stored \ {u}
    /\ \/ /\ jobs' = [jobs EXCEPT ![u] = NoRow]
          /\ Proceed(u, "remove")
          /\ UNCHANGED apiFaults
       \/ /\ ApiSpend("statement")
          /\ Respond(u, "error")
          /\ UNCHANGED jobs
    /\ UNCHANGED <<brokerVars, serving, host, duplicateOf, temp, unremoved>>

(* The catch block: delete the row, then the file, then answer 503. *)
UndoRow(u) ==
    /\ reqPc[u] = "undo"
    /\ \/ /\ jobs' = [jobs EXCEPT ![u] = NoRow]
          /\ Proceed(u, "remove")
          /\ UNCHANGED apiFaults
       \/ /\ ApiSpend("statement")
          /\ Respond(u, "error")
          /\ UNCHANGED jobs
    /\ UNCHANGED <<brokerVars, serving, host, duplicateOf, temp, stored, unremoved>>

(* StorageService.remove swallows a failing unlink: the answer is the same. *)
UndoFile(u) ==
    /\ reqPc[u] = "remove"
    /\ \/ /\ stored' = stored \ {u}
          /\ UNCHANGED <<unremoved, apiFaults>>
       \/ /\ ApiSpend("unlink")
          /\ unremoved' = unremoved \cup {u}
          /\ UNCHANGED stored
    /\ Respond(u, "unavailable")
    /\ UNCHANGED <<jobs, brokerVars, serving, host, duplicateOf, temp>>

-----------------------------------------------------------------------------
(* The API process *)

InFlight(u) == reqPc[u] \notin {"unsent", "answered"}

(* Its clients lose their connections; files and rows stay as they are. *)
ApiCrash(a) ==
    /\ serving[a]
    /\ ApiSpend("apiCrash")
    /\ serving' = [serving EXCEPT ![a] = FALSE]
    /\ LET lost == {u \in Jobs : host[u] = a /\ InFlight(u)}
       IN  /\ reqPc' = [u \in Jobs |-> IF u \in lost THEN "answered" ELSE reqPc[u]]
           /\ answer' = [u \in Jobs |-> IF u \in lost THEN "dropped" ELSE answer[u]]
    /\ UNCHANGED <<jobs, brokerVars, host, duplicateOf, temp, stored, unremoved>>

(* onModuleInit purges the temp directory before the process listens: the  *)
(* uploads that other processes on the volume are handling go as well.     *)
ApiStart(a) ==
    /\ ~serving[a]
    /\ serving' = [serving EXCEPT ![a] = TRUE]
    /\ \/ temp' = {} /\ UNCHANGED apiFaults
       \/ ApiSpend("unlink") /\ temp' \in SUBSET temp
    /\ UNCHANGED <<jobs, brokerVars, reqPc, host, answer, duplicateOf, stored, unremoved>>

-----------------------------------------------------------------------------
Request(u) ==
    \/ Hash(u)
    \/ Lookup(u)
    \/ Discard(u)
    \/ Promote(u)
    \/ Save(u)
    \/ PublishJob(u)
    \/ Confirm(u)
    \/ UndoRow(u)
    \/ UndoFile(u)

UploadNext ==
    \/ \E u \in Jobs : Refuse(u) \/ Receive(u) \/ Request(u)
    \/ \E a \in Apis : ApiCrash(a) \/ ApiStart(a)
=============================================================================
