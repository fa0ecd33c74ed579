------------------------------ MODULE WebClient ------------------------------
(***************************************************************************)
(* The page that uploads a file and polls for its transcript               *)
(* (web/app/page.tsx): an upload callback with one or two fetches, a state *)
(* variable job, and an effect that polls every two seconds while that job *)
(* is queued or processing.  Polls are not awaited by the next tick, so    *)
(* several may be under way, and their replies come in any order.          *)
(*                                                                         *)
(* Every request passes the proxy of the web server (web/lib/api.ts and    *)
(* the route handlers), which adds the API key, or throws without one, and *)
(* keeps the status of the reply.  The API is what a poll can see of it:   *)
(* the status of each job.                                                 *)
(***************************************************************************)
EXTENDS Integers

CONSTANTS
    Jobs,
    None,
    MaxPolls,      \* bound on the polls under way with the same reply
    MaxRetries,    \* bound on the retries of a job
    MaxFailures    \* bound on the requests that fail

ASSUME ClientAssumption ==
    /\ None \notin Jobs
    /\ MaxPolls \in Nat \ {0} /\ MaxRetries \in Nat /\ MaxFailures \in Nat

VARIABLES
    status,     \* per job: the column in the jobs table
    retries,    \* per job: how often it changed
    uploading,  \* the await the upload callback is at
    uploadError,\* the page shows an error message of an upload
    shown,      \* the page's job: its id and status
    timer,      \* the job whose interval is installed
    polls,      \* how many polls of a job are under way with a given reply
    latest,     \* the job the last answered upload is about
    apiKey,     \* the web server has its API_KEY
    failures    \* requests that failed so far

serverVars == <<status, retries>>
clientVars == <<serverVars, uploading, uploadError, shown, timer, polls,
                latest, apiKey, failures>>

Pending == {"queued", "processing"}
Final == {"completed", "failed"}

(* A poll is to be answered, or the reply with this status is on its way. *)
PollState == {"none"} \cup Pending \cup Final

(* Nothing is shown; or the body of an error reply, taken for a job. *)
Nothing == [id |-> None, status |-> "none"]
Garbled == [id |-> None, status |-> "undefined"]

ClientTypeOK ==
    /\ status \in [Jobs -> {"absent"} \cup Pending \cup Final]
    /\ retries \in [Jobs -> 0..MaxRetries]
    /\ uploading \in {"no", "post", "fetch"}
    /\ uploadError \in BOOLEAN
    /\ shown \in [id : Jobs, status : Pending \cup Final] \cup {Nothing, Garbled}
    /\ timer \in Jobs \cup {None}
    /\ polls \in [Jobs -> [PollState -> 0..MaxPolls]]
    /\ latest \in Jobs \cup {None}
    /\ apiKey \in BOOLEAN
    /\ failures \in 0..MaxFailures

Init ==
    /\ status = [j \in Jobs |-> "absent"]
    /\ retries = [j \in Jobs |-> 0]
    /\ uploading = "no"
    /\ uploadError = FALSE
    /\ shown = Nothing
    /\ timer = None
    /\ polls = [j \in Jobs |-> [s \in PollState |-> 0]]
    /\ latest = None
    /\ apiKey \in BOOLEAN
    /\ failures = 0

-----------------------------------------------------------------------------
(* The server *)

ServerStarts(j) ==
    /\ status[j] = "queued"
    /\ status' = [status EXCEPT ![j] = "processing"]
    /\ UNCHANGED <<retries, uploading, uploadError, shown, timer, polls, latest,
                   apiKey, failures>>

ServerRetries(j) ==
    /\ status[j] = "processing"
    /\ retries[j] < MaxRetries
    /\ retries' = [retries EXCEPT ![j] = @ + 1]
    /\ status' = [status EXCEPT ![j] = "queued"]
    /\ UNCHANGED <<uploading, uploadError, shown, timer, polls, latest,
                   apiKey, failures>>

ServerSettles(j) ==
    /\ status[j] = "processing"
    /\ \E s \in Final : status' = [status EXCEPT ![j] = s]
    /\ UNCHANGED <<retries, uploading, uploadError, shown, timer, polls, latest,
                   apiKey, failures>>

-----------------------------------------------------------------------------
(* upload *)

Fail == failures < MaxFailures /\ failures' = failures + 1

(* passthrough: what the API answers arrives, if apiHeaders has a key. *)
Proxied == apiKey

Busy == uploading # "no" \/ shown.status \in Pending

(* There is a name for the job of another upload: the bound on uploads. *)
NameLeft == \E j \in Jobs : status[j] \in {"absent", "completed"}

(* Mutants of StartUpload: a status of its own for the time of the upload; *)
(* the error of the last upload stays.                                     *)
StartUploadShown ==
    /\ ~Busy
    /\ NameLeft
    /\ uploading' = "post"
    /\ uploadError' = FALSE
    /\ shown' = [id |-> None, status |-> "uploading"]
    /\ UNCHANGED <<serverVars, timer, polls, latest, apiKey, failures>>
StartUploadKeepsError ==
    /\ ~Busy
    /\ NameLeft
    /\ uploading' = "post"
    /\ shown' = Nothing
    /\ UNCHANGED <<serverVars, uploadError, timer, polls, latest, apiKey, failures>>

(* A file is dropped or chosen.  A busy page takes no pointer events. *)
StartUpload ==
    /\ ~Busy
    /\ NameLeft
    /\ uploading' = "post"
    /\ uploadError' = FALSE
    /\ shown' = Nothing
    /\ UNCHANGED <<serverVars, timer, polls, latest, apiKey, failures>>

(* 202: a new job; the reply carries the status it was inserted with. *)
UploadAccepted ==
    /\ uploading = "post"
    /\ Proxied
    /\ \E j \in Jobs :
          /\ status[j] = "absent"
          /\ status' = [status EXCEPT ![j] = "queued"]
          /\ shown' = [id |-> j, status |-> "queued"]
          /\ latest' = j
    /\ uploading' = "no"
    /\ UNCHANGED <<retries, uploadError, timer, polls, apiKey, failures>>

(* The same content was transcribed before: fetch that job. *)
UploadDuplicate ==
    /\ uploading = "post"
    /\ Proxied
    /\ \E j \in Jobs :
          /\ status[j] = "completed"
          /\ latest' = j
    /\ uploading' = "fetch"
    /\ UNCHANGED <<serverVars, uploadError, shown, timer, polls, apiKey, failures>>

(* The status of this second reply is not looked at. *)
FetchDuplicate ==
    /\ uploading = "fetch"
    /\ \/ /\ shown' = [id |-> latest, status |-> status[latest]]
          /\ UNCHANGED failures
       \/ /\ Fail
          /\ shown' = Garbled
    /\ uploading' = "no"
    /\ UNCHANGED <<serverVars, uploadError, timer, polls, latest, apiKey>>

(* Mutant of UploadFails: nothing is done finally. *)
UploadFailsBusy ==
    /\ uploading # "no"
    /\ (~Proxied /\ UNCHANGED failures) \/ Fail
    /\ uploadError' = TRUE
    /\ UNCHANGED <<serverVars, uploading, shown, timer, polls, latest, apiKey>>

(* A fetch rejects, the proxy throws, or the upload is refused: an error   *)
(* message.                                                                *)
UploadFails ==
    /\ uploading # "no"
    /\ (~Proxied /\ UNCHANGED failures) \/ Fail
    /\ uploadError' = TRUE
    /\ uploading' = "no"
    /\ UNCHANGED <<serverVars, shown, timer, polls, latest, apiKey>>

-----------------------------------------------------------------------------
(* The polling effect *)

(* Mutant of Watched: a job put back for a retry is not polled. *)
WatchedProcessing == IF shown.status = "processing" THEN shown.id ELSE None

Watched == IF shown.status \in Pending THEN shown.id ELSE None

(* After a render: clean the old interval up, install the new one. *)
RunEffect ==
    /\ timer # Watched
    /\ timer' = Watched
    /\ UNCHANGED <<serverVars, uploading, uploadError, shown, polls, latest,
                   apiKey, failures>>

Tick ==
    /\ timer # None
    /\ polls[timer]["none"] < MaxPolls
    /\ polls' = [polls EXCEPT ![timer]["none"] = @ + 1]
    /\ UNCHANGED <<serverVars, uploading, uploadError, shown, timer, latest,
                   apiKey, failures>>

(* The API reads the row; the reply is on its way. *)
ReadRow(j) ==
    /\ polls[j]["none"] > 0
    /\ polls[j][status[j]] < MaxPolls
    /\ polls' = [polls EXCEPT ![j]["none"] = @ - 1, ![j][status[j]] = @ + 1]
    /\ UNCHANGED <<serverVars, uploading, uploadError, shown, timer, latest,
                   apiKey, failures>>

(* Mutant of Show: whichever job the reply is about. *)
ShowAny(j, s) == shown' = [id |-> j, status |-> s]

(* setJob((current) => current?.id === fresh.id ? fresh : current) *)
Show(j, s) == shown' = IF shown.id = j THEN [id |-> j, status |-> s] ELSE shown

TakeReply(j, s) ==
    /\ polls[j][s] > 0
    /\ polls' = [polls EXCEPT ![j][s] = @ - 1]
    /\ Show(j, s)
    /\ UNCHANGED <<serverVars, uploading, uploadError, timer, latest, apiKey,
                   failures>>

(* Not ok, or rejected: keep polling. *)
LoseReply(j, s) ==
    /\ polls[j][s] > 0
    /\ Fail
    /\ polls' = [polls EXCEPT ![j][s] = @ - 1]
    /\ UNCHANGED <<serverVars, uploading, uploadError, shown, timer, latest, apiKey>>

-----------------------------------------------------------------------------
(* What the page renders of all this. *)
OnPage ==
    {part \in {"upload error", "chip", "progress bar", "error", "downloads"} :
        CASE part = "upload error" -> uploadError
          [] part = "chip"         -> shown # Nothing
          [] part = "progress bar" -> shown.status \in Pending
          [] part = "error"        -> shown.status = "failed"
          [] part = "downloads"    -> shown.status = "completed"}

-----------------------------------------------------------------------------
Replies(j) == \E s \in Pending \cup Final : TakeReply(j, s)

Next ==
    \/ StartUpload
    \/ UploadAccepted
    \/ UploadDuplicate
    \/ FetchDuplicate
    \/ UploadFails
    \/ RunEffect
    \/ Tick
    \/ \E j \in Jobs : \/ ServerStarts(j)
                       \/ ServerRetries(j)
                       \/ ServerSettles(j)
                       \/ ReadRow(j)
                       \/ Replies(j)
                       \/ \E s \in Pending \cup Final : LoseReply(j, s)

Spec == Init /\ [][Next]_clientVars

(* The browser runs effects and timers, requests are answered, and jobs    *)
(* settle; nobody need upload anything.                                    *)
Fairness ==
    /\ WF_clientVars(UploadAccepted \/ UploadDuplicate)
    /\ WF_clientVars(FetchDuplicate)
    /\ WF_clientVars(UploadFails /\ ~Proxied)
    /\ WF_clientVars(RunEffect)
    /\ WF_clientVars(Tick)
    /\ \A j \in Jobs : /\ WF_clientVars(ServerStarts(j))
                       /\ WF_clientVars(ServerSettles(j))
                       /\ WF_clientVars(ReadRow(j))
                       /\ \A s \in Pending \cup Final : WF_clientVars(TakeReply(j, s))

FairSpec == Spec /\ Fairness

-----------------------------------------------------------------------------
(* Properties *)

(* A reply to a poll of an earlier upload's job never replaces what the    *)
(* user looks at now, however late it comes.                               *)
ShownIsLatest == shown.id # None => shown.id = latest

(* The page shows one outcome: the job of the last upload or its error,    *)
(* never both, and nothing of earlier uploads while one is under way,      *)
(* whichever polls of theirs are still to be answered; and it offers the   *)
(* downloads only for what the export will not refuse.                     *)
OneOutcomeShown ==
    /\ ~ {"upload error", "chip"} \subseteq OnPage
    /\ uploading # "no" => OnPage = {}
    /\ "downloads" \in OnPage => status[shown.id] = "completed"

(* The page never stays busy: an upload ends, however it ends, and the job *)
(* comes to rest in the page's eyes, so the next file can be dropped.      *)
BusyEnds == Busy ~> ~Busy

(* The page comes to show what became of its job, and goes on showing it:  *)
(* an overtaken reply that resurrects an old status resurrects polling.    *)
EventuallyTrue ==
    \A j \in Jobs :
        <>[](shown.id = j => shown.status \in Final /\ shown.status = status[j])
=============================================================================
