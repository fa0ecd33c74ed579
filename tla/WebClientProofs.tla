--------------------------- MODULE WebClientProofs ---------------------------
(***************************************************************************)
(* Proofs about what the page shows, for every number of jobs, polls under *)
(* way, retries and failed requests.                                       *)
(***************************************************************************)
EXTENDS WebClient, TLAPS

(* The page knows, polls and hears only of jobs that exist, and what it    *)
(* hears of a completed one stays true.                                    *)
JobsExist ==
    /\ shown.id # None => status[shown.id] # "absent"
    /\ timer # None => status[timer] # "absent"
    /\ \A j \in Jobs, s \in PollState : polls[j][s] > 0 => status[j] # "absent"
    /\ uploading = "fetch" => latest # None /\ status[latest] = "completed"

CompletedIsTrue ==
    /\ shown.status = "completed" => status[shown.id] = "completed"
    /\ \A j \in Jobs : polls[j]["completed"] > 0 => status[j] = "completed"

(* An upload starts from an empty page, and an error leaves it so. *)
EmptyPage ==
    /\ uploading # "no" => shown = Nothing /\ ~uploadError
    /\ uploadError => shown = Nothing

PageInv == /\ ClientTypeOK /\ JobsExist /\ CompletedIsTrue /\ EmptyPage
           /\ ShownIsLatest

-----------------------------------------------------------------------------
(* What shown can be. *)
LEMMA ShownShape ==
    ASSUME ClientTypeOK
    PROVE  /\ shown.id \in Jobs \cup {None}
           /\ shown.id \in Jobs => shown.status \in Pending \cup Final
           /\ shown.id = None => shown.status \in {"none", "undefined"}
    BY ClientAssumption DEF ClientTypeOK, Nothing, Garbled

(* An empty page shows nothing wrong.                                      *)
LEMMA PageInit == Init => PageInv
<1> SUFFICES ASSUME Init PROVE PageInv
    OBVIOUS
<1>1. ClientTypeOK
    <2>1. apiKey \in BOOLEAN /\ uploadError \in BOOLEAN
        BY Zenon DEF Init
    <2>2. shown \in [id : Jobs, status : Pending \cup Final] \cup {Nothing, Garbled}
        BY Zenon DEF Init
    <2>3. status \in [Jobs -> {"absent"} \cup Pending \cup Final]
        BY DEF Init
    <2>4. polls \in [Jobs -> [PollState -> 0..MaxPolls]]
        BY ClientAssumption DEF Init
    <2> QED
        BY <2>1, <2>2, <2>3, <2>4, ClientAssumption DEF Init, ClientTypeOK
<1>2. JobsExist
    BY DEF Init, JobsExist, PollState, Nothing
<1>3. CompletedIsTrue
    BY DEF Init, CompletedIsTrue, Nothing, PollState, Pending, Final
<1>4. EmptyPage /\ ShownIsLatest
    BY DEF Init, EmptyPage, ShownIsLatest, Nothing
<1> QED
    BY <1>1, <1>2, <1>3, <1>4 DEF PageInv

-----------------------------------------------------------------------------
(* The steps *)

(* A job that exists goes on to exist, and stays completed. *)
LEMMA ServerKeeps ==
    ASSUME PageInv, NEW j \in Jobs,
           ServerStarts(j) \/ ServerRetries(j) \/ ServerSettles(j)
    PROVE  PageInv'
<1>1. /\ UNCHANGED <<uploading, uploadError, shown, timer, polls, latest, apiKey, failures>>
      /\ status[j] \in Pending
      /\ \E s \in Pending \cup Final : status' = [status EXCEPT ![j] = s]
    BY DEF ServerStarts, ServerRetries, ServerSettles, Pending, Final
<1>2. retries' \in [Jobs -> 0..MaxRetries]
    BY ClientAssumption DEF PageInv, ClientTypeOK, ServerStarts, ServerRetries, ServerSettles
<1>3. ClientTypeOK'
    BY <1>1, <1>2, Zenon DEF PageInv, ClientTypeOK
<1>4. \A k \in Jobs : /\ status[k] # "absent" => status'[k] # "absent"
                      /\ status[k] = "completed" => status'[k] = "completed"
    BY <1>1 DEF PageInv, ClientTypeOK, Pending, Final
<1>5. JobsExist'
    BY <1>1, <1>4, ShownShape DEF PageInv, JobsExist, ClientTypeOK
<1>6. CompletedIsTrue'
    BY <1>1, <1>4, ShownShape, ClientAssumption DEF PageInv, CompletedIsTrue, Pending, Final
<1> QED
    BY <1>1, <1>3, <1>5, <1>6 DEF PageInv, EmptyPage, ShownIsLatest

(* The steps of the upload callback. *)
LEMMA UploadKeeps ==
    ASSUME PageInv,
           StartUpload \/ UploadAccepted \/ UploadDuplicate \/ FetchDuplicate \/ UploadFails
    PROVE  PageInv'
<1> USE ClientAssumption
    DEF PageInv, ClientTypeOK, JobsExist, CompletedIsTrue, EmptyPage, ShownIsLatest,
        Nothing, Garbled, Pending, Final, PollState
<1>1. CASE StartUpload
    BY <1>1 DEF StartUpload, serverVars
<1>2. CASE UploadAccepted
    BY <1>2 DEF UploadAccepted
<1>3. CASE UploadDuplicate
    BY <1>3 DEF UploadDuplicate, serverVars
<1>4. CASE FetchDuplicate
    BY <1>4 DEF FetchDuplicate, serverVars, Fail
<1>5. CASE UploadFails
    BY <1>5 DEF UploadFails, serverVars, Fail
<1> QED
    BY <1>1, <1>2, <1>3, <1>4, <1>5

(* The steps of the polling effect. *)
LEMMA PollKeeps ==
    ASSUME PageInv, NEW j \in Jobs, NEW s \in Pending \cup Final,
           RunEffect \/ Tick \/ ReadRow(j) \/ TakeReply(j, s) \/ LoseReply(j, s)
    PROVE  PageInv'
<1> USE ClientAssumption
    DEF PageInv, ClientTypeOK, JobsExist, CompletedIsTrue, EmptyPage, ShownIsLatest,
        Pending, Final, PollState
<1>1. CASE RunEffect
    BY <1>1, ShownShape DEF RunEffect, Watched, serverVars
<1>2. CASE Tick
    BY <1>2 DEF Tick, serverVars
<1>3. CASE ReadRow(j)
    BY <1>3 DEF ReadRow, serverVars
<1>4. CASE TakeReply(j, s)
    BY <1>4, ShownShape DEF TakeReply, Show, serverVars, Nothing
<1>5. CASE LoseReply(j, s)
    BY <1>5 DEF LoseReply, serverVars, Fail
<1> QED
    BY <1>1, <1>2, <1>3, <1>4, <1>5

(* Every step of the page or of a reply keeps the invariant.               *)
LEMMA PageStep == PageInv /\ [Next]_clientVars => PageInv'
<1> SUFFICES ASSUME PageInv, [Next]_clientVars PROVE PageInv'
    OBVIOUS
<1>1. CASE UNCHANGED clientVars
    BY <1>1, ZenonT(30) DEF clientVars, serverVars, PageInv, ClientTypeOK, JobsExist,
       CompletedIsTrue, EmptyPage, ShownIsLatest
<1>2. CASE RunEffect \/ Tick
    <2>1. CASE Jobs = {}
        BY <1>2, <2>1, ShownShape
        DEF RunEffect, Tick, Watched, PageInv, ClientTypeOK, Pending
    <2>2. ASSUME NEW j \in Jobs PROVE PageInv'
        BY <1>2, PollKeeps DEF Final
    <2> QED
        BY <2>1, <2>2
<1>3. CASE StartUpload \/ UploadAccepted \/ UploadDuplicate \/ FetchDuplicate \/ UploadFails
    BY <1>3, UploadKeeps
<1>4. ASSUME NEW j \in Jobs, ServerStarts(j) \/ ServerRetries(j) \/ ServerSettles(j)
      PROVE  PageInv'
    BY <1>4, ServerKeeps
<1>5. ASSUME NEW j \in Jobs, ReadRow(j) PROVE PageInv'
    <2>1. "failed" \in Pending \cup Final
        BY DEF Final
    <2> QED
        BY <1>5, <2>1, PollKeeps
<1>6. ASSUME NEW j \in Jobs, NEW s \in Pending \cup Final, TakeReply(j, s) \/ LoseReply(j, s)
      PROVE  PageInv'
    BY <1>6, PollKeeps
<1> QED
    BY <1>1, <1>2, <1>3, <1>4, <1>5, <1>6 DEF Next, Replies

(* What the page renders, part by part. *)
LEMMA Parts ==
    /\ "upload error" \in OnPage <=> uploadError
    /\ "chip" \in OnPage <=> shown # Nothing
    /\ "downloads" \in OnPage <=> shown.status = "completed"
    /\ "progress bar" \in OnPage => shown.status \in Pending
    /\ "error" \in OnPage => shown.status = "failed"
    /\ \A part \in OnPage :
          part \in {"upload error", "chip", "progress bar", "error", "downloads"}
    BY DEF OnPage

-----------------------------------------------------------------------------
(***************************************************************************)
(* The page's state is well-formed, whatever replies arrive in whatever    *)
(* order.                                                                  *)
(***************************************************************************)
THEOREM PageTypeCorrect == Spec => []ClientTypeOK
<1>1. PageInv => ClientTypeOK
    BY DEF PageInv
<1> QED
    BY <1>1, PageInit, PageStep, PTL DEF Spec

(***************************************************************************)
(* No late reply replaces the job of the last upload by that of an earlier *)
(* one.                                                                    *)
(***************************************************************************)
THEOREM LatestIsShown == Spec => []ShownIsLatest
<1>1. PageInv => ShownIsLatest
    BY DEF PageInv
<1> QED
    BY <1>1, PageInit, PageStep, PTL DEF Spec

(***************************************************************************)
(* The page shows the job of the last upload or its error, never both, and *)
(* offers the downloads only of a job that is completed.                   *)
(***************************************************************************)
THEOREM OneOutcome == Spec => []OneOutcomeShown
<1>1. PageInv => OneOutcomeShown
    <2> SUFFICES ASSUME PageInv PROVE OneOutcomeShown
        OBVIOUS
    <2>1. ~ {"upload error", "chip"} \subseteq OnPage
        BY Parts DEF PageInv, EmptyPage
    <2>2. ASSUME uploading # "no" PROVE OnPage = {}
        <3>1. ~uploadError /\ shown = Nothing /\ shown.status = "none"
            BY <2>2 DEF PageInv, EmptyPage, Nothing
        <3>2. ASSUME NEW part \in OnPage PROVE FALSE
            BY <3>1, Parts DEF Pending
        <3> QED
            BY <3>2
    <2>3. "downloads" \in OnPage => status[shown.id] = "completed"
        BY Parts DEF PageInv, CompletedIsTrue
    <2> QED
        BY <2>1, <2>2, <2>3 DEF OneOutcomeShown
<1> QED
    BY <1>1, PageInit, PageStep, PTL DEF Spec
=============================================================================
