------------------------------ MODULE Pipeline ------------------------------
(***************************************************************************)
(* What the worker's pipeline thread does for one job (run_pipeline of     *)
(* worker/main.py, worker/audio.py, worker/transcriber.py): probe the      *)
(* upload, normalize it into a temporary directory, cut long audio into    *)
(* chunks, transcribe them one after the other, shift each chunk's         *)
(* segments to the file's time line, and report progress on the way.       *)
(*                                                                         *)
(* Times are whole ticks, Tick of them to the hundredth of a second that a *)
(* transcript keeps.  The texts are left out.  Files are named by the      *)
(* chunk they hold, WholeFile being normalized.wav.                        *)
(***************************************************************************)
EXTENDS Integers, Sequences, FiniteSets

CONSTANTS
    MaxDuration,     \* bound on the length of the audio
    ChunkThreshold,  \* CHUNK_THRESHOLD_SEC: 600 s in the code
    ChunkSec,        \* CHUNK_SEC: 300 s in the code
    Tick,            \* odd, so that no time lies half-way
    ReportSteps,     \* 1 / PROGRESS_REPORT_STEP: 10 in the code
    MaxSegments,     \* bound on the segments the model finds in a chunk
    Overshoot        \* how far a segment may end behind its chunk

ASSUME PipelineAssumption ==
    /\ MaxDuration \in Nat /\ ChunkThreshold \in Nat /\ Overshoot \in Nat
    /\ MaxSegments \in Nat
    /\ ChunkSec \in Nat \ {0} /\ ReportSteps \in Nat \ {0}
    /\ Tick \in Nat /\ Tick % 2 = 1

VARIABLES
    stage,         \* the call the thread is in
    duration,      \* of the normalized file
    chunks,        \* the plan: [start, length] of each chunk
    index,         \* of the chunk under way, from 1
    found,         \* raw segments of that chunk, relative to its start
    merged,        \* raw segments of the chunks done, on the file's time line
    lastReported,  \* of the reporter, a fraction
    reports,       \* the percents handed to the event loop, in order
    files,         \* the temporary directory
    transcript     \* what is returned, once it is

pipelineVars == <<stage, duration, chunks, index, found, merged,
                  lastReported, reports, files, transcript>>

WholeFile == 0

Stage == {"probe", "normalize", "measure", "slice", "infer", "unlink",
          "returned", "raised"}

Fraction == [num : Nat, den : Nat \ {0}]
RawSegment == [start : Nat, end : Nat]

PipelineTypeOK ==
    /\ stage \in Stage
    /\ duration \in 0..MaxDuration
    /\ chunks \in Seq([start : Nat, length : Nat])
    /\ index = 1 \/ index \in DOMAIN chunks
    /\ found \in Seq(RawSegment)
    /\ merged \in Seq(RawSegment)
    /\ lastReported \in Fraction
    /\ reports \in Seq(0..100)
    /\ files \subseteq {WholeFile} \cup DOMAIN chunks
    /\ transcript \in Seq([id : Nat, start : Nat, end : Nat])

Init ==
    /\ stage = "probe"
    /\ duration = 0
    /\ chunks = <<>>
    /\ index = 1
    /\ found = <<>>
    /\ merged = <<>>
    /\ lastReported = [num |-> 0, den |-> 1]
    /\ reports = <<>>
    /\ files = {}
    /\ transcript = <<>>

-----------------------------------------------------------------------------
(* The pure functions of transcriber.py *)

Lesser(a, b) == IF a < b THEN a ELSE b

(* Mutant of PlanChunks: the tail that fills no chunk is dropped. *)
PlanChunksDropsTail(d) ==
    LET plan[start \in Nat] ==
            IF start + ChunkSec <= d
            THEN <<[start |-> start, length |-> ChunkSec]>> \o plan[start + ChunkSec]
            ELSE <<>>
    IN  plan[0]

PlanChunks(d) ==
    LET plan[start \in Nat] ==
            IF start < d
            THEN <<[start |-> start, length |-> Lesser(ChunkSec, d - start)]>>
                    \o plan[start + ChunkSec]
            ELSE <<>>
    IN  plan[0]

(* Mutant of OffsetSegments: the segments stay relative to their chunk. *)
OffsetSegmentsNot(raw, offset) == raw

OffsetSegments(raw, offset) ==
    [i \in DOMAIN raw |-> [start |-> raw[i].start + offset,
                           end   |-> raw[i].end + offset]]

(* round(t, 2) *)
Rounded(t) == (2 * t + Tick) \div (2 * Tick)

ShapeSegments(raw) ==
    [i \in DOMAIN raw |-> [id    |-> i - 1,
                           start |-> Rounded(raw[i].start),
                           end   |-> Rounded(raw[i].end)]]

(* Mutant of ScaledProgress: chunks counted from one. *)
ScaledProgressAhead(end, length, i, total) ==
    [num |-> i * length + Lesser(end, length), den |-> total * length]

(* (chunks done + min(end / length, 1)) / total *)
ScaledProgress(end, length, i, total) ==
    [num |-> (i - 1) * length + Lesser(end, length), den |-> total * length]

(* fraction - last_reported >= PROGRESS_REPORT_STEP *)
IsDue(f, last) ==
    (f.num * last.den - last.num * f.den) * ReportSteps >= f.den * last.den

(* round(fraction, 2), in hundredths; a tie may go either way. *)
Percents(f) == {p \in 0..100 : 2 * (100 * f.num - p * f.den) \in (-f.den)..f.den}

-----------------------------------------------------------------------------
(* run_pipeline and transcribe *)

(* A subprocess failed or timed out, the model raised: leaving the with    *)
(* block removes the temporary directory and all that is in it.            *)
Raise ==
    /\ stage \notin {"returned", "raised", "unlink"}
    /\ stage' = "raised"
    /\ files' = {}
    /\ UNCHANGED <<duration, chunks, index, found, merged, lastReported,
                   reports, transcript>>

(* The upload has an audio stream and a duration, which is not used. *)
Probe ==
    /\ stage = "probe"
    /\ stage' = "normalize"
    /\ UNCHANGED <<duration, chunks, index, found, merged, lastReported,
                   reports, files, transcript>>

Normalize ==
    /\ stage = "normalize"
    /\ files' = {WholeFile}
    /\ stage' = "measure"
    /\ UNCHANGED <<duration, chunks, index, found, merged, lastReported,
                   reports, transcript>>

(* Audio of one chunk is not sliced. *)
Measure ==
    /\ stage = "measure"
    /\ duration' \in 0..MaxDuration
    /\ chunks' = IF duration' > ChunkThreshold
                 THEN PlanChunks(duration')
                 ELSE <<[start |-> 0, length |-> duration']>>
    /\ stage' = IF Len(chunks') = 1 THEN "infer" ELSE "slice"
    /\ UNCHANGED <<index, found, merged, lastReported, reports, files, transcript>>

SliceWav ==
    /\ stage = "slice"
    /\ files' = files \cup {index}
    /\ stage' = "infer"
    /\ UNCHANGED <<duration, chunks, index, found, merged, lastReported,
                   reports, transcript>>

(* The model yields a segment: starts ascend and lie within the chunk.     *)
(* Silence of no length has no fraction to report.  What is reported is    *)
(* rounded, what is remembered is not.                                     *)
YieldSegment ==
    /\ stage = "infer"
    /\ Len(found) < MaxSegments
    /\ LET length == chunks[index].length
           first  == IF found = <<>> THEN 0 ELSE found[Len(found)].start
       IN  \E start \in first..length : \E end \in start..(length + Overshoot) :
              /\ found' = Append(found, [start |-> start, end |-> end])
              /\ LET f == ScaledProgress(end, length, index, Len(chunks))
                 IN  IF length > 0 /\ IsDue(f, lastReported)
                     THEN /\ lastReported' = f
                          /\ \E p \in Percents(f) : reports' = Append(reports, p)
                     ELSE UNCHANGED <<lastReported, reports>>
    /\ UNCHANGED <<stage, duration, chunks, index, merged, files, transcript>>

(* Mutant of MergeChunk: the start taken from the length of the chunk. *)
MergeChunkByLength ==
    /\ stage = "infer"
    /\ merged' = merged \o OffsetSegments(found, (index - 1) * chunks[index].length)
    /\ stage' = "unlink"
    /\ UNCHANGED <<duration, chunks, index, found, lastReported, reports,
                   files, transcript>>

(* The generator is exhausted. *)
MergeChunk ==
    /\ stage = "infer"
    /\ merged' = merged \o OffsetSegments(found, chunks[index].start)
    /\ stage' = "unlink"
    /\ UNCHANGED <<duration, chunks, index, found, lastReported, reports,
                   files, transcript>>

(* Mutant of UnlinkChunk: the slices stay until the end. *)
UnlinkChunkLater ==
    /\ stage = "unlink"
    /\ index < Len(chunks)
    /\ index' = index + 1
    /\ found' = <<>>
    /\ stage' = "slice"
    /\ UNCHANGED <<duration, chunks, merged, lastReported, reports, files, transcript>>

(* The slice, if there is one, is removed before the next is cut. *)
UnlinkChunk ==
    /\ stage = "unlink"
    /\ index < Len(chunks)
    /\ files' = files \ {index}
    /\ index' = index + 1
    /\ found' = <<>>
    /\ stage' = "slice"
    /\ UNCHANGED <<duration, chunks, merged, lastReported, reports, transcript>>

Return ==
    /\ stage = "unlink"
    /\ index = Len(chunks)
    /\ transcript' = ShapeSegments(merged)
    /\ files' = {}
    /\ stage' = "returned"
    /\ UNCHANGED <<duration, chunks, index, found, merged, lastReported, reports>>

Next ==
    \/ Raise
    \/ Probe
    \/ Normalize
    \/ Measure
    \/ SliceWav
    \/ YieldSegment
    \/ MergeChunk
    \/ UnlinkChunk
    \/ Return

Spec == Init /\ [][Next]_pipelineVars

-----------------------------------------------------------------------------
(* Properties *)

(* Chunks cover the file without gap or overlap, and none is too long for  *)
(* the model or empty: what is not cut out is never transcribed.           *)
ChunksTile ==
    stage \in {"slice", "infer", "unlink", "returned"} =>
        /\ chunks[1].start = 0
        /\ \A i \in 1..(Len(chunks) - 1) :
              chunks[i].start + chunks[i].length = chunks[i + 1].start
        /\ chunks[Len(chunks)].start + chunks[Len(chunks)].length = duration
        /\ Len(chunks) > 1 => \A i \in DOMAIN chunks : chunks[i].length \in 1..ChunkSec

(* "One monotonic global timeline": over chunk boundaries and rounding,    *)
(* segments are numbered and start in order, within the file; and they end *)
(* in it too, as far as they ended within their chunk.                     *)
TimelineOrdered ==
    stage = "returned" =>
        /\ \A i \in DOMAIN transcript : transcript[i].id = i - 1
        /\ \A i, k \in DOMAIN transcript :
              i <= k => transcript[i].start <= transcript[k].start
        /\ \A i \in DOMAIN transcript :
              /\ transcript[i].start <= transcript[i].end
              /\ transcript[i].end <= Rounded(duration + Overshoot)

(* What an attempt reports is ahead of the chunks begun by no more than    *)
(* the rounding to hundredths, and grows by a step, again up to rounding;  *)
(* so an attempt costs at most ReportSteps writes of the row, however many *)
(* segments and chunks it has.                                             *)
ProgressHonest ==
    /\ \A i \in DOMAIN reports :
          2 * (reports[i] * Len(chunks) - 100 * index) <= Len(chunks)
    /\ \A i \in 1..(Len(reports) - 1) :
          (reports[i + 1] - reports[i] + 1) * ReportSteps >= 100
    /\ Len(reports) <= ReportSteps

(* However long the audio, the scratch directory holds the normalized file *)
(* and one slice, and nothing is left behind when the thread is through,   *)
(* whatever raised.                                                        *)
ScratchBounded ==
    /\ Cardinality(files) <= 2
    /\ stage \in {"returned", "raised"} => files = {}
=============================================================================
