-------------------------------- MODULE Export --------------------------------
(***************************************************************************)
(* A transcript on its way from the model to a subtitle: cut into chunks,  *)
(* shifted, rounded to hundredths of a second (Pipeline), and formatted by *)
(* GET :id/export and by the page (Subtitles).                             *)
(***************************************************************************)
EXTENDS Pipeline, Subtitles

CONSTANT Times    \* further times to format: the neighbours of every carry

ASSUME ExportAssumption == Times \subseteq Nat

(* A hundredth of a second in the unit of Subtitles. *)
Exported(segments) ==
    [i \in DOMAIN segments |-> [start |-> segments[i].start * 10 * PerMs,
                                end   |-> segments[i].end * 10 * PerMs]]

-----------------------------------------------------------------------------
(* What there was to hear *)

(* History: the segments the model yielded, each at its place in the       *)
(* normalized file, told from where the audio it listened to was cut out.  *)
VARIABLE heard

exportVars == <<pipelineVars, heard>>

(* Where in the file the audio under transcription begins: a file of one   *)
(* chunk is not sliced.                                                    *)
Origin == IF Len(chunks) = 1 THEN 0 ELSE chunks[index].start

(* Only YieldSegment makes found longer. *)
Hear ==
    heard' = IF Len(found') > Len(found)
             THEN Append(heard, [start |-> Origin + found'[Len(found')].start,
                                 end   |-> Origin + found'[Len(found')].end])
             ELSE heard

ExportInit == Init /\ heard = <<>>

HearingNext == Next /\ Hear

ExportSpec == ExportInit /\ [][HearingNext]_exportVars

-----------------------------------------------------------------------------
(* Properties *)

(* A time stamp is a legal one and stands for the time it was made from,   *)
(* to half a millisecond: what rounds up carries into all fields           *)
(* (srt.util.spec.ts tries one such time).  Where the time is a whole      *)
(* hundredth, as in every transcript, the page, which cuts where the file  *)
(* rounds, shows the second that the file shows.                           *)
TimestampExact(t) ==
    LET f == FormatTimestamp(t)
    IN  /\ f \in Fields
        /\ 2 * PerMs * Millis(f) - 2 * t \in (1 - PerMs)..PerMs
        /\ t % (10 * PerMs) = 0 =>
              FormatClock(t) = [h |-> f.h, m |-> f.m, s |-> f.s]

(* Nothing of it depends on the state: one state is enough. *)
TimestampsExact == stage = "probe" => \A t \in Times : TimestampExact(t)

(* A printed time is right to half a hundredth of a second. *)
Near(stamp, time) ==
    2 * (Tick * Millis(stamp) - 10 * time) \in (-10 * Tick)..(10 * Tick)

(* End to end: the cues of either file are the segments the model heard,   *)
(* all of them, in order and numbered from one, each starting and ending   *)
(* within half a hundredth of a second of where it was in the whole file:  *)
(* neither chunking, shifting, merging nor either rounding loses one or    *)
(* moves it further.                                                       *)
SubtitlesTrue ==
    stage = "returned" =>
        \A format \in Formats :
            LET cues == SubtitleFile(format, Exported(transcript)).cues
            IN  /\ Len(cues) = Len(heard)
                /\ \A i \in DOMAIN cues :
                      /\ cues[i].number = i
                      /\ Near(cues[i].from, heard[i].start)
                      /\ Near(cues[i].to, heard[i].end)
                      /\ Millis(cues[i].from) <= Millis(cues[i].to)
                /\ \A i \in 1..(Len(cues) - 1) :
                      Millis(cues[i].from) <= Millis(cues[i + 1].from)
=============================================================================
