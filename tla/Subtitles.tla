------------------------------ MODULE Subtitles ------------------------------
(***************************************************************************)
(* What is made of the times of a transcript: the subtitle files of the    *)
(* export endpoint (api/src/transcriptions/srt.util.ts) and the clock that *)
(* the page shows (formatClock of web/app/page.tsx).                       *)
(*                                                                         *)
(* A time is in tenths of a millisecond, so that rounding shows.  The      *)
(* padding of a field is left out: fields are numbers.                     *)
(***************************************************************************)
EXTENDS Integers, Sequences

Formats == {"srt", "vtt"}

PerMs == 10
PerSecond == 1000 * PerMs

Fields == [h : Nat, m : 0..59, s : 0..59, ms : 0..999]

(* Mutant of FormatTimestamp: only the milliseconds are rounded. *)
FormatTimestampNoCarry(t) ==
    LET ms == ((t % PerSecond) + PerMs \div 2) \div PerMs
        totalSeconds == t \div PerSecond
    IN  [h |-> totalSeconds \div 3600, m |-> (totalSeconds \div 60) % 60,
         s |-> totalSeconds % 60, ms |-> ms]

(* Math.round rounds a half up; everything else is cut from that. *)
FormatTimestamp(t) ==
    LET totalMs == (t + PerMs \div 2) \div PerMs
        totalSeconds == totalMs \div 1000
    IN  [h |-> totalSeconds \div 3600, m |-> (totalSeconds \div 60) % 60,
         s |-> totalSeconds % 60, ms |-> totalMs % 1000]

(* The page has no milliseconds: it cuts first. *)
FormatClock(t) ==
    LET total == t \div PerSecond
    IN  [h |-> total \div 3600, m |-> (total \div 60) % 60, s |-> total % 60]

Cues(segments) ==
    [i \in DOMAIN segments |-> [number |-> i,
                                from   |-> FormatTimestamp(segments[i].start),
                                to     |-> FormatTimestamp(segments[i].end)]]

(* toSrt and toVtt *)
SubtitleFile(format, segments) ==
    [header    |-> IF format = "vtt" THEN <<"WEBVTT">> ELSE <<>>,
     separator |-> IF format = "vtt" THEN "." ELSE ",",
     cues      |-> Cues(segments)]

-----------------------------------------------------------------------------
(* What a player reads. *)
Millis(f) == ((f.h * 60 + f.m) * 60 + f.s) * 1000 + f.ms
=============================================================================
