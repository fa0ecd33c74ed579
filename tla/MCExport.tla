------------------------------- MODULE MCExport -------------------------------
(* Constant values for model-checking the pipeline and its subtitles. *)
EXTENDS Export

(* One millisecond around each carry, to the second, minute, and hour, and *)
(* the hundredths before and after it.                                     *)
Carries == {0, 1, 59, 60, 61, 3599, 3600, 3661, 35999, 36000, 86399, 86400}
NearCarries == {t \in {c * PerSecond + d : c \in Carries, d \in (-PerMs)..PerMs \cup {-10 * PerMs, 10 * PerMs}} : t >= 0}
=============================================================================
