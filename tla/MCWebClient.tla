----------------------------- MODULE MCWebClient -----------------------------
(* Constant values for model-checking the page. *)
EXTENDS WebClient

CONSTANTS j1, j2

TwoJobs == {j1, j2}
=============================================================================
