--------------------------- MODULE MCJobPipeline ---------------------------
(* Small instances of JobPipeline for TLC. *)
EXTENDS JobPipeline

CONSTANTS j1, j2

MCJobs == {j1, j2}
MCFailing == {j2}
=============================================================================
