---------------------------- MODULE MCTeamRuntime ---------------------------
(* Two runs and two processes: both runs on one runtime, or each on its    *)
(* own as when teamai run is started twice on the same database.           *)
EXTENDS TeamRuntime

CONSTANTS p, q, r1, r2
=============================================================================
