---------------------------- MODULE MCMagazine ----------------------------
(* Magazine for TLC. *)
EXTENDS Magazine

CONSTANTS worker, cron
=============================================================================
