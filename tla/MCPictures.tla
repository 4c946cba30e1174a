---------------------------- MODULE MCPictures ----------------------------
(* Pictures for TLC. *)
EXTENDS Pictures

CONSTANTS worker, cron
=============================================================================
