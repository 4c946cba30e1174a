----------------------------- MODULE MCAlmanac -----------------------------
(* Almanac for TLC. *)
EXTENDS Almanac

CONSTANTS worker, cron
=============================================================================
