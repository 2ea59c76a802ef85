---------------------------- MODULE MCTimedWait ----------------------------
(***************************************************************************)
(* TimedWait with three tasks, so that watchdogs are put in front of,      *)
(* between and behind others, and a pool that runs out.                    *)
(***************************************************************************)
EXTENDS TimedWait
=============================================================================
