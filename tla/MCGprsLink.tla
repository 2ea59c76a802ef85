---------------------------- MODULE MCGprsLink -----------------------------
(***************************************************************************)
(* GprsLink with three set_*() steps, so that a late OK can be credited to *)
(* its own step, the next one and the one after, three writes of each      *)
(* command, and a line long enough for all the copies of a command to be   *)
(* outstanding when the next step begins.                                  *)
(***************************************************************************)
EXTENDS GprsLink

MCLimit == [k \in Steps |-> 1]
=============================================================================
