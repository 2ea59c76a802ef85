------------------------------ MODULE MCNbIot ------------------------------
(***************************************************************************)
(* NbIot with two or three tries of every kind: enough for a late answer   *)
(* to reach a later command of the same round, of the next round and of    *)
(* the next phase.                                                         *)
(***************************************************************************)
EXTENDS NbIot
=============================================================================
