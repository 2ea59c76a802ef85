------------------------------ MODULE MCUart -------------------------------
(***************************************************************************)
(* Uart with a buffer for two bytes, so that it fills, wraps and empties   *)
(* within a few steps.                                                     *)
(***************************************************************************)
EXTENDS Uart
=============================================================================
