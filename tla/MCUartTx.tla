----------------------------- MODULE MCUartTx ------------------------------
(***************************************************************************)
(* UartTx with a buffer for two bytes and writes of three, so that every   *)
(* blocking write has to wait.                                             *)
(***************************************************************************)
EXTENDS UartTx
=============================================================================
