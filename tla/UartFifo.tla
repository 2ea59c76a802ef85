----------------------------- MODULE UartFifo ------------------------------
(***************************************************************************)
(* What each direction of a serial port promises: a queue.  Received bytes *)
(* that find it full are dropped before they are in it; nothing in it is   *)
(* lost unless somebody flushes it.                                        *)
(***************************************************************************)
EXTENDS Naturals, Sequences

CONSTANTS Byte, Capacity

VARIABLES
    queue,     \* bytes put in and not taken out, oldest first
    given      \* the last byte taken out

Init == queue = <<>> /\ given = 0

Put(b) == Len(queue) < Capacity /\ queue' = Append(queue, b) /\ UNCHANGED given

Get == queue # <<>> /\ given' = Head(queue) /\ queue' = Tail(queue)

Flush == queue' = <<>> /\ UNCHANGED given

Moves == (\E b \in Byte : Put(b)) \/ Get

\* A port that nobody flushes.
Lossless == Init /\ [][Moves]_<<queue, given>>

Spec == Init /\ [][Moves \/ Flush]_<<queue, given>>
=============================================================================
