----------------------------- MODULE MCRs485Rx -----------------------------
(***************************************************************************)
(* Rs485Rx with the program's own sizes.  The bus carries the three fixed  *)
(* bytes, wrong ones in their places, lengths on both sides of every       *)
(* limit, an LED report or another one, and data that tells its place: the *)
(* first two data bytes vary, and so do the bytes that can be the tail.    *)
(***************************************************************************)
EXTENDS Rs485Rx

Lengths == {0, 1, 2, 116, 117, 128, 129}

\* Where the tail of a frame of one of these lengths is due.
TailPlaces == {12, 13, 127, 128, 139}

MCBus(n) ==
    CASE n \in 0 .. 2 -> {COMM_TRM_HEAD, COMM_TRM_FIXED, COMM_TRM_TAIL, 0}
      [] n \in 3 .. 6 -> {n * 40}
      [] n = 7        -> {LED_REPORT, 18}
      [] n = 8        -> {COMM_TRM_HEAD}
      [] n = 9        -> Lengths
      [] n = 10       -> {37, 153}
      [] n = 11       -> {COMM_TRM_TAIL, 99}
      [] n \in TailPlaces -> {(n % 50) + 30, COMM_TRM_TAIL}
      [] OTHER        -> {(n % 50) + 30}
=============================================================================
