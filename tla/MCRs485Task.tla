---------------------------- MODULE MCRs485Task ----------------------------
(***************************************************************************)
(* Rs485Task with a report of the LED temperature and the header of a      *)
(* frame at port A, the echo of the last frame and a request of this       *)
(* firmware at port B.  The header announces 20 bytes of data: whichever   *)
(* frames come next, of either port, are taken for them, the first one as  *)
(* a whole and the head of the one after it.                               *)
(***************************************************************************)
EXTENDS Rs485Task

Report == <<104, 69, 0, 32, 8, 192, 0, 17, 48, 2, 35, 80, 0, 22>>
Part   == <<104, 69, 0, 64, 8, 192, 0, 67, 0, 20>>

MCChunks(p, f) ==
    IF p = "A" THEN {Report, Part} ELSE {GetBaseTemperature(3), f} \ {<<>>}

MCByte ==
    UNION {{f[i] : i \in 1 .. Len(f)} : f \in Sent \cup {Report, Part, GetBaseTemperature(3)}}
=============================================================================
