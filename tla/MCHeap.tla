------------------------------ MODULE MCHeap -------------------------------
(***************************************************************************)
(* Heap with two regions, as the board has: one of 48 bytes with room for  *)
(* one small chunk, and one of 240 bytes, with room for the chunks of two  *)
(* calls of mm_memalign() side by side, or of one behind other chunks;     *)
(* three lists, and a size in the second list and one in the last.  The    *)
(* first list has the pieces that mm_memalign() and mm_realloc() cut off.  *)
(***************************************************************************)
EXTENDS Heap

MCRegion == <<[base |-> 2, size |-> 6], [base |-> 10, size |-> 30]>>
=============================================================================
