----------------------------- MODULE Allocator -----------------------------
(***************************************************************************)
(* What the heap promises its users: blocks that lie in its memory and     *)
(* nowhere overlap, are as large and as aligned as was asked for, and are  *)
(* refused only when there is no free stretch that is large enough; when   *)
(* alignments are overtaken by others, a stretch may stay divided.         *)
(***************************************************************************)
EXTENDS Integers, Sequences

CONSTANTS
    Regions,        \* the usable stretches of memory, [from, to] with to behind the last unit
    Request,        \* sizes and
    Alignment,      \* alignments that are asked for
    Need(_),        \* units that a request takes with its header
    AlignedSize(_, _)   \* what is asked for so that it can be aligned

VARIABLES
    nregions,       \* number of stretches that have been handed over
    blocks,         \* a function from the first unit of each block to its length
    ret,            \* the address last returned, 0 for NULL
    loose,          \* free stretches may be divided
    asked           \* units the last call asked for, 0 when it gave a block back

\* There is no block but those in kept on these units.
Vacant(kept, a, s) ==
    /\ \E r \in 1 .. nregions : Regions[r].from <= a /\ a + s <= Regions[r].to
    /\ \A b \in DOMAIN kept : a + s <= b \/ b + kept[b] <= a

Room(kept, s) == \E r \in 1 .. nregions : \E a \in Regions[r].from .. Regions[r].to - 1 : Vacant(kept, a, s)

Init == nregions = 1 /\ DOMAIN blocks = {} /\ ret = 0 /\ asked = 0 /\ loose = FALSE

\* A block of at least s units is put where there is room beside those kept; the
\* user's address is behind its header.
Give(kept, s) ==
    LET a   == ret' - 1
        new == blocks'
    IN  /\ a \in DOMAIN new \ DOMAIN kept
        /\ DOMAIN new = DOMAIN kept \cup {a}
        /\ \A b \in DOMAIN kept : new[b] = kept[b]
        /\ new[a] >= s
        /\ Vacant(kept, a, new[a])

Refuse == ret' = 0 /\ (Room(blocks, asked') => loose) /\ UNCHANGED blocks

Without(a) == LET old == blocks IN [b \in DOMAIN old \ {a} |-> old[b]]

Malloc(n) == asked' = Need(n) /\ (Give(blocks, Need(n)) \/ Refuse) /\ UNCHANGED loose

\* A block is made shorter so that its address is aligned.
Align(a, al, n) ==
    /\ asked' = Need(n)
    /\ Give(Without(a), n + 1) /\ ret' % al = 0
    /\ a <= ret' - 1 /\ ret' - 1 + blocks'[ret' - 1] <= a + blocks[a]
    /\ loose => loose'

Free(a) == asked' = 0 /\ ret' = 0 /\ blocks' = Without(a) /\ UNCHANGED loose

\* The block moves, grows or shrinks, or stays as it is when NULL is returned.
Realloc(a, n) == asked' = Need(n) /\ (Give(Without(a), Need(n)) \/ Refuse) /\ UNCHANGED loose

AddRegion ==
    /\ nregions < Len(Regions) /\ nregions' = nregions + 1
    /\ UNCHANGED <<blocks, ret, loose, asked>>

Calls ==
    \/ \E n \in Request : Malloc(n) \/ \E al \in Alignment : Malloc(AlignedSize(al, n))
    \/ \E a \in DOMAIN blocks :
          Free(a) \/ \E n \in Request : Realloc(a, n) \/ \E al \in Alignment : Align(a, al, n)

Next == AddRegion \/ (Calls /\ UNCHANGED nregions)

Spec == Init /\ [][Next]_<<nregions, blocks, ret, asked, loose>>
=============================================================================
