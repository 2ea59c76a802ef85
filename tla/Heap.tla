-------------------------------- MODULE Heap -------------------------------
(***************************************************************************)
(* The heap below malloc(): chunks that tile each region of memory between *)
(* two allocated guard nodes, each with its size and the size of the one   *)
(* before it in its header, and the free ones in lists by size.            *)
(*                                                                         *)
(* Memory is counted in units of 8 bytes, the size of an allocated chunk's *)
(* header; a granule (MM_MIN_CHUNK) is two units.  What a function does     *)
(* while it holds the heap's semaphore is one step; mm_memalign() takes it *)
(* twice.                                                                  *)
(***************************************************************************)
EXTENDS Integers, Sequences, FiniteSets, SequencesExt

CONSTANTS
    Region,         \* the regions, a sequence of [base, size]
    Request,        \* sizes that are asked for
    Alignment,      \* alignments that memalign() is asked for
    MM_MAX_CHUNK,   \* chunks from here on are in the last list
    MM_NNODES       \* number of lists

MM_MIN_CHUNK == 2
SIZEOF_MM_ALLOCNODE == 1
SIZEOF_MM_FREENODE == 2

\* Regions are made of granules, have room for a chunk and are apart.
ASSUME RegionAssumption ==
    /\ Region \in Seq([base : Nat, size : Nat]) /\ Region # <<>>
    /\ \A r \in DOMAIN Region :
          /\ Region[r].base % MM_MIN_CHUNK = 0 /\ Region[r].size % MM_MIN_CHUNK = 0
          /\ Region[r].size >= 2 * SIZEOF_MM_ALLOCNODE + SIZEOF_MM_FREENODE
    /\ \A r, s \in DOMAIN Region :
          \/ r = s
          \/ Region[r].base + Region[r].size <= Region[s].base
          \/ Region[s].base + Region[s].size <= Region[r].base
ASSUME RequestAssumption == Request \subseteq Nat \ {0}
ASSUME AlignmentAssumption == \A al \in Alignment : al \in Nat /\ al > MM_MIN_CHUNK
ASSUME BinAssumption ==
    MM_NNODES \in Nat \ {0, 1} /\ MM_MAX_CHUNK \in Nat /\ MM_MAX_CHUNK = MM_MIN_CHUNK * 2 ^ (MM_NNODES - 1)

VARIABLES
    heap,           \* [chunk: headers by address, bins: mm_nodelist, nregions]
    ret,            \* the address last returned, 0 for NULL
    raw,            \* the chunks that calls of mm_memalign() have got and not yet cut
    asked,          \* history: units the last call asked for
    loose,          \* history: mm_memalign() has put a free chunk behind another
    torn            \* history: realloc() has left a chunk too small for its links

vars == <<heap, ret, raw, asked, loose, torn>>

MM_ALIGN_UP(a) == ((a + MM_MIN_CHUNK - 1) \div MM_MIN_CHUNK) * MM_MIN_CHUNK

-----------------------------------------------------------------------------
(***************************************************************************)
(* Headers and lists.  A heap is a record h, a chunk its address a.        *)
(***************************************************************************)

Size(h, a) == h.chunk[a].size
NextOf(h, a) == a + h.chunk[a].size
PrevOf(h, a) == a - h.chunk[a].preceding
IsFree(h, a) == ~h.chunk[a].alloc

Node(size, preceding, alloc) == [size |-> size, preceding |-> preceding, alloc |-> alloc]

\* mm_size2ndx(): the first list whose chunks are not all smaller.
Size2Ndx(size) ==
    IF size >= MM_MAX_CHUNK
    THEN MM_NNODES - 1
    ELSE CHOOSE n \in 0 .. MM_NNODES - 1 :
            /\ size < MM_MIN_CHUNK * 2 ^ (n + 1)
            /\ \A m \in 0 .. n - 1 : size >= MM_MIN_CHUNK * 2 ^ (m + 1)

\* Take a chunk out of the list that it is in.
Unlink(h, a) ==
    LET n == CHOOSE n \in DOMAIN h.bins : \E k \in DOMAIN h.bins[n] : h.bins[n][k] = a
        k == CHOOSE k \in DOMAIN h.bins[n] : h.bins[n][k] = a
    IN  [h EXCEPT !.bins[n] = RemoveAt(@, k)]

\* mm_addfreechunk(): in front of the first in its list that is not smaller.
AddFreeChunk(h, a) ==
    LET n   == Size2Ndx(Size(h, a))
        bin == h.bins[n]
        k   == CHOOSE k \in 1 .. Len(bin) + 1 :
                  /\ \A j \in 1 .. k - 1 : Size(h, bin[j]) < Size(h, a)
                  /\ k <= Len(bin) => Size(h, bin[k]) >= Size(h, a)
    IN  [h EXCEPT !.bins[n] = InsertAt(bin, k, a)]

\* A chunk is given a size, and the one behind it learns of it.
SetSize(h, a, size) ==
    [h EXCEPT !.chunk = [b \in DOMAIN @ |->
        CASE b = a        -> [@[b] EXCEPT !.size = size]
          [] b = a + size -> [@[b] EXCEPT !.preceding = size]
          [] OTHER        -> @[b]]]

\* The chunk behind becomes part of this one.
Absorb(h, a) ==
    LET next == NextOf(h, a)
    IN  SetSize([h EXCEPT !.chunk = [b \in DOMAIN @ \ {next} |-> @[b]]],
                a, Size(h, a) + Size(h, next))

\* The same when it is free.
AbsorbFree(h, a) == Absorb(Unlink(h, NextOf(h, a)), a)

\* A chunk is cut in two, and the second part is free.
Cut(h, a, size) ==
    LET rest == Size(h, a) - size
        c    == [h EXCEPT !.chunk = [b \in DOMAIN @ \cup {a + size} |->
                    IF b = a + size THEN Node(rest, size, FALSE) ELSE @[b]]]
    IN  SetSize(SetSize(c, a + size, rest), a, size)

CutOff(h, a, size) == AddFreeChunk(Cut(h, a, size), a + size)

Allocated(h, a) == [h EXCEPT !.chunk[a].alloc = TRUE]
Freed(h, a) == [h EXCEPT !.chunk[a].alloc = FALSE]

-----------------------------------------------------------------------------
(***************************************************************************)
(* mm_initialize() and mm_addregion()                                      *)
(***************************************************************************)

HeapStart(r) == Region[r].base
HeapEnd(r) == Region[r].base + Region[r].size - SIZEOF_MM_ALLOCNODE

Guards == {HeapStart(r) : r \in DOMAIN Region} \cup {HeapEnd(r) : r \in DOMAIN Region}

\* Two guards and one free chunk between them.
AddedRegion(h) ==
    LET r     == h.nregions + 1
        free  == HeapStart(r) + SIZEOF_MM_ALLOCNODE
        size  == Region[r].size - 2 * SIZEOF_MM_ALLOCNODE
        nodes == [a \in DOMAIN h.chunk \cup {HeapStart(r), free, HeapEnd(r)} |->
                     CASE a = HeapStart(r) -> Node(SIZEOF_MM_ALLOCNODE, 0, TRUE)
                       [] a = free     -> Node(size, SIZEOF_MM_ALLOCNODE, FALSE)
                       [] a = HeapEnd(r)  -> Node(SIZEOF_MM_ALLOCNODE, size, TRUE)
                       [] OTHER        -> h.chunk[a]]
    IN  AddFreeChunk([chunk |-> nodes, bins |-> h.bins, nregions |-> r], free)

NoRegion == [chunk |-> <<>>, bins |-> [n \in 0 .. MM_NNODES - 1 |-> <<>>], nregions |-> 0]

Init == /\ heap = AddedRegion(NoRegion)
        /\ ret = 0 /\ raw = {} /\ asked = 0 /\ loose = FALSE /\ torn = FALSE

-----------------------------------------------------------------------------
(***************************************************************************)
(* The functions, on a heap.                                               *)
(***************************************************************************)

Places(h, ndx) == UNION {{n} \X DOMAIN h.bins[n] : n \in ndx .. MM_NNODES - 1}

\* Mutant of Fitting: only lists in which every chunk is large enough are searched.
FittingSurely(h, size) ==
    {p \in Places(h, IF size >= MM_MAX_CHUNK THEN MM_NNODES - 1 ELSE Size2Ndx(size) + 1) :
        Size(h, h.bins[p[1]][p[2]]) >= size}

\* Where in its lists mm_malloc() comes by a free chunk that is large enough.
Fitting(h, size) ==
    {p \in Places(h, Size2Ndx(size)) : Size(h, h.bins[p[1]][p[2]]) >= size}

\* The chunk at the first of these places.
FirstFit(h, fit) ==
    LET p == CHOOSE p \in fit : \A q \in fit : p[1] < q[1] \/ (p[1] = q[1] /\ p[2] <= q[2])
    IN  h.bins[p[1]][p[2]]

\* It is cut to size when what is left can be a chunk.
Take(h, a, size) ==
    LET u == Allocated(Unlink(h, a), a)
    IN  IF Size(h, a) - size >= SIZEOF_MM_FREENODE THEN CutOff(u, a, size) ELSE u

\* Mutant of Release: the chunk in front is not looked at.
ReleaseForward(h, a) ==
    LET f == Freed(h, a)
    IN  AddFreeChunk(IF IsFree(f, NextOf(f, a)) THEN AbsorbFree(f, a) ELSE f, a)

\* mm_free(): together with free neighbours on both sides.
Release(h, a) ==
    LET f    == Freed(h, a)
        g    == IF IsFree(f, NextOf(f, a)) THEN AbsorbFree(f, a) ELSE f
        prev == PrevOf(g, a)
    IN  IF IsFree(g, prev)
        THEN AddFreeChunk(Absorb(Unlink(g, prev), prev), prev)
        ELSE AddFreeChunk(g, a)

\* mm_shrinkchunk()
ShrinkChunk(h, a, size) ==
    IF IsFree(h, NextOf(h, a))
    THEN CutOff(AbsorbFree(h, a), a, size)
    ELSE IF Size(h, a) >= size + SIZEOF_MM_FREENODE THEN CutOff(h, a, size) ELSE h

\* mm_realloc(): the chunk is extended by take units into the one in front of it.
GrowDown(h, a, take) ==
    LET prev == PrevOf(h, a)
        left == Size(h, prev) - take
        m    == Absorb(Unlink(h, prev), prev)
    IN  IF left = 0
        THEN Allocated(m, prev)
        ELSE AddFreeChunk(Allocated(Cut(m, prev, left), a - take), prev)

\* The same into the one behind it.
GrowUp(h, a, take) ==
    IF take = Size(h, NextOf(h, a))
    THEN AbsorbFree(h, a)
    ELSE CutOff(AbsorbFree(h, a), a, Size(h, a) + take)

-----------------------------------------------------------------------------
(***************************************************************************)
(* The operations.                                                         *)
(***************************************************************************)

\* mm_addregion(), at boot: nobody is within the heap's functions.
AddRegion ==
    /\ ~torn /\ raw = {} /\ heap.nregions < Len(Region)
    /\ heap' = AddedRegion(heap) /\ UNCHANGED <<ret, raw, asked, loose, torn>>

Chunks == {a \in DOMAIN heap.chunk \ Guards : heap.chunk[a].alloc}

\* The chunks a user may give back or resize.
Owned == Chunks \ {r.chunk : r \in raw}

Need(n) == MM_ALIGN_UP(n + SIZEOF_MM_ALLOCNODE)

\* mm_malloc()
Allocate(n) ==
    LET fit == Fitting(heap, Need(n))
    IN  /\ ~torn
        /\ IF fit = {}
           THEN ret' = 0 /\ UNCHANGED heap
           ELSE /\ heap' = Take(heap, FirstFit(heap, fit), Need(n))
                /\ ret' = FirstFit(heap, fit) + SIZEOF_MM_ALLOCNODE
        /\ asked' = Need(n) /\ UNCHANGED <<loose, torn>>

Malloc(n) == Allocate(n) /\ UNCHANGED raw

\* mm_free()
Free(a) ==
    /\ ~torn
    /\ heap' = Release(heap, a) /\ ret' = 0
    /\ asked' = 0 /\ UNCHANGED <<raw, loose, torn>>

\* mm_realloc() with a size that is not larger than the old one.
ReallocShrink(a, n) ==
    /\ ~torn /\ Need(n) <= Size(heap, a)
    /\ heap' = IF Need(n) < Size(heap, a) THEN ShrinkChunk(heap, a, Need(n)) ELSE heap
    /\ ret' = a + SIZEOF_MM_ALLOCNODE
    /\ asked' = Need(n) /\ UNCHANGED <<raw, loose, torn>>

FreeSize(h, a) == IF IsFree(h, a) THEN Size(h, a) ELSE 0

\* What is taken from the free chunks on both sides: from the smaller one first,
\* as far as it goes.
TakePrev(prevsize, nextsize, needed) ==
    CASE prevsize > 0 /\ (nextsize >= prevsize \/ nextsize = 0) ->
            IF needed > prevsize THEN prevsize ELSE needed
      [] OTHER -> IF needed > nextsize THEN needed - nextsize ELSE 0

\* mm_realloc() into the space on one side or both.  A rest of prev or next that
\* is too small for a free chunk is not prevented: adding it to its list would
\* write its links into the chunk behind it.
ReallocGrow(a, n) ==
    LET oldsize  == Size(heap, a)
        prevsize == FreeSize(heap, PrevOf(heap, a))
        nextsize == FreeSize(heap, NextOf(heap, a))
        needed   == Need(n) - oldsize
        takeprev == TakePrev(prevsize, nextsize, needed)
        takenext == needed - takeprev
        down     == IF takeprev > 0 THEN GrowDown(heap, a, takeprev) ELSE heap
        node     == a - takeprev
        TooSmall(rest) == 0 < rest /\ rest < SIZEOF_MM_FREENODE
    IN  /\ ~torn
        /\ needed > 0 /\ prevsize + nextsize >= needed
        /\ IF \/ takeprev > 0 /\ TooSmall(prevsize - takeprev)
              \/ takenext > 0 /\ TooSmall(nextsize - takenext)
           THEN torn' = TRUE /\ UNCHANGED <<heap, ret, raw, asked, loose>>
           ELSE /\ heap' = IF takenext > 0 THEN GrowUp(down, node, takenext) ELSE down
                /\ ret' = node + SIZEOF_MM_ALLOCNODE
                /\ asked' = Need(n) /\ UNCHANGED <<raw, loose, torn>>

\* mm_realloc() to another place: mm_malloc(), then mm_free().  With others in
\* between it is what Malloc and Free, as two actions, do.
ReallocMove(a, n) ==
    LET fit == Fitting(heap, Need(n))
    IN  /\ ~torn
        /\ Need(n) > Size(heap, a)
        /\ FreeSize(heap, PrevOf(heap, a)) + FreeSize(heap, NextOf(heap, a)) + Size(heap, a) < Need(n)
        /\ IF fit = {}
           THEN ret' = 0 /\ UNCHANGED heap
           ELSE /\ heap' = Release(Take(heap, FirstFit(heap, fit), Need(n)), a)
                /\ ret' = FirstFit(heap, fit) + SIZEOF_MM_ALLOCNODE
        /\ asked' = Need(n) /\ UNCHANGED <<raw, loose, torn>>

\* The first half of mm_memalign(): a chunk that is surely long enough.
AlignedSize(al, n) == MM_ALIGN_UP(n) + 2 * al

MemAlign(al, n) ==
    /\ Allocate(AlignedSize(al, n))
    /\ raw' = IF ret' = 0 THEN raw
              ELSE raw \cup {[chunk |-> ret' - SIZEOF_MM_ALLOCNODE, al |-> al, n |-> n]}

AlignUpTo(al, a) == ((a + al - 1) \div al) * al

\* The second half: the chunk is cut in front so that the user's address is
\* aligned, and behind to a size that need not be granules.  What is cut off in
\* front is not merged with a chunk before it that has been freed in between.
Align(r) ==
    LET a       == r.chunk
        start   == a + SIZEOF_MM_ALLOCNODE
        up      == AlignUpTo(r.al, start)
        aligned == IF up # start /\ up - start < SIZEOF_MM_FREENODE THEN up + r.al ELSE up
        node    == aligned - SIZEOF_MM_ALLOCNODE
        front   == IF node = a THEN heap
                   ELSE AddFreeChunk(Allocated(Freed(Cut(heap, a, node - a), a), node), a)
        size    == MM_ALIGN_UP(r.n)
        long    == IF node = a THEN AlignedSize(r.al, r.n) > size
                   ELSE Size(front, node) - SIZEOF_MM_ALLOCNODE > size
    IN  /\ ~torn
        /\ heap' = IF long THEN ShrinkChunk(front, node, size + SIZEOF_MM_ALLOCNODE) ELSE front
        /\ ret' = aligned /\ raw' = raw \ {r}
        /\ asked' = Need(r.n)
        /\ loose' = (loose \/ (node # a /\ IsFree(heap, PrevOf(heap, a))))
        /\ UNCHANGED torn

Realloc(a, n) == ReallocShrink(a, n) \/ ReallocGrow(a, n) \/ ReallocMove(a, n)

Next ==
    \/ AddRegion
    \/ \E n \in Request : Malloc(n) \/ \E al \in Alignment : MemAlign(al, n)
    \/ \E r \in raw : Align(r)
    \/ \E a \in Owned : Free(a) \/ \E n \in Request : Realloc(a, n)

Spec == Init /\ [][Next]_vars

-----------------------------------------------------------------------------

\* From the first guard of a region to the last there is one chunk behind the
\* other, and each knows the size of the one in front of it.
Tiled ==
    \A r \in 1 .. heap.nregions :
        LET first == HeapStart(r)
            last  == HeapEnd(r)
            here  == {a \in DOMAIN heap.chunk : first <= a /\ a <= last}
        IN  /\ {first, last} \subseteq here
            /\ heap.chunk[first].alloc /\ heap.chunk[last].alloc
            /\ \A a \in here \ {last} :
                  /\ NextOf(heap, a) \in here
                  /\ PrevOf(heap, NextOf(heap, a)) = a
                  /\ \A b \in here : b <= a \/ b >= NextOf(heap, a)

\* Free chunks have room for their links, and no two of them are neighbours
\* unless a free() has come between the two halves of a mm_memalign().
Merged ==
    \A a \in DOMAIN heap.chunk :
        IsFree(heap, a) =>
            /\ ~loose => ~IsFree(heap, NextOf(heap, a))
            /\ Size(heap, a) >= SIZEOF_MM_FREENODE

\* The lists hold the free chunks, each once and by size.
Listed ==
    /\ \A n \in DOMAIN heap.bins :
          LET bin == heap.bins[n]
          IN  /\ \A k \in DOMAIN bin : bin[k] \in DOMAIN heap.chunk /\ IsFree(heap, bin[k])
              /\ \A k \in DOMAIN bin : Size2Ndx(Size(heap, bin[k])) = n
              /\ \A j, k \in DOMAIN bin :
                    j < k => bin[j] # bin[k] /\ Size(heap, bin[j]) <= Size(heap, bin[k])
    /\ \A a \in DOMAIN heap.chunk :
          IsFree(heap, a) => \E n \in DOMAIN heap.bins : \E k \in DOMAIN heap.bins[n] : heap.bins[n][k] = a

\* Whatever is allocated, freed, resized and aligned in whatever order, the heap
\* stays in one piece, up to the step in which realloc() tears it.
HeapIntact == Tiled /\ Merged /\ Listed

Blocks == [a \in Chunks |-> Size(heap, a)]
Usable == [r \in DOMAIN Region |-> [from |-> HeapStart(r) + SIZEOF_MM_ALLOCNODE, to |-> HeapEnd(r)]]

Memory == INSTANCE Allocator WITH blocks <- Blocks, nregions <- heap.nregions, Regions <- Usable

\* Users never share memory, get what they ask for, and while the free chunks are
\* merged are refused only what no free stretch can hold.
AllocatorKept == Memory!Spec

\* "MM_MIN_CHUNK - is the smallest physical chunk": nothing smaller ever results.
NoTornChunk == ~torn

=============================================================================
