----------------------------- MODULE HeapProofs -----------------------------
(***************************************************************************)
(* Theorems about Heap, for any regions, lists, requests and alignments.   *)
(***************************************************************************)
EXTENDS Heap, SequenceTheorems, WellFoundedInduction, TLAPS

-----------------------------------------------------------------------------
(***************************************************************************)
(* A heap between two steps of a function: the chunks in out are free but  *)
(* in no list; alone says that free chunks have been merged.               *)
(***************************************************************************)

Starts == {HeapStart(r) : r \in DOMAIN Region}
Ends == {HeapEnd(r) : r \in DOMAIN Region}

Bin == 0 .. MM_NNODES - 1

\* Headers and lists, of whatever content.
IsHeap(h) ==
    /\ h = [chunk |-> h.chunk, bins |-> h.bins, nregions |-> h.nregions]
    /\ DOMAIN h.chunk \subseteq Nat
    /\ h.chunk \in [DOMAIN h.chunk -> [size : Nat, preceding : Nat, alloc : BOOLEAN]]
    /\ h.bins \in [Bin -> Seq(Nat)]
    /\ h.nregions \in 0 .. Len(Region)

\* The guards of the regions, and chunks only between them.
Guarded(h) ==
    /\ \A r \in 1 .. h.nregions :
          /\ HeapStart(r) \in DOMAIN h.chunk /\ h.chunk[HeapStart(r)].alloc
          /\ h.chunk[HeapStart(r)].size = SIZEOF_MM_ALLOCNODE
          /\ HeapEnd(r) \in DOMAIN h.chunk /\ h.chunk[HeapEnd(r)].alloc
    /\ \A a \in DOMAIN h.chunk : \E r \in 1 .. h.nregions : HeapStart(r) <= a /\ a <= HeapEnd(r)

\* One chunk behind the other.
Forward(h) ==
    \A a \in DOMAIN h.chunk \ Ends :
        /\ h.chunk[a].size > 0
        /\ NextOf(h, a) \in DOMAIN h.chunk
        /\ h.chunk[NextOf(h, a)].preceding = h.chunk[a].size
        /\ \A b \in DOMAIN h.chunk : b <= a \/ b >= NextOf(h, a)

\* Each knows the one in front of it.
Backward(h) ==
    \A a \in DOMAIN h.chunk \ Starts :
        /\ h.chunk[a].preceding > 0
        /\ PrevOf(h, a) \in DOMAIN h.chunk \ Ends
        /\ h.chunk[PrevOf(h, a)].size = h.chunk[a].preceding

\* Only a guard is smaller than a free chunk must be.
Large(h) == \A a \in DOMAIN h.chunk \ Guards : h.chunk[a].size >= SIZEOF_MM_FREENODE

Tiling(h) == Guarded(h) /\ Forward(h) /\ Backward(h) /\ Large(h)

\* The free chunks that are in a list.
Listable(h, out) == {a \in DOMAIN h.chunk : IsFree(h, a) /\ a \notin out}

InBin(h, n, a) == \E k \in DOMAIN h.bins[n] : h.bins[n][k] = a

Lists(h, out) ==
    /\ \A n \in Bin : \A k \in DOMAIN h.bins[n] :
          h.bins[n][k] \in Listable(h, out) /\ Size2Ndx(Size(h, h.bins[n][k])) = n
    /\ \A n \in Bin : \A j, k \in DOMAIN h.bins[n] :
          j < k => /\ h.bins[n][j] # h.bins[n][k]
                   /\ Size(h, h.bins[n][j]) <= Size(h, h.bins[n][k])
    /\ \A a \in Listable(h, out) : \E n \in Bin : InBin(h, n, a)

\* Two free chunks are neighbours only when one of them is out.
Apart(h, out) ==
    \A a \in Listable(h, out) : IsFree(h, NextOf(h, a)) => NextOf(h, a) \in out

Good(h, out, alone) == IsHeap(h) /\ Tiling(h) /\ Lists(h, out) /\ (alone => Apart(h, out))

-----------------------------------------------------------------------------
(***************************************************************************)
(* Regions.                                                                *)
(***************************************************************************)

\* The ends of a region, and where other regions are.
LEMMA RegionFacts ==
  /\ \A r \in DOMAIN Region :
        /\ HeapStart(r) \in Nat /\ HeapEnd(r) \in Nat /\ Region[r].size \in Nat
        /\ HeapStart(r) + 3 <= HeapEnd(r)
        /\ HeapStart(r) + Region[r].size = HeapEnd(r) + 1
  /\ \A r, s \in DOMAIN Region :
        r = s \/ HeapEnd(r) < HeapStart(s) \/ HeapEnd(s) < HeapStart(r)
  /\ DOMAIN Region = 1 .. Len(Region) /\ Len(Region) \in Nat /\ Len(Region) >= 1
<1>1. DOMAIN Region = 1 .. Len(Region) /\ Len(Region) \in Nat
  BY RegionAssumption, LenProperties
<1>2. Len(Region) >= 1
  <2>1. Region \in Seq([base : Nat, size : Nat]) /\ Region # <<>>
    BY RegionAssumption
  <2>2. Len(Region) \in Nat \ {0}
    BY <2>1, EmptySeq
  <2> QED BY <2>2
<1>3. \A r \in DOMAIN Region : Region[r].base \in Nat /\ Region[r].size \in Nat
  <2> DEFINE Stretch == [base : Nat, size : Nat]
  <2>1. Region \in Seq(Stretch)
    BY RegionAssumption
  <2> HIDE DEF Stretch
  <2>2. \A r \in 1 .. Len(Region) : Region[r] \in Stretch
    BY <2>1, ElementOfSeq
  <2> QED BY <1>1, <2>2 DEF Stretch
<1>4. \A r \in DOMAIN Region : Region[r].size >= 4
  BY RegionAssumption DEF SIZEOF_MM_ALLOCNODE, SIZEOF_MM_FREENODE
<1>5. \A r, s \in DOMAIN Region :
        \/ r = s
        \/ Region[r].base + Region[r].size <= Region[s].base
        \/ Region[s].base + Region[s].size <= Region[r].base
  BY RegionAssumption
<1>6. ASSUME NEW r \in DOMAIN Region
      PROVE  /\ HeapStart(r) \in Nat /\ HeapEnd(r) \in Nat
             /\ HeapStart(r) + 3 <= HeapEnd(r)
             /\ HeapStart(r) + Region[r].size = HeapEnd(r) + 1
  BY <1>3, <1>4 DEF HeapStart, HeapEnd, SIZEOF_MM_ALLOCNODE
<1>7. ASSUME NEW r \in DOMAIN Region, NEW s \in DOMAIN Region
      PROVE  r = s \/ HeapEnd(r) < HeapStart(s) \/ HeapEnd(s) < HeapStart(r)
  BY <1>3, <1>5 DEF HeapStart, HeapEnd, SIZEOF_MM_ALLOCNODE
<1> QED BY <1>1, <1>2, <1>3, <1>6, <1>7

\* A guard that is a chunk is one of a region that has been added.
LEMMA GuardsOf ==
  ASSUME NEW h, IsHeap(h), Tiling(h), NEW a \in DOMAIN h.chunk, a \in Guards
  PROVE  h.chunk[a].alloc
<1>1. PICK r \in 1 .. h.nregions : HeapStart(r) <= a /\ a <= HeapEnd(r)
  BY DEF Tiling, Guarded
<1>2. PICK s \in DOMAIN Region : a = HeapStart(s) \/ a = HeapEnd(s)
  BY DEF Guards
<1>3. r \in DOMAIN Region
  BY RegionFacts DEF IsHeap
<1>4. r = s
  <2>1. /\ HeapStart(r) \in Nat /\ HeapEnd(r) \in Nat /\ HeapStart(s) \in Nat /\ HeapEnd(s) \in Nat
        /\ HeapStart(s) + 3 <= HeapEnd(s) /\ a \in Nat
        /\ r = s \/ HeapEnd(r) < HeapStart(s) \/ HeapEnd(s) < HeapStart(r)
    BY <1>3, RegionFacts DEF IsHeap
  <2> QED BY <1>1, <1>2, <2>1
<1> QED BY <1>2, <1>4 DEF Tiling, Guarded

\* A guard is a region's first node or its last.
LEMMA GuardSets == Guards = Starts \cup Ends
  BY DEF Guards, Starts, Ends

\* Free chunks are no guards.
LEMMA FreeInside ==
  ASSUME NEW h, IsHeap(h), Tiling(h), NEW a \in DOMAIN h.chunk, IsFree(h, a)
  PROVE  a \notin Guards /\ a \notin Starts /\ a \notin Ends
  BY GuardsOf, GuardSets DEF IsFree

-----------------------------------------------------------------------------
(***************************************************************************)
(* What the operators do to the headers.                                   *)
(***************************************************************************)

Header == [size : Nat, preceding : Nat, alloc : BOOLEAN]

\* The chunks of g are those of h but for the headers of a and b, where b is the
\* one behind a.
SameBut(h, g, a, b) ==
    \A c \in DOMAIN g.chunk :
        c # a /\ c # b => c \in DOMAIN h.chunk /\ g.chunk[c] = h.chunk[c]

\* Chunk a has a new size, and the one behind it knows.
Resizes(h, g, a, size) ==
    LET b == a + size
    IN  /\ IsHeap(g) /\ g.bins = h.bins /\ g.nregions = h.nregions
        /\ DOMAIN g.chunk = DOMAIN h.chunk
        /\ g.chunk[a].size = size /\ g.chunk[a].preceding = h.chunk[a].preceding
        /\ g.chunk[a].alloc = h.chunk[a].alloc
        /\ b \in DOMAIN h.chunk =>
              /\ g.chunk[b].size = h.chunk[b].size /\ g.chunk[b].preceding = size
              /\ g.chunk[b].alloc = h.chunk[b].alloc
        /\ SameBut(h, g, a, b)

\* What SetSize does to the headers.
LEMMA SetSizeFacts ==
  ASSUME NEW h, IsHeap(h), NEW a \in DOMAIN h.chunk, NEW size \in Nat, size > 0
  PROVE  Resizes(h, SetSize(h, a, size), a, size)
<1> DEFINE D == DOMAIN h.chunk
           At(c) == CASE c = a        -> [h.chunk[c] EXCEPT !.size = size]
                      [] c = a + size -> [h.chunk[c] EXCEPT !.preceding = size]
                      [] OTHER        -> h.chunk[c]
           new == [c \in D |-> At(c)]
           g == SetSize(h, a, size)
<1>1. a \in Nat /\ a + size # a
  BY DEF IsHeap
<1>2. \A c \in D : h.chunk[c] \in Header
  BY DEF IsHeap, Header
<1>3. h = [chunk |-> h.chunk, bins |-> h.bins, nregions |-> h.nregions]
  BY DEF IsHeap
<1>4. g = [chunk |-> new, bins |-> h.bins, nregions |-> h.nregions]
  BY <1>3 DEF SetSize
<1>5. \A c \in D : At(c) \in Header
  BY <1>2 DEF Header
<1>6. new \in [D -> Header] /\ \A c \in D : new[c] = At(c)
  BY <1>5
<1>7. g.chunk = new /\ g.bins = h.bins /\ g.nregions = h.nregions
  BY <1>4
<1>8. /\ At(a).size = size /\ At(a).preceding = h.chunk[a].preceding
      /\ At(a).alloc = h.chunk[a].alloc
  <2>1. At(a) = [h.chunk[a] EXCEPT !.size = size] /\ h.chunk[a] \in Header
    BY <1>1, <1>2
  <2> HIDE DEF At
  <2> QED BY <2>1 DEF Header
<1>9. ASSUME a + size \in D
      PROVE  /\ At(a + size).size = h.chunk[a + size].size /\ At(a + size).preceding = size
             /\ At(a + size).alloc = h.chunk[a + size].alloc
  <2>1. At(a + size) = [h.chunk[a + size] EXCEPT !.preceding = size]
    BY <1>1
  <2>2. h.chunk[a + size] \in Header
    BY <1>2, <1>9
  <2> HIDE DEF At
  <2> QED BY <2>1, <2>2 DEF Header
<1>10. \A c \in D : c # a /\ c # a + size => At(c) = h.chunk[c]
  OBVIOUS
<1> HIDE DEF At
<1>11. IsHeap(g)
  <2>1. DOMAIN new = D
    OBVIOUS
  <2> HIDE DEF new
  <2> QED BY <1>4, <1>6, <1>7, <2>1 DEF IsHeap, Header
<1>12. DOMAIN g.chunk = D /\ \A c \in D : g.chunk[c] = At(c)
  BY <1>6, <1>7
<1> HIDE DEF g, new
<1> QED BY <1>7, <1>8, <1>9, <1>10, <1>11, <1>12 DEF SameBut, Resizes, g

\* Chunk a has become as long as it and the one behind it.
Merges(h, g, a) ==
    LET next == a + h.chunk[a].size
        size == h.chunk[a].size + h.chunk[next].size
        b    == a + size
    IN  /\ IsHeap(g) /\ g.bins = h.bins /\ g.nregions = h.nregions
        /\ DOMAIN g.chunk = DOMAIN h.chunk \ {next}
        /\ g.chunk[a].size = size /\ g.chunk[a].preceding = h.chunk[a].preceding
        /\ g.chunk[a].alloc = h.chunk[a].alloc
        /\ b \in DOMAIN h.chunk =>
              /\ g.chunk[b].size = h.chunk[b].size /\ g.chunk[b].preceding = size
              /\ g.chunk[b].alloc = h.chunk[b].alloc
        /\ SameBut(h, g, a, b)

\* Absorb makes one chunk of two.
LEMMA AbsorbFacts ==
  ASSUME NEW h, IsHeap(h), NEW a \in DOMAIN h.chunk, h.chunk[a].size > 0,
         a + h.chunk[a].size \in DOMAIN h.chunk, h.chunk[a + h.chunk[a].size].size > 0
  PROVE  Merges(h, Absorb(h, a), a)
<1> DEFINE next == a + h.chunk[a].size
           size == h.chunk[a].size + h.chunk[next].size
           D == DOMAIN h.chunk \ {next}
           new == [c \in D |-> h.chunk[c]]
           e == [h EXCEPT !.chunk = new]
           g == Absorb(h, a)
<1>1. /\ a \in Nat /\ next \in Nat /\ h.chunk[a].size \in Nat /\ h.chunk[next].size \in Nat
      /\ size \in Nat /\ size > 0 /\ next # a /\ a + size # next /\ a + size # a
  BY DEF IsHeap
<1>2. e = [chunk |-> new, bins |-> h.bins, nregions |-> h.nregions]
  BY DEF IsHeap
<1>3. new \in [D -> Header] /\ DOMAIN new = D /\ \A c \in D : new[c] = h.chunk[c]
  BY DEF IsHeap, Header
<1>4. g = SetSize(e, a, size)
  BY DEF Absorb, NextOf, Size
<1> HIDE DEF new
<1>5. e.chunk = new /\ e.bins = h.bins /\ e.nregions = h.nregions
  BY <1>2
<1>6. IsHeap(e)
  BY <1>2, <1>3, <1>5 DEF IsHeap, Header
<1>7. a \in DOMAIN e.chunk
  BY <1>1, <1>3, <1>5
<1> HIDE DEF e, g
<1> HIDE DEF next, size
<1>8. Resizes(e, g, a, size)
  BY <1>1, <1>4, <1>6, <1>7, SetSizeFacts
<1>9. DOMAIN e.chunk = D /\ a \in D /\ \A c \in D : e.chunk[c] = h.chunk[c]
  BY <1>1, <1>3, <1>5
<1>10. a + size \in DOMAIN h.chunk => a + size \in D
  BY <1>1
<1>11. SameBut(h, g, a, a + size)
  BY <1>8, <1>9 DEF SameBut, Resizes
<1>12. Merges(h, g, a)
  BY <1>5, <1>8, <1>9, <1>10, <1>11 DEF Merges, Resizes, next, size
<1> QED BY <1>12 DEF g

\* Chunk a is cut after size units, and the rest is a free chunk.
Splits(h, g, a, size) ==
    LET mid  == a + size
        rest == h.chunk[a].size - size
        b    == a + h.chunk[a].size
    IN  /\ IsHeap(g) /\ g.bins = h.bins /\ g.nregions = h.nregions
        /\ DOMAIN g.chunk = DOMAIN h.chunk \cup {mid}
        /\ g.chunk[a].size = size /\ g.chunk[a].preceding = h.chunk[a].preceding
        /\ g.chunk[a].alloc = h.chunk[a].alloc
        /\ g.chunk[mid].size = rest /\ g.chunk[mid].preceding = size /\ ~g.chunk[mid].alloc
        /\ g.chunk[b].size = h.chunk[b].size /\ g.chunk[b].preceding = rest
        /\ g.chunk[b].alloc = h.chunk[b].alloc
        /\ \A c \in DOMAIN g.chunk :
              c # a /\ c # mid /\ c # b => c \in DOMAIN h.chunk /\ g.chunk[c] = h.chunk[c]

\* Cut makes two chunks of one, and both neighbours' headers agree.
LEMMA CutFacts ==
  ASSUME NEW h, IsHeap(h), NEW a \in DOMAIN h.chunk, NEW size \in Nat, size > 0,
         h.chunk[a].size > size, a + h.chunk[a].size \in DOMAIN h.chunk,
         a + size \notin DOMAIN h.chunk
  PROVE  Splits(h, Cut(h, a, size), a, size)
<1> DEFINE mid == a + size
           rest == h.chunk[a].size - size
           b == a + h.chunk[a].size
           D == DOMAIN h.chunk \cup {mid}
           new == [c \in D |-> IF c = mid THEN Node(rest, size, FALSE) ELSE h.chunk[c]]
           e == [h EXCEPT !.chunk = new]
           f == SetSize(e, mid, rest)
           g == Cut(h, a, size)
<1>1. /\ a \in Nat /\ mid \in Nat /\ h.chunk[a].size \in Nat /\ rest \in Nat /\ rest > 0
      /\ mid # a /\ b # mid /\ b # a /\ mid + rest = b
  BY DEF IsHeap
<1>2. e = [chunk |-> new, bins |-> h.bins, nregions |-> h.nregions]
  <2>1. h = [chunk |-> h.chunk, bins |-> h.bins, nregions |-> h.nregions]
    BY DEF IsHeap
  <2> HIDE DEF new
  <2> QED BY <2>1
<1>3. Node(rest, size, FALSE) \in Header
  BY <1>1 DEF Node, Header
<1>4. \A c \in DOMAIN h.chunk : h.chunk[c] \in Header
  BY DEF IsHeap, Header
<1>5. new \in [D -> Header] /\ DOMAIN new = D
  BY <1>3, <1>4
<1>6. new[mid] = Node(rest, size, FALSE) /\ \A c \in DOMAIN h.chunk : new[c] = h.chunk[c]
  OBVIOUS
<1>7. g = SetSize(f, a, size)
  BY DEF Cut, Size
<1> HIDE DEF new
<1>8. e.chunk = new /\ e.bins = h.bins /\ e.nregions = h.nregions
  BY <1>2
<1>9. IsHeap(e)
  <2>1. D \subseteq Nat
    BY <1>1 DEF IsHeap
  <2> HIDE DEF D
  <2> QED BY <1>2, <1>5, <1>8, <2>1 DEF IsHeap, Header
<1>10. DOMAIN e.chunk = D /\ a \in D /\ mid \in D /\ b \in D
  BY <1>5, <1>8
<1> HIDE DEF e, f, g
<1>11. Resizes(e, f, mid, rest)
  BY <1>1, <1>9, <1>10, SetSizeFacts DEF f
<1>12. Resizes(f, g, a, size)
  <2>1. IsHeap(f) /\ a \in DOMAIN f.chunk
    BY <1>10, <1>11 DEF Resizes
  <2> QED BY <1>7, <2>1, SetSizeFacts
<1>13. /\ e.chunk[mid].size = rest /\ e.chunk[mid].preceding = size /\ ~e.chunk[mid].alloc
       /\ \A c \in DOMAIN h.chunk : e.chunk[c] = h.chunk[c]
  BY <1>6, <1>8 DEF Node
<1>14. /\ IsHeap(f) /\ f.bins = h.bins /\ f.nregions = h.nregions /\ DOMAIN f.chunk = D
       /\ f.chunk[mid].size = rest /\ f.chunk[mid].preceding = size /\ ~f.chunk[mid].alloc
       /\ f.chunk[b].size = h.chunk[b].size /\ f.chunk[b].preceding = rest
       /\ f.chunk[b].alloc = h.chunk[b].alloc
       /\ \A c \in D : c # mid /\ c # b => f.chunk[c] = h.chunk[c]
  BY <1>1, <1>8, <1>10, <1>11, <1>13 DEF Resizes, SameBut
<1> HIDE DEF mid, rest, b
<1>15. /\ IsHeap(g) /\ g.bins = h.bins /\ g.nregions = h.nregions /\ DOMAIN g.chunk = D
       /\ g.chunk[a].size = size /\ g.chunk[a].preceding = f.chunk[a].preceding
       /\ g.chunk[a].alloc = f.chunk[a].alloc
       /\ g.chunk[mid].size = rest /\ g.chunk[mid].preceding = size
       /\ g.chunk[mid].alloc = f.chunk[mid].alloc
       /\ \A c \in D : c # a /\ c # mid => g.chunk[c] = f.chunk[c]
  BY <1>12, <1>10, <1>14 DEF Resizes, SameBut, mid
<1>16. f.chunk[a] = h.chunk[a]
  BY <1>1, <1>10, <1>14
<1>17. /\ b \in D /\ g.chunk[b] = f.chunk[b]
       /\ \A c \in D : c # a /\ c # mid /\ c # b => c \in DOMAIN h.chunk /\ g.chunk[c] = h.chunk[c]
  BY <1>1, <1>10, <1>14, <1>15
<1>18. Splits(h, g, a, size)
  BY <1>14, <1>15, <1>16, <1>17 DEF Splits, mid, rest, b
<1> QED BY <1>18 DEF g

\* Chunk a is marked.
Marks(h, g, a, alloc) ==
    /\ IsHeap(g) /\ g.bins = h.bins /\ g.nregions = h.nregions
    /\ DOMAIN g.chunk = DOMAIN h.chunk
    /\ g.chunk[a].size = h.chunk[a].size /\ g.chunk[a].preceding = h.chunk[a].preceding
    /\ g.chunk[a].alloc = alloc
    /\ \A c \in DOMAIN g.chunk : c # a => g.chunk[c] = h.chunk[c]

\* Setting or clearing the flag of a chunk changes nothing else.
LEMMA MarkFacts ==
  ASSUME NEW h, IsHeap(h), NEW a \in DOMAIN h.chunk
  PROVE  Marks(h, Allocated(h, a), a, TRUE) /\ Marks(h, Freed(h, a), a, FALSE)
<1> DEFINE D == DOMAIN h.chunk
<1>1. \A c \in D : h.chunk[c] \in Header
  BY DEF IsHeap, Header
<1>2. ASSUME NEW v \in BOOLEAN, NEW g, g = [h EXCEPT !.chunk[a].alloc = v]
      PROVE  Marks(h, g, a, v)
  <2> DEFINE e == [h.chunk[a] EXCEPT !.alloc = v]
             new == [h.chunk EXCEPT ![a] = e]
  <2>1. g = [chunk |-> new, bins |-> h.bins, nregions |-> h.nregions]
    BY <1>2 DEF IsHeap
  <2>2. e \in Header /\ e.size = h.chunk[a].size /\ e.preceding = h.chunk[a].preceding /\ e.alloc = v
    BY <1>1 DEF Header
  <2> HIDE DEF e
  <2>3. /\ new \in [D -> Header] /\ DOMAIN new = D
        /\ new[a] = e /\ \A c \in D : c # a => new[c] = h.chunk[c]
    BY <1>1, <2>2 DEF IsHeap, Header
  <2> HIDE DEF new
  <2>4. g.chunk = new /\ g.bins = h.bins /\ g.nregions = h.nregions
    BY <2>1
  <2>5. IsHeap(g)
    BY <2>1, <2>3, <2>4 DEF IsHeap, Header
  <2> QED BY <2>2, <2>3, <2>4, <2>5 DEF Marks
<1> QED BY <1>2 DEF Allocated, Freed

-----------------------------------------------------------------------------
(***************************************************************************)
(* Merging, cutting and marking chunks keep the regions tiled.             *)
(***************************************************************************)

\* Two neighbours that are no guards may become one.
LEMMA MergeTiling ==
  ASSUME NEW h, NEW g, IsHeap(h), Tiling(h), NEW a \in DOMAIN h.chunk, a \notin Guards,
         NextOf(h, a) \notin Guards, Merges(h, g, a)
  PROVE  Tiling(g) /\ NextOf(g, a) = NextOf(h, NextOf(h, a))
<1> DEFINE D == DOMAIN h.chunk
           s == h.chunk[a].size
           next == a + s
           t == h.chunk[next].size
           b == next + t
<1>1. a \in D \ Ends /\ a \notin Starts /\ next \notin Starts /\ next \notin Ends /\ next \notin Guards
  BY GuardSets DEF NextOf
<1>2. /\ s > 0 /\ next \in D /\ h.chunk[next].preceding = s
      /\ \A c \in D : c <= a \/ c >= next
  BY <1>1 DEF Tiling, Forward, NextOf
<1>3. /\ t > 0 /\ b \in D /\ h.chunk[b].preceding = t
      /\ \A c \in D : c <= next \/ c >= b
  BY <1>1, <1>2 DEF Tiling, Forward, NextOf
<1>4. a \in Nat /\ s \in Nat /\ t \in Nat /\ next \in Nat /\ b \in Nat /\ b = a + (s + t)
  BY <1>2, <1>3 DEF IsHeap
<1>5. /\ \A c \in D : c \in Nat /\ h.chunk[c].size \in Nat /\ h.chunk[c].preceding \in Nat
      /\ IsHeap(g)
  BY DEF IsHeap, Merges
<1>6. DOMAIN g.chunk = D \ {next} /\ a \in D \ {next} /\ b \in D \ {next} /\ b # a
  <2>1. DOMAIN g.chunk = D \ {next}
    BY DEF Merges
  <2>2. next # a /\ b # next /\ b # a
    <3> HIDE DEF s, t
    <3> QED BY <1>2, <1>3, <1>4
  <2> HIDE DEF next, b
  <2> QED BY <1>3, <2>1, <2>2
<1>7. g.chunk[a].size = s + t /\ g.chunk[b].preceding = s + t
  BY <1>3, <1>4 DEF Merges
<1>8. \A c \in D \ {next} : g.chunk[c].alloc = h.chunk[c].alloc
  BY <1>4, <1>6 DEF Merges, SameBut
<1>9. \A c \in D \ {next} : c # a => g.chunk[c].size = h.chunk[c].size
  BY <1>4, <1>6 DEF Merges, SameBut
<1>10. \A c \in D \ {next} : c # b => g.chunk[c].preceding = h.chunk[c].preceding
  BY <1>4, <1>6 DEF Merges, SameBut
<1>11. g.nregions = h.nregions
  BY DEF Merges
<1> HIDE DEF s, t, next, b, D
<1>12. Guarded(g)
  <2>1. \A r \in 1 .. g.nregions : HeapStart(r) # next /\ HeapEnd(r) # next /\ HeapStart(r) # a
    <3>1. 1 .. g.nregions \subseteq DOMAIN Region
      BY <1>5, RegionFacts DEF IsHeap
    <3> QED BY <1>1, <3>1 DEF Guards
  <2>2. Guarded(h)
    BY DEF Tiling
  <2> QED BY <1>6, <1>8, <1>9, <1>11, <2>1, <2>2 DEF Guarded, D
<1>13. Forward(g)
  <2> SUFFICES ASSUME NEW c \in (D \ {next}) \ Ends
               PROVE  /\ g.chunk[c].size > 0 /\ NextOf(g, c) \in D \ {next}
                      /\ g.chunk[NextOf(g, c)].preceding = g.chunk[c].size
                      /\ \A d \in D \ {next} : d <= c \/ d >= NextOf(g, c)
    BY <1>6 DEF Forward
  <2>1. CASE c = a
    <3>1. NextOf(g, c) = b
      BY <1>4, <1>7, <2>1 DEF NextOf
    <3>2. \A d \in D \ {next} : d <= c \/ d >= b
      BY <1>2, <1>3, <1>4, <1>5, <2>1
    <3> QED BY <1>2, <1>3, <1>4, <1>6, <1>7, <2>1, <3>1, <3>2
  <2>2. CASE c # a
    <3> DEFINE n == c + h.chunk[c].size
    <3>1. /\ h.chunk[c].size > 0 /\ n \in D /\ h.chunk[n].preceding = h.chunk[c].size
          /\ \A d \in D : d <= c \/ d >= n
      BY DEF Tiling, Forward, NextOf, D
    <3>2. n # next
      BY <1>2, <1>4, <1>5, <2>2, <3>1 DEF next
    <3>3. n # b
      BY <1>3, <1>4, <1>5, <3>1 DEF b
    <3>4. NextOf(g, c) = n /\ g.chunk[c].size = h.chunk[c].size
      BY <1>9, <2>2 DEF NextOf
    <3> HIDE DEF n
    <3>5. g.chunk[n].preceding = h.chunk[n].preceding
      BY <1>10, <3>1, <3>2, <3>3
    <3> QED BY <3>1, <3>2, <3>4, <3>5
  <2> QED BY <2>1, <2>2
<1>14. Backward(g)
  <2> SUFFICES ASSUME NEW c \in (D \ {next}) \ Starts
               PROVE  /\ g.chunk[c].preceding > 0 /\ PrevOf(g, c) \in (D \ {next}) \ Ends
                      /\ g.chunk[PrevOf(g, c)].size = g.chunk[c].preceding
    BY <1>6 DEF Backward
  <2>1. CASE c = b
    <3>1. PrevOf(g, c) = a
      BY <1>4, <1>7, <2>1 DEF PrevOf
    <3> QED BY <1>1, <1>2, <1>4, <1>6, <1>7, <2>1, <3>1
  <2>2. CASE c # b
    <3> DEFINE p == c - h.chunk[c].preceding
    <3>1. /\ h.chunk[c].preceding > 0 /\ p \in D \ Ends /\ h.chunk[p].size = h.chunk[c].preceding
      BY DEF Tiling, Backward, PrevOf, D
    <3>2. p # next
      BY <1>4, <1>5, <2>2, <3>1 DEF b, t
    <3>3. p # a
      BY <1>4, <1>5, <3>1 DEF next, s
    <3>4. PrevOf(g, c) = p /\ g.chunk[c].preceding = h.chunk[c].preceding
      BY <1>10, <2>2 DEF PrevOf
    <3> HIDE DEF p
    <3>5. g.chunk[p].size = h.chunk[p].size
      BY <1>9, <3>1, <3>2, <3>3
    <3> QED BY <3>1, <3>2, <3>4, <3>5
  <2> QED BY <2>1, <2>2
<1>15. Large(g)
  <2>1. \A c \in D \ Guards : h.chunk[c].size >= 2
    BY DEF Tiling, Large, SIZEOF_MM_FREENODE, D
  <2>2. s + t >= 2
    BY <1>2, <1>3, <1>4
  <2> QED BY <1>6, <1>7, <1>9, <2>1, <2>2 DEF Large, SIZEOF_MM_FREENODE
<1>16. NextOf(g, a) = b /\ NextOf(h, NextOf(h, a)) = b
  BY <1>4, <1>7 DEF NextOf, b, t, next, s
<1> QED BY <1>12, <1>13, <1>14, <1>15, <1>16 DEF Tiling

\* A chunk may be cut where both parts can hold the links of a free chunk.
LEMMA SplitTiling ==
  ASSUME NEW h, NEW g, IsHeap(h), Tiling(h), NEW a \in DOMAIN h.chunk, a \notin Guards,
         NEW size \in Nat, size >= SIZEOF_MM_FREENODE,
         h.chunk[a].size - size >= SIZEOF_MM_FREENODE, Splits(h, g, a, size)
  PROVE  /\ Tiling(g) /\ a + size \notin Guards
         /\ NextOf(g, a) = a + size /\ NextOf(g, a + size) = NextOf(h, a)
<1> DEFINE D == DOMAIN h.chunk
           s == h.chunk[a].size
           mid == a + size
           rest == s - size
           b == a + s
<1>1. a \in D \ Ends /\ a \notin Starts
  BY GuardSets
<1>2. /\ b \in D /\ h.chunk[b].preceding = s /\ \A c \in D : c <= a \/ c >= b
  BY <1>1 DEF Tiling, Forward, NextOf
<1>3. /\ a \in Nat /\ s \in Nat /\ mid \in Nat /\ rest \in Nat /\ b \in Nat /\ b = mid + rest
      /\ size >= 2 /\ rest >= 2 /\ mid = b - rest
  <2>1. a \in Nat /\ s \in Nat
    BY DEF IsHeap
  <2>2. size >= 2 /\ rest >= 2
    BY DEF SIZEOF_MM_FREENODE
  <2> HIDE DEF s
  <2> QED BY <2>1, <2>2
<1>4. /\ \A c \in D : c \in Nat /\ h.chunk[c].size \in Nat /\ h.chunk[c].preceding \in Nat
      /\ IsHeap(g)
  BY DEF IsHeap, Splits
<1>5. a < mid /\ mid < b /\ mid \notin D
  <2> HIDE DEF s
  <2> QED BY <1>2, <1>3
<1>6. DOMAIN g.chunk = D \cup {mid}
  BY DEF Splits
<1>7. /\ g.chunk[a].size = size /\ g.chunk[mid].size = rest /\ g.chunk[mid].preceding = size
      /\ g.chunk[b].preceding = rest
  BY DEF Splits
<1>8. \A c \in D : g.chunk[c].alloc = h.chunk[c].alloc
  BY <1>5, <1>6 DEF Splits
<1>9. \A c \in D : c # a => g.chunk[c].size = h.chunk[c].size
  BY <1>5, <1>6 DEF Splits
<1>10. \A c \in D : c # b => g.chunk[c].preceding = h.chunk[c].preceding
  BY <1>5, <1>6 DEF Splits
<1>11. g.nregions = h.nregions
  BY DEF Splits
<1> HIDE DEF s, mid, rest, b, D
<1>12. PICK r \in 1 .. h.nregions : HeapStart(r) <= a /\ a <= HeapEnd(r)
  BY DEF Tiling, Guarded, D
<1>13. r \in DOMAIN Region /\ HeapStart(r) \in D /\ HeapEnd(r) \in D
  BY RegionFacts DEF IsHeap, Tiling, Guarded, D
<1>14. HeapStart(r) < mid /\ mid < HeapEnd(r)
  <2>1. a # HeapEnd(r) /\ HeapStart(r) \in Nat /\ HeapEnd(r) \in Nat
    BY <1>1, <1>13, RegionFacts DEF Ends
  <2>2. HeapEnd(r) >= b
    BY <1>2, <1>3, <1>12, <1>13, <2>1
  <2> QED BY <1>3, <1>5, <1>12, <2>1, <2>2
<1>15. mid \notin Guards
  <2> SUFFICES ASSUME NEW q \in DOMAIN Region, mid = HeapStart(q) \/ mid = HeapEnd(q) PROVE FALSE
    BY DEF Guards
  <2>1. /\ HeapStart(q) \in Nat /\ HeapEnd(q) \in Nat /\ HeapStart(r) \in Nat /\ HeapEnd(r) \in Nat
        /\ HeapStart(q) < HeapEnd(q) /\ HeapStart(r) < HeapEnd(r)
    BY <1>13, RegionFacts
  <2>2. q = r \/ HeapEnd(q) < HeapStart(r) \/ HeapEnd(r) < HeapStart(q)
    BY <1>13, RegionFacts
  <2> QED BY <1>3, <1>14, <2>1, <2>2
<1>16. Guarded(g)
  <2>1. Guarded(h)
    BY DEF Tiling
  <2>2. ASSUME NEW c \in D \cup {mid}
        PROVE  \E q \in 1 .. h.nregions : HeapStart(q) <= c /\ c <= HeapEnd(q)
    <3>1. HeapStart(r) \in Nat /\ HeapEnd(r) \in Nat
      BY <1>13, RegionFacts
    <3>2. HeapStart(r) <= mid /\ mid <= HeapEnd(r)
      BY <1>3, <1>14, <3>1
    <3> QED BY <2>1, <2>2, <3>2 DEF Guarded, D
  <2>3. \A q \in 1 .. g.nregions : HeapStart(q) # a
    <3>1. 1 .. g.nregions \subseteq DOMAIN Region
      BY <1>4, RegionFacts DEF IsHeap
    <3> QED BY <3>1 DEF Guards
  <2> QED BY <1>6, <1>8, <1>9, <1>11, <2>1, <2>2, <2>3 DEF Guarded, D
<1>17. Forward(g)
  <2> SUFFICES ASSUME NEW c \in (D \cup {mid}) \ Ends
               PROVE  /\ g.chunk[c].size > 0 /\ NextOf(g, c) \in D \cup {mid}
                      /\ g.chunk[NextOf(g, c)].preceding = g.chunk[c].size
                      /\ \A d \in D \cup {mid} : d <= c \/ d >= NextOf(g, c)
    BY <1>6 DEF Forward
  <2>1. CASE c = a
    <3>1. NextOf(g, c) = mid
      BY <1>7, <2>1 DEF NextOf, mid
    <3>2. \A d \in D \cup {mid} : d <= c \/ d >= mid
      BY <1>2, <1>3, <1>4, <1>5, <2>1
    <3> QED BY <1>3, <1>7, <2>1, <3>1, <3>2
  <2>2. CASE c = mid
    <3>1. NextOf(g, c) = b
      BY <1>3, <1>7, <2>2 DEF NextOf
    <3>2. \A d \in D \cup {mid} : d <= c \/ d >= b
      BY <1>2, <1>3, <1>4, <1>5, <2>2
    <3> QED BY <1>2, <1>3, <1>7, <2>2, <3>1, <3>2
  <2>3. CASE c # a /\ c # mid
    <3> DEFINE n == c + h.chunk[c].size
    <3>1. /\ h.chunk[c].size > 0 /\ n \in D /\ h.chunk[n].preceding = h.chunk[c].size
          /\ \A d \in D : d <= c \/ d >= n
      BY <2>3 DEF Tiling, Forward, NextOf, D
    <3>2. n # b
      BY <1>2, <1>3, <1>4, <2>3, <3>1 DEF b
    <3>3. NextOf(g, c) = n /\ g.chunk[c].size = h.chunk[c].size
      BY <1>9, <2>3 DEF NextOf
    <3>4. n \in Nat /\ c \in Nat
      BY <1>4, <2>3, <3>1
    <3> HIDE DEF n
    <3>5. g.chunk[n].preceding = h.chunk[n].preceding
      BY <1>10, <3>1, <3>2
    <3>6. mid <= c \/ mid >= n
      <4>1. a <= c \/ a >= n
        BY <3>1 DEF D
      <4>2. c >= b \/ c < a
        BY <1>2, <1>3, <2>3, <3>4
      <4> QED BY <1>3, <1>5, <3>4, <4>1, <4>2
    <3> QED BY <3>1, <3>3, <3>5, <3>6
  <2> QED BY <2>1, <2>2, <2>3
<1>18. Backward(g)
  <2> SUFFICES ASSUME NEW c \in (D \cup {mid}) \ Starts
               PROVE  /\ g.chunk[c].preceding > 0 /\ PrevOf(g, c) \in (D \cup {mid}) \ Ends
                      /\ g.chunk[PrevOf(g, c)].size = g.chunk[c].preceding
    BY <1>6 DEF Backward
  <2>1. CASE c = mid
    <3>1. PrevOf(g, c) = a
      BY <1>3, <1>7, <2>1 DEF PrevOf, mid
    <3> QED BY <1>1, <1>3, <1>7, <2>1, <3>1
  <2>2. CASE c = b
    <3>1. PrevOf(g, c) = mid
      BY <1>3, <1>7, <2>2 DEF PrevOf
    <3>2. mid \notin Ends
      BY <1>15, GuardSets
    <3> QED BY <1>3, <1>7, <2>2, <3>1, <3>2
  <2>3. CASE c # b /\ c # mid
    <3> DEFINE p == c - h.chunk[c].preceding
    <3>1. /\ h.chunk[c].preceding > 0 /\ p \in D \ Ends /\ h.chunk[p].size = h.chunk[c].preceding
      BY <2>3 DEF Tiling, Backward, PrevOf, D
    <3>2. p # a
      BY <1>3, <1>4, <2>3, <3>1 DEF b, s
    <3>3. PrevOf(g, c) = p /\ g.chunk[c].preceding = h.chunk[c].preceding
      BY <1>10, <2>3 DEF PrevOf
    <3> HIDE DEF p
    <3>4. g.chunk[p].size = h.chunk[p].size
      BY <1>9, <3>1, <3>2
    <3> QED BY <3>1, <3>3, <3>4
  <2> QED BY <2>1, <2>2, <2>3
<1>19. Large(g)
  <2>1. \A c \in D \ Guards : h.chunk[c].size >= 2
    BY DEF Tiling, Large, SIZEOF_MM_FREENODE, D
  <2> QED BY <1>3, <1>6, <1>7, <1>9, <2>1 DEF Large, SIZEOF_MM_FREENODE
<1>20. NextOf(g, a) = a + size /\ NextOf(g, a + size) = NextOf(h, a)
  BY <1>3, <1>7 DEF NextOf, mid, b, s
<1> QED BY <1>15, <1>16, <1>17, <1>18, <1>19, <1>20 DEF Tiling, mid

\* The flag of a chunk that is no guard does not matter to the tiling.
LEMMA MarkTiling ==
  ASSUME NEW h, NEW g, IsHeap(h), Tiling(h), NEW a \in DOMAIN h.chunk, a \notin Guards,
         NEW alloc, Marks(h, g, a, alloc)
  PROVE  /\ Tiling(g)
         /\ \A c \in DOMAIN h.chunk : NextOf(g, c) = NextOf(h, c) /\ PrevOf(g, c) = PrevOf(h, c)
<1>1. /\ DOMAIN g.chunk = DOMAIN h.chunk /\ g.nregions = h.nregions
      /\ \A c \in DOMAIN h.chunk :
            g.chunk[c].size = h.chunk[c].size /\ g.chunk[c].preceding = h.chunk[c].preceding
      /\ \A c \in DOMAIN h.chunk : c # a => g.chunk[c].alloc = h.chunk[c].alloc
  BY DEF Marks
<1>2. \A c \in DOMAIN h.chunk : NextOf(g, c) = NextOf(h, c) /\ PrevOf(g, c) = PrevOf(h, c)
  BY <1>1 DEF NextOf, PrevOf
<1>3. Guarded(g)
  <2>1. 1 .. h.nregions \subseteq DOMAIN Region
    BY RegionFacts DEF IsHeap
  <2>2. \A r \in 1 .. h.nregions : HeapStart(r) # a /\ HeapEnd(r) # a
    BY <2>1 DEF Guards
  <2> QED BY <1>1, <2>2 DEF Tiling, Guarded
<1>4. Forward(g)
  BY <1>1, <1>2 DEF Tiling, Forward
<1>5. Backward(g)
  BY <1>1, <1>2 DEF Tiling, Backward
<1>6. Large(g)
  BY <1>1 DEF Tiling, Large
<1> QED BY <1>2, <1>3, <1>4, <1>5, <1>6 DEF Tiling

-----------------------------------------------------------------------------
(***************************************************************************)
(* The lists of free chunks.                                               *)
(***************************************************************************)

Less == {ss \in Nat \X Nat : ss[1] < ss[2]}

\* A set of naturals that is not empty has a smallest element.
LEMMA Smallest ==
  ASSUME NEW T \in SUBSET Nat, T # {}
  PROVE  \E x \in T : \A y \in T : x <= y
  <1>1. IsWellFoundedOn(Less, Nat)
    BY NatLessThanWellFounded DEF OpToRel, Less
  <1>2. PICK x \in T : \A y \in T : ~(<<y, x>> \in Less)
    BY <1>1, WFMin
  <1>3. \A y \in T : ~(y < x)
    BY <1>2 DEF Less
  <1>4. \A y \in T : x <= y
    BY <1>3
  <1> QED BY <1>4

\* Entries behind the new one move up.
LEMMA InsertAtFacts ==
  ASSUME NEW S, NEW s \in Seq(S), NEW i \in 1 .. Len(s) + 1, NEW e \in S
  PROVE  /\ InsertAt(s, i, e) \in Seq(S)
         /\ Len(InsertAt(s, i, e)) = Len(s) + 1
         /\ \A k \in 1 .. i - 1 : InsertAt(s, i, e)[k] = s[k]
         /\ InsertAt(s, i, e)[i] = e
         /\ \A k \in i .. Len(s) : InsertAt(s, i, e)[k + 1] = s[k]
  <1> DEFINE front == SubSeq(s, 1, i - 1)
             back == SubSeq(s, i, Len(s))
             mid == front \o <<e>>
  <1>1. /\ Len(s) \in Nat /\ i \in Int /\ i - 1 \in Int /\ Len(s) \in Int
        /\ \A k \in 1 .. Len(s) : s[k] \in S
    BY LenProperties, ElementOfSeq
  <1>2. /\ front \in Seq(S) /\ Len(front) = i - 1
        /\ \A k \in 1 .. i - 1 : front[k] = s[k]
    <2>1. \A k \in 1 .. i - 1 : s[k] \in S
      BY <1>1
    <2>2. /\ front \in Seq(S) /\ Len(front) = IF 1 <= i - 1 THEN (i - 1) - 1 + 1 ELSE 0
          /\ \A k \in 1 .. (i - 1) - 1 + 1 : front[k] = s[1 + k - 1]
      BY <1>1, <2>1, SubSeqProperties
    <2> HIDE DEF front
    <2> QED BY <1>1, <2>2
  <1>3. /\ back \in Seq(S) /\ Len(back) = Len(s) - i + 1
        /\ \A k \in 1 .. Len(s) - i + 1 : back[k] = s[i + k - 1]
    <2>1. \A k \in i .. Len(s) : s[k] \in S
      BY <1>1
    <2>2. /\ back \in Seq(S) /\ Len(back) = IF i <= Len(s) THEN Len(s) - i + 1 ELSE 0
          /\ \A k \in 1 .. Len(s) - i + 1 : back[k] = s[i + k - 1]
      BY <1>1, <2>1, SubSeqProperties
    <2> HIDE DEF back
    <2> QED BY <1>1, <2>2
  <1>4. <<e>> \in Seq(S) /\ Len(<<e>>) = 1 /\ <<e>>[1] = e
    OBVIOUS
  <1> HIDE DEF front, back
  <1>5. /\ mid \in Seq(S) /\ Len(mid) = i
        /\ \A k \in 1 .. i - 1 : mid[k] = s[k]
        /\ mid[i] = e
    <2>1. /\ mid \in Seq(S) /\ Len(mid) = Len(front) + 1
          /\ \A k \in 1 .. Len(front) + 1 :
                mid[k] = IF k <= Len(front) THEN front[k] ELSE <<e>>[k - Len(front)]
      BY <1>2, <1>4, ConcatProperties
    <2> HIDE DEF mid
    <2> QED BY <1>1, <1>2, <1>4, <2>1
  <1> HIDE DEF mid
  <1> DEFINE r == mid \o back
  <1>6. /\ r \in Seq(S) /\ Len(r) = Len(mid) + Len(back)
        /\ \A k \in 1 .. Len(mid) + Len(back) :
              r[k] = IF k <= Len(mid) THEN mid[k] ELSE back[k - Len(mid)]
    BY <1>3, <1>5, ConcatProperties
  <1>7. InsertAt(s, i, e) = r
    BY DEF InsertAt, mid, front, back
  <1> HIDE DEF r
  <1>8. \A k \in i .. Len(s) : r[k + 1] = s[k]
    <2> SUFFICES ASSUME NEW k \in i .. Len(s) PROVE r[k + 1] = s[k]
      OBVIOUS
    <2>1. r[k + 1] = back[k + 1 - i]
      BY <1>1, <1>3, <1>5, <1>6
    <2>2. k + 1 - i \in 1 .. Len(s) - i + 1 /\ i + (k + 1 - i) - 1 = k
      BY <1>1
    <2> QED BY <1>3, <2>1, <2>2
  <1>9. Len(r) = Len(s) + 1 /\ r[i] = e /\ \A k \in 1 .. i - 1 : r[k] = s[k]
    BY <1>1, <1>3, <1>5, <1>6
  <1> QED BY <1>6, <1>7, <1>8, <1>9

\* Entries behind the one that is gone move down.
LEMMA RemoveAtFacts ==
  ASSUME NEW S, NEW s \in Seq(S), NEW i \in 1 .. Len(s)
  PROVE  /\ RemoveAt(s, i) \in Seq(S)
         /\ Len(RemoveAt(s, i)) = Len(s) - 1
         /\ \A k \in 1 .. i - 1 : RemoveAt(s, i)[k] = s[k]
         /\ \A k \in i .. Len(s) - 1 : RemoveAt(s, i)[k] = s[k + 1]
  <1> DEFINE front == SubSeq(s, 1, i - 1)
             back == SubSeq(s, i + 1, Len(s))
             r == front \o back
  <1>1. /\ Len(s) \in Nat /\ i \in Int /\ i - 1 \in Int /\ i + 1 \in Int /\ Len(s) \in Int
        /\ \A k \in 1 .. Len(s) : s[k] \in S
    BY LenProperties, ElementOfSeq
  <1>2. /\ front \in Seq(S) /\ Len(front) = i - 1
        /\ \A k \in 1 .. i - 1 : front[k] = s[k]
    <2>1. \A k \in 1 .. i - 1 : s[k] \in S
      BY <1>1
    <2>2. /\ front \in Seq(S) /\ Len(front) = IF 1 <= i - 1 THEN (i - 1) - 1 + 1 ELSE 0
          /\ \A k \in 1 .. (i - 1) - 1 + 1 : front[k] = s[1 + k - 1]
      BY <1>1, <2>1, SubSeqProperties
    <2> HIDE DEF front
    <2> QED BY <1>1, <2>2
  <1>3. /\ back \in Seq(S) /\ Len(back) = Len(s) - i
        /\ \A k \in 1 .. Len(s) - i : back[k] = s[i + k]
    <2>1. \A k \in i + 1 .. Len(s) : s[k] \in S
      BY <1>1
    <2>2. /\ back \in Seq(S) /\ Len(back) = IF i + 1 <= Len(s) THEN Len(s) - (i + 1) + 1 ELSE 0
          /\ \A k \in 1 .. Len(s) - (i + 1) + 1 : back[k] = s[(i + 1) + k - 1]
      BY <1>1, <2>1, SubSeqProperties
    <2> HIDE DEF back
    <2> QED BY <1>1, <2>2
  <1> HIDE DEF front, back
  <1>4. /\ r \in Seq(S) /\ Len(r) = Len(front) + Len(back)
        /\ \A k \in 1 .. Len(front) + Len(back) :
              r[k] = IF k <= Len(front) THEN front[k] ELSE back[k - Len(front)]
    BY <1>2, <1>3, ConcatProperties
  <1>5. RemoveAt(s, i) = r
    BY DEF RemoveAt, front, back
  <1> HIDE DEF r
  <1>6. \A k \in i .. Len(s) - 1 : r[k] = s[k + 1]
    <2> SUFFICES ASSUME NEW k \in i .. Len(s) - 1 PROVE r[k] = s[k + 1]
      OBVIOUS
    <2>1. k \in 1 .. Len(front) + Len(back) /\ ~(k <= Len(front)) /\ k - Len(front) = k - (i - 1)
      BY <1>1, <1>2, <1>3
    <2>2. r[k] = back[k - (i - 1)]
      BY <1>4, <2>1
    <2>3. k - (i - 1) \in 1 .. Len(s) - i /\ i + (k - (i - 1)) = k + 1
      BY <1>1
    <2> QED BY <1>3, <2>2, <2>3
  <1>7. Len(r) = Len(s) - 1
    BY <1>1, <1>2, <1>3, <1>4
  <1>8. \A k \in 1 .. i - 1 : r[k] = s[k]
    <2> SUFFICES ASSUME NEW k \in 1 .. i - 1 PROVE r[k] = s[k]
      OBVIOUS
    <2>1. k \in 1 .. Len(front) + Len(back) /\ k <= Len(front)
      BY <1>1, <1>2, <1>3
    <2> QED BY <1>2, <1>4, <2>1
  <1> QED BY <1>4, <1>5, <1>6, <1>7, <1>8

\* mm_size2ndx() finds a list for every size, and no list before that of a
\* smaller one.
LEMMA Size2NdxFacts ==
  /\ \A size \in Nat : Size2Ndx(size) \in Bin
  /\ \A s, t \in Nat : s <= t => Size2Ndx(s) <= Size2Ndx(t)
<1> DEFINE P(size, n) == size < MM_MIN_CHUNK * 2 ^ (n + 1)
           Q(size, n) == P(size, n) /\ \A m \in 0 .. n - 1 : size >= MM_MIN_CHUNK * 2 ^ (m + 1)
<1>1. MM_NNODES \in Nat /\ MM_NNODES >= 2 /\ MM_MAX_CHUNK \in Nat
  BY BinAssumption
<1>2. \A n \in Nat : MM_MIN_CHUNK * 2 ^ (n + 1) \in Int
  BY DEF MM_MIN_CHUNK
<1>3. ASSUME NEW size \in Nat, size < MM_MAX_CHUNK
      PROVE  Size2Ndx(size) \in Bin /\ Q(size, Size2Ndx(size))
  <2> DEFINE T == {n \in Bin : P(size, n)}
  <2>1. T # {}
    <3>1. MM_NNODES - 2 \in Bin /\ (MM_NNODES - 2) + 1 = MM_NNODES - 1
      BY <1>1 DEF Bin
    <3>2. P(size, MM_NNODES - 2)
      BY <1>3, <3>1, BinAssumption
    <3> QED BY <3>1, <3>2
  <2>2. PICK n \in T : \A m \in T : n <= m
    <3>1. T \in SUBSET Nat
      BY <1>1 DEF Bin
    <3> HIDE DEF T
    <3> QED BY <2>1, <3>1, Smallest
  <2>3. n \in Bin /\ P(size, n)
    OBVIOUS
  <2>4. ASSUME NEW m \in 0 .. n - 1 PROVE size >= MM_MIN_CHUNK * 2 ^ (m + 1)
    <3>1. m \in Bin /\ m \in Nat /\ ~(n <= m)
      BY <1>1, <2>3 DEF Bin
    <3>2. ~P(size, m)
      BY <2>2, <3>1
    <3> QED BY <1>2, <3>1, <3>2
  <2>5. Q(size, n)
    BY <2>3, <2>4
  <2>6. Size2Ndx(size) = CHOOSE m \in Bin : Q(size, m)
    BY <1>1, <1>3 DEF Size2Ndx, Bin
  <2> HIDE DEF Q
  <2> QED BY <2>3, <2>5, <2>6
<1>4. \A size \in Nat : size >= MM_MAX_CHUNK => Size2Ndx(size) = MM_NNODES - 1
  BY DEF Size2Ndx
<1>5. ASSUME NEW size \in Nat PROVE Size2Ndx(size) \in Bin
  <2>1. MM_NNODES - 1 \in Bin
    BY <1>1 DEF Bin
  <2> QED BY <1>1, <1>3, <1>4, <2>1
<1>6. ASSUME NEW s \in Nat, NEW t \in Nat, s <= t PROVE Size2Ndx(s) <= Size2Ndx(t)
  <2> DEFINE m == Size2Ndx(s)
             n == Size2Ndx(t)
  <2>1. m \in Nat /\ n \in Nat /\ m <= MM_NNODES - 1
    BY <1>1, <1>5 DEF Bin
  <2>2. CASE t >= MM_MAX_CHUNK
    BY <1>4, <2>1, <2>2
  <2>3. CASE t < MM_MAX_CHUNK
    <3>1. Q(t, n) /\ Q(s, m)
      BY <1>1, <1>3, <1>6, <2>3
    <3> HIDE DEF m, n
    <3>2. P(s, n)
      BY <1>2, <1>6, <2>1, <3>1
    <3>3. ~(n \in 0 .. m - 1)
      BY <1>2, <2>1, <3>1, <3>2
    <3> QED BY <2>1, <3>3 DEF m, n
  <2> QED BY <1>1, <2>2, <2>3
<1> QED BY <1>5, <1>6

\* A heap whose lists alone differ.
Relists(h, g) == IsHeap(g) /\ g.chunk = h.chunk /\ g.nregions = h.nregions

Rebin(h, n, bin) == [h EXCEPT !.bins[n] = bin]

\* Another list in the place of one leaves the headers and the other lists.
LEMMA Relisted ==
  ASSUME NEW h, IsHeap(h), NEW n \in Bin, NEW bin \in Seq(Nat), NEW g,
         g = Rebin(h, n, bin)
  PROVE  Relists(h, g) /\ g.bins[n] = bin /\ \A m \in Bin : m # n => g.bins[m] = h.bins[m]
<1> DEFINE new == [h.bins EXCEPT ![n] = bin]
<1>1. g = [chunk |-> h.chunk, bins |-> new, nregions |-> h.nregions]
  BY DEF IsHeap, Rebin
<1>2. new \in [Bin -> Seq(Nat)] /\ new[n] = bin /\ \A m \in Bin : m # n => new[m] = h.bins[m]
  BY DEF IsHeap
<1> HIDE DEF new
<1>3. g.chunk = h.chunk /\ g.bins = new /\ g.nregions = h.nregions
  BY <1>1
<1>4. IsHeap(g)
  BY <1>1, <1>2, <1>3 DEF IsHeap
<1> QED BY <1>2, <1>3, <1>4 DEF Relists

\* A chunk that is in a list is taken out of it.
LEMMA UnlinkFacts ==
  ASSUME NEW h, NEW out, IsHeap(h), Lists(h, out), NEW a \in Listable(h, out)
  PROVE  Relists(h, Unlink(h, a)) /\ Lists(Unlink(h, a), out \cup {a})
<1> DEFINE n == CHOOSE n \in DOMAIN h.bins : \E k \in DOMAIN h.bins[n] : h.bins[n][k] = a
           k == CHOOSE k \in DOMAIN h.bins[n] : h.bins[n][k] = a
           old == h.bins[n]
           new == RemoveAt(old, k)
           g == Unlink(h, a)
           rest == out \cup {a}
<1>1. DOMAIN h.bins = Bin
  BY DEF IsHeap
<1>2. n \in Bin /\ \E j \in DOMAIN h.bins[n] : h.bins[n][j] = a
  BY <1>1 DEF Lists, InBin
<1>3. g = Rebin(h, n, new)
  BY DEF Unlink, Rebin
<1> HIDE DEF n
<1>4. k \in DOMAIN old /\ old[k] = a
  BY <1>2
<1> HIDE DEF k
<1>5. old \in Seq(Nat) /\ DOMAIN old = 1 .. Len(old) /\ Len(old) \in Nat
  BY <1>2, LenProperties DEF IsHeap
<1>6. k \in 1 .. Len(old)
  BY <1>4, <1>5
<1>7. /\ \A j \in DOMAIN old : old[j] \in Listable(h, out) /\ Size2Ndx(Size(h, old[j])) = n
      /\ \A i, j \in DOMAIN old : i < j => old[i] # old[j] /\ Size(h, old[i]) <= Size(h, old[j])
  BY <1>2 DEF Lists
<1>8. \A m \in Bin : \A j \in DOMAIN h.bins[m] : h.bins[m][j] = a => m = n
  BY <1>4, <1>7 DEF Lists
<1> HIDE DEF old, g
<1>9. /\ new \in Seq(Nat) /\ Len(new) = Len(old) - 1
      /\ \A j \in 1 .. k - 1 : new[j] = old[j]
      /\ \A j \in k .. Len(old) - 1 : new[j] = old[j + 1]
  BY <1>5, <1>6, RemoveAtFacts
<1> HIDE DEF new
<1>10. DOMAIN new = 1 .. Len(old) - 1
  BY <1>9, LenProperties
<1>11. Relists(h, g) /\ g.bins[n] = new /\ \A m \in Bin : m # n => g.bins[m] = h.bins[m]
  BY <1>2, <1>3, <1>9, Relisted
<1> DEFINE at == [j \in 1 .. Len(old) - 1 |-> IF j < k THEN j ELSE j + 1]
<1>12. ASSUME NEW j \in DOMAIN new PROVE at[j] \in DOMAIN old /\ at[j] # k /\ new[j] = old[at[j]]
  <2>1. j \in 1 .. Len(old) - 1 /\ j \in Nat /\ k \in Nat
    BY <1>5, <1>6, <1>10
  <2>2. CASE j < k
    <3>1. at[j] = j
      BY <2>1, <2>2
    <3>2. j \in 1 .. k - 1 /\ j \in 1 .. Len(old)
      BY <1>5, <2>1, <2>2
    <3> QED BY <1>5, <1>9, <2>1, <2>2, <3>1, <3>2
  <2>3. CASE ~(j < k)
    <3>1. at[j] = j + 1
      BY <2>1, <2>3
    <3>2. j \in k .. Len(old) - 1 /\ j + 1 \in 1 .. Len(old) /\ j + 1 # k
      BY <1>5, <2>1, <2>3
    <3> QED BY <1>5, <1>9, <3>1, <3>2
  <2> QED BY <2>2, <2>3
<1>13. \A i, j \in DOMAIN new : i < j => at[i] < at[j]
  BY <1>5, <1>6, <1>10
<1> HIDE DEF at
<1>14. \A j \in DOMAIN old : old[j] = a => j = k
  <2> SUFFICES ASSUME NEW j \in DOMAIN old, old[j] = a, j # k PROVE FALSE
    OBVIOUS
  <2>1. j < k \/ k < j
    BY <1>5, <1>6
  <2> QED BY <1>4, <1>7, <2>1
<1>15. \A c : Size(g, c) = Size(h, c) /\ (IsFree(g, c) <=> IsFree(h, c))
  BY <1>11 DEF Relists, Size, IsFree
<1>16. \A c : c \in Listable(g, rest) <=> c \in Listable(h, out) /\ c # a
  BY <1>11, <1>15 DEF Listable, Relists
<1>17. ASSUME NEW m \in Bin, NEW j \in DOMAIN g.bins[m]
       PROVE  g.bins[m][j] \in Listable(g, rest) /\ Size2Ndx(Size(g, g.bins[m][j])) = m
  <2>1. CASE m = n
    <3>1. j \in DOMAIN new /\ g.bins[m][j] = old[at[j]]
      BY <1>11, <1>12, <1>17, <2>1
    <3>2. at[j] \in DOMAIN old /\ old[at[j]] # a
      BY <1>12, <1>14, <3>1
    <3> QED BY <1>7, <1>15, <1>16, <2>1, <3>1, <3>2
  <2>2. CASE m # n
    <3>1. g.bins[m] = h.bins[m]
      BY <1>11, <2>2
    <3>2. h.bins[m][j] \in Listable(h, out) /\ Size2Ndx(Size(h, h.bins[m][j])) = m /\ h.bins[m][j] # a
      BY <1>8, <1>17, <2>2, <3>1 DEF Lists
    <3> QED BY <1>15, <1>16, <3>1, <3>2
  <2> QED BY <2>1, <2>2
<1>18. ASSUME NEW m \in Bin, NEW i \in DOMAIN g.bins[m], NEW j \in DOMAIN g.bins[m], i < j
       PROVE  g.bins[m][i] # g.bins[m][j] /\ Size(g, g.bins[m][i]) <= Size(g, g.bins[m][j])
  <2>1. CASE m = n
    <3>1. i \in DOMAIN new /\ j \in DOMAIN new /\ g.bins[m] = new
      BY <1>11, <2>1
    <3>2. at[i] < at[j] /\ at[i] \in DOMAIN old /\ at[j] \in DOMAIN old
      BY <1>12, <1>13, <1>18, <3>1
    <3>3. new[i] = old[at[i]] /\ new[j] = old[at[j]]
      BY <1>12, <3>1
    <3> QED BY <1>7, <1>15, <3>1, <3>2, <3>3
  <2>2. CASE m # n
    <3>1. g.bins[m] = h.bins[m]
      BY <1>11, <2>2
    <3> QED BY <1>15, <1>18, <3>1 DEF Lists
  <2> QED BY <2>1, <2>2
<1>19. ASSUME NEW c \in Listable(g, rest) PROVE \E m \in Bin : InBin(g, m, c)
  <2>1. c \in Listable(h, out) /\ c # a
    BY <1>16
  <2>2. PICK m \in Bin : \E j \in DOMAIN h.bins[m] : h.bins[m][j] = c
    BY <2>1 DEF Lists, InBin
  <2>3. CASE m = n
    <3>1. PICK j \in DOMAIN old : old[j] = c
      BY <2>2, <2>3 DEF old
    <3>2. j # k /\ j \in 1 .. Len(old) /\ j \in Nat /\ k \in Nat
      BY <1>4, <1>5, <1>6, <2>1, <3>1
    <3>3. CASE j < k
      <4>1. j \in DOMAIN new /\ new[j] = c
        BY <1>5, <1>6, <1>9, <1>10, <3>1, <3>2, <3>3
      <4> QED BY <1>2, <1>11, <4>1 DEF InBin
    <3>4. CASE j > k
      <4>1. j - 1 \in k .. Len(old) - 1 /\ (j - 1) + 1 = j
        BY <1>5, <1>6, <3>2, <3>4
      <4>2. j - 1 \in DOMAIN new /\ new[j - 1] = c
        BY <1>5, <1>6, <1>9, <1>10, <3>1, <4>1
      <4> QED BY <1>2, <1>11, <4>2 DEF InBin
    <3> QED BY <3>2, <3>3, <3>4
  <2>4. CASE m # n
    BY <1>11, <2>2, <2>4 DEF InBin
  <2> QED BY <2>3, <2>4
<1>20. Lists(g, rest)
  BY <1>17, <1>18, <1>19 DEF Lists
<1> QED BY <1>11, <1>20 DEF g

\* A free chunk that is in no list is put into one.
LEMMA AddFacts ==
  ASSUME NEW h, NEW out, IsHeap(h), Lists(h, out), NEW a \in DOMAIN h.chunk,
         IsFree(h, a), a \in out
  PROVE  Relists(h, AddFreeChunk(h, a)) /\ Lists(AddFreeChunk(h, a), out \ {a})
<1> DEFINE n == Size2Ndx(Size(h, a))
           old == h.bins[n]
           Here(i) == /\ \A j \in 1 .. i - 1 : Size(h, old[j]) < Size(h, a)
                      /\ i <= Len(old) => Size(h, old[i]) >= Size(h, a)
           k == CHOOSE i \in 1 .. Len(old) + 1 : Here(i)
           new == InsertAt(old, k, a)
           g == AddFreeChunk(h, a)
           rest == out \ {a}
<1>1. \A c \in DOMAIN h.chunk : Size(h, c) \in Nat
  BY DEF IsHeap, Size
<1>2. n \in Bin /\ a \in Nat
  BY <1>1, Size2NdxFacts DEF IsHeap
<1>3. g = Rebin(h, n, new)
  BY DEF AddFreeChunk, Rebin
<1>4. n = Size2Ndx(Size(h, a))
  OBVIOUS
<1> HIDE DEF n
<1>5. old \in Seq(Nat) /\ DOMAIN old = 1 .. Len(old) /\ Len(old) \in Nat
  BY <1>2, LenProperties DEF IsHeap
<1>6. /\ \A j \in DOMAIN old : old[j] \in Listable(h, out) /\ Size2Ndx(Size(h, old[j])) = n
      /\ \A i, j \in DOMAIN old : i < j => old[i] # old[j] /\ Size(h, old[i]) <= Size(h, old[j])
  BY <1>2 DEF Lists
<1>7. \A j \in DOMAIN old : Size(h, old[j]) \in Nat /\ old[j] # a
  BY <1>1, <1>6 DEF Listable
<1> HIDE DEF old, g
<1>8. \E i \in 1 .. Len(old) + 1 : Here(i)
  <2> DEFINE T == {i \in 1 .. Len(old) + 1 : i <= Len(old) => Size(h, old[i]) >= Size(h, a)}
  <2>1. T \in SUBSET Nat /\ Len(old) + 1 \in T
    BY <1>5
  <2>2. PICK i \in T : \A j \in T : i <= j
    <3> HIDE DEF T
    <3> QED BY <2>1, Smallest
  <2>3. i \in 1 .. Len(old) + 1 /\ i \in Nat
    BY <1>5
  <2>4. ASSUME NEW j \in 1 .. i - 1 PROVE Size(h, old[j]) < Size(h, a)
    <3>1. j \in 1 .. Len(old) + 1 /\ j <= Len(old) /\ ~(i <= j) /\ j \in DOMAIN old
      BY <1>5, <2>3
    <3>2. ~(Size(h, old[j]) >= Size(h, a))
      BY <2>2, <3>1
    <3> QED BY <1>1, <1>7, <3>1, <3>2
  <2> QED BY <2>3, <2>4
<1>9. k \in 1 .. Len(old) + 1 /\ Here(k)
  BY <1>8
<1> HIDE DEF k
<1>10. /\ new \in Seq(Nat) /\ Len(new) = Len(old) + 1
       /\ \A j \in 1 .. k - 1 : new[j] = old[j]
       /\ new[k] = a
       /\ \A j \in k .. Len(old) : new[j + 1] = old[j]
  <2> DEFINE E == Nat
  <2>1. old \in Seq(E) /\ k \in 1 .. Len(old) + 1 /\ a \in E
    BY <1>2, <1>5, <1>9
  <2> HIDE DEF E
  <2>2. /\ new \in Seq(E) /\ Len(new) = Len(old) + 1
        /\ \A j \in 1 .. k - 1 : new[j] = old[j]
        /\ new[k] = a
        /\ \A j \in k .. Len(old) : new[j + 1] = old[j]
    BY <2>1, InsertAtFacts
  <2> QED BY <2>2 DEF E
<1> HIDE DEF new
<1>11. DOMAIN new = 1 .. Len(old) + 1
  BY <1>10, LenProperties
<1>12. Relists(h, g) /\ g.bins[n] = new /\ \A m \in Bin : m # n => g.bins[m] = h.bins[m]
  BY <1>2, <1>3, <1>10, Relisted
<1>13. \A j \in 1 .. k - 1 : j \in DOMAIN old /\ Size(h, old[j]) < Size(h, a)
  BY <1>5, <1>9
<1>14. ASSUME NEW j \in k .. Len(old) PROVE j \in DOMAIN old /\ Size(h, old[j]) >= Size(h, a)
  <2>1. k \in DOMAIN old /\ j \in DOMAIN old /\ Size(h, old[k]) >= Size(h, a) /\ (j = k \/ k < j)
    BY <1>5, <1>9
  <2>2. Size(h, old[k]) <= Size(h, old[j])
    BY <1>6, <1>7, <2>1
  <2> QED BY <1>1, <1>7, <2>1, <2>2
<1> HIDE DEF Here
<1> DEFINE at == [j \in 1 .. Len(old) + 1 |-> IF j < k THEN j ELSE j - 1]
<1>15. ASSUME NEW j \in DOMAIN new, j # k
       PROVE  /\ at[j] \in DOMAIN old /\ new[j] = old[at[j]]
              /\ j < k => Size(h, old[at[j]]) < Size(h, a)
              /\ j > k => Size(h, old[at[j]]) >= Size(h, a)
  <2>1. j \in 1 .. Len(old) + 1 /\ j \in Nat /\ k \in Nat
    BY <1>5, <1>9, <1>11
  <2>2. CASE j < k
    <3>1. j \in 1 .. k - 1 /\ at[j] = j
      BY <2>1, <2>2
    <3> QED BY <1>10, <1>13, <2>1, <2>2, <3>1
  <2>3. CASE j > k
    <3>1. j - 1 \in k .. Len(old) /\ (j - 1) + 1 = j /\ at[j] = j - 1
      BY <1>5, <2>1, <2>3
    <3> QED BY <1>10, <1>14, <2>1, <2>3, <3>1
  <2> QED BY <1>15, <2>1, <2>2, <2>3
<1>16. \A i, j \in DOMAIN new : i < j /\ i # k /\ j # k => at[i] < at[j]
  BY <1>5, <1>9, <1>11
<1> HIDE DEF at
<1>17. \A c : Size(g, c) = Size(h, c) /\ (IsFree(g, c) <=> IsFree(h, c))
  BY <1>12 DEF Relists, Size, IsFree
<1>18. \A c : c \in Listable(g, rest) <=> c \in Listable(h, out) \/ c = a
  BY <1>12, <1>17 DEF Listable, Relists
<1>19. ASSUME NEW m \in Bin, NEW j \in DOMAIN g.bins[m]
       PROVE  g.bins[m][j] \in Listable(g, rest) /\ Size2Ndx(Size(g, g.bins[m][j])) = m
  <2>1. CASE m = n
    <3>1. j \in DOMAIN new /\ g.bins[m][j] = new[j]
      BY <1>12, <1>19, <2>1
    <3>2. CASE j = k
      BY <1>4, <1>10, <1>17, <1>18, <2>1, <3>1, <3>2
    <3>3. CASE j # k
      <4>1. at[j] \in DOMAIN old /\ new[j] = old[at[j]]
        BY <1>15, <3>1, <3>3
      <4> QED BY <1>6, <1>17, <1>18, <2>1, <3>1, <4>1
    <3> QED BY <3>2, <3>3
  <2>2. CASE m # n
    <3>1. g.bins[m] = h.bins[m]
      BY <1>12, <2>2
    <3>2. h.bins[m][j] \in Listable(h, out) /\ Size2Ndx(Size(h, h.bins[m][j])) = m
      BY <1>19, <3>1 DEF Lists
    <3> QED BY <1>17, <1>18, <3>1, <3>2
  <2> QED BY <2>1, <2>2
<1>20. ASSUME NEW m \in Bin, NEW i \in DOMAIN g.bins[m], NEW j \in DOMAIN g.bins[m], i < j
       PROVE  g.bins[m][i] # g.bins[m][j] /\ Size(g, g.bins[m][i]) <= Size(g, g.bins[m][j])
  <2>1. CASE m = n
    <3>1. i \in DOMAIN new /\ j \in DOMAIN new /\ g.bins[m] = new
      BY <1>12, <2>1
    <3>2. i \in Nat /\ j \in Nat /\ k \in Nat
      BY <1>5, <1>9, <1>11, <3>1
    <3>3. CASE i = k
      <4>1. j > k /\ j # k
        BY <1>20, <3>2, <3>3
      <4>2. at[j] \in DOMAIN old /\ new[j] = old[at[j]] /\ Size(h, old[at[j]]) >= Size(h, a)
        BY <1>15, <3>1, <4>1
      <4> QED BY <1>1, <1>7, <1>10, <1>17, <3>1, <3>3, <4>2
    <3>4. CASE j = k
      <4>1. i < k /\ i # k
        BY <1>20, <3>2, <3>4
      <4>2. at[i] \in DOMAIN old /\ new[i] = old[at[i]] /\ Size(h, old[at[i]]) < Size(h, a)
        BY <1>15, <3>1, <4>1
      <4> QED BY <1>1, <1>7, <1>10, <1>17, <3>1, <3>4, <4>2
    <3>5. CASE i # k /\ j # k
      <4>1. at[i] < at[j] /\ at[i] \in DOMAIN old /\ at[j] \in DOMAIN old
        BY <1>15, <1>16, <1>20, <3>1, <3>5
      <4>2. new[i] = old[at[i]] /\ new[j] = old[at[j]]
        BY <1>15, <3>1, <3>5
      <4> QED BY <1>6, <1>17, <3>1, <4>1, <4>2
    <3> QED BY <3>3, <3>4, <3>5
  <2>2. CASE m # n
    <3>1. g.bins[m] = h.bins[m]
      BY <1>12, <2>2
    <3> QED BY <1>17, <1>20, <3>1 DEF Lists
  <2> QED BY <2>1, <2>2
<1>21. ASSUME NEW c \in Listable(g, rest) PROVE \E m \in Bin : InBin(g, m, c)
  <2>1. CASE c = a
    <3>1. k \in DOMAIN new /\ new[k] = a
      BY <1>9, <1>10, <1>11
    <3> QED BY <1>2, <1>12, <2>1, <3>1 DEF InBin
  <2>2. CASE c # a
    <3>1. PICK m \in Bin : \E j \in DOMAIN h.bins[m] : h.bins[m][j] = c
      BY <1>18, <2>2 DEF Lists, InBin
    <3>2. CASE m = n
      <4>1. PICK j \in DOMAIN old : old[j] = c
        BY <3>1, <3>2 DEF old
      <4>2. j \in 1 .. Len(old) /\ j \in Nat /\ k \in Nat
        BY <1>5, <1>9
      <4>3. CASE j < k
        <5>1. j \in DOMAIN new /\ new[j] = c
          BY <1>5, <1>10, <1>11, <4>1, <4>2, <4>3
        <5> QED BY <1>2, <1>12, <5>1 DEF InBin
      <4>4. CASE j >= k
        <5>1. j \in k .. Len(old) /\ j + 1 \in 1 .. Len(old) + 1
          BY <1>5, <4>2, <4>4
        <5>2. j + 1 \in DOMAIN new /\ new[j + 1] = c
          BY <1>10, <1>11, <4>1, <5>1
        <5> QED BY <1>2, <1>12, <5>2 DEF InBin
      <4> QED BY <4>2, <4>3, <4>4
    <3>3. CASE m # n
      BY <1>12, <3>1, <3>3 DEF InBin
    <3> QED BY <3>2, <3>3
  <2> QED BY <2>1, <2>2
<1>22. Lists(g, rest)
  BY <1>19, <1>20, <1>21 DEF Lists
<1> QED BY <1>12, <1>22 DEF g

-----------------------------------------------------------------------------
(***************************************************************************)
(* The operators keep the heap good, and touch no user's chunk but the one *)
(* they are given.                                                         *)
(***************************************************************************)

\* The chunks that users have.
Owners(h) == {c \in DOMAIN h.chunk \ Guards : h.chunk[c].alloc}

\* Those outside S are the same in both heaps.
Keeps(h, g, S) ==
    /\ g.nregions = h.nregions
    /\ \A c : c \notin S =>
          /\ c \in Owners(h) <=> c \in Owners(g)
          /\ c \in Owners(h) => Size(g, c) = Size(h, c)

\* Both neighbours of a chunk between guards.
LEMMA Neighbours ==
  ASSUME NEW h, IsHeap(h), Tiling(h), NEW a \in DOMAIN h.chunk
  PROVE  /\ a \notin Ends => /\ NextOf(h, a) \in DOMAIN h.chunk /\ PrevOf(h, NextOf(h, a)) = a
                             /\ NextOf(h, a) > a /\ NextOf(h, a) = a + h.chunk[a].size
                             /\ h.chunk[NextOf(h, a)].preceding = h.chunk[a].size
         /\ a \notin Starts => /\ PrevOf(h, a) \in DOMAIN h.chunk /\ NextOf(h, PrevOf(h, a)) = a
                               /\ PrevOf(h, a) \notin Ends
                               /\ PrevOf(h, a) < a /\ PrevOf(h, a) = a - h.chunk[a].preceding
                               /\ h.chunk[PrevOf(h, a)].size = h.chunk[a].preceding
<1>1. a \in Nat /\ \A c \in DOMAIN h.chunk : h.chunk[c].size \in Nat /\ h.chunk[c].preceding \in Nat /\ c \in Nat
  BY DEF IsHeap
<1>2. ASSUME a \notin Ends
      PROVE  /\ NextOf(h, a) \in DOMAIN h.chunk /\ PrevOf(h, NextOf(h, a)) = a
             /\ NextOf(h, a) > a /\ NextOf(h, a) = a + h.chunk[a].size
             /\ h.chunk[NextOf(h, a)].preceding = h.chunk[a].size
  <2>1. /\ h.chunk[a].size > 0 /\ NextOf(h, a) \in DOMAIN h.chunk
        /\ h.chunk[NextOf(h, a)].preceding = h.chunk[a].size
    BY <1>2 DEF Tiling, Forward
  <2> QED BY <1>1, <2>1 DEF NextOf, PrevOf
<1>3. ASSUME a \notin Starts
      PROVE  /\ PrevOf(h, a) \in DOMAIN h.chunk /\ NextOf(h, PrevOf(h, a)) = a
             /\ PrevOf(h, a) \notin Ends
             /\ PrevOf(h, a) < a /\ PrevOf(h, a) = a - h.chunk[a].preceding
             /\ h.chunk[PrevOf(h, a)].size = h.chunk[a].preceding
  <2>1. /\ h.chunk[a].preceding > 0 /\ PrevOf(h, a) \in DOMAIN h.chunk \ Ends
        /\ h.chunk[PrevOf(h, a)].size = h.chunk[a].preceding
    BY <1>3 DEF Tiling, Backward
  <2> QED BY <1>1, <2>1 DEF NextOf, PrevOf
<1> QED BY <1>2, <1>3

\* What is in the lists does not matter to the tiling.
LEMMA SameTiling ==
  ASSUME NEW h, NEW g, Tiling(h), Relists(h, g)
  PROVE  Tiling(g)
  BY DEF Tiling, Relists, Guarded, Forward, Backward, Large, NextOf, PrevOf

\* The lists stay right when the chunks in them keep their sizes.
LEMMA SameLists ==
  ASSUME NEW h, NEW g, NEW X, NEW Y, Lists(h, X), g.bins = h.bins,
         Listable(g, Y) = Listable(h, X), \A c \in Listable(h, X) : Size(g, c) = Size(h, c)
  PROVE  Lists(g, Y)
<1>1. ASSUME NEW n \in Bin, NEW k \in DOMAIN g.bins[n]
      PROVE  g.bins[n][k] \in Listable(g, Y) /\ Size2Ndx(Size(g, g.bins[n][k])) = n
             /\ Size(g, g.bins[n][k]) = Size(h, h.bins[n][k])
  BY <1>1 DEF Lists
<1>2. ASSUME NEW n \in Bin, NEW j \in DOMAIN g.bins[n], NEW k \in DOMAIN g.bins[n], j < k
      PROVE  g.bins[n][j] # g.bins[n][k] /\ Size(g, g.bins[n][j]) <= Size(g, g.bins[n][k])
  <2>1. h.bins[n][j] # h.bins[n][k] /\ Size(h, h.bins[n][j]) <= Size(h, h.bins[n][k])
    BY <1>2 DEF Lists
  <2> QED BY <1>1, <1>2, <2>1
<1>3. \A a \in Listable(g, Y) : \E n \in Bin : InBin(g, n, a)
  BY DEF Lists, InBin
<1> QED BY <1>1, <1>2, <1>3 DEF Lists

\* A chunk that is out of its list is owed to the heap and nothing else is.
LEMMA GoodUnlink ==
  ASSUME NEW h, NEW out, NEW alone, Good(h, out, alone), NEW a \in Listable(h, out)
  PROVE  /\ Good(Unlink(h, a), out \cup {a}, alone)
         /\ Unlink(h, a).chunk = h.chunk /\ Unlink(h, a).nregions = h.nregions
<1> DEFINE g == Unlink(h, a)
           rest == out \cup {a}
<1>1. Relists(h, g) /\ Lists(g, rest)
  BY UnlinkFacts DEF Good
<1> HIDE DEF g
<1>2. IsHeap(g) /\ Tiling(g) /\ g.chunk = h.chunk /\ g.nregions = h.nregions
  BY <1>1, SameTiling DEF Good, Relists
<1>3. ASSUME Apart(h, out) PROVE Apart(g, rest)
  <2>1. \A c : c \in Listable(g, rest) => c \in Listable(h, out)
    BY <1>2 DEF Listable, IsFree
  <2> QED BY <1>2, <1>3, <2>1 DEF Apart, IsFree, NextOf
<1> QED BY <1>1, <1>2, <1>3 DEF Good, g

\* mm_addfreechunk(): a free chunk that is owed, and whose neighbours are not
\* free, is no longer owed.
LEMMA GoodAdd ==
  ASSUME NEW h, NEW out, NEW alone, Good(h, out, alone),
         NEW a \in DOMAIN h.chunk, IsFree(h, a), a \in out,
         alone => /\ IsFree(h, NextOf(h, a)) => NextOf(h, a) \in out
                  /\ IsFree(h, PrevOf(h, a)) => PrevOf(h, a) \in out
  PROVE  /\ Good(AddFreeChunk(h, a), out \ {a}, alone)
         /\ AddFreeChunk(h, a).chunk = h.chunk /\ AddFreeChunk(h, a).nregions = h.nregions
<1> DEFINE g == AddFreeChunk(h, a)
           rest == out \ {a}
<1>1. Relists(h, g) /\ Lists(g, rest)
  BY AddFacts DEF Good
<1> HIDE DEF g
<1>2. IsHeap(g) /\ Tiling(g) /\ g.chunk = h.chunk /\ g.nregions = h.nregions
  BY <1>1, SameTiling DEF Good, Relists
<1>3. IsHeap(h) /\ Tiling(h)
  BY DEF Good
<1>4. ASSUME alone, NEW c \in Listable(g, rest), IsFree(g, NextOf(g, c))
      PROVE  NextOf(g, c) \in rest
  <2>1. NextOf(g, c) = NextOf(h, c) /\ IsFree(h, NextOf(h, c)) /\ c \in DOMAIN h.chunk /\ IsFree(h, c)
    BY <1>2, <1>4 DEF NextOf, IsFree, Listable
  <2>2. c \notin Ends
    BY <1>3, <2>1, FreeInside
  <2>3. NextOf(h, c) > c /\ PrevOf(h, NextOf(h, c)) = c /\ c \in Nat
    BY <1>3, <2>1, <2>2, Neighbours DEF IsHeap
  <2>4. CASE c = a
    BY <1>4, <2>1, <2>3, <2>4
  <2>5. CASE c # a
    <3>1. c \notin out /\ c \in Listable(h, out)
      BY <2>1, <2>5 DEF Listable
    <3>2. NextOf(h, c) \in out
      BY <1>4, <2>1, <3>1 DEF Good, Apart
    <3>3. NextOf(h, c) # a
      BY <1>4, <2>1, <2>3, <3>1
    <3> QED BY <2>1, <3>2, <3>3
  <2> QED BY <2>4, <2>5
<1>5. ASSUME alone PROVE Apart(g, rest)
  BY <1>4, <1>5 DEF Apart
<1> QED BY <1>1, <1>2, <1>5 DEF Good, g

\* Marking a chunk that is in no list.
LEMMA GoodMark ==
  ASSUME NEW h, NEW g, NEW X, NEW Y, NEW alone, Good(h, X, alone),
         NEW a \in DOMAIN h.chunk, a \notin Guards, NEW alloc \in BOOLEAN, Marks(h, g, a, alloc),
         a \notin Listable(h, X), \A c : c # a => (c \in Y <=> c \in X), alloc \/ a \in Y
  PROVE  Good(g, Y, alone) /\ Keeps(h, g, {a})
<1>1. IsHeap(h) /\ Tiling(h) /\ Lists(h, X) /\ (alone => Apart(h, X))
  BY DEF Good
<1>2. IsHeap(g) /\ Tiling(g) /\ \A c \in DOMAIN h.chunk : NextOf(g, c) = NextOf(h, c)
  BY <1>1, MarkTiling DEF Marks
<1>3. /\ DOMAIN g.chunk = DOMAIN h.chunk /\ g.chunk[a].alloc = alloc /\ g.bins = h.bins
      /\ \A c \in DOMAIN g.chunk : c # a => g.chunk[c] = h.chunk[c]
  BY DEF Marks
<1>4. Listable(g, Y) = Listable(h, X)
  BY <1>3 DEF Listable, IsFree
<1>5. \A c \in Listable(h, X) : Size(g, c) = Size(h, c)
  BY <1>3 DEF Listable, Size
<1>6. Lists(g, Y)
  BY <1>1, <1>3, <1>4, <1>5, SameLists
<1>7. ASSUME Apart(h, X) PROVE Apart(g, Y)
  <2> SUFFICES ASSUME NEW c \in Listable(g, Y), IsFree(g, NextOf(g, c)) PROVE NextOf(g, c) \in Y
    BY DEF Apart
  <2>1. c \in Listable(h, X) /\ c \in DOMAIN h.chunk /\ IsFree(h, c)
    BY <1>4 DEF Listable
  <2>2. NextOf(g, c) = NextOf(h, c) /\ NextOf(h, c) \in DOMAIN h.chunk
    BY <1>1, <1>2, <2>1, FreeInside, Neighbours
  <2>3. CASE NextOf(h, c) = a
    BY <1>3, <2>2, <2>3 DEF IsFree
  <2>4. CASE NextOf(h, c) # a
    BY <1>3, <1>7, <2>1, <2>2, <2>4 DEF IsFree, Apart
  <2> QED BY <2>3, <2>4
<1>8. Keeps(h, g, {a})
  BY <1>3 DEF Keeps, Owners, Size, Marks
<1> QED BY <1>1, <1>2, <1>6, <1>7, <1>8 DEF Good

\* A chunk that is given back is owed to a list.
LEMMA GoodFreed ==
  ASSUME NEW h, NEW out, NEW alone, Good(h, out, alone),
         NEW a \in DOMAIN h.chunk, a \notin Guards, h.chunk[a].alloc
  PROVE  /\ Good(Freed(h, a), out \cup {a}, alone) /\ Keeps(h, Freed(h, a), {a})
         /\ Marks(h, Freed(h, a), a, FALSE)
<1> DEFINE g == Freed(h, a)
           Y == out \cup {a}
<1>1. Marks(h, g, a, FALSE)
  BY MarkFacts DEF Good
<1>2. a \notin Listable(h, out) /\ a \in Y /\ \A c : c # a => (c \in Y <=> c \in out)
  BY DEF Listable, IsFree
<1> HIDE DEF g, Y
<1>3. Good(g, Y, alone) /\ Keeps(h, g, {a})
  BY <1>1, <1>2, GoodMark
<1> QED BY <1>1, <1>3 DEF g, Y

\* A chunk that is owed becomes a user's.
LEMMA GoodAllocated ==
  ASSUME NEW h, NEW out, NEW alone, Good(h, out, alone),
         NEW a \in DOMAIN h.chunk, a \notin Guards, a \in out
  PROVE  /\ Good(Allocated(h, a), out \ {a}, alone) /\ Keeps(h, Allocated(h, a), {a})
         /\ Marks(h, Allocated(h, a), a, TRUE)
<1> DEFINE g == Allocated(h, a)
           Y == out \ {a}
<1>1. Marks(h, g, a, TRUE)
  BY MarkFacts DEF Good
<1>2. a \notin Listable(h, out) /\ \A c : c # a => (c \in Y <=> c \in out)
  BY DEF Listable
<1> HIDE DEF g, Y
<1>3. Good(g, Y, alone) /\ Keeps(h, g, {a})
  BY <1>1, <1>2, GoodMark
<1> QED BY <1>1, <1>3 DEF g, Y

\* Neither of the two chunks is in a list.
LEMMA GoodAbsorb ==
  ASSUME NEW h, NEW out, NEW alone, Good(h, out, alone),
         NEW a \in DOMAIN h.chunk, a \notin Guards, NextOf(h, a) \notin Guards,
         h.chunk[a].alloc \/ a \in out,
         h.chunk[NextOf(h, a)].alloc \/ NextOf(h, a) \in out
  PROVE  /\ Good(Absorb(h, a), out \ {NextOf(h, a)}, alone)
         /\ Keeps(h, Absorb(h, a), {a, NextOf(h, a)})
         /\ Merges(h, Absorb(h, a), a)
         /\ NextOf(Absorb(h, a), a) = NextOf(h, NextOf(h, a))
         /\ NextOf(h, NextOf(h, a)) \in DOMAIN h.chunk
<1> DEFINE g == Absorb(h, a)
           next == NextOf(h, a)
           Y == out \ {next}
<1>1. IsHeap(h) /\ Tiling(h) /\ Lists(h, out) /\ (alone => Apart(h, out))
  BY DEF Good
<1>2. /\ next \in DOMAIN h.chunk /\ next = a + h.chunk[a].size /\ next > a /\ a \in Nat
      /\ h.chunk[a].size \in Nat
  BY <1>1, GuardSets, Neighbours DEF IsHeap
<1>3. /\ NextOf(h, next) \in DOMAIN h.chunk /\ NextOf(h, next) = next + h.chunk[next].size
      /\ NextOf(h, next) > next /\ h.chunk[next].size \in Nat
  BY <1>1, <1>2, GuardSets, Neighbours DEF IsHeap
<1>4. h.chunk[a].size > 0 /\ h.chunk[next].size > 0
  BY <1>2, <1>3 DEF IsHeap
<1>5. Merges(h, g, a)
  BY <1>1, <1>2, <1>4, AbsorbFacts
<1> HIDE DEF g
<1>6. IsHeap(g) /\ Tiling(g) /\ NextOf(g, a) = NextOf(h, next)
  BY <1>1, <1>5, MergeTiling DEF Merges
<1>7. /\ DOMAIN g.chunk = DOMAIN h.chunk \ {next} /\ g.bins = h.bins
      /\ g.chunk[a].alloc = h.chunk[a].alloc
      /\ \A c \in DOMAIN g.chunk :
            c # a => g.chunk[c].size = h.chunk[c].size /\ g.chunk[c].alloc = h.chunk[c].alloc
  BY <1>2, <1>3, <1>5 DEF Merges, SameBut
<1> HIDE DEF next
<1>8. Listable(g, Y) = Listable(h, out)
  BY <1>7 DEF Listable, IsFree, next
<1>9. a \notin Listable(h, out)
  BY DEF Listable, IsFree
<1>10. \A c \in Listable(h, out) : c \in DOMAIN g.chunk /\ Size(g, c) = Size(h, c) /\ NextOf(g, c) = NextOf(h, c)
  BY <1>7, <1>8, <1>9 DEF Listable, Size, NextOf
<1>11. Lists(g, Y)
  BY <1>1, <1>7, <1>8, <1>10, SameLists
<1>12. ASSUME Apart(h, out) PROVE Apart(g, Y)
  <2> SUFFICES ASSUME NEW c \in Listable(g, Y), IsFree(g, NextOf(g, c)) PROVE NextOf(g, c) \in Y
    BY DEF Apart
  <2>1. c \in Listable(h, out) /\ c \in DOMAIN g.chunk /\ IsFree(g, c) /\ NextOf(g, c) = NextOf(h, c)
    BY <1>8, <1>10 DEF Listable
  <2>2. NextOf(g, c) \in DOMAIN g.chunk
    BY <1>6, <2>1, FreeInside, Neighbours
  <2>3. IsFree(h, NextOf(h, c)) /\ NextOf(h, c) # next
    BY <1>7, <2>1, <2>2 DEF IsFree
  <2> QED BY <1>12, <2>1, <2>3 DEF Apart
<1>13. Keeps(h, g, {a, next})
  <2>1. g.nregions = h.nregions
    BY <1>5 DEF Merges
  <2> QED BY <1>7, <2>1 DEF Keeps, Owners, Size
<1>14. Good(g, Y, alone)
  BY <1>1, <1>6, <1>11, <1>12 DEF Good
<1> QED BY <1>3, <1>5, <1>6, <1>13, <1>14 DEF g, next, Y

\* A chunk that is a user's or owed is cut; its second part is owed.
LEMMA GoodCut ==
  ASSUME NEW h, NEW out, NEW alone, Good(h, out, alone),
         NEW a \in DOMAIN h.chunk, a \notin Guards, h.chunk[a].alloc \/ a \in out,
         NEW size \in Nat, size >= SIZEOF_MM_FREENODE,
         h.chunk[a].size - size >= SIZEOF_MM_FREENODE
  PROVE  /\ Good(Cut(h, a, size), out \cup {a + size}, alone)
         /\ Keeps(h, Cut(h, a, size), {a})
         /\ Splits(h, Cut(h, a, size), a, size)
         /\ a + size \notin DOMAIN h.chunk /\ a + size \notin Guards
         /\ NextOf(Cut(h, a, size), a) = a + size
         /\ NextOf(Cut(h, a, size), a + size) = NextOf(h, a)
<1> DEFINE g == Cut(h, a, size)
           mid == a + size
           Y == out \cup {mid}
<1>1. IsHeap(h) /\ Tiling(h) /\ Lists(h, out) /\ (alone => Apart(h, out))
  BY DEF Good
<1>2. /\ NextOf(h, a) \in DOMAIN h.chunk /\ NextOf(h, a) = a + h.chunk[a].size /\ a \in Nat
      /\ h.chunk[a].size \in Nat /\ size > 0 /\ h.chunk[a].size > size
  <2>1. a \in Nat /\ h.chunk[a].size \in Nat
    BY <1>1 DEF IsHeap
  <2>2. size > 0 /\ h.chunk[a].size > size
    BY <2>1 DEF SIZEOF_MM_FREENODE
  <2>3. a \notin Ends
    BY GuardSets
  <2>4. NextOf(h, a) \in DOMAIN h.chunk /\ NextOf(h, a) = a + h.chunk[a].size
    BY <1>1, <2>3, Neighbours
  <2> QED BY <2>1, <2>2, <2>4
<1>3. a < mid /\ mid < NextOf(h, a) /\ mid \in Nat
  BY <1>2
<1>4. mid \notin DOMAIN h.chunk
  <2>1. \A b \in DOMAIN h.chunk : b <= a \/ b >= NextOf(h, a)
    BY <1>1, GuardSets DEF Tiling, Forward
  <2>2. ASSUME mid \in DOMAIN h.chunk PROVE FALSE
    BY <1>2, <1>3, <2>1, <2>2
  <2> QED BY <2>2
<1>5. Splits(h, g, a, size)
  <2>1. a + h.chunk[a].size \in DOMAIN h.chunk /\ a + size \notin DOMAIN h.chunk
    BY <1>2, <1>4
  <2>2. IsHeap(h) /\ size > 0 /\ h.chunk[a].size > size
    BY <1>1, <1>2
  <2> QED BY <2>1, <2>2, CutFacts
<1> HIDE DEF g
<1>6. IsHeap(g) /\ Tiling(g) /\ mid \notin Guards /\ NextOf(g, a) = mid /\ NextOf(g, mid) = NextOf(h, a)
  <2>1. IsHeap(g)
    BY <1>5 DEF Splits
  <2>2. /\ Tiling(g) /\ a + size \notin Guards
        /\ NextOf(g, a) = a + size /\ NextOf(g, a + size) = NextOf(h, a)
    BY <1>1, <1>5, SplitTiling
  <2> QED BY <2>1, <2>2
<1>7. /\ DOMAIN g.chunk = DOMAIN h.chunk \cup {mid} /\ g.bins = h.bins
      /\ g.chunk[a].alloc = h.chunk[a].alloc /\ ~g.chunk[mid].alloc
      /\ \A c \in DOMAIN h.chunk :
            c # a => g.chunk[c].size = h.chunk[c].size /\ g.chunk[c].alloc = h.chunk[c].alloc
  <2>1. ASSUME NEW c \in DOMAIN h.chunk, c # a
        PROVE  g.chunk[c].size = h.chunk[c].size /\ g.chunk[c].alloc = h.chunk[c].alloc
    <3>1. CASE c = NextOf(h, a)
      BY <1>2, <1>5, <3>1 DEF Splits
    <3>2. CASE c # NextOf(h, a)
      BY <1>2, <1>4, <1>5, <2>1, <3>2 DEF Splits
    <3> QED BY <3>1, <3>2
  <2> QED BY <1>5, <2>1 DEF Splits
<1> HIDE DEF mid
<1>8. Listable(g, Y) = Listable(h, out)
  BY <1>4, <1>7 DEF Listable, IsFree
<1>9. a \notin Listable(h, out)
  BY DEF Listable, IsFree
<1>10. \A c \in Listable(h, out) : c \in DOMAIN h.chunk /\ Size(g, c) = Size(h, c) /\ NextOf(g, c) = NextOf(h, c)
  BY <1>7, <1>9 DEF Listable, Size, NextOf
<1>11. Lists(g, Y)
  BY <1>1, <1>7, <1>8, <1>10, SameLists
<1>12. ASSUME Apart(h, out) PROVE Apart(g, Y)
  <2> SUFFICES ASSUME NEW c \in Listable(g, Y), IsFree(g, NextOf(g, c)) PROVE NextOf(g, c) \in Y
    BY DEF Apart
  <2>1. c \in Listable(h, out) /\ c \in DOMAIN h.chunk /\ IsFree(h, c) /\ NextOf(g, c) = NextOf(h, c)
    BY <1>8, <1>10 DEF Listable
  <2>2. NextOf(h, c) \in DOMAIN h.chunk
    BY <1>1, <2>1, FreeInside, Neighbours
  <2>3. IsFree(h, NextOf(h, c))
    BY <1>7, <2>1, <2>2 DEF IsFree
  <2> QED BY <1>12, <2>1, <2>3 DEF Apart
<1>13. Keeps(h, g, {a})
  <2>1. g.nregions = h.nregions
    BY <1>5 DEF Splits
  <2> QED BY <1>4, <1>7, <2>1 DEF Keeps, Owners, Size
<1>14. Good(g, Y, alone)
  BY <1>1, <1>6, <1>11, <1>12 DEF Good
<1> QED BY <1>4, <1>5, <1>6, <1>13, <1>14 DEF g, mid, Y

\* A user's chunk is cut.
LEMMA GoodCutOff ==
  ASSUME NEW h, NEW alone, Good(h, {}, alone), NEW a \in Owners(h),
         NEW size \in Nat, size >= SIZEOF_MM_FREENODE, Size(h, a) - size >= SIZEOF_MM_FREENODE,
         alone => ~IsFree(h, NextOf(h, a))
  PROVE  /\ Good(CutOff(h, a, size), {}, alone)
         /\ Keeps(h, CutOff(h, a, size), {a})
         /\ a \in Owners(CutOff(h, a, size)) /\ Size(CutOff(h, a, size), a) = size
<1> DEFINE c == Cut(h, a, size)
           mid == a + size
           out == {} \cup {mid}
           g == CutOff(h, a, size)
<1>1. a \in DOMAIN h.chunk /\ a \notin Guards /\ h.chunk[a].alloc
  BY DEF Owners
<1>2. IsHeap(h) /\ Tiling(h)
  BY DEF Good
<1>3. /\ Good(c, out, alone) /\ Keeps(h, c, {a}) /\ Splits(h, c, a, size)
      /\ mid \notin DOMAIN h.chunk /\ NextOf(c, mid) = NextOf(h, a)
  BY <1>1, GoodCut DEF Size
<1>4. NextOf(h, a) \in DOMAIN h.chunk /\ NextOf(h, a) # a /\ NextOf(h, a) = a + h.chunk[a].size /\ a \in Nat
  BY <1>1, <1>2, GuardSets, Neighbours DEF IsHeap
<1>5. g = AddFreeChunk(c, mid)
  BY DEF CutOff
<1> HIDE DEF c, g
<1>6. /\ mid \in DOMAIN c.chunk /\ IsFree(c, mid) /\ c.chunk[mid].preceding = size
      /\ a \in DOMAIN c.chunk /\ c.chunk[a].size = size /\ c.chunk[a].alloc
      /\ c.chunk[NextOf(h, a)].alloc = h.chunk[NextOf(h, a)].alloc
  BY <1>1, <1>3, <1>4 DEF Splits, IsFree
<1>7. PrevOf(c, mid) = a
  BY <1>4, <1>6 DEF PrevOf
<1>8. alone => ~IsFree(c, NextOf(c, mid)) /\ ~IsFree(c, PrevOf(c, mid))
  BY <1>3, <1>6, <1>7 DEF IsFree
<1>9. Good(g, out \ {mid}, alone) /\ g.chunk = c.chunk /\ g.nregions = c.nregions
  BY <1>3, <1>5, <1>6, <1>8, GoodAdd
<1>10. out \ {mid} = {}
  OBVIOUS
<1>11. Good(g, {}, alone)
  BY <1>9, <1>10
<1>12. Keeps(h, g, {a})
  BY <1>3, <1>9 DEF Keeps, Owners, Size
<1>13. a \in Owners(g) /\ Size(g, a) = size
  BY <1>1, <1>6, <1>9 DEF Owners, Size
<1> QED BY <1>11, <1>12, <1>13 DEF g

\* A chunk that is in no list takes over the free one behind it.
LEMMA GoodAbsorbFree ==
  ASSUME NEW h, NEW out, NEW alone, Good(h, out, alone),
         NEW a \in DOMAIN h.chunk, a \notin Guards, h.chunk[a].alloc \/ a \in out,
         IsFree(h, NextOf(h, a)), NextOf(h, a) \notin out
  PROVE  LET g == AbsorbFree(h, a)
         IN  /\ Good(g, out, alone) /\ Keeps(h, g, {a})
             /\ a \in DOMAIN g.chunk /\ g.chunk[a].alloc = h.chunk[a].alloc
             /\ g.chunk[a].preceding = h.chunk[a].preceding
             /\ Size(g, a) = Size(h, a) + Size(h, NextOf(h, a))
             /\ \A c \in DOMAIN h.chunk : c < a => c \in DOMAIN g.chunk /\ g.chunk[c] = h.chunk[c]
             /\ alone /\ IsFree(g, NextOf(g, a)) => NextOf(g, a) \in out
<1> DEFINE next == NextOf(h, a)
           u == Unlink(h, next)
           X == out \cup {next}
           g == AbsorbFree(h, a)
<1>1. IsHeap(h) /\ Tiling(h)
  BY DEF Good
<1>2. next \in DOMAIN h.chunk /\ next # a /\ next > a /\ a \in Nat /\ next \in Nat /\ next = a + h.chunk[a].size
  BY <1>1, GuardSets, Neighbours DEF IsHeap
<1>3. next \in Listable(h, out) /\ next \notin Guards
  BY <1>1, <1>2, FreeInside DEF Listable
<1>4. Good(u, X, alone) /\ u.chunk = h.chunk /\ u.nregions = h.nregions
  BY <1>3, GoodUnlink
<1>5. g = Absorb(u, a)
  BY DEF AbsorbFree
<1> HIDE DEF u, g
<1>6. NextOf(u, a) = next /\ NextOf(u, next) = NextOf(h, next)
  BY <1>4 DEF NextOf
<1>7. /\ Good(g, X \ {NextOf(u, a)}, alone) /\ Keeps(u, g, {a, NextOf(u, a)}) /\ Merges(u, g, a)
      /\ NextOf(g, a) = NextOf(u, NextOf(u, a)) /\ NextOf(u, NextOf(u, a)) \in DOMAIN u.chunk
  <2>1. /\ a \in DOMAIN u.chunk /\ NextOf(u, a) \notin Guards /\ (u.chunk[a].alloc \/ a \in X)
        /\ NextOf(u, a) \in X
    BY <1>3, <1>4, <1>6
  <2> HIDE DEF X
  <2> QED BY <1>4, <1>5, <2>1, GoodAbsorb
<1>8. X \ {NextOf(u, a)} = out
  BY <1>6
<1>9. /\ NextOf(h, next) \in DOMAIN h.chunk /\ NextOf(h, next) = next + h.chunk[next].size
      /\ NextOf(h, next) > next /\ h.chunk[next].size \in Nat /\ h.chunk[a].size \in Nat
  BY <1>1, <1>2, <1>3, GuardSets, Neighbours DEF IsHeap
<1> HIDE DEF next
<1>10. /\ DOMAIN g.chunk = DOMAIN h.chunk \ {next} /\ g.chunk[a].alloc = h.chunk[a].alloc
       /\ g.chunk[a].preceding = h.chunk[a].preceding
       /\ g.chunk[a].size = h.chunk[a].size + h.chunk[next].size
  BY <1>2, <1>4, <1>7 DEF Merges
<1>11. ASSUME NEW c \in DOMAIN h.chunk, c < a PROVE c \in DOMAIN g.chunk /\ g.chunk[c] = h.chunk[c]
  <2>1. c \in Nat /\ c # a /\ c # next /\ c # a + (h.chunk[a].size + h.chunk[next].size)
    <3>1. c \in Nat /\ a \in Nat
      BY <1>1, <1>2 DEF IsHeap
    <3> QED BY <1>2, <1>9, <1>11, <3>1
  <2>2. SameBut(h, g, a, a + (h.chunk[a].size + h.chunk[next].size))
    BY <1>2, <1>4, <1>7 DEF Merges, SameBut
  <2>3. c \in DOMAIN g.chunk
    BY <1>10, <2>1
  <2> QED BY <2>1, <2>2, <2>3 DEF SameBut
<1>12. g.chunk[NextOf(h, next)].alloc = h.chunk[NextOf(h, next)].alloc
  <2>1. NextOf(h, next) = a + (h.chunk[a].size + h.chunk[next].size)
    BY <1>2, <1>9
  <2> QED BY <1>2, <1>4, <1>7, <1>9, <2>1 DEF Merges
<1>13. Keeps(h, g, {a})
  <2>1. next \notin Owners(h) /\ next \notin Owners(g)
    BY <1>3, <1>10 DEF Owners, Listable, IsFree
  <2>2. Keeps(h, g, {a, next})
    BY <1>4, <1>6, <1>7 DEF Keeps, Owners, Size
  <2> QED BY <2>1, <2>2 DEF Keeps
<1>14. ASSUME alone, IsFree(g, NextOf(g, a)) PROVE NextOf(g, a) \in out
  <2>1. NextOf(g, a) = NextOf(h, next) /\ IsFree(h, NextOf(h, next))
    BY <1>6, <1>7, <1>12, <1>14 DEF IsFree
  <2> QED BY <1>3, <1>14, <2>1 DEF Good, Apart
<1>15. Size(g, a) = Size(h, a) + Size(h, next) /\ a \in DOMAIN g.chunk
  BY <1>2, <1>10 DEF Size
<1>16. Good(g, out, alone)
  BY <1>7, <1>8
<1> QED BY <1>10, <1>11, <1>13, <1>14, <1>15, <1>16 DEF g, next

\* Where mm_malloc() looks, it finds a chunk of a list, large enough.
LEMMA FirstFitFacts ==
  ASSUME NEW h, NEW alone, Good(h, {}, alone), NEW size \in Nat, Fitting(h, size) # {}
  PROVE  /\ FirstFit(h, Fitting(h, size)) \in Listable(h, {})
         /\ Size(h, FirstFit(h, Fitting(h, size))) >= size
<1> DEFINE fit == Fitting(h, size)
           First(p) == \A q \in fit : p[1] < q[1] \/ (p[1] = q[1] /\ p[2] <= q[2])
<1>1. MM_NNODES \in Nat
  BY BinAssumption
<1>2. Size2Ndx(size) \in Nat
  BY <1>1, Size2NdxFacts DEF Bin
<1>3. \A n \in Bin : DOMAIN h.bins[n] \subseteq Nat
  <2> SUFFICES ASSUME NEW n \in Bin PROVE DOMAIN h.bins[n] \subseteq Nat
    OBVIOUS
  <2>1. h.bins[n] \in Seq(Nat)
    BY DEF Good, IsHeap
  <2>2. DOMAIN h.bins[n] = 1 .. Len(h.bins[n]) /\ Len(h.bins[n]) \in Nat
    BY <2>1, LenProperties
  <2> QED BY <2>2
<1>4. ASSUME NEW p \in fit
      PROVE  /\ p[1] \in Bin /\ p[2] \in DOMAIN h.bins[p[1]] /\ Size(h, h.bins[p[1]][p[2]]) >= size
             /\ p = <<p[1], p[2]>>
  <2>1. p \in Places(h, Size2Ndx(size)) /\ Size(h, h.bins[p[1]][p[2]]) >= size
    BY DEF Fitting
  <2>2. PICK n \in Size2Ndx(size) .. MM_NNODES - 1 : p \in {n} \X DOMAIN h.bins[n]
    BY <2>1 DEF Places
  <2>3. n \in Bin
    BY <1>1, <1>2 DEF Bin
  <2> QED BY <2>1, <2>2, <2>3
<1>5. \E p \in fit : First(p)
  <2> DEFINE N == {p[1] : p \in fit}
  <2>1. N \in SUBSET Nat /\ N # {}
    BY <1>1, <1>4 DEF Bin
  <2>2. PICK n \in N : \A m \in N : n <= m
    <3> HIDE DEF N
    <3> QED BY <2>1, Smallest
  <2>3. n \in Nat
    BY <2>1
  <2> DEFINE K == {p[2] : p \in {q \in fit : q[1] = n}}
  <2>4. K \in SUBSET Nat /\ K # {}
    BY <1>3, <1>4
  <2>5. PICK k \in K : \A j \in K : k <= j
    <3> HIDE DEF K
    <3> QED BY <2>4, Smallest
  <2>6. PICK p \in fit : p[1] = n /\ p[2] = k
    OBVIOUS
  <2>7. ASSUME NEW q \in fit PROVE p[1] < q[1] \/ (p[1] = q[1] /\ p[2] <= q[2])
    <3>1. n <= q[1] /\ q[1] \in Nat
      BY <1>1, <1>4, <2>2 DEF Bin
    <3>2. CASE q[1] = n
      BY <2>5, <2>6, <3>2
    <3>3. CASE q[1] # n
      BY <2>3, <2>6, <3>1, <3>3
    <3> QED BY <3>2, <3>3
  <2> QED BY <2>7
<1> DEFINE p == CHOOSE p \in fit : First(p)
<1>6. p \in fit
  BY <1>5
<1>7. FirstFit(h, fit) = h.bins[p[1]][p[2]]
  BY DEF FirstFit
<1> HIDE DEF p
<1>8. h.bins[p[1]][p[2]] \in Listable(h, {}) /\ Size(h, h.bins[p[1]][p[2]]) >= size
  BY <1>4, <1>6 DEF Good, Lists
<1> QED BY <1>7, <1>8

\* What mm_malloc() does with the chunk it has found.
LEMMA GoodTake ==
  ASSUME NEW h, NEW alone, Good(h, {}, alone), NEW a \in Listable(h, {}),
         NEW size \in Nat, size >= SIZEOF_MM_FREENODE, Size(h, a) >= size
  PROVE  /\ Good(Take(h, a, size), {}, alone)
         /\ Keeps(h, Take(h, a, size), {a})
         /\ a \notin Owners(h) /\ a \in Owners(Take(h, a, size)) /\ Size(Take(h, a, size), a) >= size
<1> DEFINE l == Unlink(h, a)
           u == Allocated(l, a)
           out == {} \cup {a}
           g == Take(h, a, size)
<1>1. IsHeap(h) /\ Tiling(h) /\ a \in DOMAIN h.chunk /\ IsFree(h, a)
  BY DEF Good, Listable
<1>2. a \notin Guards /\ a \notin Ends
  BY <1>1, FreeInside
<1>3. Good(l, out, alone) /\ l.chunk = h.chunk /\ l.nregions = h.nregions
  BY GoodUnlink
<1>4. g = IF Size(h, a) - size >= SIZEOF_MM_FREENODE THEN CutOff(u, a, size) ELSE u
  BY DEF Take
<1> HIDE DEF l, g
<1>5. Good(u, out \ {a}, alone) /\ Keeps(l, u, {a}) /\ Marks(l, u, a, TRUE)
  BY <1>1, <1>2, <1>3, GoodAllocated
<1>6. out \ {a} = {}
  OBVIOUS
<1>7. Good(u, {}, alone)
  BY <1>5, <1>6
<1> HIDE DEF u
<1>8. a \in Owners(u) /\ Size(u, a) = Size(h, a) /\ NextOf(u, a) = NextOf(h, a)
  BY <1>1, <1>2, <1>3, <1>5 DEF Owners, Marks, Size, NextOf
<1>9. Keeps(h, u, {a}) /\ a \notin Owners(h)
  BY <1>1, <1>3, <1>5 DEF Keeps, Owners, Size, IsFree
<1>10. NextOf(h, a) \in DOMAIN h.chunk /\ NextOf(h, a) # a
  <2>1. NextOf(h, a) \in DOMAIN h.chunk /\ NextOf(h, a) > a
    BY <1>1, <1>2, Neighbours
  <2> QED BY <1>1, <2>1 DEF IsHeap
<1>11. alone => ~IsFree(u, NextOf(u, a))
  <2>1. alone => ~IsFree(h, NextOf(h, a))
    BY DEF Good, Apart
  <2> QED BY <1>3, <1>5, <1>8, <1>10, <2>1 DEF IsFree, Marks
<1>12. CASE Size(h, a) - size >= SIZEOF_MM_FREENODE
  <2>1. /\ Good(CutOff(u, a, size), {}, alone) /\ Keeps(u, CutOff(u, a, size), {a})
        /\ a \in Owners(CutOff(u, a, size)) /\ Size(CutOff(u, a, size), a) = size
    BY <1>7, <1>8, <1>11, <1>12, GoodCutOff
  <2>2. g = CutOff(u, a, size)
    BY <1>4, <1>12
  <2>3. Keeps(h, g, {a})
    BY <1>9, <2>1, <2>2 DEF Keeps
  <2> QED BY <1>9, <2>1, <2>2, <2>3 DEF g
<1>13. CASE ~(Size(h, a) - size >= SIZEOF_MM_FREENODE)
  BY <1>4, <1>7, <1>8, <1>9, <1>13 DEF g
<1> QED BY <1>12, <1>13

\* A user's chunk takes over the free one behind it.
LEMMA GoodExtended ==
  ASSUME NEW h, NEW alone, Good(h, {}, alone), NEW a \in Owners(h), IsFree(h, NextOf(h, a))
  PROVE  LET e == AbsorbFree(h, a)
         IN  /\ Good(e, {}, alone) /\ Keeps(h, e, {a}) /\ a \in Owners(e)
             /\ Size(e, a) = Size(h, a) + Size(h, NextOf(h, a))
             /\ Size(h, NextOf(h, a)) \in Nat /\ Size(h, NextOf(h, a)) >= SIZEOF_MM_FREENODE
             /\ Size(h, a) \in Nat /\ Size(h, a) >= SIZEOF_MM_FREENODE
             /\ alone => ~IsFree(e, NextOf(e, a))
<1> DEFINE e == AbsorbFree(h, a)
           next == NextOf(h, a)
           out == {}
<1>1. IsHeap(h) /\ Tiling(h) /\ a \in DOMAIN h.chunk /\ a \notin Guards /\ h.chunk[a].alloc
  BY DEF Good, Owners
<1>2. next \in DOMAIN h.chunk
  BY <1>1, GuardSets, Neighbours
<1>3. Good(h, out, alone) /\ next \notin out
  OBVIOUS
<1> HIDE DEF out
<1>4. /\ Good(e, out, alone) /\ Keeps(h, e, {a})
      /\ a \in DOMAIN e.chunk /\ e.chunk[a].alloc = h.chunk[a].alloc
      /\ Size(e, a) = Size(h, a) + Size(h, next)
      /\ alone /\ IsFree(e, NextOf(e, a)) => NextOf(e, a) \in out
  BY <1>1, <1>3, GoodAbsorbFree
<1> HIDE DEF e
<1>5. Size(h, next) \in Nat /\ Size(h, next) >= SIZEOF_MM_FREENODE
  <2>1. next \notin Guards
    BY <1>1, <1>2, FreeInside
  <2> QED BY <1>1, <1>2, <2>1 DEF IsHeap, Tiling, Large, Size
<1>6. Size(h, a) \in Nat /\ Size(h, a) >= SIZEOF_MM_FREENODE
  BY <1>1 DEF IsHeap, Tiling, Large, Size
<1>7. a \in Owners(e)
  BY <1>1, <1>4 DEF Owners
<1>8. Good(e, {}, alone) /\ (alone => ~IsFree(e, NextOf(e, a)))
  BY <1>4 DEF out
<1> QED BY <1>4, <1>5, <1>6, <1>7, <1>8 DEF e

\* mm_shrinkchunk() leaves the user what was asked for.
LEMMA GoodShrink ==
  ASSUME NEW h, NEW alone, Good(h, {}, alone), NEW a \in Owners(h),
         NEW size \in Nat, size >= SIZEOF_MM_FREENODE, Size(h, a) > size
  PROVE  LET g == ShrinkChunk(h, a, size)
         IN  /\ Good(g, {}, alone) /\ Keeps(h, g, {a})
             /\ a \in Owners(g) /\ size <= Size(g, a) /\ Size(g, a) <= Size(h, a)
<1> DEFINE g == ShrinkChunk(h, a, size)
           e == AbsorbFree(h, a)
           next == NextOf(h, a)
<1>1. IsHeap(h) /\ Tiling(h) /\ a \in DOMAIN h.chunk /\ a \notin Guards /\ h.chunk[a].alloc
  BY DEF Good, Owners
<1>2. next \in DOMAIN h.chunk /\ \A c \in DOMAIN h.chunk : Size(h, c) \in Nat
  BY <1>1, GuardSets, Neighbours DEF IsHeap, Size
<1>3. CASE IsFree(h, next)
  <2>1. /\ Good(e, {}, alone) /\ Keeps(h, e, {a}) /\ a \in Owners(e)
        /\ Size(e, a) = Size(h, a) + Size(h, next)
        /\ Size(h, next) \in Nat /\ Size(h, next) >= SIZEOF_MM_FREENODE /\ Size(h, a) \in Nat
        /\ alone => ~IsFree(e, NextOf(e, a))
    BY <1>3, GoodExtended
  <2>2. g = CutOff(e, a, size)
    BY <1>3 DEF ShrinkChunk
  <2> HIDE DEF e, g
  <2>3. Size(e, a) - size >= SIZEOF_MM_FREENODE
    <3> HIDE DEF next
    <3> QED BY <2>1 DEF SIZEOF_MM_FREENODE
  <2>4. Good(g, {}, alone) /\ Keeps(e, g, {a}) /\ a \in Owners(g) /\ Size(g, a) = size
    BY <2>1, <2>2, <2>3, GoodCutOff
  <2>5. Keeps(h, g, {a})
    BY <2>1, <2>4 DEF Keeps
  <2>6. size <= Size(g, a) /\ Size(g, a) <= Size(h, a)
    BY <2>1, <2>4
  <2> QED BY <2>4, <2>5, <2>6 DEF g
<1>4. CASE ~IsFree(h, next) /\ Size(h, a) >= size + SIZEOF_MM_FREENODE
  <2>1. g = CutOff(h, a, size)
    BY <1>4 DEF ShrinkChunk
  <2>2. Size(h, a) - size >= SIZEOF_MM_FREENODE
    BY <1>1, <1>2, <1>4 DEF SIZEOF_MM_FREENODE
  <2> HIDE DEF g
  <2>3. Good(g, {}, alone) /\ Keeps(h, g, {a}) /\ a \in Owners(g) /\ Size(g, a) = size
    BY <1>4, <2>1, <2>2, GoodCutOff
  <2> QED BY <1>1, <1>2, <2>3 DEF g
<1>5. CASE ~IsFree(h, next) /\ ~(Size(h, a) >= size + SIZEOF_MM_FREENODE)
  <2>1. g = h
    BY <1>5 DEF ShrinkChunk
  <2>2. Keeps(h, h, {a})
    BY DEF Keeps
  <2> HIDE DEF g
  <2> QED BY <1>1, <1>2, <2>1, <2>2 DEF g
<1> QED BY <1>3, <1>4, <1>5

\* mm_realloc() into the free chunk behind.
LEMMA GoodGrowUp ==
  ASSUME NEW h, NEW alone, Good(h, {}, alone), NEW a \in Owners(h), IsFree(h, NextOf(h, a)),
         NEW take \in Nat, \/ take = Size(h, NextOf(h, a))
                           \/ Size(h, NextOf(h, a)) - take >= SIZEOF_MM_FREENODE
  PROVE  LET g == GrowUp(h, a, take)
         IN  Good(g, {}, alone) /\ Keeps(h, g, {a}) /\ a \in Owners(g) /\ Size(g, a) = Size(h, a) + take
<1> DEFINE g == GrowUp(h, a, take)
           e == AbsorbFree(h, a)
           next == NextOf(h, a)
<1>1. /\ Good(e, {}, alone) /\ Keeps(h, e, {a}) /\ a \in Owners(e)
      /\ Size(e, a) = Size(h, a) + Size(h, next)
      /\ Size(h, next) \in Nat
      /\ Size(h, a) \in Nat /\ Size(h, a) >= SIZEOF_MM_FREENODE
      /\ alone => ~IsFree(e, NextOf(e, a))
  BY GoodExtended
<1>2. take = Size(h, next) \/ Size(h, next) - take >= SIZEOF_MM_FREENODE
  OBVIOUS
<1>3. g = IF take = Size(h, next) THEN e ELSE CutOff(e, a, Size(h, a) + take)
  BY DEF GrowUp
<1> HIDE DEF e, g, next
<1>4. CASE take = Size(h, next)
  BY <1>1, <1>3, <1>4 DEF g
<1>5. CASE take # Size(h, next)
  <2> DEFINE size == Size(h, a) + take
  <2>1. size \in Nat /\ size >= SIZEOF_MM_FREENODE /\ Size(e, a) - size >= SIZEOF_MM_FREENODE
    BY <1>1, <1>2, <1>5 DEF SIZEOF_MM_FREENODE
  <2>2. g = CutOff(e, a, size)
    BY <1>3, <1>5
  <2> HIDE DEF size
  <2>3. Good(g, {}, alone) /\ Keeps(e, g, {a}) /\ a \in Owners(g) /\ Size(g, a) = size
    BY <1>1, <2>1, <2>2, GoodCutOff
  <2>4. Keeps(h, g, {a})
    BY <1>1, <2>3 DEF Keeps
  <2> QED BY <2>3, <2>4 DEF g, size
<1> QED BY <1>4, <1>5

\* The free chunk prev in front of a has taken it over.
MergesDown(h, m, a, prev, out, alone) ==
    LET b == NextOf(h, a)
    IN  /\ Good(m, (out \cup {prev}) \ {a}, alone) /\ Keeps(h, m, {a})
        /\ DOMAIN m.chunk = DOMAIN h.chunk \ {a}
        /\ prev \in DOMAIN h.chunk /\ prev \notin Guards /\ prev < a /\ prev \in Nat /\ a \in Nat
        /\ prev + Size(h, prev) = a /\ Size(h, prev) \in Nat
        /\ IsFree(m, prev) /\ Size(m, prev) = Size(h, prev) + Size(h, a)
        /\ NextOf(m, prev) = b /\ b \in DOMAIN h.chunk /\ b > a
        /\ m.chunk[b].alloc = h.chunk[b].alloc /\ m.chunk[b].size = h.chunk[b].size
        /\ PrevOf(m, prev) < prev
        /\ alone /\ IsFree(m, PrevOf(m, prev)) => PrevOf(m, prev) \in out

\* A chunk becomes part of the free one in front, which is out of its list.
LEMMA GoodMergeDown ==
  ASSUME NEW h, NEW out, NEW alone, Good(h, out, alone),
         NEW a \in DOMAIN h.chunk, a \notin Guards, h.chunk[a].alloc \/ a \in out,
         NEW prev, prev = PrevOf(h, a), IsFree(h, prev), prev \notin out
  PROVE  MergesDown(h, Absorb(Unlink(h, prev), prev), a, prev, out, alone)
<1> DEFINE u == Unlink(h, prev)
           X == out \cup {prev}
           m == Absorb(u, prev)
           b == NextOf(h, a)
           p == PrevOf(h, prev)
<1>1. IsHeap(h) /\ Tiling(h) /\ a \notin Starts /\ a \notin Ends
  BY GuardSets DEF Good
<1>2. /\ prev \in DOMAIN h.chunk /\ NextOf(h, prev) = a /\ prev < a
      /\ prev = a - h.chunk[a].preceding /\ h.chunk[prev].size = h.chunk[a].preceding
  BY <1>1, Neighbours
<1>3. a \in Nat /\ prev \in Nat /\ h.chunk[prev].size \in Nat /\ h.chunk[a].size \in Nat /\ prev + h.chunk[prev].size = a
  <2>1. a \in Nat /\ prev \in Nat /\ h.chunk[prev].size \in Nat /\ h.chunk[a].size \in Nat
    BY <1>2 DEF Good, IsHeap
  <2> QED BY <1>2, <2>1
<1>4. prev \notin Guards /\ prev \notin Starts /\ prev \notin Ends
  BY <1>1, <1>2, FreeInside
<1>5. b \in DOMAIN h.chunk /\ b > a /\ b = a + h.chunk[a].size /\ b \in Nat
  BY <1>1, Neighbours DEF IsHeap
<1>6. p \in DOMAIN h.chunk /\ NextOf(h, p) = prev /\ p < prev /\ p \in Nat
  BY <1>1, <1>2, <1>4, Neighbours DEF IsHeap
<1>7. prev \in Listable(h, out)
  BY <1>2 DEF Listable
<1>8. Good(u, X, alone) /\ u.chunk = h.chunk /\ u.nregions = h.nregions
  BY <1>7, GoodUnlink
<1> HIDE DEF u
<1>9. /\ Good(m, X \ {NextOf(u, prev)}, alone) /\ Keeps(u, m, {prev, NextOf(u, prev)})
      /\ Merges(u, m, prev) /\ NextOf(m, prev) = NextOf(u, NextOf(u, prev))
  <2>1. /\ prev \in DOMAIN u.chunk /\ NextOf(u, prev) \notin Guards /\ prev \in X
        /\ u.chunk[NextOf(u, prev)].alloc \/ NextOf(u, prev) \in X
    BY <1>2, <1>8 DEF NextOf
  <2> HIDE DEF X
  <2> QED BY <1>4, <1>8, <2>1, GoodAbsorb
<1>10. NextOf(u, prev) = a /\ NextOf(u, a) = b
  BY <1>2, <1>8 DEF NextOf
<1> HIDE DEF m, b, p
<1>11. /\ DOMAIN m.chunk = DOMAIN h.chunk \ {a}
       /\ m.chunk[prev].size = h.chunk[prev].size + h.chunk[a].size
       /\ m.chunk[prev].preceding = h.chunk[prev].preceding
       /\ m.chunk[prev].alloc = h.chunk[prev].alloc
       /\ m.chunk[b].alloc = h.chunk[b].alloc /\ m.chunk[b].size = h.chunk[b].size
  <2>1. b = prev + (h.chunk[prev].size + h.chunk[a].size)
    BY <1>3, <1>5
  <2> QED BY <1>3, <1>5, <1>8, <1>9, <2>1 DEF Merges
<1>12. PrevOf(m, prev) = p
  BY <1>11 DEF PrevOf, p
<1>13. ASSUME alone, IsFree(m, p) PROVE p \in out
  <2>1. p \in DOMAIN m.chunk /\ p # prev /\ p # b
    BY <1>2, <1>3, <1>5, <1>6, <1>11
  <2>2. m.chunk[p] = h.chunk[p]
    <3>1. b = prev + (h.chunk[prev].size + h.chunk[a].size)
      BY <1>3, <1>5
    <3>2. LET next == prev + u.chunk[prev].size
          IN  SameBut(u, m, prev, prev + (u.chunk[prev].size + u.chunk[next].size))
      BY <1>9 DEF Merges
    <3>3. u.chunk[prev].size = h.chunk[prev].size /\ prev + h.chunk[prev].size = a
          /\ u.chunk[a].size = h.chunk[a].size
      BY <1>3, <1>8
    <3>4. SameBut(u, m, prev, b)
      BY <3>1, <3>2, <3>3
    <3> QED BY <1>8, <2>1, <3>4 DEF SameBut
  <2>3. IsFree(h, p)
    BY <1>13, <2>2 DEF IsFree
  <2>4. CASE p \in Listable(h, out)
    BY <1>6, <1>13, <2>4 DEF Good, Apart
  <2> QED BY <1>6, <2>3, <2>4 DEF Listable
<1>14. Keeps(h, m, {a})
  <2>1. Keeps(h, m, {prev, a})
    BY <1>8, <1>9, <1>10 DEF Keeps, Owners, Size
  <2>2. prev \notin Owners(h) /\ prev \notin Owners(m)
    BY <1>11 DEF Owners, IsFree
  <2> QED BY <2>1, <2>2 DEF Keeps
<1>15. IsFree(m, prev) /\ Size(m, prev) = Size(h, prev) + Size(h, a) /\ prev + Size(h, prev) = a /\ Size(h, prev) \in Nat
  BY <1>3, <1>11 DEF IsFree, Size
<1>16. Good(m, X \ {a}, alone) /\ NextOf(m, prev) = b
  BY <1>9, <1>10
<1> QED BY <1>2, <1>3, <1>4, <1>5, <1>6, <1>11, <1>12, <1>13, <1>14, <1>15, <1>16 DEF m, b, u, MergesDown

\* mm_free() leaves a good heap, without this chunk and with all the others.
LEMMA GoodRelease ==
  ASSUME NEW h, NEW alone, Good(h, {}, alone), NEW a \in Owners(h)
  PROVE  /\ Good(Release(h, a), {}, alone)
         /\ Keeps(h, Release(h, a), {a}) /\ a \notin Owners(Release(h, a))
<1> DEFINE f == Freed(h, a)
           g == IF IsFree(f, NextOf(f, a)) THEN AbsorbFree(f, a) ELSE f
           prev == PrevOf(g, a)
           out == {} \cup {a}
           r == Release(h, a)
<1>1. a \in DOMAIN h.chunk /\ a \notin Guards /\ h.chunk[a].alloc
  BY DEF Owners
<1>2. Good(f, out, alone) /\ Keeps(h, f, {a}) /\ Marks(h, f, a, FALSE)
  BY <1>1, GoodFreed
<1>3. a \in out /\ \A c \in out : c = a
  OBVIOUS
<1>4. r = IF IsFree(g, prev) THEN AddFreeChunk(Absorb(Unlink(g, prev), prev), prev) ELSE AddFreeChunk(g, a)
  BY DEF Release
<1>5. out \ {a} = {}
  OBVIOUS
<1> HIDE DEF f, r, out
<1>6. a \in DOMAIN f.chunk /\ ~f.chunk[a].alloc
  BY <1>1, <1>2 DEF Marks
<1>7. NextOf(f, a) \in DOMAIN f.chunk /\ NextOf(f, a) > a
  BY <1>1, <1>2, <1>6, GuardSets, Neighbours DEF Good
<1>8. NextOf(f, a) \notin out
  BY <1>2, <1>3, <1>6, <1>7 DEF Good, IsHeap
<1>9. /\ Good(g, out, alone) /\ Keeps(f, g, {a}) /\ a \in DOMAIN g.chunk /\ IsFree(g, a)
      /\ alone /\ IsFree(g, NextOf(g, a)) => NextOf(g, a) \in out
  <2>1. CASE IsFree(f, NextOf(f, a))
    <3> DEFINE e == AbsorbFree(f, a)
    <3>1. /\ Good(e, out, alone) /\ Keeps(f, e, {a}) /\ a \in DOMAIN e.chunk
          /\ e.chunk[a].alloc = f.chunk[a].alloc
          /\ alone /\ IsFree(e, NextOf(e, a)) => NextOf(e, a) \in out
      BY <1>1, <1>2, <1>3, <1>6, <1>8, <2>1, GoodAbsorbFree
    <3>2. g = e
      BY <2>1
    <3> HIDE DEF e, g
    <3> QED BY <1>6, <3>1, <3>2 DEF IsFree
  <2>2. CASE ~IsFree(f, NextOf(f, a))
    <3>1. g = f
      BY <2>2
    <3>2. Keeps(f, f, {a})
      BY DEF Keeps
    <3> HIDE DEF g
    <3> QED BY <1>2, <1>6, <2>2, <3>1, <3>2 DEF IsFree
  <2> QED BY <2>1, <2>2
<1> HIDE DEF g
<1>10. /\ NextOf(g, a) \in DOMAIN g.chunk /\ NextOf(g, a) > a
       /\ prev \in DOMAIN g.chunk /\ prev < a
  BY <1>1, <1>9, GuardSets, Neighbours DEF Good
<1>11. a \in Nat /\ prev \in Nat /\ NextOf(g, a) \in Nat
  BY <1>9, <1>10 DEF Good, IsHeap
<1>12. Keeps(h, g, {a}) /\ prev \notin out /\ NextOf(g, a) \notin out
  BY <1>2, <1>3, <1>9, <1>10, <1>11 DEF Keeps
<1>13. CASE IsFree(g, prev)
  <2> DEFINE m == Absorb(Unlink(g, prev), prev)
             X == (out \cup {prev}) \ {a}
             p == PrevOf(m, prev)
  <2>1. /\ Good(m, X, alone) /\ Keeps(g, m, {a})
        /\ DOMAIN m.chunk = DOMAIN g.chunk \ {a}
        /\ IsFree(m, prev) /\ NextOf(m, prev) = NextOf(g, a)
        /\ m.chunk[NextOf(g, a)].alloc = g.chunk[NextOf(g, a)].alloc
        /\ p < prev
        /\ alone /\ IsFree(m, p) => p \in out
    <3>1. MergesDown(g, m, a, prev, out, alone)
      BY <1>1, <1>3, <1>9, <1>12, <1>13, GoodMergeDown
    <3> HIDE DEF m, prev
    <3> QED BY <3>1 DEF MergesDown
  <2>2. r = AddFreeChunk(m, prev)
    BY <1>4, <1>13
  <2> HIDE DEF m, prev
  <2>3. prev \in X /\ X \ {prev} = {} /\ prev \in DOMAIN m.chunk
    <3>1. prev # a
      BY <1>10, <1>11
    <3> QED BY <1>3, <1>10, <2>1, <3>1
  <2> HIDE DEF X
  <2>4. alone => ~IsFree(m, NextOf(m, prev))
    BY <1>9, <1>12, <2>1 DEF IsFree
  <2>5. alone => ~IsFree(m, p)
    <3>1. p # a
      <4>1. prev < a
        BY <1>10 DEF prev
      <4>2. prev \in Nat /\ ~(a < prev)
        BY <1>11, <4>1 DEF prev
      <4> QED BY <2>1, <4>2
    <3> QED BY <1>3, <2>1, <3>1
  <2>6. Good(r, X \ {prev}, alone) /\ r.chunk = m.chunk /\ r.nregions = m.nregions
    BY <2>1, <2>2, <2>3, <2>4, <2>5, GoodAdd
  <2>7. Good(r, {}, alone)
    BY <2>3, <2>6
  <2>8. Keeps(h, r, {a})
    BY <1>12, <2>1, <2>6 DEF Keeps, Owners, Size
  <2>9. a \notin Owners(r)
    BY <2>1, <2>6 DEF Owners
  <2> QED BY <2>7, <2>8, <2>9 DEF r
<1>14. CASE ~IsFree(g, prev)
  <2>1. r = AddFreeChunk(g, a)
    BY <1>4, <1>14
  <2>2. Good(r, out \ {a}, alone) /\ r.chunk = g.chunk /\ r.nregions = g.nregions
    BY <1>3, <1>9, <1>14, <2>1, GoodAdd
  <2>3. Good(r, {}, alone)
    BY <1>5, <2>2
  <2>4. Keeps(h, r, {a}) /\ a \notin Owners(r)
    BY <1>9, <1>12, <2>2 DEF Keeps, Owners, Size, IsFree
  <2> QED BY <2>3, <2>4 DEF r
<1> QED BY <1>13, <1>14

\* A user's chunk a has been extended by take units to the front and is now node.
GrowsDown(h, g, a, node, take, alone) ==
    LET b == NextOf(h, a)
    IN  /\ Good(g, {}, alone) /\ Keeps(h, g, {a, node})
        /\ node \in Owners(g) /\ node \notin Owners(h) /\ a \notin Owners(g)
        /\ Size(g, node) = Size(h, a) + take /\ NextOf(g, node) = b
        /\ (IsFree(g, b) <=> IsFree(h, b)) /\ Size(g, b) = Size(h, b)

\* mm_realloc() into the free chunk in front.
LEMMA GoodGrowDown ==
  ASSUME NEW h, NEW alone, Good(h, {}, alone), NEW a \in Owners(h), IsFree(h, PrevOf(h, a)),
         NEW take \in Nat, take > 0, \/ take = Size(h, PrevOf(h, a))
                                     \/ Size(h, PrevOf(h, a)) - take >= SIZEOF_MM_FREENODE
  PROVE  GrowsDown(h, GrowDown(h, a, take), a, a - take, take, alone)
<1> DEFINE prev == PrevOf(h, a)
           left == Size(h, prev) - take
           m == Absorb(Unlink(h, prev), prev)
           X == ({} \cup {prev}) \ {a}
           b == NextOf(h, a)
           node == a - take
           g == GrowDown(h, a, take)
<1>1. a \in DOMAIN h.chunk /\ a \notin Guards /\ h.chunk[a].alloc
  BY DEF Owners
<1>2. MergesDown(h, m, a, prev, {}, alone)
  <2> DEFINE out == {}
  <2>1. Good(h, out, alone) /\ prev \notin out
    OBVIOUS
  <2> HIDE DEF out
  <2>2. MergesDown(h, m, a, prev, out, alone)
    BY <1>1, <2>1, GoodMergeDown
  <2> QED BY <2>2 DEF out
<1>3. g = IF left = 0 THEN Allocated(m, prev)
          ELSE AddFreeChunk(Allocated(Cut(m, prev, left), node), prev)
  BY DEF GrowDown
<1>4. take = Size(h, prev) \/ left >= SIZEOF_MM_FREENODE
  OBVIOUS
<1> HIDE DEF m, b, g, prev
<1>5. /\ Good(m, X, alone) /\ Keeps(h, m, {a})
      /\ DOMAIN m.chunk = DOMAIN h.chunk \ {a}
      /\ prev \in DOMAIN h.chunk /\ prev \notin Guards /\ prev < a /\ prev \in Nat /\ a \in Nat
      /\ prev + Size(h, prev) = a /\ Size(h, prev) \in Nat
      /\ IsFree(m, prev) /\ Size(m, prev) = Size(h, prev) + Size(h, a)
      /\ NextOf(m, prev) = b /\ b \in DOMAIN h.chunk /\ b > a
      /\ m.chunk[b].alloc = h.chunk[b].alloc /\ m.chunk[b].size = h.chunk[b].size
      /\ alone => ~IsFree(m, PrevOf(m, prev))
  BY <1>2 DEF MergesDown, b
<1>6. prev # a /\ prev \in DOMAIN m.chunk
  BY <1>5
<1>7. prev \in X /\ X \ {prev} = {}
  BY <1>6
<1> HIDE DEF X
<1>8. b \in Nat /\ b # a /\ b # prev /\ b \in DOMAIN m.chunk
  <2>1. b \in Nat
    BY <1>5 DEF Good, IsHeap
  <2> QED BY <1>5, <2>1
<1>9. Size(h, a) \in Nat /\ Size(h, a) >= SIZEOF_MM_FREENODE
  BY <1>1 DEF Good, IsHeap, Tiling, Large, Size
<1>10. prev \notin Owners(h) /\ prev \notin Owners(m) /\ a \notin Owners(m)
  <2>1. prev \notin Owners(m) /\ a \notin Owners(m)
    BY <1>5 DEF Owners, IsFree
  <2> QED BY <1>5, <1>6, <2>1 DEF Keeps
<1>11. CASE left = 0
  <2>1. g = Allocated(m, prev) /\ node = prev /\ take = Size(h, prev)
    <3>1. take = Size(h, prev)
      BY <1>5, <1>11
    <3> QED BY <1>3, <1>5, <1>11, <3>1
  <2>2. Good(g, X \ {prev}, alone) /\ Keeps(m, g, {prev}) /\ Marks(m, g, prev, TRUE)
    BY <1>5, <1>6, <1>7, <2>1, GoodAllocated
  <2>3. Good(g, {}, alone)
    BY <1>7, <2>2
  <2>4. Keeps(h, g, {a, node})
    BY <1>5, <2>1, <2>2 DEF Keeps
  <2>5. node \in Owners(g) /\ node \notin Owners(h) /\ a \notin Owners(g)
    BY <1>5, <1>6, <1>10, <2>1, <2>2 DEF Owners, Marks
  <2>6. Size(g, node) = Size(m, prev) /\ NextOf(g, node) = b
    BY <1>5, <2>1, <2>2 DEF Size, Marks, NextOf
  <2>7. (IsFree(g, b) <=> IsFree(h, b)) /\ Size(g, b) = Size(h, b)
    BY <1>5, <1>8, <2>2 DEF Size, Marks, IsFree
  <2>8. Size(g, node) = Size(h, a) + take
    BY <1>5, <1>9, <2>1, <2>6
  <2> QED BY <2>3, <2>4, <2>5, <2>6, <2>7, <2>8 DEF GrowsDown, b, g
<1>12. CASE left # 0
  <2>1. /\ left \in Nat /\ left >= SIZEOF_MM_FREENODE /\ prev + left = node
        /\ Size(m, prev) - left = Size(h, a) + take /\ Size(h, a) + take >= SIZEOF_MM_FREENODE
    BY <1>4, <1>5, <1>9, <1>12 DEF SIZEOF_MM_FREENODE
  <2> DEFINE c == Cut(m, prev, left)
             d == Allocated(c, node)
             Y == X \cup {node}
             p == PrevOf(m, prev)
  <2>2. g = AddFreeChunk(d, prev)
    BY <1>3, <1>12
  <2> HIDE DEF left, node
  <2>3. /\ Good(c, Y, alone) /\ Keeps(m, c, {prev}) /\ Splits(m, c, prev, left)
        /\ node \notin DOMAIN m.chunk /\ node \notin Guards
        /\ NextOf(c, prev) = node /\ NextOf(c, node) = NextOf(m, prev)
    <3>1. m.chunk[prev].size - left >= SIZEOF_MM_FREENODE
      BY <2>1 DEF Size
    <3>2. /\ Good(c, X \cup {prev + left}, alone) /\ Keeps(m, c, {prev}) /\ Splits(m, c, prev, left)
          /\ prev + left \notin DOMAIN m.chunk /\ prev + left \notin Guards
          /\ NextOf(c, prev) = prev + left /\ NextOf(c, prev + left) = NextOf(m, prev)
      <4>1. /\ Good(m, X, alone) /\ prev \in DOMAIN m.chunk /\ prev \notin Guards /\ prev \in X
            /\ left \in Nat /\ left >= SIZEOF_MM_FREENODE
        BY <1>5, <1>6, <1>7, <2>1
      <4> QED BY <3>1, <4>1, GoodCut, ZenonT(60)
    <3> QED BY <2>1, <3>2
  <2> HIDE DEF c
  <2>4. node \in DOMAIN c.chunk /\ node \in Y
    BY <2>1, <2>3 DEF Splits
  <2>5. Good(d, Y \ {node}, alone) /\ Keeps(c, d, {node}) /\ Marks(c, d, node, TRUE)
    BY <2>3, <2>4, GoodAllocated
  <2> HIDE DEF d
  <2>6. node # prev /\ node # b
    BY <1>6, <1>8, <2>3
  <2>7. prev \in Y \ {node} /\ (Y \ {node}) \ {prev} = {}
    BY <1>7, <2>6
  <2> HIDE DEF Y
  <2>8. /\ DOMAIN d.chunk = DOMAIN m.chunk \cup {node} /\ prev \in DOMAIN d.chunk
        /\ d.chunk[prev].alloc = m.chunk[prev].alloc /\ d.chunk[prev].size = left
        /\ d.chunk[prev].preceding = m.chunk[prev].preceding
        /\ d.chunk[node].alloc = TRUE
        /\ d.chunk[node].size = m.chunk[prev].size - left
        /\ d.chunk[b].alloc = m.chunk[b].alloc /\ d.chunk[b].size = m.chunk[b].size
    <3>1. b = prev + m.chunk[prev].size
      BY <1>5 DEF NextOf
    <3>2. /\ DOMAIN d.chunk = DOMAIN c.chunk
          /\ d.chunk[node].size = c.chunk[node].size /\ d.chunk[node].alloc = TRUE
          /\ \A e \in DOMAIN d.chunk : e # node => d.chunk[e] = c.chunk[e]
      BY <2>5 DEF Marks
    <3>3. /\ DOMAIN c.chunk = DOMAIN m.chunk \cup {node}
          /\ c.chunk[prev].size = left /\ c.chunk[prev].preceding = m.chunk[prev].preceding
          /\ c.chunk[prev].alloc = m.chunk[prev].alloc
          /\ c.chunk[node].size = m.chunk[prev].size - left
          /\ c.chunk[b].size = m.chunk[b].size /\ c.chunk[b].alloc = m.chunk[b].alloc
      BY <2>1, <2>3, <3>1 DEF Splits
    <3> QED BY <1>6, <1>8, <2>6, <3>2, <3>3
  <2>9. NextOf(d, prev) = node /\ NextOf(d, node) = b /\ PrevOf(d, prev) = p
    <3>1. NextOf(c, prev) = node /\ NextOf(c, node) = b
      BY <1>5, <2>3
    <3>2. d.chunk[prev] = c.chunk[prev] /\ d.chunk[node].size = c.chunk[node].size
      BY <2>5, <2>6, <2>8 DEF Marks
    <3> QED BY <2>8, <3>1, <3>2 DEF NextOf, PrevOf
  <2>10. ASSUME alone PROVE ~IsFree(d, p)
    <3>1. p \in DOMAIN m.chunk /\ p < prev
      BY <1>5, <1>6, GuardSets, Neighbours DEF Good
    <3>2. p \in Nat /\ p # prev /\ p # node /\ p # b
      <4>1. p \in Nat
        BY <1>5, <3>1 DEF Good, IsHeap
      <4> QED BY <1>5, <1>8, <2>3, <3>1, <4>1
    <3>3. c.chunk[p] = m.chunk[p]
      <4>1. b = prev + m.chunk[prev].size
        BY <1>5 DEF NextOf
      <4>2. p \in DOMAIN c.chunk
        BY <2>3, <3>1 DEF Splits
      <4> QED BY <2>1, <2>3, <3>2, <4>1, <4>2 DEF Splits
    <3>4. d.chunk[p] = c.chunk[p]
      BY <2>5, <2>8, <3>1, <3>2 DEF Marks
    <3> QED BY <1>5, <2>10, <3>3, <3>4 DEF IsFree
  <2>11. IsFree(d, prev) /\ (alone => ~IsFree(d, NextOf(d, prev)) /\ ~IsFree(d, PrevOf(d, prev)))
    <3>1. IsFree(d, prev) /\ ~IsFree(d, NextOf(d, prev))
      BY <1>5, <2>8, <2>9 DEF IsFree
    <3> QED BY <2>9, <2>10, <3>1
  <2>12. Good(g, (Y \ {node}) \ {prev}, alone) /\ g.chunk = d.chunk /\ g.nregions = d.nregions
    BY <2>2, <2>5, <2>7, <2>8, <2>11, GoodAdd
  <2>13. Good(g, {}, alone)
    BY <2>7, <2>12
  <2>14. a \notin Owners(g) /\ prev \notin Owners(g) /\ node \notin Owners(h) /\ node \in Owners(g)
    <3>1. node # a
      BY <1>5, <2>1 DEF node
    <3>2. node \notin DOMAIN h.chunk
      BY <1>5, <2>3, <3>1
    <3>3. a \notin DOMAIN d.chunk
      BY <1>5, <2>8, <3>1
    <3> QED BY <1>5, <2>3, <2>8, <2>12, <3>2, <3>3 DEF Owners, IsFree
  <2>15. Keeps(h, g, {a, node})
    <3>1. Keeps(h, g, {a, node, prev})
      BY <1>5, <2>3, <2>5, <2>12 DEF Keeps, Owners, Size
    <3> QED BY <1>10, <2>14, <3>1 DEF Keeps
  <2>16. Size(g, node) = Size(h, a) + take /\ NextOf(g, node) = b
    BY <2>1, <2>8, <2>9, <2>12 DEF Size, NextOf
  <2>17. (IsFree(g, b) <=> IsFree(h, b)) /\ Size(g, b) = Size(h, b)
    BY <1>5, <2>8, <2>12 DEF IsFree, Size
  <2> QED BY <2>13, <2>14, <2>15, <2>16, <2>17 DEF GrowsDown, b, g, node
<1> QED BY <1>11, <1>12

\* The heap with one more region, whose free chunk is not yet in a list.
Laid(h, r) ==
    LET free == HeapStart(r) + SIZEOF_MM_ALLOCNODE
        size == Region[r].size - 2 * SIZEOF_MM_ALLOCNODE
    IN  [chunk |-> [a \in DOMAIN h.chunk \cup {HeapStart(r), free, HeapEnd(r)} |->
                       CASE a = HeapStart(r) -> Node(SIZEOF_MM_ALLOCNODE, 0, TRUE)
                         [] a = free         -> Node(size, SIZEOF_MM_ALLOCNODE, FALSE)
                         [] a = HeapEnd(r)   -> Node(SIZEOF_MM_ALLOCNODE, size, TRUE)
                         [] OTHER            -> h.chunk[a]],
         bins |-> h.bins, nregions |-> r]

\* A region that is laid out has one chunk, and this is owed to a list.
LEMMA LaidFacts ==
  ASSUME NEW h, NEW alone, Good(h, {}, alone), NEW r \in DOMAIN Region, r = h.nregions + 1
  PROVE  LET e    == Laid(h, r)
             free == HeapStart(r) + SIZEOF_MM_ALLOCNODE
         IN  /\ Good(e, {free}, alone) /\ e.nregions = r
             /\ free \in DOMAIN e.chunk /\ IsFree(e, free)
             /\ ~IsFree(e, NextOf(e, free)) /\ ~IsFree(e, PrevOf(e, free))
             /\ \A c : c \in Owners(e) <=> c \in Owners(h)
             /\ \A c \in Owners(h) : Size(e, c) = Size(h, c)
<1> DEFINE F == HeapStart(r)
           L == HeapEnd(r)
           free == F + SIZEOF_MM_ALLOCNODE
           size == Region[r].size - 2 * SIZEOF_MM_ALLOCNODE
           D == DOMAIN h.chunk
           At(a) == CASE a = F    -> Node(SIZEOF_MM_ALLOCNODE, 0, TRUE)
                      [] a = free -> Node(size, SIZEOF_MM_ALLOCNODE, FALSE)
                      [] a = L    -> Node(SIZEOF_MM_ALLOCNODE, size, TRUE)
                      [] OTHER    -> h.chunk[a]
           E == D \cup {F, free, L}
           new == [a \in E |-> At(a)]
           e == Laid(h, r)
<1>1. IsHeap(h) /\ Tiling(h) /\ Lists(h, {}) /\ (alone => Apart(h, {}))
  BY DEF Good
<1>2. /\ F \in Nat /\ L \in Nat /\ size \in Nat /\ size >= 2 /\ free = F + 1 /\ free + size = L
      /\ F < free /\ free < L /\ free \in Nat
  <2>1. F \in Nat /\ L \in Nat /\ F + 3 <= L /\ F + Region[r].size = L + 1
    BY RegionFacts
  <2>2. Region[r].size \in Nat
    BY RegionFacts
  <2> HIDE DEF F, L
  <2> QED BY <2>1, <2>2 DEF SIZEOF_MM_ALLOCNODE
<1>3. \A s \in 1 .. h.nregions : s \in DOMAIN Region /\ s # r
  <2>1. h.nregions \in Nat /\ h.nregions <= Len(Region)
    BY <1>1, RegionFacts DEF IsHeap
  <2> QED BY <2>1, RegionFacts
<1>4. \A s \in 1 .. h.nregions : /\ HeapStart(s) \in Nat /\ HeapEnd(s) \in Nat
                                 /\ HeapEnd(s) < F \/ L < HeapStart(s)
  BY <1>3, RegionFacts
<1>5. \A c \in D : c \in Nat /\ (c < F \/ L < c)
  <2> SUFFICES ASSUME NEW c \in D PROVE c \in Nat /\ (c < F \/ L < c)
    OBVIOUS
  <2>1. PICK s \in 1 .. h.nregions : HeapStart(s) <= c /\ c <= HeapEnd(s)
    BY <1>1 DEF Tiling, Guarded
  <2>2. c \in Nat
    BY <1>1 DEF IsHeap
  <2> HIDE DEF F, L
  <2> QED BY <1>2, <1>4, <2>1, <2>2
<1>6. F \in Starts /\ L \in Ends /\ free \notin Guards /\ F \notin Ends
  <2>1. ASSUME NEW s \in DOMAIN Region
        PROVE  free # HeapStart(s) /\ free # HeapEnd(s) /\ F # HeapEnd(s)
    <3>1. /\ HeapStart(s) \in Nat /\ HeapEnd(s) \in Nat /\ HeapStart(s) < HeapEnd(s)
          /\ r = s \/ HeapEnd(r) < HeapStart(s) \/ HeapEnd(s) < HeapStart(r)
      BY RegionFacts
    <3> QED BY <1>2, <3>1
  <2> QED BY <2>1 DEF Starts, Ends, Guards
<1>7. /\ At(F) = Node(SIZEOF_MM_ALLOCNODE, 0, TRUE)
      /\ At(free) = Node(size, SIZEOF_MM_ALLOCNODE, FALSE)
      /\ At(L) = Node(SIZEOF_MM_ALLOCNODE, size, TRUE)
      /\ \A c \in D : At(c) = h.chunk[c]
  <2>1. F # free /\ F # L /\ free # L
    BY <1>2
  <2>2. \A c \in D : c # F /\ c # free /\ c # L
    BY <1>2, <1>5
  <2> HIDE DEF F, L, free, size, D
  <2> QED BY <2>1, <2>2 DEF D
<1>8. \A c \in E : At(c) \in Header
  <2>1. \A c \in D : h.chunk[c] \in Header
    BY <1>1 DEF IsHeap, Header
  <2>2. At(F) \in Header /\ At(free) \in Header /\ At(L) \in Header
    BY <1>2, <1>7 DEF Node, Header, SIZEOF_MM_ALLOCNODE
  <2> HIDE DEF At, F, L, free
  <2> QED BY <1>7, <2>1, <2>2
<1>9. e = [chunk |-> new, bins |-> h.bins, nregions |-> r]
  BY DEF Laid
<1> HIDE DEF At, e
<1>10. new \in [E -> Header] /\ DOMAIN new = E /\ \A c \in E : new[c] = At(c)
  BY <1>8
<1> HIDE DEF new
<1>11. e.chunk = new /\ e.bins = h.bins /\ e.nregions = r
  BY <1>9
<1>12. /\ DOMAIN e.chunk = E
       /\ e.chunk[F] = Node(SIZEOF_MM_ALLOCNODE, 0, TRUE)
       /\ e.chunk[free] = Node(size, SIZEOF_MM_ALLOCNODE, FALSE)
       /\ e.chunk[L] = Node(SIZEOF_MM_ALLOCNODE, size, TRUE)
       /\ \A c \in D : e.chunk[c] = h.chunk[c]
  BY <1>7, <1>10, <1>11
<1>13. IsHeap(e)
  <2>1. E \subseteq Nat
    BY <1>2, <1>5
  <2>2. r \in 0 .. Len(Region)
    BY RegionFacts
  <2>3. h.bins \in [Bin -> Seq(Nat)]
    BY <1>1 DEF IsHeap
  <2> HIDE DEF E
  <2> QED BY <1>9, <1>10, <1>11, <2>1, <2>2, <2>3 DEF IsHeap, Header
<1>14. /\ e.chunk[F].size = 1 /\ e.chunk[F].alloc
       /\ e.chunk[free].size = size /\ e.chunk[free].preceding = 1 /\ ~e.chunk[free].alloc
       /\ e.chunk[L].preceding = size /\ e.chunk[L].alloc
  BY <1>12 DEF Node, SIZEOF_MM_ALLOCNODE
<1>15. NextOf(e, F) = free /\ NextOf(e, free) = L /\ PrevOf(e, free) = F /\ PrevOf(e, L) = free
  BY <1>2, <1>14 DEF NextOf, PrevOf
<1>16. \A c \in D : NextOf(e, c) = NextOf(h, c) /\ PrevOf(e, c) = PrevOf(h, c)
  BY <1>12 DEF NextOf, PrevOf
<1> HIDE DEF F, L, free, size, D
<1>17. Guarded(e)
  <2>1. ASSUME NEW s \in 1 .. r
        PROVE  /\ HeapStart(s) \in E /\ e.chunk[HeapStart(s)].alloc
               /\ e.chunk[HeapStart(s)].size = SIZEOF_MM_ALLOCNODE
               /\ HeapEnd(s) \in E /\ e.chunk[HeapEnd(s)].alloc
    <3>1. CASE s = r
      BY <1>14, <3>1 DEF F, L, SIZEOF_MM_ALLOCNODE
    <3>2. CASE s # r
      <4>1. s \in 1 .. h.nregions
        BY <1>1, <2>1, <3>2 DEF IsHeap
      <4>2. /\ HeapStart(s) \in D /\ h.chunk[HeapStart(s)].alloc
            /\ h.chunk[HeapStart(s)].size = SIZEOF_MM_ALLOCNODE
            /\ HeapEnd(s) \in D /\ h.chunk[HeapEnd(s)].alloc
        BY <1>1, <4>1 DEF Tiling, Guarded, D
      <4> QED BY <1>12, <4>2
    <3> QED BY <3>1, <3>2
  <2>2. ASSUME NEW c \in E PROVE \E s \in 1 .. r : HeapStart(s) <= c /\ c <= HeapEnd(s)
    <3>1. CASE c \in D
      <4>1. PICK s \in 1 .. h.nregions : HeapStart(s) <= c /\ c <= HeapEnd(s)
        BY <1>1, <3>1 DEF Tiling, Guarded, D
      <4>2. s \in 1 .. r
        BY <1>1 DEF IsHeap
      <4> QED BY <4>1, <4>2
    <3>2. CASE c \notin D
      <4>1. F <= c /\ c <= L
        BY <1>2, <2>2, <3>2
      <4>2. r \in 1 .. r
        BY RegionFacts
      <4> QED BY <4>1, <4>2 DEF F, L
    <3> QED BY <3>1, <3>2
  <2> QED BY <1>11, <1>12, <2>1, <2>2 DEF Guarded
<1>18. Forward(e)
  <2> SUFFICES ASSUME NEW a \in E \ Ends
               PROVE  /\ e.chunk[a].size > 0 /\ NextOf(e, a) \in E
                      /\ e.chunk[NextOf(e, a)].preceding = e.chunk[a].size
                      /\ \A b \in E : b <= a \/ b >= NextOf(e, a)
    BY <1>12 DEF Forward
  <2>1. CASE a \in D
    <3>1. /\ h.chunk[a].size > 0 /\ NextOf(h, a) \in D
          /\ h.chunk[NextOf(h, a)].preceding = h.chunk[a].size
          /\ \A b \in D : b <= a \/ b >= NextOf(h, a)
      BY <1>1, <2>1 DEF Tiling, Forward, D
    <3>2. (a < F /\ NextOf(h, a) < F) \/ L < a
      <4>1. PICK s \in 1 .. h.nregions : HeapStart(s) <= a /\ a <= HeapEnd(s)
        BY <1>1, <2>1 DEF Tiling, Guarded, D
      <4>2. HeapEnd(s) \in D /\ a # HeapEnd(s)
        BY <1>1, <1>3 DEF Tiling, Guarded, D, Ends
      <4>3. HeapEnd(s) >= NextOf(h, a) /\ a \in Nat /\ NextOf(h, a) \in Nat
        BY <1>4, <1>5, <2>1, <3>1, <4>1, <4>2
      <4> QED BY <1>2, <1>4, <4>1, <4>3
    <3>3. \A b \in E : b <= a \/ b >= NextOf(h, a)
      BY <1>2, <1>5, <2>1, <3>1, <3>2
    <3> QED BY <1>12, <1>16, <2>1, <3>1, <3>3
  <2>2. CASE a = F
    <3>1. \A b \in E : b <= F \/ b >= free
      BY <1>2, <1>5
    <3> QED BY <1>14, <1>15, <2>2, <3>1
  <2>3. CASE a = free
    <3>1. \A b \in E : b <= free \/ b >= L
      BY <1>2, <1>5
    <3> QED BY <1>2, <1>14, <1>15, <2>3, <3>1
  <2> QED BY <1>6, <2>1, <2>2, <2>3
<1>19. Backward(e)
  <2> SUFFICES ASSUME NEW a \in E \ Starts
               PROVE  /\ e.chunk[a].preceding > 0 /\ PrevOf(e, a) \in E \ Ends
                      /\ e.chunk[PrevOf(e, a)].size = e.chunk[a].preceding
    BY <1>12 DEF Backward
  <2>1. CASE a \in D
    <3>1. /\ h.chunk[a].preceding > 0 /\ PrevOf(h, a) \in D \ Ends
          /\ h.chunk[PrevOf(h, a)].size = h.chunk[a].preceding
      BY <1>1, <2>1 DEF Tiling, Backward, D
    <3> QED BY <1>12, <1>16, <2>1, <3>1
  <2>2. CASE a = free
    BY <1>6, <1>14, <1>15, <2>2
  <2>3. CASE a = L
    BY <1>2, <1>6, <1>14, <1>15, <2>3, GuardSets
  <2> QED BY <1>6, <2>1, <2>2, <2>3
<1>20. Large(e)
  <2>1. \A a \in D \ Guards : h.chunk[a].size >= SIZEOF_MM_FREENODE
    BY <1>1 DEF Tiling, Large, D
  <2>2. e.chunk[free].size >= SIZEOF_MM_FREENODE
    BY <1>2, <1>14 DEF SIZEOF_MM_FREENODE
  <2> QED BY <1>6, <1>12, <2>1, <2>2, GuardSets DEF Large
<1>21. free \notin D
  BY <1>2, <1>5
<1>22. Listable(e, {free}) = Listable(h, {})
  <2>1. ~IsFree(e, F) /\ ~IsFree(e, L)
    BY <1>14 DEF IsFree
  <2>2. \A c \in D : IsFree(e, c) <=> IsFree(h, c)
    BY <1>12 DEF IsFree
  <2> QED BY <1>12, <1>21, <2>1, <2>2 DEF Listable, D
<1>23. Lists(e, {free})
  <2>1. \A c \in Listable(h, {}) : Size(e, c) = Size(h, c)
    BY <1>12 DEF Size, Listable, D
  <2> QED BY <1>1, <1>11, <1>22, <2>1, SameLists
<1>24. ASSUME alone PROVE Apart(e, {free})
  <2> SUFFICES ASSUME NEW c \in Listable(e, {free}), IsFree(e, NextOf(e, c)) PROVE FALSE
    BY DEF Apart
  <2>1. c \in Listable(h, {}) /\ c \in D /\ IsFree(h, c)
    BY <1>22 DEF Listable, D
  <2>2. NextOf(h, c) \in D
    BY <1>1, <2>1, FreeInside, Neighbours DEF D
  <2>3. IsFree(h, NextOf(h, c))
    BY <1>12, <1>16, <2>1, <2>2 DEF IsFree
  <2> QED BY <1>1, <1>24, <2>1, <2>3 DEF Apart
<1>25. Good(e, {free}, alone)
  BY <1>13, <1>17, <1>18, <1>19, <1>20, <1>23, <1>24 DEF Good, Tiling
<1>26. ~IsFree(e, NextOf(e, free)) /\ ~IsFree(e, PrevOf(e, free)) /\ IsFree(e, free) /\ free \in DOMAIN e.chunk
  BY <1>12, <1>14, <1>15 DEF IsFree
<1>27. (\A c : c \in Owners(e) <=> c \in Owners(h)) /\ \A c \in Owners(h) : Size(e, c) = Size(h, c)
  <2>1. F \in Guards /\ L \in Guards
    BY <1>6, GuardSets
  <2> QED BY <1>12, <1>14, <2>1 DEF Owners, Size, D
<1> QED BY <1>11, <1>25, <1>26, <1>27 DEF free, F, e

\* mm_addregion() leaves users' chunks as they are.
LEMMA GoodAddRegion ==
  ASSUME NEW h, NEW alone, Good(h, {}, alone), h.nregions < Len(Region)
  PROVE  LET g == AddedRegion(h)
         IN  /\ Good(g, {}, alone) /\ g.nregions = h.nregions + 1
             /\ \A c : c \in Owners(g) <=> c \in Owners(h)
             /\ \A c \in Owners(h) : Size(g, c) = Size(h, c)
<1> DEFINE r == h.nregions + 1
           free == HeapStart(r) + SIZEOF_MM_ALLOCNODE
           e == Laid(h, r)
           g == AddedRegion(h)
<1>1. r \in DOMAIN Region
  BY RegionFacts DEF Good, IsHeap
<1>2. g = AddFreeChunk(e, free)
  BY DEF AddedRegion, Laid
<1>3. /\ Good(e, {free}, alone) /\ e.nregions = r
      /\ free \in DOMAIN e.chunk /\ IsFree(e, free)
      /\ ~IsFree(e, NextOf(e, free)) /\ ~IsFree(e, PrevOf(e, free))
      /\ \A c : c \in Owners(e) <=> c \in Owners(h)
      /\ \A c \in Owners(h) : Size(e, c) = Size(h, c)
  BY <1>1, LaidFacts
<1> DEFINE out == {free}
<1>4. free \in out /\ out \ {free} = {} /\ Good(e, out, alone)
  BY <1>3
<1> HIDE DEF e, free, out, g
<1>5. Good(g, out \ {free}, alone) /\ g.chunk = e.chunk /\ g.nregions = e.nregions
  BY <1>2, <1>3, <1>4, GoodAdd
<1>6. Good(g, {}, alone)
  BY <1>4, <1>5
<1>7. (\A c : c \in Owners(g) <=> c \in Owners(h)) /\ \A c \in Owners(h) : Size(g, c) = Size(h, c)
  BY <1>3, <1>5 DEF Owners, Size
<1> QED BY <1>3, <1>5, <1>6, <1>7 DEF g

\* A heap to which nothing has been handed over.
LEMMA GoodNoRegion ==
  Good(NoRegion, {}, TRUE) /\ Owners(NoRegion) = {} /\ NoRegion.nregions = 0
<1>1. /\ NoRegion.chunk = <<>> /\ NoRegion.nregions = 0
      /\ NoRegion.bins = [n \in 0 .. MM_NNODES - 1 |-> <<>>]
      /\ NoRegion = [chunk |-> NoRegion.chunk, bins |-> NoRegion.bins, nregions |-> NoRegion.nregions]
  BY DEF NoRegion
<1>2. DOMAIN NoRegion.chunk = {}
  BY <1>1
<1>3. NoRegion.bins \in [Bin -> Seq(Nat)] /\ \A n \in Bin : DOMAIN NoRegion.bins[n] = {}
  BY <1>1 DEF Bin
<1>4. NoRegion.chunk \in [{} -> Header]
  BY <1>1, <1>2
<1>5. IsHeap(NoRegion)
  <2>1. 0 \in 0 .. Len(Region)
    BY RegionFacts
  <2> QED BY <1>1, <1>2, <1>3, <1>4, <2>1 DEF IsHeap, Header
<1>6. Tiling(NoRegion)
  BY <1>1, <1>2 DEF Tiling, Guarded, Forward, Backward, Large
<1>7. Listable(NoRegion, {}) = {}
  BY <1>2 DEF Listable
<1>8. Lists(NoRegion, {}) /\ Apart(NoRegion, {})
  BY <1>3, <1>7 DEF Lists, Apart
<1>9. Owners(NoRegion) = {}
  BY <1>2 DEF Owners
<1> QED BY <1>1, <1>5, <1>6, <1>8, <1>9 DEF Good

-----------------------------------------------------------------------------
(***************************************************************************)
(* The functions.                                                          *)
(***************************************************************************)

\* The chunk old, a user's in h, is node in g, of at least size units; if old is
\* node, it may be new.
Gives(h, g, old, node, size) ==
    /\ node \in Owners(g) /\ Size(g, node) >= size
    /\ node = old \/ (node \notin Owners(h) /\ old \notin Owners(g))
    /\ Keeps(h, g, {old, node})

\* A request has room for the header and, given back, for the links.
LEMMA NeedFacts ==
  ASSUME NEW n \in Nat, n > 0
  PROVE  Need(n) \in Nat /\ Need(n) >= n + 1 /\ Need(n) >= SIZEOF_MM_FREENODE
  BY DEF Need, MM_ALIGN_UP, MM_MIN_CHUNK, SIZEOF_MM_ALLOCNODE, SIZEOF_MM_FREENODE

\* mm_realloc() takes from neither side more than there is.
LEMMA TakePrevFacts ==
  ASSUME NEW prevsize \in Nat, NEW nextsize \in Nat, NEW needed \in Nat,
         prevsize + nextsize >= needed
  PROVE  LET t == TakePrev(prevsize, nextsize, needed)
         IN  t \in Nat /\ t <= prevsize /\ needed - t \in Nat /\ needed - t <= nextsize
<1>1. CASE prevsize > 0 /\ (nextsize >= prevsize \/ nextsize = 0)
  <2>1. TakePrev(prevsize, nextsize, needed) = IF needed > prevsize THEN prevsize ELSE needed
    BY <1>1 DEF TakePrev
  <2> QED BY <2>1
<1>2. CASE ~(prevsize > 0 /\ (nextsize >= prevsize \/ nextsize = 0))
  <2>1. TakePrev(prevsize, nextsize, needed) = IF needed > nextsize THEN needed - nextsize ELSE 0
    BY <1>2 DEF TakePrev
  <2> QED BY <2>1
<1> QED BY <1>1, <1>2

\* Only a free neighbour has room to offer.
LEMMA FreeSizeFacts ==
  ASSUME NEW h, IsHeap(h), NEW c \in DOMAIN h.chunk
  PROVE  /\ FreeSize(h, c) \in Nat /\ Size(h, c) \in Nat
         /\ FreeSize(h, c) > 0 => IsFree(h, c) /\ Size(h, c) = FreeSize(h, c)
<1>1. Size(h, c) \in Nat
  BY DEF IsHeap, Size
<1> QED BY <1>1 DEF FreeSize

\* mm_realloc() into both sides, when what is left of each can be a chunk.
LEMMA GoodGrow ==
  ASSUME NEW h, NEW alone, Good(h, {}, alone), NEW a \in Owners(h), NEW needed \in Nat,
         NEW takeprev \in Nat, NEW takenext \in Nat, takeprev + takenext = needed,
         takeprev > 0 => \/ takeprev = FreeSize(h, PrevOf(h, a))
                         \/ FreeSize(h, PrevOf(h, a)) - takeprev >= SIZEOF_MM_FREENODE,
         takenext > 0 => \/ takenext = FreeSize(h, NextOf(h, a))
                         \/ FreeSize(h, NextOf(h, a)) - takenext >= SIZEOF_MM_FREENODE
  PROVE  LET node == a - takeprev
             down == IF takeprev > 0 THEN GrowDown(h, a, takeprev) ELSE h
             g    == IF takenext > 0 THEN GrowUp(down, node, takenext) ELSE down
         IN  Good(g, {}, alone) /\ Gives(h, g, a, node, Size(h, a) + needed)
<1> DEFINE node == a - takeprev
           down == IF takeprev > 0 THEN GrowDown(h, a, takeprev) ELSE h
           g == IF takenext > 0 THEN GrowUp(down, node, takenext) ELSE down
           prev == PrevOf(h, a)
           next == NextOf(h, a)
<1>1. IsHeap(h) /\ Tiling(h) /\ a \in DOMAIN h.chunk /\ a \notin Guards
  BY DEF Good, Owners
<1>2. prev \in DOMAIN h.chunk /\ next \in DOMAIN h.chunk /\ a \in Nat
  BY <1>1, GuardSets, Neighbours DEF IsHeap
<1>3. /\ FreeSize(h, prev) \in Nat /\ FreeSize(h, next) \in Nat /\ Size(h, a) \in Nat
      /\ FreeSize(h, prev) > 0 => IsFree(h, prev) /\ Size(h, prev) = FreeSize(h, prev)
      /\ FreeSize(h, next) > 0 => IsFree(h, next) /\ Size(h, next) = FreeSize(h, next)
  BY <1>1, <1>2, FreeSizeFacts
<1>4. /\ Good(down, {}, alone) /\ Keeps(h, down, {a, node}) /\ node \in Owners(down)
      /\ node = a \/ (node \notin Owners(h) /\ a \notin Owners(down))
      /\ Size(down, node) = Size(h, a) + takeprev /\ NextOf(down, node) = next
      /\ (IsFree(down, next) <=> IsFree(h, next)) /\ Size(down, next) = Size(h, next)
  <2>1. CASE takeprev > 0
    <3>1. /\ IsFree(h, prev)
          /\ takeprev = Size(h, prev) \/ Size(h, prev) - takeprev >= SIZEOF_MM_FREENODE
      <4>1. takeprev = FreeSize(h, prev) \/ FreeSize(h, prev) - takeprev >= SIZEOF_MM_FREENODE
        BY <2>1
      <4> HIDE DEF prev
      <4>2. FreeSize(h, prev) > 0
        BY <1>3, <2>1, <4>1 DEF SIZEOF_MM_FREENODE
      <4> QED BY <1>3, <4>1, <4>2
    <3>2. GrowsDown(h, GrowDown(h, a, takeprev), a, a - takeprev, takeprev, alone)
      BY <2>1, <3>1, GoodGrowDown
    <3>3. down = GrowDown(h, a, takeprev)
      BY <2>1
    <3>4. GrowsDown(h, down, a, node, takeprev, alone)
      BY <3>2, <3>3
    <3> HIDE DEF down, node
    <3> QED BY <3>4 DEF GrowsDown
  <2>2. CASE ~(takeprev > 0)
    <3>1. down = h /\ node = a /\ takeprev = 0
      BY <1>2, <2>2
    <3>2. Keeps(h, h, {a, a})
      BY DEF Keeps
    <3> HIDE DEF down, node
    <3> QED BY <1>3, <3>1, <3>2
  <2> QED BY <2>1, <2>2
<1> HIDE DEF down, node, prev
<1>5. CASE takenext > 0
  <2>1. takenext = FreeSize(h, next) \/ FreeSize(h, next) - takenext >= SIZEOF_MM_FREENODE
    BY <1>5
  <2> HIDE DEF next
  <2>2. FreeSize(h, next) > 0
    BY <1>3, <1>5, <2>1 DEF SIZEOF_MM_FREENODE
  <2>3. /\ IsFree(down, NextOf(down, node))
        /\ \/ takenext = Size(down, NextOf(down, node))
           \/ Size(down, NextOf(down, node)) - takenext >= SIZEOF_MM_FREENODE
    BY <1>3, <1>4, <2>1, <2>2
  <2>4. /\ Good(GrowUp(down, node, takenext), {}, alone)
        /\ Keeps(down, GrowUp(down, node, takenext), {node})
        /\ node \in Owners(GrowUp(down, node, takenext))
        /\ Size(GrowUp(down, node, takenext), node) = Size(down, node) + takenext
    BY <1>4, <2>3, GoodGrowUp
  <2>5. g = GrowUp(down, node, takenext)
    BY <1>5
  <2> HIDE DEF g
  <2>6. Keeps(h, g, {a, node})
    BY <1>4, <2>4, <2>5 DEF Keeps
  <2>7. Size(g, node) >= Size(h, a) + needed
    BY <1>3, <1>4, <2>4, <2>5
  <2>8. node = a \/ a \notin Owners(g)
    BY <1>4, <2>4, <2>5 DEF Keeps
  <2>9. Good(g, {}, alone) /\ Gives(h, g, a, node, Size(h, a) + needed)
    BY <1>4, <2>4, <2>5, <2>6, <2>7, <2>8 DEF Gives
  <2> QED BY <2>9 DEF g, down, node
<1>6. CASE ~(takenext > 0)
  <2>1. g = down /\ takeprev = needed
    BY <1>6
  <2>2. Good(g, {}, alone) /\ Gives(h, g, a, node, Size(h, a) + needed)
    <3> HIDE DEF g
    <3> QED BY <1>3, <1>4, <2>1 DEF Gives
  <2> QED BY <2>2 DEF g, down, node
<1> QED BY <1>5, <1>6

\* Quotients.
LEMMA DivFacts ==
  ASSUME NEW al \in Nat, al > 0, NEW x \in Nat
  PROVE  /\ x \div al \in Nat
         /\ (x \div al) * al <= x /\ x < (x \div al) * al + al
<1>1. x = al * (x \div al) + (x % al)
  OBVIOUS
<1>2. x % al \in 0 .. al - 1
  OBVIOUS
<1>3. x \div al \in Int
  OBVIOUS
<1>4. x \div al >= 0
  OBVIOUS
<1> DEFINE q == x \div al
<1> HIDE DEF q
<1>5. q * al = al * q /\ al * q \in Int
  BY <1>3 DEF q
<1> QED BY <1>1, <1>2, <1>3, <1>4, <1>5 DEF q

\* Multiples of an alignment are aligned.
LEMMA MulMod ==
  ASSUME NEW al \in Nat, al > 0, NEW q \in Nat
  PROVE  (q * al) % al = 0 /\ (q * al + al) % al = 0
<1>1. (q * al) % al = 0
  BY SMTT(30)
<1>2. q * al + al = (q + 1) * al
  BY SMTT(30)
<1>3. ((q + 1) * al) % al = 0
  BY SMTT(30)
<1> QED BY <1>1, <1>2, <1>3

\* The next multiple of an alignment is less than an alignment away.
LEMMA AlignUpToFacts ==
  ASSUME NEW al \in Nat, al > 0, NEW a \in Nat
  PROVE  /\ AlignUpTo(al, a) \in Nat /\ a <= AlignUpTo(al, a) /\ AlignUpTo(al, a) < a + al
         /\ AlignUpTo(al, a) % al = 0 /\ (AlignUpTo(al, a) + al) % al = 0
<1> DEFINE x == a + al - 1
           q == x \div al
<1>1. x \in Nat
  OBVIOUS
<1>2. AlignUpTo(al, a) = q * al
  BY DEF AlignUpTo
<1> HIDE DEF x
<1>3. q \in Nat /\ q * al <= x /\ x < q * al + al
  BY <1>1, DivFacts
<1> HIDE DEF q
<1>4. (q * al) % al = 0 /\ (q * al + al) % al = 0
  BY <1>3, MulMod
<1>5. q * al \in Nat
  BY <1>3
<1>6. a <= q * al /\ q * al < a + al
  BY <1>3, <1>5 DEF x
<1> QED BY <1>2, <1>4, <1>5, <1>6

\* mm_memalign() cuts size units off the front of a user's chunk.
LEMMA GoodFront ==
  ASSUME NEW h, NEW alone, Good(h, {}, alone), NEW a \in Owners(h),
         NEW size \in Nat, size >= SIZEOF_MM_FREENODE, Size(h, a) - size >= SIZEOF_MM_FREENODE,
         alone => ~IsFree(h, PrevOf(h, a)), NEW node, node = a + size
  PROVE  LET g == AddFreeChunk(Allocated(Freed(Cut(h, a, size), a), node), a)
         IN  /\ Good(g, {}, alone) /\ Gives(h, g, a, node, Size(h, a) - size)
             /\ Size(g, node) = Size(h, a) - size
<1> DEFINE c == Cut(h, a, size)
           f == Freed(c, a)
           d == Allocated(f, node)
           g == AddFreeChunk(d, a)
           p == PrevOf(h, a)
           X == {} \cup {node}
           Y == X \cup {a}
<1>1. IsHeap(h) /\ Tiling(h) /\ a \in DOMAIN h.chunk /\ a \notin Guards /\ h.chunk[a].alloc
  BY DEF Good, Owners
<1>2. NextOf(h, a) \in DOMAIN h.chunk /\ NextOf(h, a) > a /\ p \in DOMAIN h.chunk /\ p < a
  BY <1>1, GuardSets, Neighbours
<1>3. a \in Nat /\ p \in Nat /\ Size(h, a) \in Nat /\ NextOf(h, a) \in Nat
  BY <1>1, <1>2 DEF IsHeap, Size
<1>4. /\ Good(c, {} \cup {a + size}, alone) /\ Keeps(h, c, {a}) /\ Splits(h, c, a, size)
      /\ a + size \notin DOMAIN h.chunk /\ a + size \notin Guards
      /\ NextOf(c, a) = a + size
  <2>1. h.chunk[a].size - size >= SIZEOF_MM_FREENODE
    BY DEF Size
  <2>2. /\ Good(h, {}, alone) /\ a \in DOMAIN h.chunk /\ a \notin Guards
        /\ h.chunk[a].alloc \/ a \in {}
        /\ size \in Nat /\ size >= SIZEOF_MM_FREENODE
    BY <1>1
  <2> QED BY ONLY <2>1, <2>2, GoodCut
<1> HIDE DEF c
<1>5. /\ Good(c, X, alone) /\ node \notin DOMAIN h.chunk /\ node \notin Guards /\ NextOf(c, a) = node
      /\ node \in DOMAIN c.chunk /\ DOMAIN c.chunk = DOMAIN h.chunk \cup {node}
      /\ c.chunk[a].size = size /\ c.chunk[a].preceding = h.chunk[a].preceding
      /\ c.chunk[a].alloc = h.chunk[a].alloc /\ c.chunk[node].size = Size(h, a) - size
  BY <1>4 DEF Splits, Size
<1>6. node # a /\ node # p /\ a # p /\ p # NextOf(h, a)
  BY <1>1, <1>2, <1>3, <1>5
<1>7. c.chunk[p] = h.chunk[p]
  <2>1. p \in DOMAIN c.chunk
    BY <1>2, <1>5
  <2> QED BY <1>4, <1>6, <2>1 DEF Splits, NextOf
<1>8. node \in X /\ \A e \in X : e = node
  OBVIOUS
<1> HIDE DEF X
<1>9. Good(f, Y, alone) /\ Keeps(c, f, {a}) /\ Marks(c, f, a, FALSE)
  BY <1>1, <1>5, GoodFreed
<1> HIDE DEF f
<1>10. node \in DOMAIN f.chunk /\ node \in Y /\ a \in Y \ {node} /\ (Y \ {node}) \ {a} = {}
  BY <1>5, <1>6, <1>8, <1>9 DEF Marks
<1> HIDE DEF Y
<1>11. Good(d, Y \ {node}, alone) /\ Keeps(f, d, {node}) /\ Marks(f, d, node, TRUE)
  BY <1>5, <1>9, <1>10, GoodAllocated
<1> HIDE DEF d, p
<1>12. /\ DOMAIN d.chunk = DOMAIN h.chunk \cup {node}
       /\ d.chunk[a].size = size /\ d.chunk[a].preceding = h.chunk[a].preceding /\ d.chunk[a].alloc = FALSE
       /\ d.chunk[node].size = Size(h, a) - size /\ d.chunk[node].alloc = TRUE
       /\ d.chunk[p] = h.chunk[p]
  BY <1>1, <1>2, <1>5, <1>6, <1>7, <1>9, <1>11 DEF Marks
<1>13. NextOf(d, a) = node /\ PrevOf(d, a) = p
  BY <1>5, <1>12 DEF NextOf, PrevOf, p
<1>14. a \in DOMAIN d.chunk /\ IsFree(d, a) /\ (alone => ~IsFree(d, NextOf(d, a)) /\ ~IsFree(d, PrevOf(d, a)))
  <2>1. a \in DOMAIN d.chunk /\ IsFree(d, a) /\ ~IsFree(d, NextOf(d, a))
    BY <1>1, <1>12, <1>13 DEF IsFree
  <2>2. alone => ~IsFree(h, p)
    BY DEF p
  <2>3. alone => ~IsFree(d, p)
    BY <1>12, <2>2 DEF IsFree
  <2> QED BY <1>13, <2>1, <2>3
<1>15. Good(g, (Y \ {node}) \ {a}, alone) /\ g.chunk = d.chunk /\ g.nregions = d.nregions
  <2> DEFINE Z == Y \ {node}
  <2>1. Good(d, Z, alone) /\ a \in Z
    BY <1>10, <1>11
  <2> HIDE DEF Z
  <2>2. Good(g, Z \ {a}, alone) /\ g.chunk = d.chunk /\ g.nregions = d.nregions
    BY <1>14, <2>1, GoodAdd
  <2> QED BY <2>2 DEF Z
<1> HIDE DEF g
<1>16. Good(g, {}, alone)
  BY <1>10, <1>15
<1>17. /\ node \in Owners(g) /\ node \notin Owners(h) /\ a \notin Owners(g)
       /\ Size(g, node) = Size(h, a) - size
  BY <1>5, <1>12, <1>15 DEF Owners, Size
<1>18. Keeps(h, g, {a, node})
  BY <1>4, <1>9, <1>11, <1>15 DEF Keeps, Owners, Size
<1>19. Good(g, {}, alone) /\ Gives(h, g, a, node, Size(h, a) - size) /\ Size(g, node) = Size(h, a) - size
  BY <1>3, <1>16, <1>17, <1>18 DEF Gives
<1> QED BY <1>19 DEF g, d, f, c

\* Users' chunks lie between the guards of a region and do not overlap.
LEMMA OwnersApart ==
  ASSUME NEW h, NEW alone, Good(h, {}, alone), NEW a \in Owners(h)
  PROVE  /\ a \in Nat /\ Size(h, a) \in Nat /\ Size(h, a) >= SIZEOF_MM_FREENODE
         /\ \E r \in 1 .. h.nregions : HeapStart(r) + 1 <= a /\ a + Size(h, a) <= HeapEnd(r)
         /\ \A b \in Owners(h) : b # a => a + Size(h, a) <= b \/ b + Size(h, b) <= a
<1>1. IsHeap(h) /\ Tiling(h) /\ a \in DOMAIN h.chunk /\ a \notin Guards /\ a \notin Ends /\ a \notin Starts
  BY GuardSets DEF Good, Owners
<1>2. \A c \in DOMAIN h.chunk : c \in Nat /\ Size(h, c) \in Nat /\ NextOf(h, c) = c + Size(h, c)
  BY <1>1 DEF IsHeap, Size, NextOf
<1>3. \A c \in DOMAIN h.chunk \ Guards : \A b \in DOMAIN h.chunk : b <= c \/ b >= c + Size(h, c)
  BY <1>1, <1>2, GuardSets DEF Tiling, Forward
<1>4. Size(h, a) >= SIZEOF_MM_FREENODE
  BY <1>1 DEF Tiling, Large, Size
<1>5. PICK r \in 1 .. h.nregions : HeapStart(r) <= a /\ a <= HeapEnd(r)
  BY <1>1 DEF Tiling, Guarded
<1>6. r \in DOMAIN Region /\ HeapStart(r) \in Nat /\ HeapEnd(r) \in Nat
  BY <1>1, RegionFacts DEF IsHeap
<1>7. HeapStart(r) # a /\ HeapEnd(r) # a /\ HeapEnd(r) \in DOMAIN h.chunk
  BY <1>1, <1>6 DEF Guards, Tiling, Guarded
<1>8. HeapStart(r) + 1 <= a /\ a + Size(h, a) <= HeapEnd(r)
  BY <1>1, <1>2, <1>3, <1>5, <1>6, <1>7
<1>9. ASSUME NEW b \in Owners(h), b # a PROVE a + Size(h, a) <= b \/ b + Size(h, b) <= a
  <2>1. b \in DOMAIN h.chunk /\ b \notin Guards
    BY DEF Owners
  <2> QED BY <1>1, <1>2, <1>3, <1>9, <2>1
<1> QED BY <1>1, <1>2, <1>4, <1>8, <1>9

-----------------------------------------------------------------------------
(***************************************************************************)
(* The inductive invariant.                                                *)
(***************************************************************************)

\* A chunk between the two halves of mm_memalign() is nobody's to give back, and
\* as long as the first half has asked for; two calls never have the same one.
RawChunks ==
    /\ \A r \in raw : /\ r.al \in Alignment /\ r.n \in Request
                      /\ r.chunk \in Owners(heap)
                      /\ Size(heap, r.chunk) >= Need(AlignedSize(r.al, r.n))
    /\ \A r, s \in raw : r # s => r.chunk # s.chunk

IInv == Good(heap, {}, ~loose) /\ loose \in BOOLEAN /\ RawChunks

\* The chunks of the model are the owners of the proofs.
LEMMA OwnersAreChunks == Chunks = Owners(heap)
  BY DEF Chunks, Owners

\* One region, handed over to an empty heap, is a good heap.
LEMMA InitInv == Init => IInv
<1> SUFFICES ASSUME Init PROVE IInv
  OBVIOUS
<1>1. Good(NoRegion, {}, TRUE) /\ NoRegion.nregions = 0
  BY GoodNoRegion
<1>2. NoRegion.nregions < Len(Region)
  BY <1>1, RegionFacts
<1>3. Good(AddedRegion(NoRegion), {}, TRUE)
  BY <1>1, <1>2, GoodAddRegion
<1> QED BY <1>3 DEF Init, IInv, RawChunks

\* A call of mm_malloc() that takes a chunk, or that finds none.
Taken(n) ==
    \/ heap' = heap /\ ret' = 0 /\ Fitting(heap, Need(n)) = {}
    \/ \E a \in Nat : /\ a \notin Owners(heap) /\ ret' = a + SIZEOF_MM_ALLOCNODE
                      /\ Gives(heap, heap', a, a, Need(n))

\* mm_malloc() gives a chunk that was nobody's, or finds none.
LEMMA AllocateStep ==
  ASSUME IInv, NEW n \in Nat, n > 0, Allocate(n)
  PROVE  Good(heap', {}, ~loose') /\ loose' = loose /\ torn' = torn /\ asked' = Need(n) /\ Taken(n)
<1> DEFINE size == Need(n)
           fit == Fitting(heap, size)
           a == FirstFit(heap, fit)
<1>1. size \in Nat /\ size >= SIZEOF_MM_FREENODE
  BY NeedFacts
<1>2. Good(heap, {}, ~loose) /\ loose' = loose /\ torn' = torn /\ asked' = Need(n)
  BY DEF IInv, Allocate
<1>3. CASE fit = {}
  BY <1>2, <1>3 DEF Allocate, Taken
<1>4. CASE fit # {}
  <2>1. heap' = Take(heap, a, size) /\ ret' = a + SIZEOF_MM_ALLOCNODE
    BY <1>4 DEF Allocate
  <2> HIDE DEF size
  <2>2. a \in Listable(heap, {}) /\ Size(heap, a) >= size
    BY <1>1, <1>2, <1>4, FirstFitFacts
  <2> HIDE DEF a
  <2>3. /\ Good(heap', {}, ~loose) /\ Keeps(heap, heap', {a})
        /\ a \notin Owners(heap) /\ a \in Owners(heap') /\ Size(heap', a) >= size
    BY <1>1, <1>2, <2>1, <2>2, GoodTake
  <2>4. Gives(heap, heap', a, a, size)
    BY <2>3 DEF Gives, Keeps
  <2>5. a \in Nat
    BY <1>2, <2>2 DEF Good, IsHeap, Listable
  <2> QED BY <1>2, <2>1, <2>3, <2>4, <2>5 DEF Taken, size
<1> QED BY <1>3, <1>4

\* mm_free() takes one chunk from its owner.
LEMMA FreeStep ==
  ASSUME IInv, NEW a \in Owners(heap), Free(a)
  PROVE  Good(heap', {}, ~loose') /\ Keeps(heap, heap', {a}) /\ a \notin Owners(heap')
<1>1. Good(heap, {}, ~loose) /\ loose' = loose /\ heap' = Release(heap, a)
  BY DEF IInv, Free
<1> QED BY <1>1, GoodRelease

\* A call of mm_realloc() for chunk a: it has moved, or no room was found.
Moved(a, n) ==
    \/ heap' = heap /\ ret' = 0 /\ Fitting(heap, Need(n)) = {}
    \/ \E node \in Nat : /\ ret' = node + SIZEOF_MM_ALLOCNODE
                         /\ Gives(heap, heap', a, node, Need(n))

\* mm_realloc() to a size that is not larger stays where it is.
LEMMA ShrinkStep ==
  ASSUME IInv, NEW a \in Owners(heap), NEW n \in Nat, n > 0, ReallocShrink(a, n)
  PROVE  Good(heap', {}, ~loose') /\ Moved(a, n)
<1> DEFINE size == Need(n)
<1>1. size \in Nat /\ size >= SIZEOF_MM_FREENODE
  BY NeedFacts
<1>2. Good(heap, {}, ~loose) /\ loose' = loose /\ ret' = a + SIZEOF_MM_ALLOCNODE /\ size <= Size(heap, a)
  BY DEF IInv, ReallocShrink
<1>3. a \in Nat /\ Size(heap, a) \in Nat
  BY <1>2, OwnersApart
<1>4. Good(heap', {}, ~loose) /\ Gives(heap, heap', a, a, size)
  <2>1. CASE size < Size(heap, a)
    <3>1. heap' = ShrinkChunk(heap, a, size)
      BY <2>1 DEF ReallocShrink
    <3> HIDE DEF size
    <3>2. /\ Good(heap', {}, ~loose) /\ Keeps(heap, heap', {a})
          /\ a \in Owners(heap') /\ size <= Size(heap', a)
      <4>1. Size(heap, a) > size
        BY <1>1, <1>3, <2>1
      <4> QED BY <1>1, <1>2, <3>1, <4>1, GoodShrink
    <3>3. Size(heap', a) \in Nat
      BY <3>2, OwnersApart
    <3> QED BY <1>1, <3>2, <3>3 DEF Gives, Keeps
  <2>2. CASE ~(size < Size(heap, a))
    <3>1. heap' = heap
      BY <2>2 DEF ReallocShrink
    <3> HIDE DEF size
    <3>2. Size(heap, a) >= size
      BY <1>1, <1>2, <1>3
    <3> QED BY <1>2, <3>1, <3>2 DEF Gives, Keeps
  <2> QED BY <2>1, <2>2
<1> QED BY <1>2, <1>3, <1>4 DEF Moved

\* mm_realloc() into its neighbours tears the heap or gives a larger chunk.
LEMMA GrowStep ==
  ASSUME IInv, NEW a \in Owners(heap), NEW n \in Nat, n > 0, ReallocGrow(a, n)
  PROVE  \/ torn' = TRUE /\ UNCHANGED <<heap, ret, raw, asked, loose>>
         \/ /\ Good(heap', {}, ~loose') /\ Moved(a, n)
            /\ asked' = Need(n) /\ UNCHANGED <<raw, loose, torn>>
<1> DEFINE oldsize == Size(heap, a)
           prevsize == FreeSize(heap, PrevOf(heap, a))
           nextsize == FreeSize(heap, NextOf(heap, a))
           needed == Need(n) - oldsize
           takeprev == TakePrev(prevsize, nextsize, needed)
           takenext == needed - takeprev
           node == a - takeprev
           down == IF takeprev > 0 THEN GrowDown(heap, a, takeprev) ELSE heap
           TooSmall(rest) == 0 < rest /\ rest < SIZEOF_MM_FREENODE
           Tears == \/ takeprev > 0 /\ TooSmall(prevsize - takeprev)
                    \/ takenext > 0 /\ TooSmall(nextsize - takenext)
<1>1. /\ needed > 0 /\ prevsize + nextsize >= needed
      /\ Tears => torn' = TRUE /\ UNCHANGED <<heap, ret, raw, asked, loose>>
      /\ ~Tears => /\ heap' = IF takenext > 0 THEN GrowUp(down, node, takenext) ELSE down
                   /\ ret' = node + SIZEOF_MM_ALLOCNODE
                   /\ asked' = Need(n) /\ UNCHANGED <<raw, loose, torn>>
  BY DEF ReallocGrow
<1>2. CASE Tears
  BY <1>1, <1>2
<1>3. CASE ~Tears
  <2>1. Good(heap, {}, ~loose) /\ IsHeap(heap) /\ Tiling(heap) /\ a \in DOMAIN heap.chunk /\ a \notin Guards
    BY DEF IInv, Good, Owners
  <2>2. PrevOf(heap, a) \in DOMAIN heap.chunk /\ NextOf(heap, a) \in DOMAIN heap.chunk
    BY <2>1, GuardSets, Neighbours
  <2>3. prevsize \in Nat /\ nextsize \in Nat /\ oldsize \in Nat /\ a \in Nat
    BY <2>1, <2>2, FreeSizeFacts DEF IsHeap
  <2>4. Need(n) \in Nat
    BY NeedFacts
  <2>5. /\ heap' = IF takenext > 0 THEN GrowUp(down, node, takenext) ELSE down
        /\ ret' = node + SIZEOF_MM_ALLOCNODE /\ asked' = Need(n) /\ UNCHANGED <<raw, loose, torn>>
    BY <1>1, <1>3
  <2>6. needed \in Nat /\ oldsize + needed = Need(n)
    BY <1>1, <2>3, <2>4
  <2> HIDE DEF prevsize, nextsize, oldsize, needed
  <2>7. takeprev \in Nat /\ takeprev <= prevsize /\ takenext \in Nat /\ takenext <= nextsize
    BY <1>1, <2>3, <2>6, TakePrevFacts
  <2> HIDE DEF takeprev
  <2>8. takeprev + takenext = needed
    BY <2>6, <2>7
  <2> HIDE DEF takenext
  <2>9. /\ takeprev > 0 => takeprev = prevsize \/ prevsize - takeprev >= SIZEOF_MM_FREENODE
        /\ takenext > 0 => takenext = nextsize \/ nextsize - takenext >= SIZEOF_MM_FREENODE
    BY <1>3, <2>3, <2>7 DEF SIZEOF_MM_FREENODE
  <2>10. Good(heap', {}, ~loose) /\ Gives(heap, heap', a, node, Size(heap, a) + needed)
    <3>1. /\ takeprev > 0 => \/ takeprev = FreeSize(heap, PrevOf(heap, a))
                             \/ FreeSize(heap, PrevOf(heap, a)) - takeprev >= SIZEOF_MM_FREENODE
          /\ takenext > 0 => \/ takenext = FreeSize(heap, NextOf(heap, a))
                             \/ FreeSize(heap, NextOf(heap, a)) - takenext >= SIZEOF_MM_FREENODE
      BY <2>9 DEF prevsize, nextsize
    <3> QED BY <2>1, <2>5, <2>6, <2>7, <2>8, <3>1, GoodGrow
  <2>11. Gives(heap, heap', a, node, Need(n))
    BY <2>6, <2>10 DEF oldsize
  <2>12. node \in Nat
    BY <2>10, OwnersApart DEF Gives
  <2> QED BY <2>5, <2>10, <2>11, <2>12 DEF Moved
<1> QED BY <1>2, <1>3

\* mm_realloc() to another place gives a new chunk for the old one, or none.
LEMMA MoveStep ==
  ASSUME IInv, NEW a \in Owners(heap), NEW n \in Nat, n > 0, ReallocMove(a, n)
  PROVE  Good(heap', {}, ~loose') /\ Moved(a, n)
<1> DEFINE size == Need(n)
           fit == Fitting(heap, size)
           b == FirstFit(heap, fit)
           t == Take(heap, b, size)
<1>1. size \in Nat /\ size >= SIZEOF_MM_FREENODE
  BY NeedFacts
<1>2. Good(heap, {}, ~loose) /\ loose' = loose
  BY DEF IInv, ReallocMove
<1>3. CASE fit = {}
  BY <1>2, <1>3 DEF ReallocMove, Moved
<1>4. CASE fit # {}
  <2>1. heap' = Release(t, a) /\ ret' = b + SIZEOF_MM_ALLOCNODE
    BY <1>4 DEF ReallocMove
  <2> HIDE DEF size
  <2>2. b \in Listable(heap, {}) /\ Size(heap, b) >= size
    BY <1>1, <1>2, <1>4, FirstFitFacts
  <2> HIDE DEF b
  <2>3. /\ Good(t, {}, ~loose) /\ Keeps(heap, t, {b})
        /\ b \notin Owners(heap) /\ b \in Owners(t) /\ Size(t, b) >= size
    BY <1>1, <1>2, <2>2, GoodTake
  <2> HIDE DEF t
  <2>4. a # b /\ a \in Owners(t)
    BY <2>3 DEF Keeps
  <2>5. Good(heap', {}, ~loose) /\ Keeps(t, heap', {a}) /\ a \notin Owners(heap')
    BY <2>1, <2>3, <2>4, GoodRelease
  <2>6. Gives(heap, heap', a, b, size)
    BY <2>3, <2>4, <2>5 DEF Gives, Keeps
  <2>7. b \in Nat
    BY <1>2, <2>2 DEF Good, IsHeap, Listable
  <2> QED BY <1>2, <2>1, <2>5, <2>6, <2>7 DEF Moved, size
<1> QED BY <1>3, <1>4

\* The second half of mm_memalign(): the block lies within the chunk it was cut
\* from.
Aligned(r) ==
    \E node \in Nat : /\ ret' = node + SIZEOF_MM_ALLOCNODE /\ ret' % r.al = 0
                      /\ Gives(heap, heap', r.chunk, node, r.n + 1)
                      /\ r.chunk <= node
                      /\ node + Size(heap', node) <= r.chunk + Size(heap, r.chunk)

\* The second half of mm_memalign() cuts an aligned chunk out of the first's.
LEMMA AlignStep ==
  ASSUME IInv, NEW r \in raw, Align(r)
  PROVE  Good(heap', {}, ~loose') /\ loose' \in BOOLEAN /\ (loose => loose') /\ Aligned(r)
<1> DEFINE a == r.chunk
           start == a + SIZEOF_MM_ALLOCNODE
           up == AlignUpTo(r.al, start)
           aligned == IF up # start /\ up - start < SIZEOF_MM_FREENODE THEN up + r.al ELSE up
           node == aligned - SIZEOF_MM_ALLOCNODE
           front == IF node = a THEN heap
                    ELSE AddFreeChunk(Allocated(Freed(Cut(heap, a, node - a), a), node), a)
           size == MM_ALIGN_UP(r.n)
           keep == size + SIZEOF_MM_ALLOCNODE
           long == IF node = a THEN AlignedSize(r.al, r.n) > size
                   ELSE Size(front, node) - SIZEOF_MM_ALLOCNODE > size
<1>1. /\ heap' = IF long THEN ShrinkChunk(front, node, keep) ELSE front
      /\ ret' = aligned
      /\ loose' = (loose \/ (node # a /\ IsFree(heap, PrevOf(heap, a))))
  BY DEF Align
<1>2. Good(heap, {}, ~loose) /\ loose \in BOOLEAN
  BY DEF IInv
<1>3. a \in Owners(heap) /\ Size(heap, a) >= Need(AlignedSize(r.al, r.n)) /\ r.al \in Alignment /\ r.n \in Request
  BY DEF IInv, RawChunks
<1>4. r.al \in Nat /\ r.al > 2 /\ r.n \in Nat /\ r.n > 0
  <2>1. \A al \in Alignment : al \in Nat /\ al > 2
    BY AlignmentAssumption DEF MM_MIN_CHUNK
  <2>2. \A n \in Request : n \in Nat /\ n > 0
    BY RequestAssumption
  <2> QED BY <1>3, <2>1, <2>2
<1>5. a \in Nat /\ Size(heap, a) \in Nat
  BY <1>2, <1>3, OwnersApart
<1>6. size \in Nat /\ size >= r.n /\ size >= 2 /\ keep = size + 1
  BY <1>4 DEF MM_ALIGN_UP, MM_MIN_CHUNK, SIZEOF_MM_ALLOCNODE
<1>7. AlignedSize(r.al, r.n) = size + 2 * r.al
  BY DEF AlignedSize
<1>8. Size(heap, a) >= size + 2 * r.al + 1
  <2> DEFINE as == AlignedSize(r.al, r.n)
  <2>1. as \in Nat /\ as > 0
    BY <1>4, <1>6, <1>7
  <2> HIDE DEF as
  <2>2. Need(as) \in Nat /\ Need(as) >= as + 1
    BY <2>1, NeedFacts
  <2>3. Size(heap, a) >= as + 1
    BY <1>3, <1>5, <2>1, <2>2 DEF as
  <2> QED BY <1>4, <1>5, <1>6, <1>7, <2>3 DEF as
<1>9. start = a + 1 /\ start \in Nat
  BY <1>5 DEF SIZEOF_MM_ALLOCNODE
<1>10. /\ up \in Nat /\ start <= up /\ up < start + r.al
       /\ up % r.al = 0 /\ (up + r.al) % r.al = 0
  <2>1. r.al > 0
    BY <1>4
  <2> HIDE DEF start
  <2> QED BY <1>4, <1>9, <2>1, AlignUpToFacts
<1> HIDE DEF start, up, size
<1>11. /\ aligned \in Nat /\ node \in Nat /\ aligned = node + 1 /\ node >= a
       /\ node # a => node - a >= 2
       /\ node - a <= r.al + 1
       /\ aligned % r.al = 0
  <2>1. CASE up # start /\ up - start < SIZEOF_MM_FREENODE
    BY <1>4, <1>5, <1>9, <1>10, <2>1 DEF SIZEOF_MM_FREENODE, SIZEOF_MM_ALLOCNODE
  <2>2. CASE ~(up # start /\ up - start < SIZEOF_MM_FREENODE)
    BY <1>4, <1>5, <1>9, <1>10, <2>2 DEF SIZEOF_MM_FREENODE, SIZEOF_MM_ALLOCNODE
  <2> QED BY <2>1, <2>2
<1>12. ret' = node + SIZEOF_MM_ALLOCNODE /\ ret' % r.al = 0
  BY <1>1, <1>11 DEF SIZEOF_MM_ALLOCNODE
<1> HIDE DEF aligned, keep
<1> DEFINE cut == node - a
<1>13. cut \in Nat /\ Size(heap, a) - cut >= size + 3 /\ (node # a => cut >= 2)
  BY <1>4, <1>5, <1>6, <1>8, <1>11
<1>14. loose' \in BOOLEAN /\ (loose => loose') /\ (node = a => loose' = loose)
       /\ (~loose' => ~loose /\ (node # a => ~IsFree(heap, PrevOf(heap, a))))
  BY <1>1, <1>2 DEF IsFree
<1>15. Good(heap, {}, ~loose')
  BY <1>2, <1>14 DEF Good
<1> HIDE DEF node
<1>16. /\ Good(front, {}, ~loose') /\ node \in Owners(front) /\ Size(front, node) = Size(heap, a) - cut
       /\ node = a \/ (node \notin Owners(heap) /\ a \notin Owners(front))
       /\ Keeps(heap, front, {a, node})
  <2>1. CASE node = a
    <3>1. front = heap /\ cut = 0
      BY <1>5, <2>1
    <3>2. Keeps(heap, heap, {a, node})
      BY DEF Keeps
    <3> HIDE DEF front, a, cut
    <3>3. Size(heap, a) = Size(heap, a) - 0
      BY <1>5
    <3> QED BY <1>3, <1>15, <2>1, <3>1, <3>2, <3>3
  <2>2. CASE node # a
    <3>1. front = AddFreeChunk(Allocated(Freed(Cut(heap, a, cut), a), node), a)
      BY <2>2
    <3>2. /\ node = a + cut /\ cut >= SIZEOF_MM_FREENODE /\ Size(heap, a) - cut >= SIZEOF_MM_FREENODE
          /\ ~loose' => ~IsFree(heap, PrevOf(heap, a))
      BY <1>5, <1>6, <1>11, <1>13, <1>14, <2>2 DEF SIZEOF_MM_FREENODE
    <3> HIDE DEF front, a, cut
    <3>3. /\ Good(front, {}, ~loose') /\ Gives(heap, front, a, node, Size(heap, a) - cut)
          /\ Size(front, node) = Size(heap, a) - cut
      <4> DEFINE alone == ~loose'
      <4>1. /\ a \in Owners(heap) /\ cut \in Nat /\ Good(heap, {}, alone)
            /\ alone => ~IsFree(heap, PrevOf(heap, a))
        BY <1>3, <1>13, <1>15, <3>2
      <4> HIDE DEF alone
      <4>2. Good(front, {}, alone) /\ Gives(heap, front, a, node, Size(heap, a) - cut)
            /\ Size(front, node) = Size(heap, a) - cut
        BY <3>1, <3>2, <4>1, GoodFront
      <4> QED BY <4>2 DEF alone
    <3> QED BY <2>2, <3>3 DEF Gives
  <2> QED BY <2>1, <2>2
<1>17. long => Size(front, node) > keep
  <2> HIDE DEF front, a, cut
  <2>1. CASE node = a
    BY <1>5, <1>6, <1>13, <1>16
  <2>2. CASE node # a
    BY <1>5, <1>6, <1>13, <1>16, <2>2 DEF SIZEOF_MM_ALLOCNODE
  <2> QED BY <2>1, <2>2
<1>18. /\ Good(heap', {}, ~loose') /\ node \in Owners(heap') /\ Keeps(front, heap', {node})
       /\ Size(heap', node) >= r.n + 1 /\ Size(heap', node) <= Size(front, node)
  <2>1. CASE long
    <3>1. heap' = ShrinkChunk(front, node, keep)
      BY <1>1, <2>1
    <3>2. keep \in Nat /\ keep >= SIZEOF_MM_FREENODE
      BY <1>6 DEF SIZEOF_MM_FREENODE
    <3>3. Size(front, node) > keep
      BY <1>17, <2>1
    <3> HIDE DEF front, long
    <3>4. /\ Good(heap', {}, ~loose') /\ Keeps(front, heap', {node})
          /\ node \in Owners(heap') /\ keep <= Size(heap', node) /\ Size(heap', node) <= Size(front, node)
      BY <1>16, <3>1, <3>2, <3>3, GoodShrink
    <3>5. Size(heap', node) \in Nat
      BY <3>4, OwnersApart
    <3> QED BY <1>4, <1>6, <3>2, <3>4, <3>5
  <2>2. CASE ~long
    <3>1. heap' = front
      BY <1>1, <2>2
    <3>2. Keeps(front, front, {node})
      BY DEF Keeps
    <3>3. Size(front, node) \in Nat /\ Size(front, node) >= r.n + 1
      <4> HIDE DEF front, a, cut
      <4> QED BY <1>4, <1>5, <1>6, <1>13, <1>16
    <3> HIDE DEF front, long
    <3> QED BY <1>16, <3>1, <3>2, <3>3
  <2> QED BY <2>1, <2>2
<1> HIDE DEF front, long
<1>19. Gives(heap, heap', a, node, r.n + 1)
  BY <1>16, <1>18 DEF Gives, Keeps
<1>20. node + Size(heap', node) <= a + Size(heap, a)
  <2>1. Size(heap', node) \in Nat
    BY <1>18, OwnersApart
  <2> QED BY <1>5, <1>11, <1>13, <1>16, <1>18, <2>1
<1>21. a <= node /\ node \in Nat
  BY <1>5, <1>11
<1> QED BY <1>12, <1>14, <1>18, <1>19, <1>20, <1>21 DEF Aligned

\* What a user has stays as it is when another chunk is given, moved or released.
LEMMA RawKept ==
  ASSUME RawChunks, raw' \subseteq raw, NEW S, Keeps(heap, heap', S), \A r \in raw' : r.chunk \notin S
  PROVE  RawChunks'
  BY DEF RawChunks, Keeps

\* Moving or giving a chunk that is nobody's raw one.
LEMMA RawMoved ==
  ASSUME RawChunks, raw' \subseteq raw, NEW a, NEW node, NEW size, Gives(heap, heap', a, node, size),
         \A r \in raw' : r.chunk # a
  PROVE  RawChunks'
<1>1. \A r \in raw' : r.chunk \notin {a, node}
  BY DEF Gives, RawChunks
<1> QED BY <1>1, RawKept DEF Gives

\* Every step of the heap keeps the inductive invariant.
LEMMA NextInv == IInv /\ [Next]_vars => IInv'
<1> SUFFICES ASSUME IInv, [Next]_vars PROVE IInv'
  OBVIOUS
<1>1. Good(heap, {}, ~loose) /\ loose \in BOOLEAN /\ RawChunks
  BY DEF IInv
<1>2. CASE AddRegion
  <2>1. /\ heap' = AddedRegion(heap) /\ heap.nregions < Len(Region) /\ raw' = raw /\ raw = {}
        /\ loose' = loose
    BY <1>2 DEF AddRegion
  <2>2. Good(heap', {}, ~loose)
    BY <1>1, <2>1, GoodAddRegion
  <2> QED BY <1>1, <2>1, <2>2 DEF IInv, RawChunks
<1>3. ASSUME NEW n \in Request, Malloc(n) PROVE IInv'
  <2>1. n \in Nat /\ n > 0
    BY RequestAssumption
  <2>2. Good(heap', {}, ~loose') /\ loose' = loose /\ Taken(n) /\ raw' = raw
    BY <1>3, <2>1, AllocateStep DEF Malloc
  <2>3. RawChunks'
    <3>1. CASE heap' = heap
      BY <1>1, <2>2, <3>1 DEF RawChunks
    <3>2. CASE \E a \in Nat : a \notin Owners(heap) /\ Gives(heap, heap', a, a, Need(n))
      <4>1. PICK a : a \notin Owners(heap) /\ Gives(heap, heap', a, a, Need(n))
        BY <3>2
      <4>2. \A r \in raw : r.chunk # a
        BY <1>1, <4>1 DEF RawChunks
      <4> QED BY <1>1, <2>2, <4>1, <4>2, RawMoved
    <3> QED BY <2>2, <3>1, <3>2 DEF Taken
  <2> QED BY <1>1, <2>2, <2>3 DEF IInv
<1>4. ASSUME NEW n \in Request, NEW al \in Alignment, MemAlign(al, n) PROVE IInv'
  <2> DEFINE as == AlignedSize(al, n)
  <2>1. as \in Nat /\ as > 0
    BY RequestAssumption, AlignmentAssumption DEF AlignedSize, MM_ALIGN_UP, MM_MIN_CHUNK
  <2>2. /\ Allocate(as)
        /\ raw' = IF ret' = 0 THEN raw
                  ELSE raw \cup {[chunk |-> ret' - SIZEOF_MM_ALLOCNODE, al |-> al, n |-> n]}
    BY <1>4 DEF MemAlign
  <2> HIDE DEF as
  <2>3. Good(heap', {}, ~loose') /\ loose' = loose /\ Taken(as)
    BY <2>1, <2>2, AllocateStep
  <2>4. RawChunks'
    <3>1. CASE heap' = heap /\ ret' = 0
      BY <1>1, <2>2, <3>1 DEF RawChunks
    <3>2. CASE \E a \in Nat : /\ a \notin Owners(heap) /\ ret' = a + SIZEOF_MM_ALLOCNODE
                              /\ Gives(heap, heap', a, a, Need(as))
      <4>1. PICK a \in Nat : /\ a \notin Owners(heap) /\ ret' = a + SIZEOF_MM_ALLOCNODE
                             /\ Gives(heap, heap', a, a, Need(as))
        BY <3>2
      <4> DEFINE new == [chunk |-> a, al |-> al, n |-> n]
      <4>2. raw' = raw \cup {new}
        BY <2>2, <4>1 DEF SIZEOF_MM_ALLOCNODE
      <4>3. a \in Owners(heap') /\ Size(heap', a) >= Need(AlignedSize(al, n))
        BY <4>1 DEF Gives, as
      <4>4. new.chunk = a /\ new.al = al /\ new.n = n
        OBVIOUS
      <4> HIDE DEF new
      <4>5. \A r \in raw : r.chunk \in Owners(heap) /\ r.chunk # a
        BY <1>1, <4>1 DEF RawChunks
      <4>6. Keeps(heap, heap', {a})
        BY <4>1 DEF Gives
      <4>7. \A r \in raw : /\ r.al \in Alignment /\ r.n \in Request
                           /\ r.chunk \in Owners(heap')
                           /\ Size(heap', r.chunk) >= Need(AlignedSize(r.al, r.n))
        BY <1>1, <4>5, <4>6 DEF RawChunks, Keeps
      <4>8. \A r, s \in raw' : r # s => r.chunk # s.chunk
        BY <1>1, <4>2, <4>4, <4>5 DEF RawChunks
      <4>9. \A r \in raw' : /\ r.al \in Alignment /\ r.n \in Request
                            /\ r.chunk \in Owners(heap')
                            /\ Size(heap', r.chunk) >= Need(AlignedSize(r.al, r.n))
        BY <4>2, <4>3, <4>4, <4>7
      <4> QED BY <4>8, <4>9 DEF RawChunks
    <3> QED BY <2>3, <3>1, <3>2 DEF Taken
  <2> QED BY <1>1, <2>3, <2>4 DEF IInv
<1>5. ASSUME NEW r \in raw, Align(r) PROVE IInv'
  <2>1. Good(heap', {}, ~loose') /\ loose' \in BOOLEAN /\ Aligned(r)
    BY <1>5, AlignStep
  <2>2. raw' = raw \ {r}
    BY <1>5 DEF Align
  <2>3. PICK node \in Nat : Gives(heap, heap', r.chunk, node, r.n + 1)
    BY <2>1 DEF Aligned
  <2>4. \A s \in raw' : s.chunk # r.chunk
    BY <1>1, <2>2 DEF RawChunks
  <2>5. raw' \subseteq raw
    BY <2>2
  <2>6. RawChunks'
    BY <1>1, <2>3, <2>4, <2>5, RawMoved
  <2> QED BY <2>1, <2>6 DEF IInv
<1>6. \A a \in Owned : a \in Owners(heap) /\ \A r \in raw : r.chunk # a
  BY OwnersAreChunks DEF Owned
<1>7. ASSUME NEW a \in Owned, Free(a) PROVE IInv'
  <2>1. Good(heap', {}, ~loose') /\ Keeps(heap, heap', {a})
    BY <1>6, <1>7, FreeStep
  <2>2. raw' = raw /\ loose' = loose
    BY <1>7 DEF Free
  <2>3. \A r \in raw : r.chunk \notin {a}
    BY <1>6
  <2>4. RawChunks'
    BY <1>1, <2>1, <2>2, <2>3, RawKept
  <2> QED BY <1>1, <2>1, <2>2, <2>4 DEF IInv
<1>8. ASSUME NEW a \in Owned, NEW n \in Request, Realloc(a, n) PROVE IInv'
  <2>1. n \in Nat /\ n > 0
    BY RequestAssumption
  <2>2. CASE UNCHANGED <<heap, raw, loose>>
    BY <2>2 DEF IInv, RawChunks
  <2>3. CASE Good(heap', {}, ~loose') /\ Moved(a, n) /\ raw' = raw /\ loose' = loose
    <3>1. RawChunks'
      <4>1. CASE heap' = heap
        BY <1>1, <2>3, <4>1 DEF RawChunks
      <4>2. CASE \E node \in Nat : Gives(heap, heap', a, node, Need(n))
        <5>1. PICK node : Gives(heap, heap', a, node, Need(n))
          BY <4>2
        <5> QED BY <1>1, <1>6, <2>3, <5>1, RawMoved
      <4> QED BY <2>3, <4>1, <4>2 DEF Moved
    <3> QED BY <1>1, <2>3, <3>1 DEF IInv
  <2>4. CASE ReallocShrink(a, n)
    BY <1>6, <2>1, <2>3, <2>4, ShrinkStep DEF ReallocShrink
  <2>5. CASE ReallocGrow(a, n)
    BY <1>6, <2>1, <2>2, <2>3, <2>5, GrowStep
  <2>6. CASE ReallocMove(a, n)
    BY <1>6, <2>1, <2>3, <2>6, MoveStep DEF ReallocMove
  <2> QED BY <1>8, <2>4, <2>5, <2>6 DEF Realloc
<1>9. CASE UNCHANGED vars
  BY <1>9 DEF vars, IInv, RawChunks
<1> QED BY <1>2, <1>3, <1>4, <1>5, <1>7, <1>8, <1>9 DEF Next

-----------------------------------------------------------------------------
(***************************************************************************)
(* The heap stays in one piece.                                            *)
(***************************************************************************)

\* What lies between two guards is none.
LEMMA Inside ==
  ASSUME NEW q \in DOMAIN Region, NEW x \in Nat, HeapStart(q) < x, x < HeapEnd(q)
  PROVE  x \notin Guards
<1> SUFFICES ASSUME NEW p \in DOMAIN Region, x = HeapStart(p) \/ x = HeapEnd(p) PROVE FALSE
  BY DEF Guards
<1>1. /\ HeapStart(q) \in Nat /\ HeapEnd(q) \in Nat /\ HeapStart(p) \in Nat /\ HeapEnd(p) \in Nat
      /\ HeapStart(p) < HeapEnd(p)
      /\ p = q \/ HeapEnd(p) < HeapStart(q) \/ HeapEnd(q) < HeapStart(p)
  BY RegionFacts
<1> QED BY <1>1

\* A good heap is intact.
LEMMA InvIntact == IInv => HeapIntact
<1> SUFFICES ASSUME IInv PROVE HeapIntact
  OBVIOUS
<1>1. IsHeap(heap) /\ Tiling(heap) /\ Lists(heap, {}) /\ (~loose => Apart(heap, {}))
  BY DEF IInv, Good
<1>2. \A c \in DOMAIN heap.chunk : c \in Nat
  BY <1>1 DEF IsHeap
<1>3. Tiled
  <2> SUFFICES ASSUME NEW r \in 1 .. heap.nregions
               PROVE  LET here == {a \in DOMAIN heap.chunk : HeapStart(r) <= a /\ a <= HeapEnd(r)}
                      IN  /\ {HeapStart(r), HeapEnd(r)} \subseteq here
                          /\ heap.chunk[HeapStart(r)].alloc /\ heap.chunk[HeapEnd(r)].alloc
                          /\ \A a \in here \ {HeapEnd(r)} :
                                /\ NextOf(heap, a) \in here
                                /\ PrevOf(heap, NextOf(heap, a)) = a
                                /\ \A b \in here : b <= a \/ b >= NextOf(heap, a)
    BY DEF Tiled
  <2> DEFINE F == HeapStart(r)
             L == HeapEnd(r)
             here == {a \in DOMAIN heap.chunk : F <= a /\ a <= L}
  <2>1. r \in DOMAIN Region /\ F \in Nat /\ L \in Nat /\ F < L
    BY <1>1, RegionFacts DEF IsHeap
  <2>2. F \in here /\ L \in here /\ heap.chunk[F].alloc /\ heap.chunk[L].alloc
    BY <1>1, <2>1 DEF Tiling, Guarded
  <2>3. ASSUME NEW a \in here \ {L}
        PROVE  /\ NextOf(heap, a) \in here /\ PrevOf(heap, NextOf(heap, a)) = a
               /\ \A b \in here : b <= a \/ b >= NextOf(heap, a)
    <3>1. a \in Nat /\ a \in DOMAIN heap.chunk /\ F <= a /\ a < L
      BY <1>2, <2>1
    <3>2. a \notin Ends
      <4> SUFFICES ASSUME NEW p \in DOMAIN Region, a = HeapEnd(p) PROVE FALSE
        BY DEF Ends
      <4>1. /\ HeapStart(p) \in Nat /\ HeapEnd(p) \in Nat /\ HeapStart(p) < HeapEnd(p)
            /\ p = r \/ HeapEnd(p) < F \/ L < HeapStart(p)
        <5>1. r \in DOMAIN Region
          BY <2>1
        <5>2. p = r \/ HeapEnd(p) < HeapStart(r) \/ HeapEnd(r) < HeapStart(p)
          BY <5>1, RegionFacts
        <5>3. HeapStart(p) \in Nat /\ HeapEnd(p) \in Nat /\ HeapStart(p) + 3 <= HeapEnd(p)
          BY RegionFacts
        <5> QED BY <5>2, <5>3
      <4> QED BY <2>1, <3>1, <4>1
    <3>3. /\ NextOf(heap, a) \in DOMAIN heap.chunk /\ PrevOf(heap, NextOf(heap, a)) = a
          /\ NextOf(heap, a) > a
      BY <1>1, <3>1, <3>2, Neighbours
    <3>4. \A b \in DOMAIN heap.chunk : b <= a \/ b >= NextOf(heap, a)
      BY <1>1, <3>1, <3>2 DEF Tiling, Forward
    <3>5. F <= NextOf(heap, a) /\ NextOf(heap, a) <= L
      BY <1>2, <2>1, <2>2, <3>1, <3>3, <3>4
    <3> QED BY <3>3, <3>4, <3>5
  <2> QED BY <2>2, <2>3
<1>4. Merged
  <2> SUFFICES ASSUME NEW a \in DOMAIN heap.chunk, IsFree(heap, a)
               PROVE  /\ ~loose => ~IsFree(heap, NextOf(heap, a))
                      /\ Size(heap, a) >= SIZEOF_MM_FREENODE
    BY DEF Merged
  <2>1. Size(heap, a) >= SIZEOF_MM_FREENODE
    BY <1>1, FreeInside DEF Tiling, Large, Size
  <2>2. ~loose => ~IsFree(heap, NextOf(heap, a))
    BY <1>1 DEF Apart, Listable
  <2> QED BY <2>1, <2>2
<1>5. Listed
  <2>1. DOMAIN heap.bins = Bin
    BY <1>1 DEF IsHeap
  <2>2. ASSUME NEW n \in Bin, NEW k \in DOMAIN heap.bins[n]
        PROVE  /\ heap.bins[n][k] \in DOMAIN heap.chunk /\ IsFree(heap, heap.bins[n][k])
               /\ Size2Ndx(Size(heap, heap.bins[n][k])) = n
    BY <1>1, <2>2 DEF Lists, Listable
  <2>3. ASSUME NEW n \in Bin, NEW j \in DOMAIN heap.bins[n], NEW k \in DOMAIN heap.bins[n], j < k
        PROVE  /\ heap.bins[n][j] # heap.bins[n][k]
               /\ Size(heap, heap.bins[n][j]) <= Size(heap, heap.bins[n][k])
    BY <1>1, <2>3 DEF Lists
  <2>4. ASSUME NEW a \in DOMAIN heap.chunk, IsFree(heap, a)
        PROVE  \E n \in Bin : \E k \in DOMAIN heap.bins[n] : heap.bins[n][k] = a
    BY <1>1, <2>4 DEF Lists, Listable, InBin
  <2> QED BY <2>1, <2>2, <2>3, <2>4 DEF Listed
<1> QED BY <1>3, <1>4, <1>5 DEF HeapIntact

\* For any regions, requests and alignments: up to the step in which realloc()
\* tears it, the heap's chunks tile its regions, its free chunks are merged and
\* large enough for their links, and its lists hold just these, by size.
THEOREM HeapStaysIntact == Spec => []HeapIntact
<1>1. Init => IInv
  BY InitInv
<1>2. IInv /\ [Next]_vars => IInv'
  BY NextInv
<1>3. IInv => HeapIntact
  BY InvIntact
<1> QED BY <1>1, <1>2, <1>3, PTL DEF Spec

-----------------------------------------------------------------------------
(***************************************************************************)
(* The heap implements Allocator.                                          *)
(***************************************************************************)

\* The allocator's blocks are the users' chunks, before a step and after it.
LEMMA BlocksAre ==
  /\ DOMAIN Blocks = Owners(heap) /\ \A c \in Owners(heap) : Blocks[c] = Size(heap, c)
  /\ DOMAIN Blocks' = Owners(heap') /\ \A c \in Owners(heap') : Blocks'[c] = Size(heap', c)
  BY DEF Blocks, Chunks, Owners

\* The usable memory of a region lies between its guards.
LEMMA UsableFacts ==
  \A r \in DOMAIN Region : /\ Usable[r].from = HeapStart(r) + 1
                           /\ Usable[r].to = HeapEnd(r)
  BY DEF Usable, SIZEOF_MM_ALLOCNODE

\* What a function gives is a block beside those kept.
LEMMA GiveStep ==
  ASSUME NEW alone, Good(heap', {}, alone), NEW old, NEW node \in Nat, NEW size,
         Gives(heap, heap', old, node, size), ret' = node + SIZEOF_MM_ALLOCNODE,
         NEW kept, DOMAIN kept = Owners(heap) \ {old},
         \A b \in DOMAIN kept : kept[b] = Size(heap, b)
  PROVE  Memory!Give(kept, size)
<1>1. ret' - 1 = node
  BY DEF SIZEOF_MM_ALLOCNODE
<1>2. /\ node \in Owners(heap') /\ Size(heap', node) >= size
      /\ node = old \/ (node \notin Owners(heap) /\ old \notin Owners(heap'))
      /\ heap'.nregions = heap.nregions
  BY DEF Gives, Keeps
<1>3. ASSUME NEW c, c # old, c # node
      PROVE  /\ c \in Owners(heap) <=> c \in Owners(heap')
             /\ c \in Owners(heap) => Size(heap', c) = Size(heap, c)
  BY <1>3 DEF Gives, Keeps
<1>4. node \in DOMAIN Blocks' \ DOMAIN kept
  BY <1>2, BlocksAre
<1>5. DOMAIN Blocks' = DOMAIN kept \cup {node}
  <2>1. ASSUME NEW c \in DOMAIN kept PROVE c \in Owners(heap) /\ c # old /\ c # node
    BY <1>2, <2>1
  <2>2. ASSUME NEW c \in Owners(heap'), c # node PROVE c \in DOMAIN kept
    BY <1>2, <1>3, <2>2
  <2>3. ASSUME NEW c \in DOMAIN kept PROVE c \in Owners(heap')
    BY <1>3, <2>1, <2>3
  <2>4. Owners(heap') = DOMAIN kept \cup {node}
    BY <1>2, <2>2, <2>3, Zenon
  <2> QED BY <2>4, BlocksAre
<1>6. ASSUME NEW b \in DOMAIN kept
      PROVE  b # node /\ b \in Owners(heap') /\ kept[b] = Size(heap', b) /\ Blocks'[b] = kept[b]
  <2>1. b \in Owners(heap) /\ b # old /\ b # node
    BY <1>2
  <2>2. b \in Owners(heap') /\ Size(heap', b) = Size(heap, b)
    BY <1>3, <2>1
  <2>3. Blocks'[b] = Size(heap', b)
    BY <2>2, BlocksAre
  <2> QED BY <2>1, <2>2, <2>3
<1>7. Blocks'[node] = Size(heap', node)
  BY <1>2, BlocksAre
<1>8. /\ Size(heap', node) \in Nat
      /\ \E r \in 1 .. heap'.nregions : HeapStart(r) + 1 <= node /\ node + Size(heap', node) <= HeapEnd(r)
      /\ \A b \in Owners(heap') : b # node =>
            node + Size(heap', node) <= b \/ b + Size(heap', b) <= node
  BY <1>2, OwnersApart
<1>9. Memory!Vacant(kept, node, Blocks'[node])
  <2>1. PICK r \in 1 .. heap.nregions : HeapStart(r) + 1 <= node /\ node + Size(heap', node) <= HeapEnd(r)
    BY <1>2, <1>8
  <2>2. r \in DOMAIN Region
    BY <1>2, RegionFacts DEF Good, IsHeap
  <2>3. Usable[r].from <= node /\ node + Blocks'[node] <= Usable[r].to
    BY <1>7, <2>1, <2>2, UsableFacts
  <2>4. \A b \in DOMAIN kept : node + Blocks'[node] <= b \/ b + kept[b] <= node
    BY <1>6, <1>7, <1>8
  <2> QED BY <2>3, <2>4 DEF Memory!Vacant
<1> QED BY <1>1, <1>2, <1>4, <1>5, <1>6, <1>7, <1>9 DEF Memory!Give

\* When mm_malloc() finds no chunk in its lists and free chunks are merged, there
\* is no stretch of memory that could have been given.
LEMMA NoRoom ==
  ASSUME IInv, ~loose, NEW size \in Nat, size > 0, Fitting(heap, size) = {}
  PROVE  ~Memory!Room(Blocks, size)
<1> SUFFICES ASSUME Memory!Room(Blocks, size) PROVE FALSE
  OBVIOUS
<1> DEFINE D == DOMAIN heap.chunk
<1>1. /\ IsHeap(heap) /\ Tiling(heap) /\ Lists(heap, {}) /\ Apart(heap, {})
  BY DEF IInv, Good
<1>2. \A r \in 1 .. heap.nregions : r \in DOMAIN Region
  BY <1>1, RegionFacts DEF IsHeap
<1>3. PICK p \in 1 .. heap.nregions : \E a \in Usable[p].from .. Usable[p].to - 1 : Memory!Vacant(Blocks, a, size)
  BY DEF Memory!Room
<1>4. PICK a \in Usable[p].from .. Usable[p].to - 1 : Memory!Vacant(Blocks, a, size)
  BY <1>3
<1>5. a \in Nat
  <2>1. Usable[p].from \in Nat /\ Usable[p].to \in Nat
    BY <1>2, UsableFacts, RegionFacts
  <2> QED BY <2>1
<1>6. PICK q \in 1 .. heap.nregions : Usable[q].from <= a /\ a + size <= Usable[q].to
  BY <1>4 DEF Memory!Vacant
<1>7. \A b \in Owners(heap) : a + size <= b \/ b + Size(heap, b) <= a
  BY <1>4, BlocksAre DEF Memory!Vacant
<1> DEFINE F == HeapStart(q)
           L == HeapEnd(q)
<1>8. q \in DOMAIN Region /\ F \in Nat /\ L \in Nat /\ F + 1 <= a /\ a + size <= L
  BY <1>2, <1>6, UsableFacts, RegionFacts
<1>9. /\ F \in D /\ L \in D /\ heap.chunk[F].size = 1
  BY <1>1 DEF Tiling, Guarded, SIZEOF_MM_ALLOCNODE
<1>10. \A c \in D : c \in Nat /\ Size(heap, c) \in Nat /\ NextOf(heap, c) = c + Size(heap, c)
  BY <1>1 DEF IsHeap, Size, NextOf
<1> HIDE DEF F, L, D
<1>11. PICK c \in D : c <= a /\ \A d \in D : d <= a => d <= c
  <2> DEFINE T == {a - d : d \in {b \in D : b <= a}}
  <2>1. T \in SUBSET Nat /\ T # {}
    BY <1>5, <1>8, <1>9, <1>10
  <2>2. PICK t \in T : \A u \in T : t <= u
    <3> HIDE DEF T
    <3> QED BY <2>1, Smallest
  <2>3. PICK c \in D : c <= a /\ t = a - c
    OBVIOUS
  <2>4. ASSUME NEW d \in D, d <= a PROVE d <= c
    <3>1. a - c <= a - d
      BY <2>2, <2>3, <2>4
    <3> QED BY <1>5, <1>10, <2>4, <3>1
  <2> QED BY <2>3, <2>4
<1>12. c \in Nat /\ F <= c /\ c < L
  BY <1>5, <1>8, <1>9, <1>10, <1>11
<1>13. c \notin Ends
  <2>1. CASE c = F
    <3> SUFFICES ASSUME NEW s \in DOMAIN Region, F = HeapEnd(s) PROVE FALSE
      BY <2>1 DEF Ends
    <3>1. HeapStart(s) \in Nat /\ HeapEnd(s) \in Nat /\ HeapStart(s) + 3 <= HeapEnd(s)
      BY RegionFacts
    <3>2. HeapStart(q) + 3 <= HeapEnd(q)
      BY <1>8, RegionFacts
    <3>3. q = s \/ HeapEnd(q) < HeapStart(s) \/ HeapEnd(s) < HeapStart(q)
      BY <1>8, RegionFacts
    <3> QED BY <1>8, <3>1, <3>2, <3>3 DEF F, L
  <2>2. CASE c # F
    <3>1. HeapStart(q) < c /\ c < HeapEnd(q)
      BY <1>8, <1>12, <2>2 DEF F, L
    <3> QED BY <1>8, <1>12, <3>1, Inside, GuardSets
  <2> QED BY <2>1, <2>2
<1> DEFINE next == NextOf(heap, c)
<1>14. next \in D /\ next > c /\ next \in Nat /\ next = c + Size(heap, c) /\ Size(heap, c) \in Nat
  BY <1>1, <1>10, <1>11, <1>13, Neighbours DEF D
<1> HIDE DEF next
<1>15. next > a
  BY <1>5, <1>11, <1>12, <1>14
<1>16. c # F
  <2> SUFFICES ASSUME c = F PROVE FALSE
    OBVIOUS
  <2>1. next = F + 1
    BY <1>8, <1>9, <1>14 DEF Size
  <2> QED BY <1>5, <1>8, <1>15, <2>1
<1>17. c \notin Guards
  <2>1. HeapStart(q) < c /\ c < HeapEnd(q)
    BY <1>8, <1>12, <1>16 DEF F, L
  <2> QED BY <1>8, <1>12, <2>1, Inside
<1>18. IsFree(heap, c)
  <2> SUFFICES ASSUME ~IsFree(heap, c) PROVE FALSE
    OBVIOUS
  <2>1. c \in Owners(heap)
    BY <1>11, <1>17 DEF Owners, IsFree, D
  <2> QED BY <1>5, <1>7, <1>11, <1>12, <1>14, <1>15, <2>1
<1>19. c \in Listable(heap, {})
  BY <1>11, <1>18 DEF Listable, D
<1>20. ~IsFree(heap, next)
  BY <1>1, <1>19 DEF Apart, next
<1>21. next >= a + size
  <2> SUFFICES ASSUME next < a + size PROVE FALSE
    BY <1>5, <1>14
  <2>1. HeapStart(q) < next /\ next < HeapEnd(q)
    BY <1>5, <1>8, <1>12, <1>14 DEF F, L
  <2>2. next \notin Guards
    BY <1>8, <1>14, <2>1, Inside
  <2>3. next \in Owners(heap)
    BY <1>14, <1>20, <2>2 DEF Owners, IsFree, D
  <2>4. Size(heap, next) \in Nat
    BY <1>10, <1>14
  <2> QED BY <1>5, <1>7, <1>14, <1>15, <2>3, <2>4
<1>22. Size(heap, c) >= size
  BY <1>5, <1>11, <1>12, <1>14, <1>21
<1>23. PICK n \in Bin : \E k \in DOMAIN heap.bins[n] : heap.bins[n][k] = c
  BY <1>1, <1>19 DEF Lists, InBin
<1>24. PICK k \in DOMAIN heap.bins[n] : heap.bins[n][k] = c
  BY <1>23
<1>25. n = Size2Ndx(Size(heap, c))
  BY <1>1, <1>24 DEF Lists
<1>26. n \in Size2Ndx(size) .. MM_NNODES - 1
  <2>1. Size2Ndx(size) \in Bin /\ Size2Ndx(size) <= Size2Ndx(Size(heap, c)) /\ MM_NNODES \in Nat
    BY <1>14, <1>22, Size2NdxFacts, BinAssumption
  <2> QED BY <1>25, <2>1 DEF Bin
<1>27. <<n, k>> \in Places(heap, Size2Ndx(size))
  BY <1>24, <1>26 DEF Places
<1>28. <<n, k>> \in Fitting(heap, size)
  BY <1>22, <1>24, <1>27 DEF Fitting
<1> QED BY <1>28

\* Where no block changes, the abstract blocks do not.
LEMMA BlocksSame ==
  ASSUME \A c : c \in Owners(heap') <=> c \in Owners(heap),
         \A c \in Owners(heap) : Size(heap', c) = Size(heap, c)
  PROVE  Blocks' = Blocks
<1>1. Owners(heap') = Owners(heap)
  OBVIOUS
<1>2. Chunks' = Owners(heap') /\ Chunks = Owners(heap)
  BY DEF Chunks, Owners
<1>3. Blocks' = [a \in Owners(heap') |-> Size(heap', a)] /\ Blocks = [a \in Owners(heap) |-> Size(heap, a)]
  BY <1>2 DEF Blocks
<1> QED BY <1>1, <1>3

\* A request for which no chunk is found may be refused.
LEMMA RefuseStep ==
  ASSUME IInv, NEW n \in Nat, n > 0, heap' = heap, ret' = 0, Fitting(heap, Need(n)) = {}, asked' = Need(n)
  PROVE  Memory!Refuse
<1>1. Need(n) \in Nat /\ Need(n) > 0
  BY NeedFacts DEF SIZEOF_MM_FREENODE
<1>2. Memory!Room(Blocks, Need(n)) => loose
  BY <1>1, NoRoom DEF IInv
<1>3. Blocks' = Blocks
  BY BlocksSame
<1> QED BY <1>2, <1>3 DEF Memory!Refuse

\* The blocks without one are those a resized block is put beside.
LEMMA WithoutFacts ==
  ASSUME NEW a
  PROVE  /\ DOMAIN Memory!Without(a) = Owners(heap) \ {a}
         /\ \A b \in DOMAIN Memory!Without(a) : Memory!Without(a)[b] = Size(heap, b)
  BY BlocksAre DEF Memory!Without

\* mm_malloc() is the abstract one, for a caller as well as within mm_memalign().
LEMMA MallocRefines ==
  ASSUME IInv, NEW n \in Nat, n > 0, Allocate(n)
  PROVE  Memory!Malloc(n) /\ heap'.nregions = heap.nregions
<1>1. Good(heap', {}, ~loose') /\ loose' = loose /\ asked' = Need(n) /\ Taken(n)
  BY AllocateStep
<1>2. CASE heap' = heap /\ ret' = 0 /\ Fitting(heap, Need(n)) = {}
  BY <1>1, <1>2, RefuseStep DEF Memory!Malloc
<1>3. CASE \E a \in Nat : /\ a \notin Owners(heap) /\ ret' = a + SIZEOF_MM_ALLOCNODE
                          /\ Gives(heap, heap', a, a, Need(n))
  <2>1. PICK a \in Nat : /\ a \notin Owners(heap) /\ ret' = a + SIZEOF_MM_ALLOCNODE
                         /\ Gives(heap, heap', a, a, Need(n))
    BY <1>3
  <2>2. /\ DOMAIN Blocks = Owners(heap) \ {a} /\ \A b \in DOMAIN Blocks : Blocks[b] = Size(heap, b)
    BY <2>1, BlocksAre
  <2>3. Memory!Give(Blocks, Need(n))
    BY <1>1, <2>1, <2>2, GiveStep
  <2>4. heap'.nregions = heap.nregions
    BY <2>1 DEF Gives, Keeps
  <2> QED BY <1>1, <2>3, <2>4 DEF Memory!Malloc
<1> QED BY <1>1, <1>2, <1>3 DEF Taken

\* So is mm_realloc(), in each of the ways it has.
LEMMA ReallocRefines ==
  ASSUME IInv, NEW a \in Owners(heap), NEW n \in Nat, n > 0,
         Good(heap', {}, ~loose'), Moved(a, n), asked' = Need(n), loose' = loose
  PROVE  Memory!Realloc(a, n) /\ heap'.nregions = heap.nregions
<1>1. CASE heap' = heap /\ ret' = 0 /\ Fitting(heap, Need(n)) = {}
  BY <1>1, RefuseStep DEF Memory!Realloc
<1>2. CASE \E node \in Nat : ret' = node + SIZEOF_MM_ALLOCNODE /\ Gives(heap, heap', a, node, Need(n))
  <2>1. PICK node \in Nat : ret' = node + SIZEOF_MM_ALLOCNODE /\ Gives(heap, heap', a, node, Need(n))
    BY <1>2
  <2>2. Memory!Give(Memory!Without(a), Need(n))
    BY <2>1, WithoutFacts, GiveStep
  <2>3. heap'.nregions = heap.nregions
    BY <2>1 DEF Gives, Keeps
  <2> QED BY <2>2, <2>3 DEF Memory!Realloc
<1> QED BY <1>1, <1>2 DEF Moved

\* mm_free() takes one block away.
LEMMA FreeRefines ==
  ASSUME IInv, NEW a \in Owners(heap), Free(a)
  PROVE  Memory!Free(a) /\ heap'.nregions = heap.nregions
<1>1. Keeps(heap, heap', {a}) /\ a \notin Owners(heap')
  BY FreeStep
<1>2. heap'.nregions = heap.nregions /\ asked' = 0 /\ ret' = 0 /\ loose' = loose
  BY <1>1 DEF Keeps, Free
<1>3. ASSUME NEW c PROVE c \in Owners(heap') <=> c \in Owners(heap) /\ c # a
  BY <1>1 DEF Keeps
<1>4. Owners(heap') = Owners(heap) \ {a}
  BY <1>3
<1>5. \A c \in Owners(heap) \ {a} : Size(heap', c) = Size(heap, c)
  BY <1>1 DEF Keeps
<1>6. Memory!Without(a) = [b \in Owners(heap) \ {a} |-> Size(heap, b)]
  BY BlocksAre DEF Memory!Without
<1>7. Blocks' = [b \in Owners(heap') |-> Size(heap', b)]
  <2>1. Chunks' = Owners(heap')
    BY DEF Chunks, Owners
  <2> QED BY <2>1 DEF Blocks
<1>8. Blocks' = Memory!Without(a)
  BY <1>4, <1>5, <1>6, <1>7
<1> QED BY <1>2, <1>8 DEF Memory!Free

\* The second half of mm_memalign() shortens the block that the first has got.
LEMMA AlignRefines ==
  ASSUME IInv, NEW r \in raw, Align(r)
  PROVE  /\ r.chunk \in Owners(heap) /\ r.al \in Alignment /\ r.n \in Request
         /\ Memory!Align(r.chunk, r.al, r.n) /\ heap'.nregions = heap.nregions
<1> DEFINE a == r.chunk
<1>1. a \in Owners(heap) /\ r.al \in Alignment /\ r.n \in Request
  BY DEF IInv, RawChunks
<1>2. Good(heap', {}, ~loose') /\ (loose => loose') /\ Aligned(r)
  BY AlignStep
<1>3. PICK node \in Nat : /\ ret' = node + SIZEOF_MM_ALLOCNODE /\ ret' % r.al = 0
                          /\ Gives(heap, heap', a, node, r.n + 1)
                          /\ a <= node
                          /\ node + Size(heap', node) <= a + Size(heap, a)
  BY <1>2 DEF Aligned
<1>4. Memory!Give(Memory!Without(a), r.n + 1)
  BY <1>2, <1>3, WithoutFacts, GiveStep
<1>5. ret' - 1 = node
  BY <1>3 DEF SIZEOF_MM_ALLOCNODE
<1>6. Blocks'[node] = Size(heap', node) /\ Blocks[a] = Size(heap, a)
  BY <1>1, <1>3, BlocksAre DEF Gives
<1>7. a <= ret' - 1 /\ ret' - 1 + Blocks'[ret' - 1] <= a + Blocks[a]
  BY <1>3, <1>5, <1>6
<1>8. asked' = Need(r.n)
  BY DEF Align
<1>9. heap'.nregions = heap.nregions
  BY <1>3 DEF Gives, Keeps
<1> QED BY <1>1, <1>2, <1>3, <1>4, <1>7, <1>8, <1>9 DEF Memory!Align

\* The heap begins with one region and no block.
LEMMA RefInit == Init => Memory!Init
<1> SUFFICES ASSUME Init PROVE Memory!Init
  OBVIOUS
<1>1. Good(NoRegion, {}, TRUE) /\ Owners(NoRegion) = {} /\ NoRegion.nregions = 0
  BY GoodNoRegion
<1>2. NoRegion.nregions < Len(Region)
  BY <1>1, RegionFacts
<1>3. heap = AddedRegion(NoRegion) /\ ret = 0 /\ asked = 0 /\ loose = FALSE
  BY DEF Init
<1>4. heap.nregions = 1 /\ \A c : c \in Owners(heap) <=> c \in Owners(NoRegion)
  <2> DEFINE g == AddedRegion(NoRegion)
  <2>1. g.nregions = NoRegion.nregions + 1 /\ \A c : c \in Owners(g) <=> c \in Owners(NoRegion)
    BY <1>1, <1>2, GoodAddRegion
  <2> HIDE DEF g
  <2>2. g.nregions = 1
    BY <1>1, <2>1
  <2>3. heap = g
    BY <1>3 DEF g
  <2> QED BY <2>1, <2>2, <2>3
<1>5. DOMAIN Blocks = {}
  BY <1>1, <1>4, BlocksAre
<1> QED BY <1>3, <1>4, <1>5 DEF Memory!Init

\* Every step of the heap is one of the allocator, or none.
LEMMA RefNext ==
  IInv /\ [Next]_vars => [Memory!Next]_<<heap.nregions, Blocks, ret, asked, loose>>
<1> SUFFICES ASSUME IInv, [Next]_vars
             PROVE  Memory!Next \/ UNCHANGED <<heap.nregions, Blocks, ret, asked, loose>>
  OBVIOUS
<1>1. \A a \in Owned : a \in Owners(heap)
  BY OwnersAreChunks DEF Owned
<1>2. DOMAIN Blocks = Owners(heap)
  BY BlocksAre
<1>3. CASE AddRegion
  <2>1. /\ heap' = AddedRegion(heap) /\ heap.nregions < Len(Region)
        /\ ret' = ret /\ asked' = asked /\ loose' = loose
    BY <1>3 DEF AddRegion
  <2>2. Good(heap, {}, ~loose)
    BY DEF IInv
  <2>3. /\ heap'.nregions = heap.nregions + 1 /\ \A c : c \in Owners(heap') <=> c \in Owners(heap)
        /\ \A c \in Owners(heap) : Size(heap', c) = Size(heap, c)
    BY <2>1, <2>2, GoodAddRegion
  <2>4. Blocks' = Blocks
    BY <2>3, BlocksSame
  <2>5. Len(Usable) = Len(Region)
    <3>1. Len(Region) \in Nat /\ DOMAIN Region = 1 .. Len(Region)
      BY RegionAssumption
    <3> QED BY <3>1 DEF Usable
  <2>6. Memory!AddRegion
    BY <2>1, <2>3, <2>4, <2>5 DEF Memory!AddRegion
  <2> QED BY <2>6 DEF Memory!Next
<1>4. ASSUME NEW n \in Request, Malloc(n) PROVE Memory!Next
  <2>1. n \in Nat /\ n > 0
    BY RequestAssumption
  <2>2. Memory!Malloc(n) /\ heap'.nregions = heap.nregions
    BY <1>4, <2>1, MallocRefines DEF Malloc
  <2> QED BY <2>2 DEF Memory!Next, Memory!Calls
<1>5. ASSUME NEW n \in Request, NEW al \in Alignment, MemAlign(al, n) PROVE Memory!Next
  <2>1. AlignedSize(al, n) \in Nat /\ AlignedSize(al, n) > 0
    BY RequestAssumption, AlignmentAssumption DEF AlignedSize, MM_ALIGN_UP, MM_MIN_CHUNK
  <2>2. Memory!Malloc(AlignedSize(al, n)) /\ heap'.nregions = heap.nregions
    BY <1>5, <2>1, MallocRefines DEF MemAlign
  <2> QED BY <2>2 DEF Memory!Next, Memory!Calls
<1>6. ASSUME NEW r \in raw, Align(r) PROVE Memory!Next
  <2>1. /\ r.chunk \in DOMAIN Blocks /\ r.al \in Alignment /\ r.n \in Request
        /\ Memory!Align(r.chunk, r.al, r.n) /\ heap'.nregions = heap.nregions
    BY <1>2, <1>6, AlignRefines
  <2> QED BY <2>1 DEF Memory!Next, Memory!Calls
<1>7. ASSUME NEW a \in Owned, Free(a) PROVE Memory!Next
  <2>1. a \in DOMAIN Blocks /\ Memory!Free(a) /\ heap'.nregions = heap.nregions
    BY <1>1, <1>2, <1>7, FreeRefines
  <2> QED BY <2>1 DEF Memory!Next, Memory!Calls
<1>8. ASSUME NEW a \in Owned, NEW n \in Request, Realloc(a, n)
      PROVE  Memory!Next \/ UNCHANGED <<heap.nregions, Blocks, ret, asked, loose>>
  <2>1. a \in Owners(heap) /\ n \in Nat /\ n > 0
    BY <1>1, RequestAssumption
  <2>2. CASE Good(heap', {}, ~loose') /\ Moved(a, n) /\ asked' = Need(n) /\ loose' = loose
    <3>1. Memory!Realloc(a, n) /\ heap'.nregions = heap.nregions
      BY <2>1, <2>2, ReallocRefines
    <3>2. a \in DOMAIN Blocks
      BY <1>2, <2>1
    <3> QED BY <3>1, <3>2 DEF Memory!Next, Memory!Calls
  <2>3. CASE UNCHANGED <<heap, ret, raw, asked, loose>>
    <3>1. Blocks' = Blocks
      BY <2>3, BlocksSame
    <3> QED BY <2>3, <3>1
  <2>4. CASE ReallocShrink(a, n)
    BY <2>1, <2>2, <2>4, ShrinkStep DEF ReallocShrink
  <2>5. CASE ReallocGrow(a, n)
    BY <2>1, <2>2, <2>3, <2>5, GrowStep
  <2>6. CASE ReallocMove(a, n)
    BY <2>1, <2>2, <2>6, MoveStep DEF ReallocMove
  <2> QED BY <1>8, <2>4, <2>5, <2>6 DEF Realloc
<1>9. CASE UNCHANGED vars
  <2>1. heap' = heap /\ ret' = ret /\ asked' = asked /\ loose' = loose
    BY <1>9 DEF vars
  <2>2. Blocks' = Blocks
    BY <2>1, BlocksSame
  <2> QED BY <2>1, <2>2
<1> QED BY <1>3, <1>4, <1>5, <1>6, <1>7, <1>8, <1>9 DEF Next

\* For any regions, requests and alignments the heap is an allocator: blocks lie
\* in its memory and never overlap, are as large and as aligned as was asked for,
\* nobody else's block changes, and while free chunks are merged a request is
\* refused only when no free stretch could hold it.
THEOREM HeapImplementsAllocator == Spec => AllocatorKept
<1>1. Init => Memory!Init
  BY RefInit
<1>2. Init => IInv
  BY InitInv
<1>3. IInv /\ [Next]_vars => IInv'
  BY NextInv
<1>4. IInv /\ [Next]_vars => [Memory!Next]_<<heap.nregions, Blocks, ret, asked, loose>>
  BY RefNext
<1> QED BY <1>1, <1>2, <1>3, <1>4, PTL DEF Spec, AllocatorKept, Memory!Spec
=============================================================================
