-------------------------- MODULE Rs485TaskProofs --------------------------
(***************************************************************************)
(* For every bus of bytes: the frames the _485 task writes are well        *)
(* formed, the receiver accepts them, what Rs485RxProofs says of one       *)
(* stream of bytes also holds of two ports that share the receiver, and a  *)
(* receiver that the ports have led astray is idle again at the end of the *)
(* first frame in which it has been idle at all.                           *)
(***************************************************************************)
EXTENDS Rs485Task, FiniteSetTheorems, SequenceTheorems, NaturalsInduction,
        WellFoundedInduction, TLAPS

(***************************************************************************)
(* Induction, with a set in place of a predicate.                          *)
(***************************************************************************)

Less == {ss \in Nat \X Nat : ss[1] < ss[2]}

\* A set of naturals that has 0 and, with each number, the next one has all.
LEMMA Induction ==
  ASSUME NEW G \in SUBSET Nat, 0 \in G, \A n \in G : n + 1 \in G
  PROVE  \A n \in Nat : n \in G
<1> SUFFICES ASSUME NEW m \in Nat, m \notin G PROVE FALSE
  OBVIOUS
<1>1. IsWellFoundedOn(Less, Nat)
  BY NatLessThanWellFounded DEF OpToRel, Less
<1>2. PICK x \in Nat \ G : \A y \in Nat \ G : ~(<<y, x>> \in Less)
  <2>1. Nat \ G \in SUBSET Nat /\ Nat \ G # {}
    OBVIOUS
  <2>2. QED
    BY <1>1, <2>1, WFMin
<1>3. x - 1 \in Nat /\ x = (x - 1) + 1
  <2>1. x \in Nat /\ x # 0
    BY <1>2
  <2>2. QED
    BY <2>1
<1>4. x - 1 \in G
  <2>1. <<x - 1, x>> \in Less
    BY <1>2, <1>3 DEF Less
  <2>2. QED
    BY <1>2, <1>3, <2>1
<1>5. QED
  BY <1>2, <1>3, <1>4

LEMMA RemoveOne ==
  ASSUME NEW t, IsFiniteSet(t), NEW x \in t
  PROVE  Cardinality(t \ {x}) = Cardinality(t) - 1
  BY FS_RemoveElement

\* A set of subsets of D that has a subset as soon as it has the smaller ones
\* has all of them.
LEMMA SubsetInduction ==
  ASSUME NEW D, IsFiniteSet(D), NEW G,
         \A t \in SUBSET D : (\A x \in t : t \ {x} \in G) => t \in G
  PROVE  \A t \in SUBSET D : t \in G
<1> DEFINE N == {m \in Nat : \A t \in SUBSET D : Cardinality(t) = m => t \in G}
<1>1. \A t \in SUBSET D : IsFiniteSet(t) /\ Cardinality(t) \in Nat
  BY FS_Subset, FS_CardinalityType
<1>2. 0 \in N
  <2>1. ASSUME NEW t \in SUBSET D, Cardinality(t) = 0 PROVE t \in G
    BY <1>1, <2>1, FS_EmptySet
  <2>2. QED
    BY <2>1
<1>3. ASSUME NEW m \in N PROVE m + 1 \in N
  <2>1. ASSUME NEW t \in SUBSET D, Cardinality(t) = m + 1 PROVE t \in G
    <3>1. ASSUME NEW x \in t PROVE t \ {x} \in G
      <4>1. Cardinality(t \ {x}) = m
        <5>1. Cardinality(t \ {x}) = Cardinality(t) - 1
          BY <1>1, RemoveOne
        <5>2. QED
          BY <2>1, <5>1
      <4>2. QED
        BY <4>1
    <3>2. QED
      BY <3>1
  <2>2. QED
    BY <2>1
<1>4. \A m \in Nat : m \in N
  <2> HIDE DEF N
  <2>1. N \in SUBSET Nat
    BY DEF N
  <2>2. QED
    BY <1>2, <1>3, <2>1, Induction
<1>5. QED
  BY <1>1, <1>4

-----------------------------------------------------------------------------
(***************************************************************************)
(* Folds: CheckSum adds in a byte, FoldSeq in a natural number.            *)
(***************************************************************************)

\* g is the fold of h over the subsets of D, c being the element to begin with.
IsFold(g, D, c, s, h) ==
    \A t \in SUBSET D : g[t] = IF t = {} THEN 0 ELSE h[<<s[c[t]], g[t \ {c[t]}]>>]

\* A fold over a finite set is defined, in whatever order it goes.
LEMMA FoldExists ==
  ASSUME NEW D, IsFiniteSet(D), NEW c, \A t \in SUBSET D : t # {} => c[t] \in t,
         NEW s \in [D -> Nat], NEW h \in [Nat \X Nat -> Nat]
  PROVE  \E g \in [SUBSET D -> Nat] : IsFold(g, D, c, s, h)
<1> DEFINE Small(m) == {t \in SUBSET D : Cardinality(t) <= m}
           Step(g, t) == IF t = {} THEN 0 ELSE h[<<s[c[t]], g[t \ {c[t]}]>>]
           Good(g, m) == g \in [Small(m) -> Nat] /\ \A t \in Small(m) : g[t] = Step(g, t)
           N == {m \in Nat : \E g : Good(g, m)}
<1>1. \A t \in SUBSET D : IsFiniteSet(t) /\ Cardinality(t) \in Nat
  BY FS_Subset, FS_CardinalityType
<1>2. 0 \in N
  <2>1. \A t \in Small(0) : t = {}
    BY <1>1, FS_EmptySet
  <2>2. Good([t \in Small(0) |-> 0], 0)
    BY <2>1
  <2>3. QED
    BY <2>2
<1>3. ASSUME NEW m \in N PROVE m + 1 \in N
  <2>1. PICK g : Good(g, m)
    OBVIOUS
  <2> DEFINE k == [t \in Small(m + 1) |-> Step(g, t)]
  <2>2. ASSUME NEW t \in Small(m + 1), t # {}
        PROVE  c[t] \in D /\ t \ {c[t]} \in Small(m)
    <3>1. c[t] \in t /\ t \in SUBSET D /\ Cardinality(t) <= m + 1
      BY <2>2
    <3>2. Cardinality(t \ {c[t]}) = Cardinality(t) - 1
      <4>1. IsFiniteSet(t)
        BY <1>1, <3>1
      <4>2. \A x \in t : Cardinality(t \ {x}) = Cardinality(t) - 1
        BY <4>1, RemoveOne
      <4>3. QED
        BY <3>1, <4>2
    <3>3. QED
      BY <1>1, <3>1, <3>2
  <2>3. \A t \in Small(m) : t \in Small(m + 1)
    BY <1>1
  <2> HIDE DEF Small
  <2>4. \A t \in Small(m) : k[t] = g[t]
    BY <2>1, <2>3
  <2>5. ASSUME NEW t \in Small(m + 1) PROVE Step(g, t) \in Nat
    <3>1. t # {} => s[c[t]] \in Nat /\ g[t \ {c[t]}] \in Nat
      BY <2>1, <2>2
    <3>2. QED
      BY <3>1
  <2>6. \A t \in Small(m + 1) : Step(k, t) = Step(g, t)
    <3> HIDE DEF k
    <3>1. QED
      BY <2>2, <2>4
  <2>7. k \in [Small(m + 1) -> Nat] /\ \A t \in Small(m + 1) : k[t] = Step(g, t)
    <3> HIDE DEF Step
    <3>1. QED
      BY <2>5
  <2>8. Good(k, m + 1)
    <3> HIDE DEF k, Step
    <3>1. QED
      BY <2>6, <2>7
  <2>9. QED
    <3> HIDE DEF Good, k
    <3>1. QED
      BY <2>8
<1>4. \A m \in Nat : m \in N
  <2> HIDE DEF N
  <2>1. N \in SUBSET Nat
    BY DEF N
  <2>2. QED
    BY <1>2, <1>3, <2>1, Induction
<1>5. PICK g : Good(g, Cardinality(D))
  BY <1>1, <1>4
<1>6. Small(Cardinality(D)) = SUBSET D
  BY <1>1, FS_Subset
<1>7. QED
  <2> HIDE DEF Small
  <2>1. QED
    BY <1>5, <1>6 DEF IsFold

Total(s) == FoldSeq(+, 0, s)

\* f[k] is the sum of the first k numbers of s.
Sums(f, n, s) == f[0] = 0 /\ \A k \in 1 .. n : f[k] = f[k - 1] + s[k]

\* f[k] is the sum in a byte of the first k numbers of s.
ByteSums(f, n, s) == f[0] = 0 /\ \A k \in 1 .. n : f[k] = (f[k - 1] + s[k]) % 256

\* FoldSeq(+, 0, s) adds the numbers of s: it takes them in no particular order,
\* but any of them may be taken out of the sum first.
LEMMA SumFacts ==
  ASSUME NEW n \in Nat, NEW s \in [1 .. n -> Nat]
  PROVE  \E f \in [0 .. n -> Nat] : Total(s) = f[n] /\ Sums(f, n, s)
<1> DEFINE D == 1 .. n
           pick(t) == CHOOSE x \in t : TRUE
           Rec(g) == g = [t \in SUBSET D |-> IF t = {} THEN 0 ELSE s[pick(t)] + g[t \ {pick(t)}]]
           sum == CHOOSE g : Rec(g)
<1>1. IsFiniteSet(D)
  BY FS_Interval
<1>2. \A t : t # {} => pick(t) \in t
  OBVIOUS
<1>3. Total(s) = sum[D]
  <2>1. DOMAIN s = D
    OBVIOUS
  <2>2. Total(s) =
          (CHOOSE g : g = [t \in SUBSET DOMAIN s |->
                             IF t = {} THEN 0 ELSE s[pick(t)] + g[t \ {pick(t)}]])[DOMAIN s]
    BY DEF Total, FoldSeq, FoldFunction, FoldFunctionOnSet, MapThenFoldSet
  <2>3. QED
    BY <2>1, <2>2
<1> HIDE DEF pick, D
<1>4. \E g \in [SUBSET D -> Nat] : Rec(g)
  <2> DEFINE c == [t \in SUBSET D |-> pick(t)]
             h == [p \in Nat \X Nat |-> p[1] + p[2]]
  <2>1. h \in [Nat \X Nat -> Nat] /\ \A a, b \in Nat : h[<<a, b>>] = a + b
    OBVIOUS
  <2>2. \A t \in SUBSET D : c[t] = pick(t)
    OBVIOUS
  <2>3. s \in [D -> Nat]
    BY DEF D
  <2> HIDE DEF h, c
  <2>4. \A t \in SUBSET D : t # {} => c[t] \in t
    BY <1>2, <2>2
  <2>5. PICK g \in [SUBSET D -> Nat] : IsFold(g, D, c, s, h)
    BY <1>1, <2>1, <2>3, <2>4, FoldExists
  <2>6. ASSUME NEW t \in SUBSET D, t # {}
        PROVE  g[t] = s[pick(t)] + g[t \ {pick(t)}]
    <3>1. s[pick(t)] \in Nat /\ g[t \ {pick(t)}] \in Nat
      BY <1>2, <2>3, <2>5, <2>6
    <3>2. g[t] = h[<<s[pick(t)], g[t \ {pick(t)}]>>]
      BY <2>2, <2>5, <2>6 DEF IsFold
    <3>3. QED
      BY <2>1, <3>1, <3>2
  <2>7. Rec(g)
    BY <2>5, <2>6 DEF IsFold
  <2>8. QED
    BY <2>7
<1>5. Rec(sum)
  <2> HIDE DEF Rec
  <2>1. QED
    BY <1>4
<1> HIDE DEF sum
<1>6. /\ sum = [t \in SUBSET D |-> sum[t]]
      /\ sum[{}] = 0
      /\ \A t \in SUBSET D : t # {} => sum[t] = s[pick(t)] + sum[t \ {pick(t)}]
  BY <1>5
<1> HIDE DEF Rec
<1>7. \A t \in SUBSET D : sum[t] \in Nat
  <2> DEFINE G == {t \in SUBSET D : sum[t] \in Nat}
  <2>1. ASSUME NEW t \in SUBSET D, \A x \in t : t \ {x} \in G PROVE t \in G
    <3>1. CASE t = {}
      BY <1>6, <3>1
    <3>2. CASE t # {}
      <4>1. pick(t) \in D /\ sum[t \ {pick(t)}] \in Nat
        BY <1>2, <2>1, <3>2
      <4>2. s[pick(t)] \in Nat
        BY <4>1 DEF D
      <4>3. sum[t] = s[pick(t)] + sum[t \ {pick(t)}]
        BY <1>6, <3>2
      <4>4. QED
        BY <4>1, <4>2, <4>3
    <3>3. QED
      BY <3>1, <3>2
  <2>2. \A t \in SUBSET D : t \in G
    <3> HIDE DEF G
    <3>1. QED
      BY <1>1, <2>1, SubsetInduction
  <2>3. QED
    BY <2>2
<1>8. \A t \in SUBSET D : \A x \in t : sum[t] = s[x] + sum[t \ {x}]
  <2> DEFINE G == {t \in SUBSET D : \A x \in t : sum[t] = s[x] + sum[t \ {x}]}
  <2>1. ASSUME NEW t \in SUBSET D, \A x \in t : t \ {x} \in G PROVE t \in G
    <3> SUFFICES ASSUME NEW x \in t PROVE sum[t] = s[x] + sum[t \ {x}]
      OBVIOUS
    <3> DEFINE y == pick(t)
    <3>1. y \in t /\ sum[t] = s[y] + sum[t \ {y}]
      BY <1>2, <1>6
    <3> HIDE DEF y
    <3>2. CASE x = y
      BY <3>1, <3>2
    <3>3. CASE x # y
      <4>1. x \in t \ {y} /\ y \in t \ {x} /\ (t \ {y}) \ {x} = (t \ {x}) \ {y}
        BY <3>1, <3>3
      <4>2. sum[t \ {y}] = s[x] + sum[(t \ {y}) \ {x}]
        BY <2>1, <3>1, <4>1
      <4>3. sum[t \ {x}] = s[y] + sum[(t \ {x}) \ {y}]
        BY <2>1, <4>1
      <4>4. s[x] \in Nat /\ s[y] \in Nat /\ sum[(t \ {x}) \ {y}] \in Nat
        BY <1>7, <3>1 DEF D
      <4>5. \A a, b, w \in Nat : a + (b + w) = b + (a + w)
        OBVIOUS
      <4>6. sum[t] = s[y] + (s[x] + sum[(t \ {x}) \ {y}])
        BY <3>1, <4>1, <4>2
      <4>7. QED
        BY <4>3, <4>4, <4>5, <4>6
    <3>4. QED
      BY <3>2, <3>3
  <2>2. \A t \in SUBSET D : t \in G
    <3> HIDE DEF G
    <3>1. QED
      BY <1>1, <2>1, SubsetInduction
  <2>3. QED
    BY <2>2
<1> DEFINE f == [k \in 0 .. n |-> sum[1 .. k]]
<1>9. f \in [0 .. n -> Nat] /\ f[n] = sum[D] /\ f[0] = 0
  <2>1. 1 .. 0 = {} /\ \A k \in 0 .. n : 1 .. k \in SUBSET D
    BY DEF D
  <2>2. \A k \in 0 .. n : sum[1 .. k] \in Nat
    BY <1>7, <2>1
  <2>3. f \in [0 .. n -> Nat]
    BY <2>2
  <2>4. f[n] = sum[1 .. n] /\ f[0] = sum[1 .. 0]
    OBVIOUS
  <2>5. QED
    BY <1>6, <2>1, <2>3, <2>4 DEF D
<1>10. ASSUME NEW k \in 1 .. n PROVE f[k] = f[k - 1] + s[k]
  <2>1. 1 .. k \in SUBSET D /\ k \in 1 .. k /\ (1 .. k) \ {k} = 1 .. k - 1
    <3>1. 1 .. k \in SUBSET D
      BY DEF D
    <3>2. k \in 1 .. k
      OBVIOUS
    <3>3. (1 .. k) \ {k} = 1 .. k - 1
      OBVIOUS
    <3>4. QED
      BY <3>1, <3>2, <3>3
  <2>2. sum[1 .. k] = s[k] + sum[1 .. k - 1]
    BY <1>8, <2>1
  <2>3. f[k] = sum[1 .. k] /\ f[k - 1] = sum[1 .. k - 1]
    OBVIOUS
  <2>4. f[k - 1] \in Nat /\ s[k] \in Nat
    BY <1>9
  <2>5. QED
    BY <2>2, <2>3, <2>4
<1>11. QED
  <2> HIDE DEF f
  <2>1. QED
    BY <1>3, <1>9, <1>10 DEF Sums

\* CheckSum(s): the last number is added to the sum of the others, in a byte.
LEMMA CheckSumFacts ==
  ASSUME NEW n \in Nat, NEW s \in [1 .. n -> Nat]
  PROVE  \E f \in [0 .. n -> Nat] : CheckSum(s) = f[n] /\ ByteSums(f, n, s)
<1> DEFINE D == 1 .. n
           Rec(g) == g = [t \in SUBSET D |->
                            IF t = {} THEN 0 ELSE (g[t \ {Max(t)}] + s[Max(t)]) % 256]
           sum == CHOOSE g : Rec(g)
<1>1. IsFiniteSet(D)
  BY FS_Interval
<1>2. \A t \in SUBSET D : t # {} => Max(t) \in t
  <2> DEFINE G == {t \in SUBSET D : t # {} => \E x \in t : \A y \in t : x >= y}
  <2>1. ASSUME NEW t \in SUBSET D, \A x \in t : t \ {x} \in G PROVE t \in G
    <3> SUFFICES ASSUME t # {} PROVE \E x \in t : \A y \in t : x >= y
      OBVIOUS
    <3>1. PICK x \in t : TRUE
      OBVIOUS
    <3>2. CASE t \ {x} = {}
      <4>1. \A y \in t : x >= y
        <5>1. t = {x}
          BY <3>1, <3>2
        <5>2. x \in Nat
          BY <3>1
        <5>3. QED
          BY <5>1, <5>2
      <4>2. QED
        BY <4>1
    <3>3. CASE t \ {x} # {}
      <4>1. PICK z \in t \ {x} : \A y \in t \ {x} : z >= y
        BY <2>1, <3>1, <3>3
      <4>2. \A y \in t : (IF x > z THEN x ELSE z) >= y
        BY <4>1
      <4>3. QED
        BY <4>1, <4>2
    <3>4. QED
      BY <3>2, <3>3
  <2>2. \A t \in SUBSET D : t \in G
    <3> HIDE DEF G
    <3>1. QED
      BY <1>1, <2>1, SubsetInduction
  <2>3. QED
    BY <2>2 DEF Max
<1>3. CheckSum(s) = sum[D]
  <2>1. DOMAIN s = D
    OBVIOUS
  <2>2. CheckSum(s) =
          (CHOOSE g : g = [t \in SUBSET DOMAIN s |->
             IF t = {} THEN 0 ELSE (g[t \ {Max(t)}] + s[Max(t)]) % 256])[DOMAIN s]
    BY DEF CheckSum, FoldLeft, MapThenFoldSet
  <2>3. QED
    BY <2>1, <2>2
<1>4. \A k \in 1 .. n : Max(1 .. k) = k
  <2> SUFFICES ASSUME NEW k \in 1 .. n PROVE Max(1 .. k) = k
    OBVIOUS
  <2>1. k \in 1 .. k /\ \A y \in 1 .. k : k >= y
    OBVIOUS
  <2>2. Max(1 .. k) \in 1 .. k /\ \A y \in 1 .. k : Max(1 .. k) >= y
    BY <2>1 DEF Max
  <2>3. QED
    BY <2>1, <2>2
<1> HIDE DEF D
<1>5. PICK g \in [SUBSET D -> Nat] : Rec(g)
  <2> DEFINE c == [t \in SUBSET D |-> Max(t)]
             h == [p \in Nat \X Nat |-> (p[2] + p[1]) % 256]
  <2>1. h \in [Nat \X Nat -> Nat] /\ \A a, b \in Nat : h[<<a, b>>] = (b + a) % 256
    <3>1. \A p \in Nat \X Nat : p[1] \in Nat /\ p[2] \in Nat
      OBVIOUS
    <3>2. \A a, b \in Nat : (b + a) % 256 \in Nat
      OBVIOUS
    <3>3. \A p \in Nat \X Nat : (p[2] + p[1]) % 256 \in Nat
      BY <3>1, <3>2
    <3>4. h \in [Nat \X Nat -> Nat]
      BY <3>3
    <3>5. \A a, b \in Nat : h[<<a, b>>] = (b + a) % 256
      OBVIOUS
    <3>6. QED
      BY <3>4, <3>5
  <2>2. \A t \in SUBSET D : c[t] = Max(t)
    OBVIOUS
  <2>3. s \in [D -> Nat]
    BY DEF D
  <2> HIDE DEF h, c
  <2>4. \A t \in SUBSET D : t # {} => c[t] \in t
    BY <1>2, <2>2
  <2>5. PICK g \in [SUBSET D -> Nat] : IsFold(g, D, c, s, h)
    BY <1>1, <2>1, <2>3, <2>4, FoldExists
  <2>6. ASSUME NEW t \in SUBSET D, t # {}
        PROVE  g[t] = (g[t \ {Max(t)}] + s[Max(t)]) % 256
    <3>1. s[Max(t)] \in Nat /\ g[t \ {Max(t)}] \in Nat
      BY <1>2, <2>3, <2>5, <2>6
    <3>2. g[t] = h[<<s[Max(t)], g[t \ {Max(t)}]>>]
      BY <2>2, <2>5, <2>6 DEF IsFold
    <3>3. QED
      BY <2>1, <3>1, <3>2
  <2>7. Rec(g)
    BY <2>5, <2>6 DEF IsFold
  <2>8. QED
    BY <2>7
<1>6. Rec(sum)
  <2> HIDE DEF Rec
  <2>1. QED
    BY <1>5
<1> HIDE DEF sum
<1>7. /\ sum = [t \in SUBSET D |-> sum[t]]
      /\ sum[{}] = 0
      /\ \A t \in SUBSET D : t # {} => sum[t] = (sum[t \ {Max(t)}] + s[Max(t)]) % 256
  BY <1>6
<1> HIDE DEF Rec
<1>8. \A t \in SUBSET D : sum[t] \in Nat
  <2> DEFINE G == {t \in SUBSET D : sum[t] \in Nat}
  <2>1. ASSUME NEW t \in SUBSET D, \A x \in t : t \ {x} \in G PROVE t \in G
    <3>1. CASE t = {}
      BY <1>7, <3>1
    <3>2. CASE t # {}
      <4>1. Max(t) \in D /\ sum[t \ {Max(t)}] \in Nat
        BY <1>2, <2>1, <3>2
      <4>2. s[Max(t)] \in Nat
        BY <4>1 DEF D
      <4>3. sum[t] = (sum[t \ {Max(t)}] + s[Max(t)]) % 256
        BY <1>7, <3>2
      <4>4. QED
        BY <4>1, <4>2, <4>3
    <3>3. QED
      BY <3>1, <3>2
  <2>2. \A t \in SUBSET D : t \in G
    <3> HIDE DEF G
    <3>1. QED
      BY <1>1, <2>1, SubsetInduction
  <2>3. QED
    BY <2>2
<1> DEFINE f == [k \in 0 .. n |-> sum[1 .. k]]
<1>9. f \in [0 .. n -> Nat] /\ f[n] = sum[D] /\ f[0] = 0
  <2>1. 1 .. 0 = {} /\ \A k \in 0 .. n : 1 .. k \in SUBSET D
    BY DEF D
  <2>2. \A k \in 0 .. n : sum[1 .. k] \in Nat
    BY <1>8, <2>1
  <2>3. f \in [0 .. n -> Nat]
    BY <2>2
  <2>4. f[n] = sum[1 .. n] /\ f[0] = sum[1 .. 0]
    OBVIOUS
  <2>5. QED
    BY <1>7, <2>1, <2>3, <2>4 DEF D
<1>10. ASSUME NEW k \in 1 .. n PROVE f[k] = (f[k - 1] + s[k]) % 256
  <2>1. 1 .. k \in SUBSET D /\ 1 .. k # {} /\ (1 .. k) \ {k} = 1 .. k - 1
    <3>1. 1 .. k \in SUBSET D
      BY DEF D
    <3>2. k \in 1 .. k
      OBVIOUS
    <3>3. (1 .. k) \ {k} = 1 .. k - 1
      OBVIOUS
    <3>4. QED
      BY <3>1, <3>2, <3>3
  <2>2. sum[1 .. k] = (sum[(1 .. k) \ {Max(1 .. k)}] + s[Max(1 .. k)]) % 256
    BY <1>7, <2>1
  <2>3. sum[1 .. k] = (sum[1 .. k - 1] + s[k]) % 256
    BY <1>4, <2>1, <2>2
  <2>4. f[k] = sum[1 .. k] /\ f[k - 1] = sum[1 .. k - 1]
    OBVIOUS
  <2>5. QED
    BY <2>3, <2>4
<1>11. QED
  <2> HIDE DEF f
  <2>1. QED
    BY <1>3, <1>9, <1>10 DEF ByteSums

\* Adding in a byte is adding and taking the low byte, for every sequence: the
\* check sum of a frame is the sum of its bytes modulo 256.
LEMMA CheckSumIsSum ==
  ASSUME NEW n \in Nat, NEW s \in [1 .. n -> Nat]
  PROVE  CheckSum(s) = Total(s) % 256
<1>1. PICK c \in [0 .. n -> Nat] : CheckSum(s) = c[n] /\ ByteSums(c, n, s)
  BY CheckSumFacts
<1>2. PICK f \in [0 .. n -> Nat] : Total(s) = f[n] /\ Sums(f, n, s)
  BY SumFacts
<1> DEFINE N == {k \in Nat : k <= n => c[k] = f[k] % 256}
<1>3. 0 \in N
  BY <1>1, <1>2 DEF Sums, ByteSums
<1>4. ASSUME NEW k \in N PROVE k + 1 \in N
  <2> SUFFICES ASSUME k + 1 <= n PROVE c[k + 1] = f[k + 1] % 256
    OBVIOUS
  <2>1. k + 1 \in 1 .. n /\ k \in 0 .. n /\ (k + 1) - 1 = k
    OBVIOUS
  <2>2. c[k] = f[k] % 256
    BY <2>1
  <2>3. c[k + 1] = (c[k] + s[k + 1]) % 256 /\ f[k + 1] = f[k] + s[k + 1]
    <3>1. c[k + 1] = (c[(k + 1) - 1] + s[k + 1]) % 256
      BY <1>1, <2>1 DEF ByteSums
    <3>2. f[k + 1] = f[(k + 1) - 1] + s[k + 1]
      BY <1>2, <2>1 DEF Sums
    <3>3. QED
      BY <2>1, <3>1, <3>2
  <2>4. s[k + 1] \in Nat /\ f[k] \in Nat
    BY <1>2, <2>1
  <2>5. \A a, b \in Nat : ((a % 256) + b) % 256 = (a + b) % 256
    OBVIOUS
  <2>6. ((f[k] % 256) + s[k + 1]) % 256 = (f[k] + s[k + 1]) % 256
    BY <2>4, <2>5
  <2>7. QED
    BY <2>2, <2>3, <2>6
<1>5. n \in N
  <2> HIDE DEF N
  <2>1. N \in SUBSET Nat
    BY DEF N
  <2>2. QED
    BY <1>3, <1>4, <2>1, Induction
<1>6. QED
  BY <1>1, <1>2, <1>5

-----------------------------------------------------------------------------
(***************************************************************************)
(* The frames.                                                             *)
(***************************************************************************)

\* u is s followed by t.
Joined(u, s, t) ==
    /\ u \in Seq(Nat) /\ Len(u) = Len(s) + Len(t)
    /\ \A i \in 1 .. Len(s) : u[i] = s[i]
    /\ \A i \in 1 .. Len(t) : u[Len(s) + i] = t[i]

LEMMA ConcatFacts ==
  ASSUME NEW s \in Seq(Nat), NEW t \in Seq(Nat), NEW u, u = s \o t
  PROVE  Joined(u, s, t)
<1>1. /\ u \in Seq(Nat) /\ Len(u) = Len(s) + Len(t)
      /\ \A i \in 1 .. Len(s) + Len(t) : u[i] = IF i <= Len(s) THEN s[i] ELSE t[i - Len(s)]
  BY ConcatProperties
<1>2. Len(s) \in Nat /\ Len(t) \in Nat
  BY LenProperties
<1>3. ASSUME NEW i \in 1 .. Len(s) PROVE u[i] = s[i]
  <2>1. i \in 1 .. Len(s) + Len(t) /\ i <= Len(s)
    BY <1>2
  <2>2. QED
    BY <1>1, <2>1
<1>4. ASSUME NEW i \in 1 .. Len(t) PROVE u[Len(s) + i] = t[i]
  <2>1. /\ Len(s) + i \in 1 .. Len(s) + Len(t) /\ ~(Len(s) + i <= Len(s))
        /\ (Len(s) + i) - Len(s) = i
    BY <1>2
  <2>2. QED
    BY <1>1, <2>1
<1>5. QED
  BY <1>1, <1>3, <1>4 DEF Joined

\* What CheckSum is given: the frame without preamble, check sum and tail.
Body(CMD0, GUID, CON0, CON1, data) ==
    <<104, 69, 0, CMD0, 8, GUID, 0, CON0, CON1, Len(data)>> \o data

\* b is such a body.
IsBody(b, CMD0, GUID, CON0, CON1, data) ==
    /\ b \in Seq(Nat) /\ Len(b) = 10 + Len(data)
    /\ b[1] = 104 /\ b[2] = 69 /\ b[3] = 0 /\ b[4] = CMD0 /\ b[5] = 8
    /\ b[6] = GUID /\ b[7] = 0 /\ b[8] = CON0 /\ b[9] = CON1 /\ b[10] = Len(data)
    /\ \A i \in 1 .. Len(data) : b[10 + i] = data[i]

LEMMA BodyFacts ==
  ASSUME NEW CMD0 \in Nat, NEW GUID \in Nat, NEW CON0 \in Nat, NEW CON1 \in Nat,
         NEW data \in Seq(Nat), NEW b, b = Body(CMD0, GUID, CON0, CON1, data)
  PROVE  IsBody(b, CMD0, GUID, CON0, CON1, data)
<1> DEFINE hd == <<104, 69, 0, CMD0, 8, GUID, 0, CON0, CON1, Len(data)>>
<1>1. /\ hd \in Seq(Nat) /\ Len(hd) = 10
      /\ hd[1] = 104 /\ hd[2] = 69 /\ hd[3] = 0 /\ hd[4] = CMD0 /\ hd[5] = 8
      /\ hd[6] = GUID /\ hd[7] = 0 /\ hd[8] = CON0 /\ hd[9] = CON1 /\ hd[10] = Len(data)
  OBVIOUS
<1>2. b = hd \o data
  BY DEF Body
<1> HIDE DEF hd
<1>3. Joined(b, hd, data)
  BY <1>1, <1>2, ConcatFacts
<1>4. QED
  BY <1>1, <1>3 DEF Joined, IsBody

\* The sum of the bytes between preamble and check sum, in a byte.
SumOf(f) == Total(SubSeq(f, 4, Len(f) - 2)) % 256

\* A frame, byte by byte.
IsFrame(f, CMD0, GUID, CON0, CON1, data) ==
    /\ f \in Seq(Nat) /\ Len(f) = 15 + Len(data)
    /\ f[1] = 254 /\ f[2] = 254 /\ f[3] = 254
    /\ f[4] = 104 /\ f[5] = 69 /\ f[6] = 0 /\ f[7] = CMD0 /\ f[8] = 8
    /\ f[9] = GUID /\ f[10] = 0 /\ f[11] = CON0 /\ f[12] = CON1 /\ f[13] = Len(data)
    /\ \A i \in 1 .. Len(data) : f[13 + i] = data[i]
    /\ f[14 + Len(data)] = SumOf(f)
    /\ f[15 + Len(data)] = 22

LEMMA FrameFacts ==
  ASSUME NEW CMD0 \in Nat, NEW GUID \in Nat, NEW CON0 \in Nat, NEW CON1 \in Nat,
         NEW data \in Seq(Nat), NEW f, f = Frame(CMD0, GUID, CON0, CON1, data)
  PROVE  IsFrame(f, CMD0, GUID, CON0, CON1, data)
<1> DEFINE b == Body(CMD0, GUID, CON0, CON1, data)
           pre == <<254, 254, 254>>
           post == <<CheckSum(b), 22>>
<1>1. /\ b \in Seq(Nat) /\ Len(b) = 10 + Len(data)
      /\ b[1] = 104 /\ b[2] = 69 /\ b[3] = 0 /\ b[4] = CMD0 /\ b[5] = 8
      /\ b[6] = GUID /\ b[7] = 0 /\ b[8] = CON0 /\ b[9] = CON1 /\ b[10] = Len(data)
      /\ \A i \in 1 .. Len(data) : b[10 + i] = data[i]
  <2>1. IsBody(b, CMD0, GUID, CON0, CON1, data)
    BY BodyFacts
  <2> HIDE DEF b
  <2>2. QED
    BY <2>1 DEF IsBody
<1>2. CheckSum(b) = Total(b) % 256 /\ CheckSum(b) \in Nat
  <2>1. PICK n \in Nat : b \in [1 .. n -> Nat]
    <3> HIDE DEF b
    <3>1. QED
      BY <1>1, LenProperties
  <2>2. CheckSum(b) = Total(b) % 256
    <3> HIDE DEF b
    <3>1. QED
      BY <2>1, CheckSumIsSum
  <2>3. PICK g \in [0 .. n -> Nat] : CheckSum(b) = g[n] /\ ByteSums(g, n, b)
    <3> HIDE DEF b
    <3>1. QED
      BY <2>1, CheckSumFacts
  <2>4. QED
    BY <2>2, <2>3
<1>3. f = (pre \o b) \o post
  BY DEF Frame, Body
<1>4. /\ pre \in Seq(Nat) /\ Len(pre) = 3
      /\ pre[1] = 254 /\ pre[2] = 254 /\ pre[3] = 254
      /\ post \in Seq(Nat) /\ Len(post) = 2 /\ post[1] = CheckSum(b) /\ post[2] = 22
  BY <1>2
<1>5. Len(data) \in Nat
  OBVIOUS
<1> HIDE DEF b, pre, post
<1> DEFINE pb == pre \o b
<1>6. Joined(pb, pre, b)
  BY <1>1, <1>4, ConcatFacts
<1> HIDE DEF pb
<1>7. Joined(f, pb, post)
  <2>1. f = pb \o post
    BY <1>3 DEF pb
  <2>2. pb \in Seq(Nat)
    BY <1>6 DEF Joined
  <2>3. QED
    BY <1>4, <2>1, <2>2, ConcatFacts
<1>8. /\ f \in Seq(Nat) /\ Len(f) = 15 + Len(data)
      /\ \A i \in 1 .. 3 : f[i] = pre[i]
      /\ \A i \in 1 .. 2 : f[13 + Len(data) + i] = post[i]
  <2>1. Len(pb) = 13 + Len(data) /\ Len(post) = 2
    BY <1>1, <1>4, <1>5, <1>6 DEF Joined
  <2>2. f \in Seq(Nat) /\ Len(f) = 15 + Len(data)
    BY <1>5, <1>7, <2>1 DEF Joined
  <2>3. ASSUME NEW i \in 1 .. 3 PROVE f[i] = pre[i]
    <3>1. i \in 1 .. Len(pb) /\ i \in 1 .. Len(pre)
      BY <1>4, <1>5, <2>1
    <3>2. f[i] = pb[i]
      BY <1>7, <3>1 DEF Joined
    <3>3. pb[i] = pre[i]
      BY <1>6, <3>1 DEF Joined
    <3>4. QED
      BY <3>2, <3>3
  <2>4. \A i \in 1 .. 2 : f[13 + Len(data) + i] = post[i]
    BY <1>7, <2>1 DEF Joined
  <2>5. QED
    BY <2>2, <2>3, <2>4
<1>9. \A i \in 1 .. 10 + Len(data) : f[3 + i] = b[i]
  <2> SUFFICES ASSUME NEW i \in 1 .. 10 + Len(data) PROVE f[3 + i] = b[i]
    OBVIOUS
  <2>1. 3 + i \in 1 .. Len(pb) /\ i \in 1 .. Len(b)
    BY <1>1, <1>4, <1>5, <1>6 DEF Joined
  <2>2. f[3 + i] = pb[3 + i]
    BY <1>7, <2>1 DEF Joined
  <2>3. pb[Len(pre) + i] = b[i]
    BY <1>6, <2>1 DEF Joined
  <2>4. QED
    BY <1>4, <2>2, <2>3
<1>10. f[1] = 254 /\ f[2] = 254 /\ f[3] = 254
  BY <1>4, <1>8
<1>11. /\ f[3 + 1] = b[1] /\ f[3 + 2] = b[2] /\ f[3 + 3] = b[3] /\ f[3 + 4] = b[4]
       /\ f[3 + 5] = b[5] /\ f[3 + 6] = b[6] /\ f[3 + 7] = b[7] /\ f[3 + 8] = b[8]
       /\ f[3 + 9] = b[9] /\ f[3 + 10] = b[10]
  <2>1. \A i \in 1 .. 10 : f[3 + i] = b[i]
    BY <1>5, <1>9
  <2>2. QED
    BY <2>1
<1>12. \A i \in 1 .. Len(data) : f[13 + i] = data[i]
  <2> SUFFICES ASSUME NEW i \in 1 .. Len(data) PROVE f[13 + i] = data[i]
    OBVIOUS
  <2>1. 10 + i \in 1 .. 10 + Len(data) /\ 3 + (10 + i) = 13 + i
    BY <1>5
  <2>2. QED
    BY <1>1, <1>9, <2>1
<1>13. f[14 + Len(data)] = CheckSum(b) /\ f[15 + Len(data)] = 22
  <2>1. f[13 + Len(data) + 1] = CheckSum(b) /\ f[13 + Len(data) + 2] = 22
    BY <1>4, <1>8
  <2>2. QED
    BY <1>5, <2>1
<1>14. SubSeq(f, 4, Len(f) - 2) = b
  <2> DEFINE q == SubSeq(f, 4, Len(f) - 2)
  <2>1. q \in Seq(Nat) /\ Len(q) = 10 + Len(data)
        /\ \A i \in 1 .. 10 + Len(data) : q[i] = f[3 + i]
    <3> DEFINE m == Len(f) - 2
    <3>1. m = 13 + Len(data) /\ m \in Int /\ m - 4 + 1 = 10 + Len(data) /\ 4 <= m
      BY <1>5, <1>8
    <3> HIDE DEF m
    <3>2. \A i \in 4 .. m : f[i] \in Nat
      <4>1. f \in [1 .. Len(f) -> Nat]
        BY <1>8, LenProperties
      <4>2. \A i \in 4 .. m : i \in 1 .. Len(f)
        BY <1>5, <1>8, <3>1
      <4>3. QED
        BY <4>1, <4>2
    <3>3. /\ SubSeq(f, 4, m) \in Seq(Nat)
          /\ Len(SubSeq(f, 4, m)) = IF 4 <= m THEN m - 4 + 1 ELSE 0
          /\ \A i \in 1 .. m - 4 + 1 : SubSeq(f, 4, m)[i] = f[4 + i - 1]
      BY <3>1, <3>2, SubSeqProperties
    <3>4. \A i \in 1 .. 10 + Len(data) : 4 + i - 1 = 3 + i
      BY <1>5
    <3>5. QED
      BY <3>1, <3>3, <3>4 DEF m
  <2> HIDE DEF q
  <2>2. q = b
    <3>1. Len(q) = Len(b)
      BY <1>1, <2>1
    <3>2. ASSUME NEW i \in 1 .. Len(q) PROVE q[i] = b[i]
      <4>1. i \in 1 .. 10 + Len(data)
        BY <2>1
      <4>2. QED
        BY <1>9, <2>1, <4>1
    <3>3. QED
      BY <1>1, <2>1, <3>1, <3>2, SeqEqual
  <2>3. QED
    BY <2>2 DEF q
<1>15. f[14 + Len(data)] = SumOf(f)
  BY <1>2, <1>13, <1>14 DEF SumOf
<1>16. QED
  BY <1>1, <1>8, <1>10, <1>11, <1>12, <1>13, <1>15 DEF IsFrame

-----------------------------------------------------------------------------
(***************************************************************************)
(* What the task writes.                                                   *)
(***************************************************************************)

Brightness(v) == SetColorTemperatureBrightness(2, 0, v \div 256, v % 256)

\* The part of LampCommand about one frame.
WellFormed(f) ==
    /\ f # <<>>
    /\ f[13] = Len(f) - 15
    /\ f[Len(f) - 1] = SumOf(f)
    /\ f[11] = 67 => 256 * f[16] + f[17] \in 100 .. 1000

LEMMA SwitchFormed == WellFormed(SetMainLEDSwitch(65, 0))
<1> DEFINE f == SetMainLEDSwitch(65, 0)
           data == <<0>>
<1>1. f = Frame(64, 192, 65, 0, data)
  BY DEF SetMainLEDSwitch
<1>2. data \in Seq(Nat) /\ Len(data) = 1
  OBVIOUS
<1> HIDE DEF f, data
<1>3. IsFrame(f, 64, 192, 65, 0, data)
  BY <1>1, <1>2, FrameFacts
<1>4. f[11] = 65 /\ f[13] = 1 /\ Len(f) = 16 /\ f[15] = SumOf(f)
  BY <1>2, <1>3 DEF IsFrame
<1>5. f # <<>>
  <2>1. Len(<<>>) = 0 /\ Len(f) = 16
    BY <1>4
  <2>2. QED
    BY <2>1
<1>6. WellFormed(f)
  BY <1>4, <1>5 DEF WellFormed
<1>7. QED
  BY <1>6 DEF f

LEMMA BrightnessFormed == \A v \in 100 .. 1000 : WellFormed(Brightness(v))
<1> SUFFICES ASSUME NEW v \in 100 .. 1000 PROVE WellFormed(Brightness(v))
  OBVIOUS
<1> DEFINE f == Brightness(v)
           data == <<2, 0, v \div 256, v % 256>>
<1>1. f = Frame(64, 192, 67, 0, data)
  BY DEF SetColorTemperatureBrightness, Brightness
<1>2. v \div 256 \in Nat /\ v % 256 \in Nat /\ 256 * (v \div 256) + (v % 256) = v
  OBVIOUS
<1>3. data \in Seq(Nat) /\ Len(data) = 4 /\ data[3] = v \div 256 /\ data[4] = v % 256
  BY <1>2
<1> HIDE DEF f, data
<1>4. IsFrame(f, 64, 192, 67, 0, data)
  BY <1>1, <1>3, FrameFacts
<1>5. f[13] = 4 /\ Len(f) = 19 /\ f[18] = SumOf(f) /\ f[13 + 3] = data[3] /\ f[13 + 4] = data[4]
  BY <1>3, <1>4 DEF IsFrame
<1>6. f[16] = v \div 256 /\ f[17] = v % 256
  BY <1>3, <1>5
<1>7. f # <<>>
  <2>1. Len(<<>>) = 0 /\ Len(f) = 19
    BY <1>5
  <2>2. QED
    BY <2>1
<1>8. WellFormed(f)
  BY <1>2, <1>5, <1>6, <1>7 DEF WellFormed
<1>9. QED
  BY <1>8 DEF f

\* Every frame of the task is well formed.
LEMMA SentFormed == \A f \in Sent : f # <<>> => WellFormed(f)
<1> SUFFICES ASSUME NEW f \in Sent PROVE f # <<>> => WellFormed(f)
  OBVIOUS
<1>1. CASE f = SetMainLEDSwitch(65, 0)
  BY <1>1, SwitchFormed
<1>2. CASE \E v \in {100, 300, 500, 700, 900} : f = Brightness(v)
  <2> DEFINE Level == {100, 300, 500, 700, 900}
             Band == 100 .. 1000
  <2>1. Level \subseteq Band
    OBVIOUS
  <2>2. \A v \in Band : WellFormed(Brightness(v))
    BY BrightnessFormed
  <2>3. \E v \in Level : f = Brightness(v)
    BY <1>2
  <2> HIDE DEF Level, Band
  <2>4. QED
    BY <2>1, <2>2, <2>3
<1>3. QED
  BY <1>1, <1>2 DEF Sent, Brightness

\* The invariant of the task: what it has written, and that only bytes are on
\* their way to the receiver.
TaskInv ==
    /\ pc \in {"begin", "select", "readA", "readB", "feed", "set"}
    /\ ledvalue \in {100, 300, 500, 700, 900, 1100}
    /\ SRB \in 0 .. SRB_SIZE - 1 /\ (pc = "begin" => SRB = 0)
    /\ last \in Sent
    /\ fifo \in [Port -> Seq(Byte)] /\ cArray \in Seq(Byte)
    /\ frame \in BOOLEAN /\ whole \in BOOLEAN /\ idled \in BOOLEAN

LEMMA TaskInitInv == Init => TaskInv
<1> SUFFICES ASSUME Init PROVE TaskInv
  OBVIOUS
<1>1. <<>> \in Seq(Byte) /\ <<>> \in Sent
  BY DEF Sent
<1>2. fifo \in [Port -> Seq(Byte)] /\ cArray \in Seq(Byte)
  BY <1>1 DEF Init
<1>3. 0 \in 0 .. SRB_SIZE - 1
  BY SizeAssumption
<1>4. QED
  BY <1>1, <1>2, <1>3 DEF Init, TaskInv

LEMMA TaskNextInv == TaskInv /\ [Next]_vars => TaskInv'
<1> SUFFICES ASSUME TaskInv, [Next]_vars PROVE TaskInv'
  OBVIOUS
<1>1. ASSUME NEW f \in Sent, Send(f)
      PROVE  SRB' \in 0 .. SRB_SIZE - 1 /\ last' \in Sent
  BY <1>1, SizeAssumption DEF TaskInv, Send
<1>2. CASE Begin
  <2>1. SRB = 0 /\ SetMainLEDSwitch(65, 0) \in Sent
    BY <1>2 DEF Begin, TaskInv, Sent
  <2>2. QED
    BY <1>1, <1>2, <2>1 DEF Begin, TaskInv, history
<1>3. CASE Select
  BY <1>3 DEF Select, TaskInv, history
<1>4. ASSUME NEW p \in Port, Read(p) PROVE TaskInv'
  <2>1. fifo[p] \in Seq(Byte) /\ Len(fifo[p]) \in Nat
    BY LenProperties DEF TaskInv
  <2>2. cArray' \in Seq(Byte)
    <3> DEFINE n == Len(fifo[p])
               m == IF n < 256 THEN n ELSE 256
    <3>1. m \in Int /\ m <= n
      BY <2>1
    <3>2. \A i \in 1 .. m : fifo[p][i] \in Byte
      BY <2>1, <3>1, LenProperties
    <3>3. cArray' = SubSeq(fifo[p], 1, m)
      BY <1>4 DEF Read
    <3> HIDE DEF m, n
    <3>4. QED
      BY <3>1, <3>2, <3>3, SubSeqProperties
  <2>3. fifo' \in [Port -> Seq(Byte)]
    BY <1>4 DEF Read, TaskInv
  <2>4. frame' \in BOOLEAN /\ whole' \in BOOLEAN /\ idled' \in BOOLEAN
    BY <1>4 DEF Read
  <2>5. QED
    BY <1>4, <2>2, <2>3, <2>4 DEF Read, TaskInv
<1>5. CASE Feed
  <2>1. Tail(cArray) \in Seq(Byte)
    BY <1>5, HeadTailProperties DEF Feed, TaskInv
  <2>2. idled' \in BOOLEAN
    BY <1>5 DEF Feed
  <2>3. QED
    BY <1>5, <2>1, <2>2 DEF Feed, TaskInv
<1>6. CASE Fed
  BY <1>6 DEF Fed, TaskInv, history
<1>7. CASE SetBrightness
  <2> DEFINE v == IF ledvalue > 1000 THEN 100 ELSE ledvalue
  <2>1. v \in {100, 300, 500, 700, 900} /\ v + 200 \in {100, 300, 500, 700, 900, 1100}
    BY DEF TaskInv
  <2>2. Send(Brightness(v)) /\ ledvalue' = v + 200
    BY <1>7 DEF SetBrightness, Brightness
  <2> HIDE DEF v
  <2>3. Brightness(v) \in Sent
    BY <2>1 DEF Sent, Brightness
  <2>4. QED
    BY <1>1, <1>7, <2>1, <2>2, <2>3 DEF SetBrightness, TaskInv, history
<1>8. ASSUME NEW p \in Port, Arrive(p) PROVE TaskInv'
  <2>1. PICK c \in Chunks(p, last) : fifo' = [fifo EXCEPT ![p] = @ \o c]
    BY <1>8 DEF Arrive
  <2>2. c \in Seq(Byte) /\ fifo[p] \in Seq(Byte)
    BY BusAssumption DEF TaskInv
  <2>3. fifo[p] \o c \in Seq(Byte)
    BY <2>2, ConcatProperties
  <2>4. fifo' \in [Port -> Seq(Byte)]
    BY <2>1, <2>3 DEF TaskInv
  <2>5. QED
    BY <1>8, <2>4 DEF Arrive, TaskInv, taskVars, history
<1>9. CASE UNCHANGED vars
  BY <1>9 DEF vars, taskVars, history, TaskInv
<1>10. QED
  BY <1>2, <1>3, <1>4, <1>5, <1>6, <1>7, <1>8, <1>9 DEF Next, Task

\* The _485 task: its own variables stay in their ranges, it writes only the
\* frames of Sent, and what it feeds to the receiver are bytes.
THEOREM TaskInvariance == Spec => []TaskInv
  BY TaskInitInv, TaskNextInv, PTL DEF Spec

\* SetMainLEDSwitch() and SetColorTemperatureBrightness(): every frame written
\* to the lamp announces its length, ends in the low byte of the sum of its
\* bytes and asks for a brightness from 100 to 1000.
THEOREM LampCommanded == Spec => []LampCommand
<1>1. TaskInv => LampCommand
  <2> SUFFICES ASSUME TaskInv, last # <<>> PROVE LampCommand
    BY DEF LampCommand
  <2>1. WellFormed(last)
    BY SentFormed DEF TaskInv
  <2>2. last[Len(last) - 1] = FoldSeq(+, 0, SubSeq(last, 4, Len(last) - 2)) % 256
    BY <2>1 DEF WellFormed, SumOf, Total
  <2>3. QED
    BY <2>1, <2>2 DEF LampCommand, WellFormed
<1>2. QED
  BY <1>1, TaskInvariance, PTL

-----------------------------------------------------------------------------
(***************************************************************************)
(* The receiver's theorems, for the bytes of two ports.                    *)
(***************************************************************************)

RxP == INSTANCE Rs485RxProofs WITH Bus <- AnyByte

LEMMA AnyByteAssumption == \A n \in 0 .. 139 : AnyByte(n) \subseteq RxP!UInt8
  BY BusAssumption DEF AnyByte, RxP!UInt8

\* The two instances of the handler are the same.
LEMMA SameHandler ==
  ASSUME NEW b
  PROVE  Rx!RxUartData(b) <=> RxP!RxUartData(b)
<1> USE DEF Rx!Reject, RxP!Reject, Rx!NoFields, RxP!NoFields, Rx!NoDate, RxP!NoDate,
            Rx!NoBytes, RxP!NoBytes, Rx!DateIndex, RxP!DateIndex, Rx!Place, RxP!Place,
            Rx!HeaderLen, RxP!HeaderLen
<1>1. \A st, f, g, d : Rx!Accept(b, st, f, g, d) <=> RxP!Accept(b, st, f, g, d)
  BY DEF Rx!Accept, RxP!Accept, Rx!Save, RxP!Save, Rx!Overrun, RxP!Overrun
<1>2. \A st, f, g : Rx!AcceptHeader(b, st, f, g) <=> RxP!AcceptHeader(b, st, f, g)
  BY <1>1 DEF Rx!AcceptHeader, RxP!AcceptHeader
<1>3. (Rx!RxIdle(b) <=> RxP!RxIdle(b)) /\ (Rx!RxHead(b) <=> RxP!RxHead(b))
  BY <1>2 DEF Rx!RxIdle, RxP!RxIdle, Rx!RxHead, RxP!RxHead, Rx!COMM_TRM_HEAD,
              RxP!COMM_TRM_HEAD, Rx!COMM_TRM_FIXED, RxP!COMM_TRM_FIXED
<1>4. (Rx!RxFixed(b) <=> RxP!RxFixed(b)) /\ (Rx!RxType(b) <=> RxP!RxType(b))
  BY <1>2 DEF Rx!RxFixed, RxP!RxFixed, Rx!RxType, RxP!RxType
<1>5. (Rx!RxCmd0(b) <=> RxP!RxCmd0(b)) /\ (Rx!RxCmd1(b) <=> RxP!RxCmd1(b))
  BY <1>2 DEF Rx!RxCmd0, RxP!RxCmd0, Rx!RxCmd1, RxP!RxCmd1
<1>6. (Rx!RxGuid(b) <=> RxP!RxGuid(b)) /\ (Rx!RxCon0(b) <=> RxP!RxCon0(b))
  BY <1>2 DEF Rx!RxGuid, RxP!RxGuid, Rx!RxCon0, RxP!RxCon0
<1>7. (Rx!RxCon1(b) <=> RxP!RxCon1(b)) /\ (Rx!RxData(b) <=> RxP!RxData(b))
  BY <1>1 DEF Rx!RxCon1, RxP!RxCon1, Rx!RxData, RxP!RxData
<1>8. (Rx!RxCs(b) <=> RxP!RxCs(b)) /\ (Rx!RxTail(b) <=> RxP!RxTail(b))
  BY <1>2 DEF Rx!RxCs, RxP!RxCs, Rx!RxTail, RxP!RxTail, Rx!COMM_TRM_TAIL,
              RxP!COMM_TRM_TAIL, Rx!ProcessPoll, RxP!ProcessPoll, Rx!BcdValue,
              RxP!BcdValue, Rx!LED_REPORT, RxP!LED_REPORT
<1>9. QED
  BY <1>3, <1>4, <1>5, <1>6, <1>7, <1>8 DEF Rx!RxUartData, RxP!RxUartData

\* Taking bytes of two ports keeps the receiver's inductive invariant.
LEMMA ReceiverInv ==
  /\ Init => RxP!IInv
  /\ TaskInv /\ RxP!IInv /\ [Next]_vars => RxP!IInv'
<1>1. Init => RxP!IInv
  <2>1. Init => RxP!Init
    BY DEF Init, Rx!Init, RxP!Init, Rx!NoFields, RxP!NoFields, Rx!NoDate, RxP!NoDate,
           Rx!NoBytes, RxP!NoBytes, Rx!DateIndex, RxP!DateIndex, Rx!Place, RxP!Place,
           Rx!HeaderLen, RxP!HeaderLen
  <2>2. RxP!Init => RxP!IInv
    BY RxP!InitInv, AnyByteAssumption, SizeAssumption
  <2>3. QED
    BY <2>1, <2>2
<1>2. TaskInv /\ RxP!IInv /\ [Next]_vars => RxP!IInv'
  <2> SUFFICES ASSUME TaskInv, RxP!IInv, [Next]_vars PROVE RxP!IInv'
    OBVIOUS
  <2>1. [RxP!Next]_(RxP!vars)
    <3>1. CASE Feed
      <4>1. Head(cArray) \in Byte
        BY <3>1, HeadTailProperties DEF Feed, TaskInv
      <4>2. RxP!RxUartData(Head(cArray))
        BY <3>1, SameHandler DEF Feed
      <4>3. QED
        BY <4>1, <4>2 DEF RxP!Next, AnyByte
    <3>2. CASE ~Feed
      <4>1. UNCHANGED rxVars
        BY <3>2 DEF Next, Task, Begin, Select, Read, Fed, SetBrightness, Arrive, vars
      <4>2. QED
        BY <4>1 DEF rxVars, RxP!vars, RxP!rxVars
    <3>3. QED
      BY <3>1, <3>2
  <2>2. QED
    BY <2>1, RxP!NextInv, AnyByteAssumption, SizeAssumption
<1>3. QED
  BY <1>1, <1>2

\* The receiver's inductive invariant holds in the task.
THEOREM ReceiverInvariance == Spec => []RxP!IInv
  BY ReceiverInv, TaskInvariance, PTL DEF Spec

\* Types of the task and of the receiver it shares between its ports; frame
\* counter and brightness in their ranges.
THEOREM TypeCorrect == Spec => []TypeOK
<1>1. TaskInv /\ RxP!IInv => TypeOK
  <2> SUFFICES ASSUME TaskInv, RxP!IInv PROVE TypeOK
    OBVIOUS
  <2>1. Rx!TypeOK
    <3>1. RxP!TypeOK
      BY DEF RxP!IInv
    <3>2. Rx!UInt8 = RxP!UInt8 /\ Rx!DateIndex = RxP!DateIndex /\ Rx!LedRange = RxP!LedRange
      BY DEF Rx!UInt8, RxP!UInt8, Rx!DateIndex, RxP!DateIndex, Rx!LedRange, RxP!LedRange
    <3>3. Rx!Place = RxP!Place /\ Rx!Status = RxP!Status
      BY DEF Rx!Place, RxP!Place, Rx!HeaderLen, RxP!HeaderLen, Rx!Status, RxP!Status
    <3>4. Rx!Fields = RxP!Fields
      BY DEF Rx!Fields, RxP!Fields, Rx!UInt8, RxP!UInt8
    <3>5. QED
      BY <3>1, <3>2, <3>3, <3>4 DEF RxP!TypeOK, Rx!TypeOK
  <2>2. \A s \in Seq(Byte) : s \in Seq(0 .. 255)
    <3>1. Byte \subseteq 0 .. 255
      BY BusAssumption
    <3>2. QED
      BY <3>1, SeqMonotonic, ZenonT(30)
  <2>3. fifo \in [Port -> Seq(0 .. 255)] /\ cArray \in Seq(0 .. 255)
    BY <2>2 DEF TaskInv
  <2>4. QED
    BY <2>1, <2>3 DEF TaskInv, TypeOK
<1>2. QED
  BY <1>1, TaskInvariance, ReceiverInvariance, PTL

\* When the tail is due, process_poll() will be given exactly the frame whose
\* bytes were fed, although the bytes of the two ports go through one receiver.
THEOREM FrameIntactOnTwoPorts == Spec => []Rx!FrameIntact
<1>1. RxP!IInv => Rx!FrameIntact
  <2>1. RxP!IInv => RxP!FrameIntact
    BY RxP!TailIntact, AnyByteAssumption, SizeAssumption
  <2>2. RxP!FrameIntact => Rx!FrameIntact
    BY DEF RxP!FrameIntact, Rx!FrameIntact, RxP!Fits, Rx!Fits, RxP!GoodPrefix, Rx!GoodPrefix,
           RxP!DecodedAsTaken, Rx!DecodedAsTaken, Rx!DateIndex, RxP!DateIndex,
           Rx!HeaderLen, RxP!HeaderLen, Rx!COMM_TRM_HEAD, RxP!COMM_TRM_HEAD,
           Rx!COMM_TRM_FIXED, RxP!COMM_TRM_FIXED, Rx!COMM_TRM_TAIL, RxP!COMM_TRM_TAIL
  <2>3. QED
    BY <2>1, <2>2
<1>2. QED
  BY <1>1, ReceiverInvariance, PTL

-----------------------------------------------------------------------------
(***************************************************************************)
(* The receiver takes the frames of this firmware.                         *)
(***************************************************************************)

\* What the receiver looks at in a frame.
Acceptable(f) ==
    /\ f \in Seq(Nat) /\ Len(f) \in 16 .. 28
    /\ f[1] = 254 /\ f[2] = 254 /\ f[3] = 254
    /\ f[4] = 104 /\ f[5] = 69 /\ f[6] = 0
    /\ f[13] = Len(f) - 15 /\ f[Len(f)] = 22
    /\ \A i \in 5 .. Len(f) - 3 : f[i] # 104

\* Only the last byte of data may be 0x68.
NoHead(data) == \A i \in 1 .. Len(data) - 1 : data[i] # 104

LEMMA FrameAcceptable ==
  ASSUME NEW CMD0 \in Nat \ {104}, NEW GUID \in Nat \ {104},
         NEW CON0 \in Nat \ {104}, NEW CON1 \in Nat \ {104},
         NEW data \in Seq(Nat), Len(data) \in 1 .. 13, NoHead(data)
  PROVE  Acceptable(Frame(CMD0, GUID, CON0, CON1, data))
<1> DEFINE f == Frame(CMD0, GUID, CON0, CON1, data)
<1>1. IsFrame(f, CMD0, GUID, CON0, CON1, data)
  BY FrameFacts
<1> HIDE DEF f
<1>2. Acceptable(f)
  <2>1. Len(f) = 15 + Len(data) /\ f[13] = Len(data) /\ f[15 + Len(data)] = 22
    BY <1>1 DEF IsFrame
  <2>2. Len(f) \in 16 .. 28 /\ f[13] = Len(f) - 15 /\ f[Len(f)] = 22
    <3>1. Len(f) \in 16 .. 28 /\ Len(data) = Len(f) - 15
      <4>1. \A n \in 1 .. 13 : \A m : m = 15 + n => m \in 16 .. 28 /\ n = m - 15
        OBVIOUS
      <4>2. Len(data) \in 1 .. 13 /\ Len(f) = 15 + Len(data)
        BY <2>1
      <4>3. QED
        BY ONLY <4>1, <4>2
    <3>2. f[Len(f)] = 22
      BY ONLY <2>1
    <3>3. QED
      BY <2>1, <3>1, <3>2
  <2>3. ASSUME NEW i \in 5 .. Len(f) - 3 PROVE f[i] # 104
    <3>1. CASE i <= 13
      <4>1. /\ f[5] # 104 /\ f[6] # 104 /\ f[7] # 104 /\ f[8] # 104 /\ f[9] # 104
            /\ f[10] # 104 /\ f[11] # 104 /\ f[12] # 104 /\ f[13] # 104
        <5>1. /\ f[5] = 69 /\ f[6] = 0 /\ f[7] = CMD0 /\ f[8] = 8 /\ f[9] = GUID
              /\ f[10] = 0 /\ f[11] = CON0 /\ f[12] = CON1 /\ f[13] = Len(data)
          BY <1>1 DEF IsFrame
        <5>2. CMD0 # 104 /\ GUID # 104 /\ CON0 # 104 /\ CON1 # 104 /\ Len(data) # 104
          <6>1. \A x \in Nat \ {104} : x # 104
            OBVIOUS
          <6>2. \A x \in 1 .. 13 : x # 104
            OBVIOUS
          <6>3. QED
            BY <6>1, <6>2
        <5>3. QED
          BY <5>1, <5>2
      <4>2. i \in {5, 6, 7, 8, 9, 10, 11, 12, 13}
        BY <3>1
      <4>3. QED
        BY ONLY <4>1, <4>2
    <3>2. CASE i > 13
      <4>1. Len(data) \in Nat /\ i \in Nat /\ i <= 12 + Len(data)
        BY <2>1
      <4>2. i - 13 \in 1 .. Len(data) - 1 /\ i - 13 \in 1 .. Len(data) /\ 13 + (i - 13) = i
        BY <3>2, <4>1
      <4>3. f[13 + (i - 13)] = data[i - 13]
        BY <1>1, <4>2 DEF IsFrame
      <4>4. QED
        BY <4>2, <4>3 DEF NoHead
    <3>3. QED
      BY <3>1, <3>2
  <2>4. QED
    BY <1>1, <2>2, <2>3 DEF IsFrame, Acceptable
<1>3. QED
  BY <1>2 DEF f

\* Every sender builds a frame the receiver can take.
LEMMA FirmwareAcceptable == \A f \in Firmware : Acceptable(f)
<1> SUFFICES ASSUME NEW f \in Firmware PROVE Acceptable(f)
  OBVIOUS
<1> DEFINE Small(s) == {GetLedTemperature(s), GetBaseTemperature(s), GetVoltage(s),
                        GetCurrent(s), SetMainLEDSwitch(65, s), SetMainLEDSwitch(66, s),
                        SetBLEDSwitch(68, s), SetBLEDSwitch(69, s)}
           Large(v) == SetColorTemperatureBrightness(2, 0, v \div 256, v % 256)
<1>1. ASSUME NEW s \in 0 .. SRB_SIZE - 1, f \in Small(s)
      PROVE  Acceptable(f)
  <2> DEFINE data == <<s>>
  <2>1. data \in Seq(Nat) /\ Len(data) = 1
    BY SizeAssumption
  <2>2. NoHead(data)
    BY <2>1 DEF NoHead
  <2>3. \E CMD0, GUID, CON0, CON1 \in Nat \ {104} : f = Frame(CMD0, GUID, CON0, CON1, data)
    <3>1. f \in {Frame(32, 192, 21, 48, data), Frame(32, 176, 17, 48, data),
                 Frame(32, 192, 19, 16, data), Frame(32, 192, 20, 32, data),
                 Frame(64, 192, 65, 0, data), Frame(64, 192, 66, 0, data),
                 Frame(64, 192, 68, 0, data), Frame(64, 192, 69, 0, data)}
      BY <1>1 DEF GetLedTemperature, GetBaseTemperature, GetVoltage, GetCurrent,
                  SetMainLEDSwitch, SetBLEDSwitch
    <3> HIDE DEF data
    <3>2. QED
      BY <3>1
  <2> HIDE DEF data
  <2>4. QED
    BY <2>1, <2>2, <2>3, FrameAcceptable
<1>2. ASSUME NEW v \in 0 .. 1000, f = Large(v)
      PROVE  Acceptable(f)
  <2> DEFINE data == <<2, 0, v \div 256, v % 256>>
  <2>1. v \div 256 \in Nat /\ v % 256 \in Nat
    OBVIOUS
  <2>2. data \in Seq(Nat) /\ Len(data) = 4 /\ v \div 256 # 104
    BY <2>1
  <2>3. NoHead(data)
    <3>1. \A i \in 1 .. Len(data) - 1 : i = 1 \/ i = 2 \/ i = 3
      BY <2>2
    <3>2. QED
      BY <2>2, <3>1 DEF NoHead
  <2>4. f = Frame(64, 192, 67, 0, data)
    BY <1>2 DEF SetColorTemperatureBrightness
  <2> HIDE DEF data
  <2>5. QED
    BY <2>2, <2>3, <2>4, FrameAcceptable
<1>3. f \in (UNION {Small(s) : s \in 0 .. SRB_SIZE - 1}) \cup {Large(v) : v \in 0 .. 1000}
  BY DEF Firmware
<1>4. QED
  <2> HIDE DEF Small, Large
  <2>1. CASE f \in UNION {Small(s) : s \in 0 .. SRB_SIZE - 1}
    <3>1. PICK s \in 0 .. SRB_SIZE - 1 : f \in Small(s)
      BY <2>1
    <3>2. QED
      BY <1>1, <3>1
  <2>2. CASE f \in {Large(v) : v \in 0 .. 1000}
    <3>1. PICK v \in 0 .. 1000 : f = Large(v)
      BY <2>2
    <3>2. QED
      BY <1>2, <3>1
  <2>3. QED
    BY <1>3, <2>1, <2>2

\* f has been read and k of its bytes are fed.
Left(f, k) ==
    /\ k \in 0 .. Len(f)
    /\ Len(cArray) = Len(f) - k
    /\ \A i \in 1 .. Len(cArray) : cArray[i] = f[k + i]

\* k bytes of f are fed, and taken for what they are: where the receiver then is.
At(f, k) ==
    /\ Left(f, k)
    /\ k <= 3 => eRxStatus = "IDLE"
    /\ k > 3 /\ k < Len(f) => got = k - 3
    /\ k >= 13 /\ k < Len(f) => byDataLen = Len(f) - 15
    /\ k = Len(f) => eRxStatus = "IDLE" /\ byFrameLen = 1

\* The strengthening of FirmwareFrameTaken.
Following == whole => \E f \in Firmware : \E k \in 0 .. Len(f) : At(f, k)

\* A byte that is taken is counted.
LEMMA AcceptCounts ==
  ASSUME NEW b, NEW st, NEW f, NEW g
  PROVE  /\ Rx!AcceptHeader(b, st, f, g) => got' = got + 1 /\ byDataLen' = byDataLen
         /\ \A d : Rx!Accept(b, st, f, g, d) => got' = got + 1
  BY DEF Rx!AcceptHeader, Rx!Accept

\* The preamble is dropped byte by byte.
LEMMA FeedPreamble ==
  ASSUME NEW b, b = 254, eRxStatus = "IDLE", Rx!RxUartData(b)
  PROVE  eRxStatus' = "IDLE"
<1>1. Rx!RxIdle(b)
  BY DEF Rx!RxUartData, Rx!RxIdle, Rx!RxHead, Rx!RxFixed, Rx!RxType, Rx!RxCmd0, Rx!RxCmd1,
         Rx!RxGuid, Rx!RxCon0, Rx!RxCon1, Rx!RxData, Rx!RxCs, Rx!RxTail
<1>2. QED
  BY <1>1 DEF Rx!RxIdle, Rx!Reject, Rx!COMM_TRM_HEAD

\* A byte of the header that is as a frame has it is taken.
LEMMA FeedHeader ==
  ASSUME RxP!IInv, NEW b, Rx!RxUartData(b), got \in 0 .. 8, (eRxStatus = "IDLE" => b = 104),
         (got = 1 => b = 69), (got = 2 => b = 0)
  PROVE  got' = got + 1
<1>1. RxP!Position /\ eRxStatus \in RxP!Status /\ byDataLen \in Nat
  BY DEF RxP!IInv, RxP!TypeOK, RxP!UInt8
<1>2. RxP!DataDue \in Nat /\ RxP!DataDue > 0
  BY <1>1 DEF RxP!DataDue
<1>3. eRxStatus \notin {"CON1", "DATA", "CS", "TAIL"}
  <2>1. eRxStatus = "DATA" => byCnt \in Nat
    BY DEF RxP!IInv, RxP!TypeOK, RxP!UInt8
  <2>2. QED
    BY <1>1, <1>2, <2>1 DEF RxP!Position
<1>4. CASE Rx!RxIdle(b) \/ Rx!RxHead(b) \/ Rx!RxFixed(b)
  BY <1>1, <1>4, AcceptCounts DEF RxP!Position, Rx!RxIdle, Rx!RxHead, Rx!RxFixed,
     Rx!COMM_TRM_HEAD, Rx!COMM_TRM_FIXED
<1>5. CASE Rx!RxType(b) \/ Rx!RxCmd0(b) \/ Rx!RxGuid(b) \/ Rx!RxCon0(b)
  BY <1>5, AcceptCounts DEF Rx!RxType, Rx!RxCmd0, Rx!RxGuid, Rx!RxCon0
<1>6. CASE Rx!RxCmd1(b)
  BY <1>1, <1>6, AcceptCounts DEF RxP!Position, Rx!RxCmd1
<1>7. QED
  BY <1>3, <1>4, <1>5, <1>6 DEF Rx!RxUartData, Rx!RxCon1, Rx!RxData, Rx!RxCs, Rx!RxTail

\* The length is taken.
LEMMA FeedLength ==
  ASSUME RxP!IInv, NEW b \in 0 .. 13, Rx!RxUartData(b), got = 9
  PROVE  got' = 10 /\ byDataLen' = b
<1>1. RxP!Position /\ eRxStatus \in RxP!Status /\ byDataLen \in Nat /\ byCnt \in Nat
  BY DEF RxP!IInv, RxP!TypeOK, RxP!UInt8
<1>2. RxP!DataDue \in Nat /\ RxP!DataDue > 0
  BY <1>1 DEF RxP!DataDue
<1>3. eRxStatus = "CON1"
  BY <1>1, <1>2 DEF RxP!Position, RxP!Status
<1>4. Rx!RxCon1(b)
  BY <1>3 DEF Rx!RxUartData, Rx!RxIdle, Rx!RxHead, Rx!RxFixed, Rx!RxType, Rx!RxCmd0, Rx!RxCmd1,
              Rx!RxGuid, Rx!RxCon0, Rx!RxCon1, Rx!RxData, Rx!RxCs, Rx!RxTail
<1>5. b <= MAX_LEN_COMM_TRM_DATA
  BY SizeAssumption
<1>6. byDataLen' = b /\ Rx!Accept(b, "DATA", fld, GUIDCnt, Date)
  BY <1>4, <1>5 DEF Rx!RxCon1
<1>7. QED
  BY <1>6 DEF Rx!Accept

\* Data and check sum are taken.
LEMMA FeedData ==
  ASSUME RxP!IInv, NEW b, Rx!RxUartData(b), byDataLen > 0, got \in 10 .. 10 + byDataLen
  PROVE  got' = got + 1 /\ byDataLen' = byDataLen
<1>1. RxP!Position /\ eRxStatus \in RxP!Status /\ byDataLen \in Nat
  BY DEF RxP!IInv, RxP!TypeOK, RxP!UInt8
<1>2. RxP!DataDue = byDataLen
  BY <1>1 DEF RxP!DataDue
<1>3. eRxStatus \in {"DATA", "CS"}
  BY <1>1, <1>2 DEF RxP!Position, RxP!Status
<1>4. Rx!RxData(b) \/ Rx!RxCs(b)
  BY <1>3 DEF Rx!RxUartData, Rx!RxIdle, Rx!RxHead, Rx!RxFixed, Rx!RxType, Rx!RxCmd0, Rx!RxCmd1,
              Rx!RxGuid, Rx!RxCon0, Rx!RxCon1, Rx!RxData, Rx!RxCs, Rx!RxTail
<1>5. QED
  BY <1>4, AcceptCounts DEF Rx!RxData, Rx!RxCs

\* The tail ends the frame.
LEMMA FeedTail ==
  ASSUME RxP!IInv, NEW b, b = 22, Rx!RxUartData(b), byDataLen > 0, got = 11 + byDataLen
  PROVE  eRxStatus' = "IDLE" /\ byFrameLen' = 1
<1>1. RxP!Position /\ eRxStatus \in RxP!Status /\ byDataLen \in Nat /\ byCnt \in Nat
  BY DEF RxP!IInv, RxP!TypeOK, RxP!UInt8
<1>2. RxP!DataDue = byDataLen
  BY <1>1 DEF RxP!DataDue
<1>3. eRxStatus = "TAIL"
  BY <1>1, <1>2 DEF RxP!Position, RxP!Status
<1>4. Rx!RxTail(b)
  BY <1>3 DEF Rx!RxUartData, Rx!RxIdle, Rx!RxHead, Rx!RxFixed, Rx!RxType, Rx!RxCmd0, Rx!RxCmd1,
              Rx!RxGuid, Rx!RxCon0, Rx!RxCon1, Rx!RxData, Rx!RxCs, Rx!RxTail
<1>5. QED
  BY <1>4 DEF Rx!RxTail, Rx!COMM_TRM_TAIL

\* Feed takes the next byte of f.
LEMMA FeedLeft ==
  ASSUME TaskInv, Feed, NEW f, Acceptable(f), NEW k \in 0 .. Len(f), Left(f, k)
  PROVE  k < Len(f) /\ Left(f, k + 1)' /\ Rx!RxUartData(f[k + 1])
<1> DEFINE b == Head(cArray)
           n == Len(f)
<1>1. n \in 16 .. 28 /\ k \in 0 .. n
  BY DEF Acceptable
<1>2. /\ Len(cArray) = n - k /\ cArray # <<>> /\ cArray \in Seq(Byte)
      /\ \A i \in 1 .. Len(cArray) : cArray[i] = f[k + i]
  BY DEF Left, Feed, TaskInv
<1>3. /\ cArray' = Tail(cArray) /\ Tail(cArray) \in Seq(Byte)
      /\ Len(Tail(cArray)) = Len(cArray) - 1
      /\ \A i \in 1 .. Len(Tail(cArray)) : Tail(cArray)[i] = cArray[i + 1]
  <2>1. cArray' = Tail(cArray)
    BY DEF Feed
  <2>2. QED
    BY <1>2, <2>1, HeadTailProperties
<1>4. k < n
  <2>1. Len(cArray) \in Nat /\ Len(cArray) # 0
    BY <1>2, EmptySeq, LenProperties
  <2>2. QED
    BY <1>1, <1>2, <2>1
<1>5. b = f[k + 1] /\ Rx!RxUartData(b)
  <2>1. b = cArray[1]
    OBVIOUS
  <2>2. 1 \in 1 .. Len(cArray)
    BY <1>1, <1>2, <1>4
  <2>3. QED
    BY <1>2, <2>1, <2>2 DEF Feed
<1>6. /\ Len(cArray') = n - (k + 1)
      /\ \A i \in 1 .. Len(cArray') : cArray'[i] = f[(k + 1) + i]
  <2>1. Len(cArray') = n - (k + 1)
    BY <1>1, <1>2, <1>3
  <2>2. ASSUME NEW i \in 1 .. Len(cArray') PROVE cArray'[i] = f[(k + 1) + i]
    <3>1. i + 1 \in 1 .. Len(cArray) /\ k + (i + 1) = (k + 1) + i
      BY <1>1, <1>2, <2>1
    <3>2. QED
      BY <1>2, <1>3, <3>1
  <2>3. QED
    BY <2>1, <2>2
<1>7. k + 1 \in 0 .. n
  BY <1>1, <1>4
<1>8. QED
  BY <1>4, <1>5, <1>6, <1>7 DEF Left

\* One byte of a frame moves the receiver on by one place.
LEMMA FeedInv ==
  ASSUME TaskInv, RxP!IInv, Feed, NEW f, Acceptable(f), NEW k \in 0 .. Len(f), At(f, k)
  PROVE  k + 1 \in 0 .. Len(f) /\ At(f, k + 1)'
<1> DEFINE b == f[k + 1]
           n == Len(f)
<1>1. n \in 16 .. 28 /\ k \in 0 .. n
  BY DEF Acceptable
<1>2. k < n /\ Left(f, k + 1)' /\ Rx!RxUartData(b)
  BY FeedLeft DEF At
<1>3. b = f[k + 1] /\ Rx!RxUartData(b)
  BY <1>2
<1> HIDE DEF b
<1>4. /\ k <= 3 => eRxStatus = "IDLE"
      /\ k > 3 => got = k - 3
      /\ k >= 13 => byDataLen = n - 15
  BY <1>2 DEF At
<1>5. /\ f[1] = 254 /\ f[2] = 254 /\ f[3] = 254
      /\ f[4] = 104 /\ f[5] = 69 /\ f[6] = 0 /\ f[13] = n - 15 /\ f[n] = 22
  BY DEF Acceptable
<1>6. RxP!Position /\ got \in Nat
  BY DEF RxP!IInv, RxP!TypeOK
<1> HIDE DEF n
<1>7. /\ k + 1 <= 3 => eRxStatus' = "IDLE"
      /\ k + 1 > 3 /\ k + 1 < n => got' = (k + 1) - 3
      /\ k + 1 >= 13 /\ k + 1 < n => byDataLen' = n - 15
      /\ k + 1 = n => eRxStatus' = "IDLE" /\ byFrameLen' = 1
  <2>1. CASE k < 3
    <3>1. k \in {0, 1, 2}
      BY <1>1, <2>1
    <3>2. b = 254
      BY <1>3, <1>5, <3>1
    <3>3. eRxStatus' = "IDLE"
      BY <1>3, <1>4, <2>1, <1>1, <3>2, FeedPreamble
    <3>4. QED
      BY <1>1, <2>1, <3>3
  <2>2. CASE k \in 3 .. 11
    <3>1. got = k - 3
      BY <1>4, <1>6, <2>2 DEF RxP!Position
    <3>2. /\ eRxStatus = "IDLE" => k = 3
          /\ (k = 3 => b = 104) /\ (k = 4 => b = 69) /\ (k = 5 => b = 0)
      BY <1>3, <1>5, <1>6, <2>2, <3>1 DEF RxP!Position
    <3>3. got \in 0 .. 8 /\ (eRxStatus = "IDLE" => b = 104) /\ (got = 1 => b = 69)
          /\ (got = 2 => b = 0)
      BY <2>2, <3>1, <3>2
    <3>4. got' = got + 1
      BY <1>3, <3>3, FeedHeader
    <3>5. QED
      BY <1>1, <2>2, <3>1, <3>4
  <2>3. CASE k = 12
    <3>1. got = 9 /\ b = n - 15 /\ b \in 0 .. 13
      <4>1. k + 1 = 13 /\ k - 3 = 9 /\ k > 3 /\ n - 15 \in 0 .. 13
        BY <1>1, <2>3
      <4>2. b = n - 15
        BY <1>3, <1>5, <4>1
      <4>3. QED
        BY <1>4, <4>1, <4>2
    <3>2. got' = 10 /\ byDataLen' = b
      BY <1>3, <3>1, FeedLength
    <3>3. QED
      BY <1>1, <2>3, <3>1, <3>2
  <2>4. CASE k \in 13 .. n - 2
    <3>1. byDataLen = n - 15 /\ byDataLen > 0 /\ got = k - 3 /\ got \in 10 .. 10 + byDataLen
      BY <1>1, <1>4, <2>4
    <3>2. got' = got + 1 /\ byDataLen' = byDataLen
      BY <1>3, <3>1, FeedData
    <3>3. QED
      BY <1>1, <2>4, <3>1, <3>2
  <2>5. CASE k = n - 1
    <3>1. byDataLen = n - 15 /\ byDataLen > 0 /\ got = 11 + byDataLen
      BY <1>1, <1>4, <2>5
    <3>2. k + 1 = n
      BY <1>1, <2>5
    <3>3. b = 22
      BY <1>3, <1>5, <3>2
    <3>4. eRxStatus' = "IDLE" /\ byFrameLen' = 1
      BY <1>3, <3>1, <3>3, FeedTail
    <3>5. QED
      BY <1>1, <3>2, <3>4
  <2>6. QED
    BY <1>1, <1>2, <2>1, <2>2, <2>3, <2>4, <2>5
<1>8. k + 1 \in 0 .. n
  BY <1>1, <1>2
<1>9. QED
  BY <1>2, <1>7, <1>8 DEF At, n

LEMMA FollowingInit == Init => Following
  BY DEF Init, Following

LEMMA FollowingNext == TaskInv /\ RxP!IInv /\ Following /\ [Next]_vars => Following'
<1> SUFFICES ASSUME TaskInv, RxP!IInv, Following, [Next]_vars, whole' PROVE Following'
  BY DEF Following
<1>1. CASE Feed
  <2>1. whole
    BY <1>1 DEF Feed
  <2>2. PICK f \in Firmware : \E k \in 0 .. Len(f) : At(f, k)
    BY <2>1 DEF Following
  <2>3. PICK k \in 0 .. Len(f) : At(f, k)
    BY <2>2
  <2>4. Acceptable(f)
    BY FirmwareAcceptable
  <2>5. k + 1 \in 0 .. Len(f) /\ At(f, k + 1)'
    BY <1>1, <2>3, <2>4, FeedInv
  <2>6. QED
    BY <2>5 DEF Following
<1>2. ASSUME NEW p \in Port, Read(p) PROVE Following'
  <2>1. eRxStatus = "IDLE" /\ cArray' \in Firmware /\ eRxStatus' = eRxStatus
    BY <1>2 DEF Read, rxVars
  <2>2. PICK f \in Firmware : f = cArray'
    BY <2>1
  <2>3. Acceptable(f)
    BY FirmwareAcceptable
  <2>4. 0 \in 0 .. Len(f) /\ Len(f) \in 16 .. 28
    BY <2>3 DEF Acceptable
  <2>5. At(f, 0)'
    <3>1. /\ Len(cArray') = Len(f) - 0
          /\ \A i \in 1 .. Len(cArray') : cArray'[i] = f[0 + i]
      BY <2>4, <2>2
    <3>2. QED
      BY <2>1, <2>4, <3>1 DEF At, Left
  <2>6. QED
    BY <2>1, <2>4, <2>5 DEF Following
<1>3. CASE UNCHANGED <<rxVars, cArray, whole>>
  BY <1>3 DEF Following, At, Left, rxVars
<1>4. QED
  <2>1. Next => Feed \/ (\E p \in Port : Read(p)) \/ UNCHANGED <<rxVars, cArray, whole>>
    BY DEF Next, Task, Begin, Select, Fed, SetBrightness, Arrive, taskVars, history
  <2>2. UNCHANGED vars => UNCHANGED <<rxVars, cArray, whole>>
    BY DEF vars, taskVars, history
  <2>3. QED
    BY <1>1, <1>2, <1>3, <2>1, <2>2

\* The senders of 485.c and comm2trm_RxUartData(): a frame of this firmware that
\* one read() delivers to an idle receiver is taken to its tail and handed to
\* process_poll(), for every frame counter and every brightness.
THEOREM FirmwareTaken == Spec => []FirmwareFrameTaken
<1>1. Following => FirmwareFrameTaken
  <2> SUFFICES ASSUME Following, whole, cArray = <<>> PROVE eRxStatus = "IDLE" /\ byFrameLen = 1
    BY DEF FirmwareFrameTaken
  <2>1. PICK f \in Firmware : \E k \in 0 .. Len(f) : At(f, k)
    BY DEF Following
  <2>2. PICK k \in 0 .. Len(f) : At(f, k)
    BY <2>1
  <2>3. Len(f) \in Nat
    BY FirmwareAcceptable DEF Acceptable
  <2>4. Len(cArray) = 0 /\ Len(cArray) = Len(f) - k
    BY <2>2 DEF At, Left
  <2>5. k = Len(f)
    BY <2>3, <2>4
  <2>6. QED
    BY <2>2, <2>5 DEF At
<1>2. QED
  BY <1>1, FollowingInit, FollowingNext, TaskInvariance, ReceiverInvariance, PTL DEF Spec

-----------------------------------------------------------------------------
(***************************************************************************)
(* A receiver that two ports have led astray.                              *)
(***************************************************************************)

\* k bytes of f are fed.  A receiver that has been idle in f is where it should be
\* or idle, or has met a byte 0x68 so late that the tail comes before a header does.
Astray(f, k) ==
    /\ Left(f, k)
    /\ \/ ~idled
       \/ eRxStatus = "IDLE"
       \/ At(f, k)
       \/ eRxStatus = "HEAD" /\ k \in {Len(f) - 2, Len(f) - 1}
       \/ eRxStatus = "FIXED" /\ k = Len(f) - 1

\* The strengthening of Resynced.
Resyncing == frame => \E f \in Firmware : \E k \in 0 .. Len(f) : Astray(f, k)

\* The three statuses in which a wrong byte is dropped.
LEMMA FeedStart ==
  ASSUME NEW b, Rx!RxUartData(b)
  PROVE  /\ eRxStatus = "IDLE" /\ b # 104 => eRxStatus' = "IDLE"
         /\ eRxStatus = "IDLE" /\ b = 104 => eRxStatus' = "HEAD"
         /\ eRxStatus = "HEAD" /\ b # 69 => eRxStatus' = "IDLE"
         /\ eRxStatus = "HEAD" /\ b = 69 => eRxStatus' = "FIXED"
         /\ eRxStatus = "FIXED" /\ b # 0 => eRxStatus' = "IDLE"
<1>1. CASE eRxStatus \in {"IDLE", "HEAD", "FIXED"}
  <2>1. Rx!RxIdle(b) \/ Rx!RxHead(b) \/ Rx!RxFixed(b)
    BY <1>1 DEF Rx!RxUartData, Rx!RxIdle, Rx!RxHead, Rx!RxFixed, Rx!RxType, Rx!RxCmd0,
                Rx!RxCmd1, Rx!RxGuid, Rx!RxCon0, Rx!RxCon1, Rx!RxData, Rx!RxCs, Rx!RxTail
  <2>2. QED
    BY <2>1 DEF Rx!RxIdle, Rx!RxHead, Rx!RxFixed, Rx!Reject, Rx!AcceptHeader, Rx!Accept,
                Rx!COMM_TRM_HEAD, Rx!COMM_TRM_FIXED
<1>2. QED
  BY <1>1

\* One byte of a frame that the receiver has been idle in.
LEMMA FeedAstray ==
  ASSUME TaskInv, RxP!IInv, Feed, NEW f, Acceptable(f), NEW k \in 0 .. Len(f), Astray(f, k)
  PROVE  k + 1 \in 0 .. Len(f) /\ Astray(f, k + 1)'
<1> DEFINE n == Len(f)
           b == f[k + 1]
<1>1. n \in 16 .. 28 /\ k \in 0 .. n /\ f[n] = 22 /\ \A i \in 5 .. n - 3 : f[i] # 104
  BY DEF Acceptable
<1>2. k < n /\ Left(f, k + 1)' /\ Rx!RxUartData(b) /\ idled' = (idled \/ eRxStatus' = "IDLE")
  BY FeedLeft DEF Astray, Feed
<1>3. k + 1 \in 0 .. n /\ (k = n - 1 => b = 22)
  <2>1. k = n - 1 => k + 1 = n
    BY <1>1
  <2>2. QED
    BY <1>1, <1>2, <2>1
<1>4. \/ ~idled'
      \/ eRxStatus' = "IDLE"
      \/ At(f, k + 1)'
      \/ eRxStatus' = "HEAD" /\ k + 1 \in {n - 2, n - 1}
      \/ eRxStatus' = "FIXED" /\ k + 1 = n - 1
  <2>1. CASE ~idled
    BY <1>2, <2>1
  <2>2. CASE At(f, k)
    BY <2>2, FeedInv
  <2>3. CASE eRxStatus = "IDLE" /\ k <= 3
    <3>1. At(f, k)
      <4>1. k < n /\ ~(k > 3) /\ ~(k >= 13)
        BY <1>1, <1>2, <2>3
      <4>2. QED
        BY <2>3, <4>1 DEF At, Astray
    <3>2. QED
      BY <3>1, FeedInv
  <2>4. CASE eRxStatus = "IDLE" /\ k > 3
    <3>1. CASE b # 104
      BY <1>2, <2>4, <3>1, FeedStart
    <3>2. CASE b = 104
      <4>1. eRxStatus' = "HEAD"
        BY <1>2, <2>4, <3>2, FeedStart
      <4>2. k + 1 \notin 5 .. n - 3 /\ k # n - 1
        BY <1>1, <1>3, <3>2
      <4>3. k + 1 \in {n - 2, n - 1}
        BY <1>1, <1>2, <2>4, <4>2
      <4>4. QED
        BY <4>1, <4>3
    <3>3. QED
      BY <3>1, <3>2
  <2>5. CASE eRxStatus = "HEAD" /\ k \in {n - 2, n - 1}
    <3>1. CASE b # 69
      BY <1>2, <2>5, <3>1, FeedStart
    <3>2. CASE b = 69
      <4>1. eRxStatus' = "FIXED"
        BY <1>2, <2>5, <3>2, FeedStart
      <4>2. k + 1 = n - 1
        BY <1>1, <1>3, <2>5, <3>2
      <4>3. QED
        BY <4>1, <4>2
    <3>3. QED
      BY <3>1, <3>2
  <2>6. CASE eRxStatus = "FIXED" /\ k = n - 1
    BY <1>2, <1>3, <2>6, FeedStart
  <2>7. QED
    BY <2>1, <2>2, <2>3, <2>4, <2>5, <2>6, <1>1 DEF Astray
<1>5. QED
  BY <1>2, <1>3, <1>4 DEF Astray

LEMMA ResyncingNext == TaskInv /\ RxP!IInv /\ Resyncing /\ [Next]_vars => Resyncing'
<1> SUFFICES ASSUME TaskInv, RxP!IInv, Resyncing, [Next]_vars, frame' PROVE Resyncing'
  BY DEF Resyncing
<1>1. CASE Feed
  <2>1. frame
    BY <1>1 DEF Feed
  <2>2. PICK f \in Firmware : \E k \in 0 .. Len(f) : Astray(f, k)
    BY <2>1 DEF Resyncing
  <2>3. PICK k \in 0 .. Len(f) : Astray(f, k)
    BY <2>2
  <2>4. Acceptable(f)
    BY FirmwareAcceptable
  <2>5. k + 1 \in 0 .. Len(f) /\ Astray(f, k + 1)'
    BY <1>1, <2>3, <2>4, FeedAstray
  <2>6. QED
    BY <2>5 DEF Resyncing
<1>2. ASSUME NEW p \in Port, Read(p) PROVE Resyncing'
  <2>1. cArray' \in Firmware /\ eRxStatus' = eRxStatus /\ idled' = (eRxStatus = "IDLE")
    BY <1>2 DEF Read, rxVars
  <2>2. PICK f \in Firmware : f = cArray'
    BY <2>1
  <2>3. 0 \in 0 .. Len(f) /\ Len(f) \in 16 .. 28
    BY FirmwareAcceptable DEF Acceptable
  <2>4. Left(f, 0)'
    BY <2>2, <2>3 DEF Left
  <2>5. Astray(f, 0)'
    BY <2>1, <2>4 DEF Astray
  <2>6. QED
    BY <2>3, <2>5 DEF Resyncing
<1>3. CASE UNCHANGED <<rxVars, cArray, history>>
  BY <1>3 DEF Resyncing, Astray, At, Left, rxVars, history
<1>4. QED
  <2>1. Next => Feed \/ (\E p \in Port : Read(p)) \/ UNCHANGED <<rxVars, cArray, history>>
    BY DEF Next, Task, Begin, Select, Fed, SetBrightness, Arrive, taskVars
  <2>2. UNCHANGED vars => UNCHANGED <<rxVars, cArray, history>>
    BY DEF vars, taskVars
  <2>3. QED
    BY <1>1, <1>2, <1>3, <2>1, <2>2

\* comm2trm_RxUartData() fed from two ports: whatever the receiver was left with,
\* once it has been idle in a frame of this firmware it is idle at the end of it,
\* so that it takes the next one, for every frame counter and every brightness.
THEOREM ReceiverResynced == Spec => []Resynced
<1>1. Init => Resyncing
  BY DEF Init, Resyncing
<1>2. Resyncing => Resynced
  <2> SUFFICES ASSUME Resyncing, frame, idled, cArray = <<>> PROVE eRxStatus = "IDLE"
    BY DEF Resynced
  <2>1. PICK f \in Firmware : \E k \in 0 .. Len(f) : Astray(f, k)
    BY DEF Resyncing
  <2>2. PICK k \in 0 .. Len(f) : Astray(f, k)
    BY <2>1
  <2>3. Len(f) \in Nat
    BY FirmwareAcceptable DEF Acceptable
  <2>4. Len(cArray) = 0 /\ Len(cArray) = Len(f) - k
    BY <2>2 DEF Astray, Left
  <2>5. k = Len(f)
    BY <2>3, <2>4
  <2>6. k \notin {Len(f) - 2, Len(f) - 1}
    BY <2>3, <2>5
  <2>7. QED
    BY <2>2, <2>5, <2>6 DEF Astray, At
<1>3. QED
  BY <1>1, <1>2, ResyncingNext, TaskInvariance, ReceiverInvariance, PTL DEF Spec
=============================================================================
