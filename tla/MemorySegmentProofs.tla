------------------------ MODULE MemorySegmentProofs ------------------------
(***************************************************************************)
(* The list parse_memory_segments makes of any descriptor.  Its two loops  *)
(* are folds; what a fold computes is proved from the least prefix of its  *)
(* sequence that would be a counterexample.                                *)
(***************************************************************************)
EXTENDS MemorySegment, SequenceTheorems, WellFoundedInduction, TLAPS

(* A set of natural numbers that is not empty has a least.                 *)
LEMMA Least ==
  ASSUME NEW T, T \subseteq Nat, T # {}
  PROVE  \E k \in T : \A h \in T : k <= h
<1> DEFINE R == OpToRel(<, Nat)
<1>1. \E k \in T : \A h \in T : << h, k >> \notin R
  BY NatLessThanWellFounded, WFMin
<1>2. ASSUME NEW k \in T, NEW h \in T, << h, k >> \notin R
      PROVE  k <= h
  BY <1>2 DEF OpToRel
<1> QED
  BY <1>1, <1>2

(* Induction, over a set rather than a predicate.                          *)
LEMMA Induction ==
  ASSUME NEW P, 0 \in P, \A n \in Nat : n \in P => n + 1 \in P
  PROVE  Nat \subseteq P
<1> SUFFICES ASSUME NEW m \in Nat, m \notin P PROVE FALSE
  OBVIOUS
<1> DEFINE T == { n \in Nat : n \notin P }
<1>1. T \subseteq Nat /\ T # {}
  OBVIOUS
<1>2. PICK k \in T : \A h \in T : k <= h
  <2> HIDE DEF T
  <2> QED BY <1>1, Least
<1>3. k \in Nat /\ k # 0 /\ k \notin P
  BY <1>2
<1>4. k - 1 \in Nat /\ k - 1 \in P /\ (k - 1) + 1 = k
  BY <1>2, <1>3
<1> QED
  BY <1>3, <1>4

(* f[s] is g folded from b over the elements of seq with their index in s. *)
Iterates(f, g, b, seq, n) ==
  \A s \in SUBSET (1 .. n) :
    f[s] = IF s = {} THEN b ELSE g[f[s \ {Max(s)}], seq[Max(s)]]

(* The fold takes the index that Max picks last; here is that it exists.   *)
LEMMA MaxIn ==
  ASSUME NEW n \in Nat, NEW s \in SUBSET (1 .. n), s # {}
  PROVE  Max(s) \in s /\ \A y \in s : Max(s) >= y
<1> DEFINE T == { k \in Nat : \A y \in s : y <= k }
<1>1. n \in T
  OBVIOUS
<1>2. PICK k \in T : \A h \in T : k <= h
  <2>1. T \subseteq Nat /\ T # {}
    BY <1>1
  <2> HIDE DEF T
  <2> QED BY <2>1, Least
<1>3. k \in s
  <2> SUFFICES ASSUME k \notin s PROVE FALSE
    OBVIOUS
  <2>1. k \in Nat /\ \A y \in s : y \in Int /\ y <= k - 1 /\ 1 <= y
    BY <1>2
  <2>2. k - 1 \in Nat
    <3>1. PICK y \in s : TRUE
      OBVIOUS
    <3>2. y \in Int /\ y <= k - 1 /\ 1 <= y
      BY <2>1
    <3> QED
      BY <2>1, <3>2
  <2>3. k - 1 \in T
    BY <2>1, <2>2
  <2> QED
    BY <1>2, <2>1, <2>3
<1>4. \E x \in s : \A y \in s : x >= y
  BY <1>2, <1>3
<1> QED
  BY <1>4 DEF Max

LEMMA MaxOfRange ==
  ASSUME NEW k \in Nat
  PROVE  Max(1 .. k + 1) = k + 1 /\ (1 .. k + 1) \ {k + 1} = 1 .. k
<1>1. /\ k + 1 \in Nat /\ k + 1 \in 1 .. k + 1
      /\ 1 .. k + 1 \in SUBSET (1 .. k + 1)
  OBVIOUS
<1>2. Max(1 .. k + 1) \in 1 .. k + 1 /\ \A y \in 1 .. k + 1 : Max(1 .. k + 1) >= y
  BY <1>1, MaxIn
<1> QED
  BY <1>1, <1>2

(* Such an f there is, built from the front of the sequence.               *)
LEMMA IterationExists ==
  ASSUME NEW X, NEW Y, NEW g \in [X \X Y -> X], NEW b \in X, NEW seq \in Seq(Y)
  PROVE  \A n \in 0 .. Len(seq) :
           \E f \in [SUBSET (1 .. n) -> X] : Iterates(f, g, b, seq, n)
<1> DEFINE Some(n) == \E f \in [SUBSET (1 .. n) -> X] : Iterates(f, g, b, seq, n)
           P == { n \in Nat : n <= Len(seq) => Some(n) }
<1>1. Some(0)
  <2> DEFINE f == [s \in SUBSET (1 .. 0) |-> b]
  <2>1. f \in [SUBSET (1 .. 0) -> X]
    OBVIOUS
  <2>2. \A s \in SUBSET (1 .. 0) : s = {}
    OBVIOUS
  <2>3. Iterates(f, g, b, seq, 0)
    BY <2>2 DEF Iterates
  <2> QED
    BY <2>1, <2>3
<1>2. ASSUME NEW n \in Nat, n + 1 <= Len(seq), Some(n)
      PROVE  Some(n + 1)
  <2>1. PICK e \in [SUBSET (1 .. n) -> X] : Iterates(e, g, b, seq, n)
    BY <1>2
  <2> DEFINE val(s) == IF n + 1 \in s THEN g[e[s \ {n + 1}], seq[n + 1]] ELSE e[s]
             f == [s \in SUBSET (1 .. n + 1) |-> val(s)]
  <2>2. seq[n + 1] \in Y
    BY <1>2, ElementOfSeq
  <2>3. \A s \in SUBSET (1 .. n + 1) :
           /\ s \ {n + 1} \in SUBSET (1 .. n)
           /\ n + 1 \notin s => s \in SUBSET (1 .. n)
    OBVIOUS
  <2>4. ASSUME NEW s \in SUBSET (1 .. n + 1)
        PROVE  f[s] = val(s) /\ val(s) \in X
    <3>1. e[s \ {n + 1}] \in X /\ (n + 1 \notin s => e[s] \in X)
      BY <2>3
    <3> QED
      BY <3>1, <2>2
  <2>5. /\ \A s \in SUBSET (1 .. n + 1) : n + 1 \in s =>
             f[s] = g[e[s \ {n + 1}], seq[n + 1]]
        /\ \A s \in SUBSET (1 .. n + 1) : n + 1 \notin s => f[s] = e[s]
        /\ f \in [SUBSET (1 .. n + 1) -> X]
    <3>1. f \in [SUBSET (1 .. n + 1) -> X]
      <4> HIDE DEF val
      <4> QED BY <2>4
    <3> QED
      BY <2>4, <3>1
  <2> HIDE DEF f, val
  <2>6. ASSUME NEW s \in SUBSET (1 .. n + 1), s # {}
        PROVE  f[s] = g[f[s \ {Max(s)}], seq[Max(s)]]
    <3>1. Max(s) \in s /\ (\A y \in s : Max(s) >= y)
      <4>1. n + 1 \in Nat
        OBVIOUS
      <4> QED
        BY <2>6, <4>1, MaxIn
    <3>2. CASE n + 1 \in s
      <4>1. Max(s) = n + 1
        <5>1. Max(s) >= n + 1 /\ Max(s) \in 1 .. n + 1
          BY <3>1, <3>2
        <5> QED
          BY <5>1
      <4>2. s \ {n + 1} \in SUBSET (1 .. n + 1) /\ n + 1 \notin s \ {n + 1}
        OBVIOUS
      <4>3. f[s \ {n + 1}] = e[s \ {n + 1}]
        BY <2>5, <4>2
      <4> QED
        BY <2>5, <3>2, <4>1, <4>3
    <3>3. CASE n + 1 \notin s
      <4>1. s \in SUBSET (1 .. n) /\ s \ {Max(s)} \in SUBSET (1 .. n + 1)
            /\ n + 1 \notin s \ {Max(s)}
        BY <2>3, <3>3
      <4>2. e[s] = g[e[s \ {Max(s)}], seq[Max(s)]]
        BY <2>1, <2>6, <4>1 DEF Iterates
      <4>3. f[s] = e[s] /\ f[s \ {Max(s)}] = e[s \ {Max(s)}]
        BY <2>5, <3>3, <4>1
      <4> QED
        BY <4>2, <4>3
    <3> QED
      BY <3>2, <3>3
  <2>7. f[{}] = b
    <3>1. {} \in SUBSET (1 .. n) /\ {} \in SUBSET (1 .. n + 1) /\ n + 1 \notin {}
      OBVIOUS
    <3>2. e[{}] = b
      BY <2>1, <3>1 DEF Iterates
    <3> QED
      BY <2>5, <3>1, <3>2
  <2>8. Iterates(f, g, b, seq, n + 1)
    BY <2>6, <2>7 DEF Iterates
  <2> QED
    BY <2>5, <2>8
<1>3. Len(seq) \in Nat
  OBVIOUS
<1> HIDE DEF Some
<1>4. 0 \in P /\ \A n \in Nat : n \in P => n + 1 \in P
  BY <1>1, <1>2, <1>3
<1>5. Nat \subseteq P
  <2> HIDE DEF P
  <2> QED BY <1>4, Induction
<1>6. \A n \in 0 .. Len(seq) : Some(n)
  BY <1>3, <1>5
<1> QED
  BY <1>6 DEF Some

(* A fold steps through the prefixes: t[k] is its value on the first k.    *)
Trace(t, g, b, seq) ==
  t[0] = b /\ \A k \in 1 .. Len(seq) : t[k] = g[t[k - 1], seq[k]]

(* A function that iterates as long as it stays in X.                      *)
IteratesIn(X, f, g, b, seq) ==
  /\ f[{}] = b
  /\ \A s \in SUBSET (1 .. Len(seq)) :
       s # {} /\ f[s \ {Max(s)}] \in X => f[s] = g[f[s \ {Max(s)}], seq[Max(s)]]

(* The whole fold is the last value of a trace.                            *)
HasTrace(X, iter, g, b, seq) ==
  \E t \in [0 .. Len(seq) -> X] :
    Trace(t, g, b, seq) /\ iter[DOMAIN seq] = t[Len(seq)]

LEMMA IterationIsTrace ==
  ASSUME NEW X, NEW Y, NEW g \in [X \X Y -> X], NEW b \in X, NEW seq \in Seq(Y),
         NEW iter, IteratesIn(X, iter, g, b, seq)
  PROVE  HasTrace(X, iter, g, b, seq)
<1> DEFINE v == [k \in Nat |-> iter[1 .. k]]
           t == [k \in 0 .. Len(seq) |-> v[k]]
           P == { k \in Nat : k <= Len(seq) => v[k] \in X }
<1>1. Len(seq) \in Nat /\ DOMAIN seq = 1 .. Len(seq)
  OBVIOUS
<1>2. v[0] = b
  <2>1. 1 .. 0 = {}
    OBVIOUS
  <2> QED
    BY <2>1 DEF IteratesIn
<1>3. ASSUME NEW k \in Nat, k + 1 <= Len(seq), v[k] \in X
      PROVE  v[k + 1] = g[v[k], seq[k + 1]] /\ v[k + 1] \in X
  <2>1. 1 .. k + 1 \in SUBSET (1 .. Len(seq)) /\ 1 .. k + 1 # {}
    BY <1>1, <1>3
  <2>2. /\ Max(1 .. k + 1) = k + 1 /\ (1 .. k + 1) \ {k + 1} = 1 .. k
        /\ v[k] = iter[1 .. k] /\ v[k + 1] = iter[1 .. k + 1]
    <3>1. k + 1 \in Nat
      OBVIOUS
    <3>2. v[k] = iter[1 .. k] /\ v[k + 1] = iter[1 .. k + 1]
      BY <3>1
    <3> HIDE DEF v
    <3> QED
      BY <3>2, MaxOfRange
  <2>4. v[k + 1] = g[v[k], seq[k + 1]]
    BY <1>3, <2>1, <2>2 DEF IteratesIn
  <2>3. seq[k + 1] \in Y
    BY <1>3, ElementOfSeq
  <2> QED
    BY <1>3, <2>3, <2>4
<1>4. iter[DOMAIN seq] = v[Len(seq)]
  BY <1>1
<1> HIDE DEF v
<1>5. 0 \in P /\ \A k \in Nat : k \in P => k + 1 \in P
  <2>1. ASSUME NEW k \in Nat, k \in P PROVE k + 1 \in P
    <3> SUFFICES ASSUME k + 1 <= Len(seq) PROVE v[k + 1] \in X
      OBVIOUS
    <3>1. v[k] \in X
      BY <1>1, <2>1
    <3> QED
      BY <1>3, <3>1
  <2> QED
    BY <1>2, <2>1
<1>6. Nat \subseteq P
  <2> HIDE DEF P
  <2> QED BY <1>5, Induction
<1>7. ASSUME NEW k \in 0 .. Len(seq) PROVE v[k] \in X
  BY <1>1, <1>6
<1>8. ASSUME NEW k \in 1 .. Len(seq) PROVE t[k] = g[t[k - 1], seq[k]]
  <2>1. k - 1 \in Nat /\ k - 1 \in 0 .. Len(seq) /\ (k - 1) + 1 = k /\ k \in 0 .. Len(seq)
    BY <1>1
  <2>2. v[k - 1] \in X
    BY <1>7, <2>1
  <2>3. v[k] = g[v[k - 1], seq[k]]
    <3>1. PICK j \in Nat : j = k - 1 /\ k = j + 1 /\ j + 1 <= Len(seq)
      BY <2>1
    <3>2. v[j + 1] = g[v[j], seq[j + 1]]
      BY <1>3, <2>2, <3>1
    <3> QED
      BY <3>1, <3>2
  <2>4. t[k] = v[k] /\ t[k - 1] = v[k - 1]
    BY <2>1
  <2> QED
    BY <2>1, <2>3, <2>4
<1>9. t \in [0 .. Len(seq) -> X] /\ t[0] = b /\ t[Len(seq)] = v[Len(seq)]
  BY <1>1, <1>2, <1>7
<1> HIDE DEF t
<1> QED
  BY <1>4, <1>8, <1>9 DEF Trace, HasTrace

LEMMA TraceExists ==
  ASSUME NEW X, NEW Y, NEW g \in [X \X Y -> X], NEW b \in X, NEW seq \in Seq(Y)
  PROVE  \E t \in [0 .. Len(seq) -> X] : Trace(t, g, b, seq)
<1>1. Len(seq) \in Nat /\ Len(seq) \in 0 .. Len(seq)
  OBVIOUS
<1>2. PICK f \in [SUBSET (1 .. Len(seq)) -> X] : Iterates(f, g, b, seq, Len(seq))
  BY <1>1, IterationExists
<1>3. {} \in SUBSET (1 .. Len(seq))
  OBVIOUS
<1>4. IteratesIn(X, f, g, b, seq)
  BY <1>2, <1>3 DEF Iterates, IteratesIn
<1>5. HasTrace(X, f, g, b, seq)
  BY ONLY g \in [X \X Y -> X], b \in X, seq \in Seq(Y), <1>4, IterationIsTrace
<1> QED
  BY <1>5 DEF HasTrace

-----------------------------------------------------------------------------
(***************************************************************************)
(* The two loops of parse_memory_segments.                                 *)
(***************************************************************************)
(* What the inner loop carries from turn to turn.                          *)
Scan == [address_start: 0 .. U32 - 1, list: Seq(Segment)]

LEMMA SizeIsNat ==
  ASSUME NEW s \in SegmentFields
  PROVE  SegmentSize(s) \in Nat /\ PageSize(s) \in 0 .. U32 - 1
<1>1. Unit[s.unit] \in Nat
  BY DEF SegmentFields, Unit
<1>2. s.page_size * Unit[s.unit] \in Nat
  BY <1>1 DEF SegmentFields
<1>3. PageSize(s) \in 0 .. U32 - 1
  BY <1>2, U32Assumption DEF PageSize
<1> QED
  BY <1>3, U32Assumption DEF SegmentSize, SegmentFields

LEMMA NodeTyped ==
  ASSUME NEW a \in 0 .. U32 - 1, NEW s \in SegmentFields
  PROVE  MemorySegmentAt(a, s) \in Segment
<1>1. (a + SegmentSize(s)) % U32 \in 0 .. U32 - 1
  BY SizeIsNat, U32Assumption
<1>2. s.type % 8 \in 0 .. 7
  BY DEF SegmentFields
<1> QED
  BY <1>1, <1>2, SizeIsNat DEF MemorySegmentAt, Segment

LEMMA ScanTyped ==
  ASSUME NEW scan \in Scan, NEW s \in SegmentFields
  PROVE  ParseSegment(scan, s) \in Scan
<1>1. scan.address_start \in 0 .. U32 - 1 /\ scan.list \in Seq(Segment)
  BY DEF Scan
<1> DEFINE segment == MemorySegmentAt(scan.address_start, s)
<1>2. segment \in Segment
  BY <1>1, NodeTyped
<1>3. segment.end \in 0 .. U32 - 1 /\ Append(scan.list, segment) \in Seq(Segment)
  <2> HIDE DEF segment
  <2> QED BY <1>1, <1>2 DEF Segment
<1> QED
  BY <1>3 DEF ParseSegment, Scan

(* The inner loop, turn by turn.                                           *)
LEMMA SegmentsTrace ==
  ASSUME NEW scan \in Scan, NEW segments \in Seq(SegmentFields)
  PROVE  \E t \in [0 .. Len(segments) -> Scan] :
           /\ t[0] = scan
           /\ \A k \in 1 .. Len(segments) : t[k] = ParseSegment(t[k - 1], segments[k])
           /\ FoldLeft(ParseSegment, scan, segments) = t[Len(segments)]
<1> DEFINE g == [p \in Scan \X SegmentFields |-> ParseSegment(p[1], p[2])]
           turn(f, s) == IF s = {} THEN scan
                         ELSE ParseSegment(f[s \ {Max(s)}], segments[Max(s)])
           iter == CHOOSE f : f = [s \in SUBSET DOMAIN segments |-> turn(f, s)]
<1>1. Len(segments) \in Nat /\ DOMAIN segments = 1 .. Len(segments)
  OBVIOUS
<1>2. /\ g \in [Scan \X SegmentFields -> Scan]
      /\ \A x \in Scan, y \in SegmentFields : g[x, y] = ParseSegment(x, y)
  BY ScanTyped
<1>3. FoldLeft(ParseSegment, scan, segments) = iter[DOMAIN segments]
  BY DEF FoldLeft, MapThenFoldSet
<1> HIDE DEF g
<1>4. \E f : f = [s \in SUBSET DOMAIN segments |-> turn(f, s)]
  <2>1. PICK f \in [SUBSET (1 .. Len(segments)) -> Scan] :
               Iterates(f, g, scan, segments, Len(segments))
    <3>1. Len(segments) \in 0 .. Len(segments)
      BY <1>1
    <3> QED
      BY <1>2, <3>1, IterationExists
  <2>2. ASSUME NEW s \in SUBSET (1 .. Len(segments)) PROVE f[s] = turn(f, s)
    <3>1. CASE s = {}
      BY <2>1, <3>1 DEF Iterates
    <3>2. CASE s # {}
      <4>1. Max(s) \in s
        BY <1>1, <3>2, MaxIn
      <4>2. segments[Max(s)] \in SegmentFields /\ f[s \ {Max(s)}] \in Scan
        BY <4>1, ElementOfSeq
      <4> QED
        BY <1>2, <2>1, <3>2, <4>2 DEF Iterates
    <3> QED
      BY <3>1, <3>2
  <2> HIDE DEF turn
  <2> QED
    BY <1>1, <2>2
<1>5. iter = [s \in SUBSET DOMAIN segments |-> turn(iter, s)]
  <2> HIDE DEF turn
  <2> QED
    BY <1>4
<1>6. iter[{}] = scan
  BY <1>5
<1>7. ASSUME NEW s \in SUBSET (1 .. Len(segments)), s # {}, iter[s \ {Max(s)}] \in Scan
      PROVE  iter[s] = g[iter[s \ {Max(s)}], segments[Max(s)]]
  <2>1. Max(s) \in s
    BY <1>1, <1>7, MaxIn
  <2>2. segments[Max(s)] \in SegmentFields
    BY <2>1, ElementOfSeq
  <2>3. iter[s] = turn(iter, s)
    <3> HIDE DEF turn, iter
    <3> QED BY <1>1, <1>5
  <2> HIDE DEF iter
  <2> QED
    BY <1>2, <1>7, <2>2, <2>3
<1> HIDE DEF iter
<1>8. PICK t \in [0 .. Len(segments) -> Scan] :
             Trace(t, g, scan, segments) /\ iter[DOMAIN segments] = t[Len(segments)]
  <2>1. IteratesIn(Scan, iter, g, scan, segments)
    BY <1>6, <1>7 DEF IteratesIn
  <2>2. scan \in Scan /\ segments \in Seq(SegmentFields)
    OBVIOUS
  <2>3. HasTrace(Scan, iter, g, scan, segments)
    <3>1. g \in [Scan \X SegmentFields -> Scan]
      BY <1>2
    <3> QED
      BY ONLY <2>1, <2>2, <3>1, IterationIsTrace
  <2> QED
    BY <2>3 DEF HasTrace
<1>9. ASSUME NEW k \in 1 .. Len(segments)
      PROVE  t[k] = ParseSegment(t[k - 1], segments[k])
  <2>1. t[k - 1] \in Scan /\ segments[k] \in SegmentFields
    BY <1>1, ElementOfSeq
  <2> QED
    BY <1>2, <1>8, <2>1 DEF Trace
<1> QED
  BY <1>3, <1>8, <1>9 DEF Trace

LEMMA RegionTyped ==
  ASSUME NEW nodes \in Seq(Segment), NEW region \in RegionFields
  PROVE  ParseRegion(nodes, region) \in Seq(Segment)
<1> DEFINE scan == [address_start |-> region.address, list |-> nodes]
<1>1. scan \in Scan /\ region.segments \in Seq(SegmentFields)
  BY DEF Scan, RegionFields
<1> HIDE DEF scan
<1>2. PICK t \in [0 .. Len(region.segments) -> Scan] :
             FoldLeft(ParseSegment, scan, region.segments) = t[Len(region.segments)]
  BY <1>1, SegmentsTrace
<1>3. Len(region.segments) \in 0 .. Len(region.segments)
  BY <1>1
<1>4. FoldLeft(ParseSegment, scan, region.segments) \in Scan
  BY <1>2, <1>3
<1>5. FoldLeft(ParseSegment, scan, region.segments).list \in Seq(Segment)
  BY <1>4 DEF Scan
<1> QED
  BY <1>5 DEF ParseRegion, scan

(* The outer loop.                                                         *)
LEMMA RegionsTrace ==
  ASSUME NEW regions \in Seq(RegionFields)
  PROVE  \E t \in [0 .. Len(regions) -> Seq(Segment)] :
           /\ t[0] = << >>
           /\ \A k \in 1 .. Len(regions) : t[k] = ParseRegion(t[k - 1], regions[k])
           /\ FoldLeft(ParseRegion, << >>, regions) = t[Len(regions)]
<1> DEFINE X == Seq(Segment)
           g == [p \in X \X RegionFields |-> ParseRegion(p[1], p[2])]
           turn(f, s) == IF s = {} THEN << >>
                         ELSE ParseRegion(f[s \ {Max(s)}], regions[Max(s)])
           iter == CHOOSE f : f = [s \in SUBSET DOMAIN regions |-> turn(f, s)]
<1>1. Len(regions) \in Nat /\ DOMAIN regions = 1 .. Len(regions) /\ << >> \in X
  OBVIOUS
<1>2. /\ g \in [X \X RegionFields -> X]
      /\ \A x \in X, y \in RegionFields : g[x, y] = ParseRegion(x, y)
  BY RegionTyped
<1>3. FoldLeft(ParseRegion, << >>, regions) = iter[DOMAIN regions]
  BY DEF FoldLeft, MapThenFoldSet
<1> HIDE DEF g, X
<1>4. \E f : f = [s \in SUBSET DOMAIN regions |-> turn(f, s)]
  <2>1. PICK f \in [SUBSET (1 .. Len(regions)) -> X] :
               Iterates(f, g, << >>, regions, Len(regions))
    <3>1. Len(regions) \in 0 .. Len(regions)
      BY <1>1
    <3> QED
      BY <1>1, <1>2, <3>1, IterationExists
  <2>2. ASSUME NEW s \in SUBSET (1 .. Len(regions)) PROVE f[s] = turn(f, s)
    <3>1. CASE s = {}
      BY <2>1, <3>1 DEF Iterates
    <3>2. CASE s # {}
      <4>1. Max(s) \in s
        BY <1>1, <3>2, MaxIn
      <4>2. regions[Max(s)] \in RegionFields /\ f[s \ {Max(s)}] \in X
        BY <4>1, ElementOfSeq
      <4> QED
        BY <1>2, <2>1, <3>2, <4>2 DEF Iterates
    <3> QED
      BY <3>1, <3>2
  <2> HIDE DEF turn
  <2> QED
    BY <1>1, <2>2
<1>5. iter = [s \in SUBSET DOMAIN regions |-> turn(iter, s)]
  <2> HIDE DEF turn
  <2> QED
    BY <1>4
<1>6. iter[{}] = << >>
  BY <1>5
<1>7. ASSUME NEW s \in SUBSET (1 .. Len(regions)), s # {}, iter[s \ {Max(s)}] \in X
      PROVE  iter[s] = g[iter[s \ {Max(s)}], regions[Max(s)]]
  <2>1. Max(s) \in s
    BY <1>1, <1>7, MaxIn
  <2>2. regions[Max(s)] \in RegionFields
    BY <2>1, ElementOfSeq
  <2>3. iter[s] = turn(iter, s)
    <3> HIDE DEF turn, iter
    <3> QED BY <1>1, <1>5
  <2> HIDE DEF iter
  <2> QED
    BY <1>2, <1>7, <2>2, <2>3
<1> HIDE DEF iter
<1>8. PICK t \in [0 .. Len(regions) -> X] :
             Trace(t, g, << >>, regions) /\ iter[DOMAIN regions] = t[Len(regions)]
  <2>1. IteratesIn(X, iter, g, << >>, regions)
    BY <1>6, <1>7 DEF IteratesIn
  <2>2. << >> \in X /\ regions \in Seq(RegionFields)
    BY <1>1
  <2>3. HasTrace(X, iter, g, << >>, regions)
    <3>1. g \in [X \X RegionFields -> X]
      BY <1>2
    <3> QED
      BY ONLY <2>1, <2>2, <3>1, IterationIsTrace
  <2> QED
    BY <2>3 DEF HasTrace
<1>9. ASSUME NEW k \in 1 .. Len(regions)
      PROVE  t[k] = ParseRegion(t[k - 1], regions[k])
  <2>1. t[k - 1] \in X /\ regions[k] \in RegionFields
    BY <1>1, ElementOfSeq
  <2> QED
    BY <1>2, <1>8, <2>1 DEF Trace
<1> QED
  BY <1>3, <1>8, <1>9 DEF Trace, X

(* The list of a descriptor is one, whatever its fields hold: every place, *)
(* page size and access fits the type parse_memory_segments gives it.      *)
THEOREM ParsedList ==
  ASSUME NEW descriptor \in Descriptor
  PROVE  parse_memory_segments(descriptor) \in Seq(Segment)
<1>1. descriptor.regions \in Seq(RegionFields)
  BY DEF Descriptor
<1>2. PICK t \in [0 .. Len(descriptor.regions) -> Seq(Segment)] :
             FoldLeft(ParseRegion, << >>, descriptor.regions) = t[Len(descriptor.regions)]
  BY <1>1, RegionsTrace
<1>3. Len(descriptor.regions) \in 0 .. Len(descriptor.regions)
  BY <1>1
<1> QED
  BY <1>2, <1>3 DEF parse_memory_segments
=============================================================================
