------------------------ MODULE SegmentQueriesProofs ------------------------
(***************************************************************************)
(* For every descriptor and every address: the parsed list is the one the  *)
(* descriptor declares, and a lookup in it answers the right node or its   *)
(* neighbour.                                                              *)
(***************************************************************************)
EXTENDS SegmentQueries, MemorySegmentProofs, FiniteSetTheorems

-----------------------------------------------------------------------------
(***************************************************************************)
(* Remainders: the parser adds modulo 2^32 after every segment, which is   *)
(* the same as once at the end.                                            *)
(***************************************************************************)
(* n divided by m gives q, and r is left.                                  *)
Divides(n, m, q, r) == n = m * q + r

LEMMA RemainderIs ==
  ASSUME NEW n \in Nat, NEW m \in Nat, NEW q \in Int, NEW r \in Nat, r < m,
         Divides(n, m, q, r)
  PROVE  n % m = r
BY DEF Divides

LEMMA Division ==
  ASSUME NEW m \in Nat, m > 0, NEW a \in Nat
  PROVE  \E q \in Int : Divides(a, m, q, a % m)
<1> DEFINE P == { n \in Nat : \E q \in Int, r \in 0 .. m - 1 : Divides(n, m, q, r) }
<1>1. 0 \in P
  <2>1. 0 \in Int /\ 0 \in 0 .. m - 1 /\ Divides(0, m, 0, 0)
    BY DEF Divides
  <2> QED
    BY <2>1
<1>2. ASSUME NEW n \in Nat, n \in P PROVE n + 1 \in P
  <2>1. PICK q \in Int, r \in 0 .. m - 1 : Divides(n, m, q, r)
    BY <1>2
  <2>2. CASE r + 1 < m
    <3>1. r + 1 \in 0 .. m - 1 /\ Divides(n + 1, m, q, r + 1)
      BY <2>1, <2>2 DEF Divides
    <3> QED
      BY <3>1
  <2>3. CASE r + 1 >= m
    <3>1. m * (q + 1) = m * q + m /\ m * q \in Int
      OBVIOUS
    <3>2. q + 1 \in Int /\ 0 \in 0 .. m - 1 /\ Divides(n + 1, m, q + 1, 0)
      BY <2>1, <2>3, <3>1 DEF Divides
    <3> QED
      BY <3>2
  <2> QED
    BY <2>2, <2>3
<1>3. a \in P
  <2> HIDE DEF P
  <2> QED BY <1>1, <1>2, Induction
<1>4. PICK q \in Int, r \in 0 .. m - 1 : Divides(a, m, q, r)
  BY <1>3
<1>5. a % m = r
  <2>1. r \in Nat /\ r < m
    BY <1>4
  <2> QED
    BY <1>4, <2>1, RemainderIs
<1> QED
  BY <1>4, <1>5

LEMMA DivisionsAdd ==
  ASSUME NEW a \in Nat, NEW s \in Nat, NEW m \in Nat, NEW q \in Int, NEW p \in Int,
         NEW r \in Nat, NEW t \in Nat, Divides(a, m, q, r), Divides(r + s, m, p, t)
  PROVE  Divides(a + s, m, q + p, t)
<1>1. m * (q + p) = m * q + m * p /\ m * q \in Int /\ m * p \in Int
  OBVIOUS
<1> QED
  BY <1>1 DEF Divides

(* A sum of remainders wraps like the sum.                                 *)
LEMMA RemainderOfSum ==
  ASSUME NEW a \in Nat, NEW s \in Nat, NEW m \in Nat, m > 0
  PROVE  ((a % m) + s) % m = (a + s) % m
<1>1. a % m \in Nat /\ (a % m) + s \in Nat /\ a + s \in Nat
  OBVIOUS
<1>2. ((a % m) + s) % m \in Nat /\ ((a % m) + s) % m < m
  BY <1>1
<1>3. PICK r \in Nat, t \in Nat : r = a % m /\ t = (r + s) % m /\ t < m
  BY <1>1, <1>2
<1>4. PICK q \in Int : Divides(a, m, q, r)
  BY <1>3, Division
<1>5. PICK p \in Int : Divides(r + s, m, p, t)
  BY <1>3, Division
<1>6. Divides(a + s, m, q + p, t) /\ q + p \in Int
  BY <1>4, <1>5, DivisionsAdd
<1>7. (a + s) % m = t
  BY <1>1, <1>3, <1>6, RemainderIs
<1> QED
  BY <1>3, <1>7

(* A number below the modulus is its own remainder.                        *)
LEMMA SmallRemainder ==
  ASSUME NEW m \in Nat, NEW a \in 0 .. m - 1
  PROVE  a % m = a
<1>1. a \in Nat /\ a < m /\ Divides(a, m, 0, a)
  BY DEF Divides
<1> QED
  BY <1>1, RemainderIs

-----------------------------------------------------------------------------
(***************************************************************************)
(* Sums: the base of a segment is a fold over a set of indices, of which   *)
(* the order does not show.                                                *)
(***************************************************************************)
(* sum[s] adds up fun over s, whichever element is taken out first.        *)
Adds(sum, fun, n) ==
  /\ sum[{}] = 0
  /\ \A s \in SUBSET (1 .. n) : \A x \in s : sum[s] = fun[x] + sum[s \ {x}]

(* Such sums there are.                                                    *)
LEMMA SumExists ==
  ASSUME NEW fun, NEW m \in Nat, \A j \in 1 .. m : fun[j] \in Nat
  PROVE  \E sum \in [SUBSET (1 .. m) -> Nat] : Adds(sum, fun, m)
<1> DEFINE Some(n) == \E sum \in [SUBSET (1 .. n) -> Nat] : Adds(sum, fun, n)
           P == { n \in Nat : n <= m => Some(n) }
<1>1. Some(0)
  <2> DEFINE f == [s \in SUBSET (1 .. 0) |-> 0]
  <2>1. f \in [SUBSET (1 .. 0) -> Nat] /\ f[{}] = 0
    OBVIOUS
  <2>2. \A s \in SUBSET (1 .. 0) : s = {}
    OBVIOUS
  <2>3. Adds(f, fun, 0)
    BY <2>1, <2>2 DEF Adds
  <2> QED
    BY <2>1, <2>3
<1>2. ASSUME NEW n \in Nat, n + 1 <= m, Some(n)
      PROVE  Some(n + 1)
  <2>1. PICK e \in [SUBSET (1 .. n) -> Nat] : Adds(e, fun, n)
    BY <1>2
  <2> DEFINE val(s) == IF n + 1 \in s THEN fun[n + 1] + e[s \ {n + 1}] ELSE e[s]
             f == [s \in SUBSET (1 .. n + 1) |-> val(s)]
  <2>2. fun[n + 1] \in Nat
    BY <1>2
  <2>3. \A s \in SUBSET (1 .. n + 1) :
           /\ s \ {n + 1} \in SUBSET (1 .. n)
           /\ n + 1 \notin s => s \in SUBSET (1 .. n)
    OBVIOUS
  <2>4. ASSUME NEW s \in SUBSET (1 .. n + 1)
        PROVE  f[s] = val(s) /\ val(s) \in Nat
    <3>1. e[s \ {n + 1}] \in Nat /\ (n + 1 \notin s => e[s] \in Nat)
      BY <2>3
    <3> QED
      BY <3>1, <2>2
  <2>5. /\ \A s \in SUBSET (1 .. n + 1) : n + 1 \in s => f[s] = fun[n + 1] + e[s \ {n + 1}]
        /\ \A s \in SUBSET (1 .. n + 1) : n + 1 \notin s => f[s] = e[s]
        /\ f \in [SUBSET (1 .. n + 1) -> Nat]
    <3>1. f \in [SUBSET (1 .. n + 1) -> Nat]
      <4> HIDE DEF val
      <4> QED BY <2>4
    <3> QED
      BY <2>4, <3>1
  <2> HIDE DEF f, val
  <2>6. ASSUME NEW s \in SUBSET (1 .. n + 1), NEW x \in s
        PROVE  f[s] = fun[x] + f[s \ {x}]
    <3>1. s \ {x} \in SUBSET (1 .. n + 1)
      OBVIOUS
    <3>2. CASE x = n + 1
      <4>1. n + 1 \notin s \ {x} /\ s \ {x} = s \ {n + 1}
        BY <3>2
      <4>2. f[s] = fun[n + 1] + e[s \ {n + 1}]
        BY <2>5, <3>2
      <4>3. f[s \ {x}] = e[s \ {n + 1}]
        BY <2>5, <3>1, <4>1
      <4> QED
        BY <3>2, <4>2, <4>3
    <3>3. CASE x # n + 1 /\ n + 1 \in s
      <4> DEFINE u == s \ {n + 1}
      <4>1. u \in SUBSET (1 .. n) /\ x \in u /\ u \ {x} \in SUBSET (1 .. n)
            /\ n + 1 \in s \ {x} /\ (s \ {x}) \ {n + 1} = u \ {x} /\ x \in 1 .. m
        BY <1>2, <2>3, <3>3
      <4>2. e[u] = fun[x] + e[u \ {x}]
        BY <2>1, <4>1 DEF Adds
      <4>3. f[s] = fun[n + 1] + e[u]
        BY <2>5, <3>3
      <4>4. f[s \ {x}] = fun[n + 1] + e[u \ {x}]
        BY <2>5, <3>1, <4>1
      <4>5. e[u] \in Nat /\ e[u \ {x}] \in Nat /\ fun[x] \in Nat
        BY <4>1
      <4> HIDE DEF u
      <4> QED
        BY <2>2, <4>2, <4>3, <4>4, <4>5
    <3>4. CASE x # n + 1 /\ n + 1 \notin s
      <4>1. s \in SUBSET (1 .. n) /\ n + 1 \notin s \ {x}
        BY <2>3, <3>4
      <4>2. e[s] = fun[x] + e[s \ {x}]
        BY <2>1, <4>1 DEF Adds
      <4>3. f[s] = e[s] /\ f[s \ {x}] = e[s \ {x}]
        BY <2>5, <3>1, <3>4, <4>1
      <4> QED
        BY <4>2, <4>3
    <3> QED
      BY <3>2, <3>3, <3>4
  <2>7. f[{}] = 0
    <3>1. {} \in SUBSET (1 .. n) /\ {} \in SUBSET (1 .. n + 1) /\ n + 1 \notin {}
      OBVIOUS
    <3>2. e[{}] = 0
      BY <2>1 DEF Adds
    <3> QED
      BY <2>5, <3>1, <3>2
  <2>8. Adds(f, fun, n + 1)
    BY <2>6, <2>7 DEF Adds
  <2> QED
    BY <2>5, <2>8
<1> HIDE DEF Some
<1>3. 0 \in P /\ \A n \in Nat : n \in P => n + 1 \in P
  BY <1>1, <1>2
<1>4. m \in P
  <2> HIDE DEF P
  <2> QED BY <1>3, Induction
<1>5. Some(m)
  BY <1>4
<1> QED
  BY <1>5 DEF Some

(* The library's sums are these.                                           *)
Sums(sum, fun, n) ==
  \A S \in SUBSET (1 .. n) : SumFunctionOnSet(fun, S) = sum[S]

(* The order in which the fold picks the numbers does not matter.          *)
LEMMA SumIs ==
  ASSUME NEW fun, NEW n \in Nat, NEW sum \in [SUBSET (1 .. n) -> Nat],
         Adds(sum, fun, n)
  PROVE  Sums(sum, fun, n)
<1> SUFFICES ASSUME NEW S \in SUBSET (1 .. n)
             PROVE  SumFunctionOnSet(fun, S) = sum[S]
  BY DEF Sums
<1> DEFINE pick(s) == CHOOSE x \in s : TRUE
           turn(f, s) == IF s = {} THEN 0 ELSE fun[pick(s)] + f[s \ {pick(s)}]
           iter == CHOOSE f : f = [s \in SUBSET S |-> turn(f, s)]
           P == { c \in Nat : \A s \in SUBSET S : Cardinality(s) = c => iter[s] = sum[s] }
<1>1. SumFunctionOnSet(fun, S) = iter[S]
  BY DEF SumFunctionOnSet, FoldFunctionOnSet, MapThenFoldSet
<1>2. ASSUME NEW s \in SUBSET S, s # {}
      PROVE  pick(s) \in s /\ sum[s] = fun[pick(s)] + sum[s \ {pick(s)}]
  <2>1. pick(s) \in s
    BY <1>2
  <2> HIDE DEF pick
  <2>2. s \in SUBSET (1 .. n)
    OBVIOUS
  <2> QED
    BY <2>1, <2>2 DEF Adds
<1> HIDE DEF pick
<1>3. \E f : f = [s \in SUBSET S |-> turn(f, s)]
  <2> DEFINE f == [s \in SUBSET S |-> sum[s]]
  <2>1. ASSUME NEW s \in SUBSET S PROVE f[s] = turn(f, s)
    <3>1. CASE s = {}
      BY <3>1 DEF Adds
    <3>2. CASE s # {}
      <4>1. s \ {pick(s)} \in SUBSET S
        OBVIOUS
      <4> QED
        BY <1>2, <3>2, <4>1
    <3> QED
      BY <3>1, <3>2
  <2>2. f = [s \in SUBSET S |-> f[s]]
    OBVIOUS
  <2> HIDE DEF turn, f
  <2>3. f = [s \in SUBSET S |-> turn(f, s)]
    BY <2>1, <2>2
  <2> QED
    BY <2>3
<1>4. iter = [s \in SUBSET S |-> turn(iter, s)]
  <2> HIDE DEF turn
  <2> QED
    BY <1>3
<1> HIDE DEF iter
<1>5. IsFiniteSet(S) /\ \A s \in SUBSET S : IsFiniteSet(s)
  <2>1. IsFiniteSet(1 .. n)
    BY FS_Interval
  <2> QED
    BY <2>1, FS_Subset
<1>6. 0 \in P
  <2> SUFFICES ASSUME NEW s \in SUBSET S, Cardinality(s) = 0 PROVE iter[s] = sum[s]
    OBVIOUS
  <2>1. s = {}
    BY <1>5, FS_EmptySet
  <2> QED
    BY <1>4, <2>1 DEF Adds
<1>7. ASSUME NEW c \in Nat, c \in P PROVE c + 1 \in P
  <2> SUFFICES ASSUME NEW s \in SUBSET S, Cardinality(s) = c + 1 PROVE iter[s] = sum[s]
    OBVIOUS
  <2>1. s # {}
    <3>1. Cardinality({}) = 0
      BY FS_EmptySet
    <3>2. c + 1 # 0
      OBVIOUS
    <3> QED
      BY <3>1, <3>2
  <2>2. pick(s) \in s /\ sum[s] = fun[pick(s)] + sum[s \ {pick(s)}]
    BY <1>2, <2>1
  <2>3. s \ {pick(s)} \in SUBSET S /\ Cardinality(s \ {pick(s)}) = c
    <3>1. IsFiniteSet(s) /\ Cardinality(s \ {pick(s)}) = Cardinality(s) - 1
      BY <1>5, <2>2, FS_RemoveElement
    <3>2. s \ {pick(s)} \in SUBSET S
      OBVIOUS
    <3>3. Cardinality(s) - 1 = c
      OBVIOUS
    <3> QED
      BY <3>1, <3>2, <3>3
  <2>4. iter[s \ {pick(s)}] = sum[s \ {pick(s)}]
    BY <1>7, <2>3
  <2>5. iter[s] = fun[pick(s)] + iter[s \ {pick(s)}]
    BY <1>4, <2>1
  <2> QED
    BY <2>2, <2>4, <2>5
<1>8. Cardinality(S) \in Nat /\ Cardinality(S) \in P
  <2>1. Cardinality(S) \in Nat
    BY <1>5, FS_CardinalityType
  <2> HIDE DEF P
  <2> QED
    BY <1>6, <1>7, <2>1, Induction
<1> QED
  BY <1>1, <1>8

(* The sum up to a number is the sum before it and its value.              *)
LEMMA SumGrows ==
  ASSUME NEW fun, NEW n \in Nat, \A j \in 1 .. n : fun[j] \in Nat
  PROVE  /\ SumFunctionOnSet(fun, {}) = 0
         /\ \A k \in 0 .. n : SumFunctionOnSet(fun, 1 .. k) \in Nat
         /\ \A k \in 1 .. n : SumFunctionOnSet(fun, 1 .. k)
                                = SumFunctionOnSet(fun, 1 .. k - 1) + fun[k]
<1>1. PICK sum \in [SUBSET (1 .. n) -> Nat] : Adds(sum, fun, n)
  BY SumExists
<1>6. Sums(sum, fun, n)
  BY <1>1, SumIs
<1>2. SumFunctionOnSet(fun, {}) = 0
  <2>1. {} \in SUBSET (1 .. n)
    OBVIOUS
  <2> QED
    BY <1>1, <1>6, <2>1 DEF Adds, Sums
<1>3. ASSUME NEW k \in 0 .. n
      PROVE  SumFunctionOnSet(fun, 1 .. k) = sum[1 .. k] /\ sum[1 .. k] \in Nat
  <2>1. 1 .. k \in SUBSET (1 .. n)
    OBVIOUS
  <2> QED
    BY <1>1, <1>6, <2>1 DEF Sums
<1>4. ASSUME NEW k \in 1 .. n PROVE sum[1 .. k] = fun[k] + sum[1 .. k - 1]
  <2>1. 1 .. k \in SUBSET (1 .. n) /\ k \in 1 .. k /\ (1 .. k) \ {k} = 1 .. k - 1
    OBVIOUS
  <2> QED
    BY <1>1, <2>1 DEF Adds
<1>5. ASSUME NEW k \in 1 .. n PROVE k - 1 \in 0 .. n /\ k \in 0 .. n
  OBVIOUS
<1> QED
  BY <1>2, <1>3, <1>4, <1>5

-----------------------------------------------------------------------------
(***************************************************************************)
(* Concatenations: the declared segments are those of all regions.         *)
(***************************************************************************)
(* The sequences one after the other, prefix by prefix.                    *)
LEMMA FlattenTrace ==
  ASSUME NEW D, NEW seqs \in Seq(Seq(D))
  PROVE  \E t \in [0 .. Len(seqs) -> Seq(D)] :
           /\ t[0] = << >>
           /\ \A k \in 1 .. Len(seqs) : t[k] = t[k - 1] \o seqs[k]
           /\ FlattenSeq(seqs) = t[Len(seqs)]
<1> DEFINE X == Seq(D)
           n == Len(seqs)
           g == [p \in X \X X |-> p[1] \o p[2]]
           turn(f, i) == IF i = 1 THEN seqs[i] ELSE f[i - 1] \o seqs[i]
           flatten == CHOOSE f : f = [i \in 1 .. n |-> turn(f, i)]
<1>1. n \in Nat /\ << >> \in X
  OBVIOUS
<1>2. g \in [X \X X -> X] /\ \A x, y \in X : g[x, y] = x \o y
  <2>1. \A x, y \in X : x \o y \in X
    BY ConcatProperties
  <2> QED
    BY <2>1
<1>3. FlattenSeq(seqs) = IF n = 0 THEN seqs ELSE flatten[n]
  BY DEF FlattenSeq
<1>4. seqs \in Seq(X)
  OBVIOUS
<1> HIDE DEF g, X
<1>5. PICK t \in [0 .. n -> X] : Trace(t, g, << >>, seqs)
  BY <1>1, <1>2, <1>4, TraceExists
<1>6. ASSUME NEW k \in 1 .. n
      PROVE  t[k - 1] \in X /\ seqs[k] \in X /\ t[k] = t[k - 1] \o seqs[k]
  <2>1. k - 1 \in 0 .. n /\ seqs[k] \in X
    BY <1>4, <1>1, ElementOfSeq
  <2>2. t[k - 1] \in X /\ t[k] = g[t[k - 1], seqs[k]]
    BY <1>5, <2>1 DEF Trace
  <2> QED
    BY <1>2, <2>1, <2>2
<1>7. t[0] = << >>
  BY <1>5 DEF Trace
<1>8. ASSUME NEW k \in 1 .. n, k = 1 PROVE t[k] = seqs[k]
  <2>1. t[k] = t[k - 1] \o seqs[k] /\ seqs[k] \in Seq(D)
    BY <1>6 DEF X
  <2>2. k - 1 = 0
    BY <1>8
  <2> QED
    BY <1>7, <2>1, <2>2, ConcatEmptySeq
<1>9. n = 0 => FlattenSeq(seqs) = t[n]
  BY <1>3, <1>4, <1>7, EmptySeq
<1>10. ASSUME n # 0 PROVE FlattenSeq(seqs) = t[n]
  <2> DEFINE f == [i \in 1 .. n |-> t[i]]
  <2>1. ASSUME NEW i \in 1 .. n PROVE f[i] = turn(f, i)
    <3>1. CASE i = 1
      BY <1>8, <3>1
    <3>2. CASE i # 1
      <4>1. i - 1 \in 1 .. n
        BY <1>1, <3>2
      <4> QED
        BY <1>6, <3>2, <4>1
    <3> QED
      BY <3>1, <3>2
  <2>2. f = [i \in 1 .. n |-> f[i]]
    OBVIOUS
  <2>3. \E e : e = [i \in 1 .. n |-> turn(e, i)]
    <3> HIDE DEF turn, f
    <3>1. f = [i \in 1 .. n |-> turn(f, i)]
      BY <2>1, <2>2
    <3> QED
      BY <3>1
  <2>4. flatten = [i \in 1 .. n |-> turn(flatten, i)]
    <3> HIDE DEF turn
    <3> QED
      BY <2>3
  <2>5. ASSUME NEW i \in 1 .. n PROVE flatten[i] = turn(flatten, i)
    <3> HIDE DEF turn, flatten
    <3> QED
      BY <2>4
  <2> HIDE DEF flatten
  <2> DEFINE P == { k \in Nat : k + 1 <= n => flatten[k + 1] = t[k + 1] }
  <2>6. 0 \in P
    <3>1. 1 \in 1 .. n
      BY <1>1, <1>10
    <3> QED
      BY <1>8, <2>5, <3>1
  <2>7. ASSUME NEW k \in Nat, k \in P PROVE k + 1 \in P
    <3> SUFFICES ASSUME (k + 1) + 1 <= n
                 PROVE  flatten[(k + 1) + 1] = t[(k + 1) + 1]
      OBVIOUS
    <3>1. flatten[k + 1] = t[k + 1]
      BY <1>1, <2>7
    <3>2. PICK i \in 1 .. n : i = (k + 1) + 1 /\ i # 1 /\ i - 1 = k + 1
      BY <1>1
    <3>3. flatten[i] = flatten[i - 1] \o seqs[i]
      BY <2>5, <3>2
    <3> QED
      BY <1>6, <3>1, <3>2, <3>3
  <2>8. Nat \subseteq P
    <3> HIDE DEF P
    <3> QED BY <2>6, <2>7, Induction
  <2>9. n - 1 \in Nat /\ (n - 1) + 1 = n
    BY <1>1, <1>10
  <2>10. n - 1 \in P
    BY <2>8, <2>9
  <2>11. flatten[n] = t[n]
    BY <2>9, <2>10
  <2> QED
    BY <1>3, <1>10, <2>11
<1> QED
  BY <1>5, <1>6, <1>7, <1>9, <1>10 DEF X

-----------------------------------------------------------------------------
(***************************************************************************)
(* The list and the declaration, region by region and segment by segment.  *)
(***************************************************************************)
(* A declared segment does not end before it starts.                       *)
Declared == { d \in [start: Nat, end: Nat, access: Int] : d.start <= d.end }

(* Node k of the list stands for the k-th declared segment: its place is   *)
(* that of the segment in 32 bits.                                         *)
Stands(node, declared) ==
  /\ node.start = declared.start % U32
  /\ node.end = declared.end % U32
  /\ node.type = declared.access

Renders(nodes, declared) ==
  /\ Len(nodes) = Len(declared)
  /\ \A k \in 1 .. Len(nodes) : Stands(nodes[k], declared[k])

(* The base of a segment is the one before it and its size.                *)
LEMMA BaseGrows ==
  ASSUME NEW r \in RegionFields
  PROVE  /\ Base(r, 1) = r.address
         /\ \A k \in 1 .. Len(r.segments) + 1 : Base(r, k) \in Nat
         /\ \A k \in 1 .. Len(r.segments) :
              Base(r, k + 1) = Base(r, k) + SegmentSize(r.segments[k])
<1> DEFINE n == Len(r.segments)
           size == [j \in DOMAIN r.segments |-> SegmentSize(r.segments[j])]
<1>1. /\ r.address \in Nat /\ r.segments \in Seq(SegmentFields)
      /\ n \in Nat /\ DOMAIN r.segments = 1 .. n
  BY U32Assumption DEF RegionFields
<1>2. ASSUME NEW j \in 1 .. n
      PROVE  size[j] = SegmentSize(r.segments[j]) /\ size[j] \in Nat
  <2>1. r.segments[j] \in SegmentFields
    BY <1>1, ElementOfSeq
  <2> QED
    BY <1>1, <2>1, SizeIsNat
<1>3. \A k : Base(r, k) = r.address + SumFunctionOnSet(size, 1 .. k - 1)
  BY DEF Base
<1> HIDE DEF size, n
<1>4. /\ SumFunctionOnSet(size, {}) = 0
      /\ \A k \in 0 .. n : SumFunctionOnSet(size, 1 .. k) \in Nat
      /\ \A k \in 1 .. n : SumFunctionOnSet(size, 1 .. k)
                             = SumFunctionOnSet(size, 1 .. k - 1) + size[k]
  BY <1>1, <1>2, SumGrows
<1>5. Base(r, 1) = r.address
  <2>1. 1 .. 1 - 1 = {}
    OBVIOUS
  <2> QED
    BY <1>1, <1>3, <1>4, <2>1
<1>6. ASSUME NEW k \in 1 .. n + 1 PROVE Base(r, k) \in Nat
  <2>1. k - 1 \in 0 .. n
    BY <1>1
  <2>2. SumFunctionOnSet(size, 1 .. k - 1) \in Nat
    BY <1>4, <2>1
  <2> QED
    BY <1>1, <1>3, <2>2
<1>7. ASSUME NEW k \in 1 .. n
      PROVE  Base(r, k + 1) = Base(r, k) + SegmentSize(r.segments[k])
  <2>1. k - 1 \in 0 .. n /\ (k + 1) - 1 = k
    BY <1>1
  <2>2. Base(r, k + 1) = r.address + SumFunctionOnSet(size, 1 .. k)
    BY <1>3, <2>1
  <2>3. SumFunctionOnSet(size, 1 .. k) = SumFunctionOnSet(size, 1 .. k - 1) + size[k]
        /\ SumFunctionOnSet(size, 1 .. k - 1) \in Nat
    BY <1>4, <2>1
  <2>4. Base(r, k) = r.address + SumFunctionOnSet(size, 1 .. k - 1)
    BY <1>3
  <2> QED
    BY <1>1, <1>2, <2>2, <2>3, <2>4
<1> QED
  BY <1>5, <1>6, <1>7 DEF n

(* A region declares one segment for each of its fields.                   *)
LEMMA RegionDeclares ==
  ASSUME NEW r \in RegionFields
  PROVE  /\ RegionSegments(r) \in Seq(Declared)
         /\ Len(RegionSegments(r)) = Len(r.segments)
<1>1. r.segments \in Seq(SegmentFields) /\ Len(r.segments) \in Nat
      /\ DOMAIN r.segments = 1 .. Len(r.segments)
  BY DEF RegionFields
<1>2. ASSUME NEW k \in 1 .. Len(r.segments)
      PROVE  RegionSegments(r)[k] \in Declared
  <2>1. k \in 1 .. Len(r.segments) + 1
    BY <1>1
  <2>2. r.segments[k] \in SegmentFields /\ Base(r, k) \in Nat
    BY <1>1, <2>1, BaseGrows, ElementOfSeq
  <2>3. SegmentSize(r.segments[k]) \in Nat /\ r.segments[k].type \in Int
    BY <2>2, SizeIsNat DEF SegmentFields
  <2> QED
    BY <1>1, <2>2, <2>3 DEF RegionSegments, Declared
<1>3. RegionSegments(r) \in [1 .. Len(r.segments) -> Declared]
  <2>1. RegionSegments(r) = [k \in 1 .. Len(r.segments) |-> RegionSegments(r)[k]]
    BY <1>1 DEF RegionSegments
  <2> QED
    BY <1>2, <2>1
<1> QED
  BY <1>1, <1>3

(* The node appended for a segment of a region.                            *)
LEMMA NodeStands ==
  ASSUME NEW r \in RegionFields, NEW k \in 1 .. Len(r.segments)
  PROVE  LET node == MemorySegmentAt(Base(r, k) % U32, r.segments[k])
         IN  /\ Stands(node, RegionSegments(r)[k])
             /\ node.end = Base(r, k + 1) % U32
<1> DEFINE s == r.segments[k]
           node == MemorySegmentAt(Base(r, k) % U32, s)
<1>1. r.segments \in Seq(SegmentFields) /\ Len(r.segments) \in Nat
      /\ DOMAIN r.segments = 1 .. Len(r.segments)
  BY DEF RegionFields
<1>2. k \in 1 .. Len(r.segments) + 1 /\ s \in SegmentFields
  BY <1>1, ElementOfSeq
<1>3. Base(r, k) \in Nat /\ Base(r, k + 1) = Base(r, k) + SegmentSize(s)
  BY <1>2, BaseGrows
<1>4. SegmentSize(s) \in Nat /\ s.type \in 97 .. 103
  BY <1>2, SizeIsNat DEF SegmentFields
<1>5. RegionSegments(r)[k] = [ start |-> Base(r, k), end |-> Base(r, k) + SegmentSize(s),
                               access |-> s.type - 96 ]
  BY <1>1 DEF RegionSegments
<1> HIDE DEF s
<1>6. /\ node.start = Base(r, k) % U32 /\ node.type = s.type % 8
      /\ node.end = ((Base(r, k) % U32) + SegmentSize(s)) % U32
  BY DEF MemorySegmentAt
<1>7. ((Base(r, k) % U32) + SegmentSize(s)) % U32 = (Base(r, k) + SegmentSize(s)) % U32
  BY <1>3, <1>4, U32Assumption, RemainderOfSum
<1>8. s.type % 8 = s.type - 96
  BY <1>4
<1> HIDE DEF node
<1>9. Stands(node, RegionSegments(r)[k]) /\ node.end = Base(r, k + 1) % U32
  BY <1>3, <1>5, <1>6, <1>7, <1>8 DEF Stands
<1> QED
  BY <1>9 DEF node, s

(* A region's nodes stand for its segments, behind the nodes before them.  *)
LEMMA RegionRenders ==
  ASSUME NEW nodes \in Seq(Segment), NEW declared \in Seq(Declared),
         Renders(nodes, declared), NEW r \in RegionFields
  PROVE  Renders(ParseRegion(nodes, r), declared \o RegionSegments(r))
<1> DEFINE scan == [address_start |-> r.address, list |-> nodes]
           n == Len(r.segments)
           m == Len(nodes)
           new == RegionSegments(r)
           all == declared \o new
<1>1. /\ scan \in Scan /\ r.segments \in Seq(SegmentFields) /\ n \in Nat /\ m \in Nat
      /\ r.address \in 0 .. U32 - 1
  BY DEF Scan, RegionFields
<1>2. PICK t \in [0 .. n -> Scan] :
        /\ t[0] = scan
        /\ \A k \in 1 .. n : t[k] = ParseSegment(t[k - 1], r.segments[k])
        /\ FoldLeft(ParseSegment, scan, r.segments) = t[n]
  BY <1>1, SegmentsTrace
<1>3. /\ new \in Seq(Declared) /\ Len(new) = n /\ Len(declared) = m
      /\ all \in Seq(Declared) /\ Len(all) = m + n
      /\ \A i \in 1 .. m : all[i] = declared[i]
      /\ \A i \in 1 .. n : all[m + i] = new[i]
  <2>1. new \in Seq(Declared) /\ Len(new) = n /\ Len(declared) = m
    BY RegionDeclares DEF Renders
  <2> HIDE DEF new
  <2>2. all \in Seq(Declared) /\ Len(all) = m + n
    BY <1>1, <2>1, ConcatProperties
  <2>3. \A i \in 1 .. m + n : all[i] = IF i <= m THEN declared[i] ELSE new[i - m]
    BY <1>1, <2>1, ConcatProperties
  <2>4. ASSUME NEW i \in 1 .. n PROVE all[m + i] = new[i]
    <3>1. m + i \in 1 .. m + n /\ ~(m + i <= m) /\ (m + i) - m = i
      BY <1>1
    <3> QED
      BY <2>3, <3>1
  <2>5. ASSUME NEW i \in 1 .. m PROVE all[i] = declared[i]
    <3>1. i \in 1 .. m + n /\ i <= m
      BY <1>1
    <3> QED
      BY <2>3, <3>1
  <2> QED
    BY <2>1, <2>2, <2>4, <2>5
<1> HIDE DEF new, all, scan
<1> DEFINE Good(k) == /\ t[k].address_start = Base(r, k + 1) % U32
                      /\ Len(t[k].list) = m + k
                      /\ \A i \in 1 .. m + k : Stands(t[k].list[i], all[i])
           P == { k \in Nat : k <= n => Good(k) }
<1>4. Good(0)
  <2>1. t[0].address_start = r.address /\ t[0].list = nodes
    <3>1. t[0] = [address_start |-> r.address, list |-> nodes]
      BY <1>2 DEF scan
    <3> QED
      BY <3>1
  <2>2. r.address % U32 = r.address
    BY <1>1, U32Assumption, SmallRemainder
  <2>4. Base(r, 0 + 1) = r.address
    <3>1. 0 + 1 = 1
      OBVIOUS
    <3> QED
      BY <3>1, BaseGrows
  <2>3. \A i \in 1 .. m : Stands(nodes[i], all[i])
    BY <1>3 DEF Renders
  <2> QED
    BY <1>1, <2>1, <2>2, <2>3, <2>4
<1>5. ASSUME NEW j \in Nat, j + 1 <= n, Good(j) PROVE Good(j + 1)
  <2> DEFINE k == j + 1
             node == MemorySegmentAt(t[j].address_start, r.segments[k])
  <2>1. k \in 1 .. n /\ k - 1 = j /\ j \in 0 .. n /\ k \in Nat
    BY <1>1, <1>5
  <2>2. t[k] = ParseSegment(t[j], r.segments[k]) /\ t[j] \in Scan
    BY <1>2, <2>1
  <2> HIDE DEF k
  <2>3. t[k].address_start = node.end /\ t[k].list = Append(t[j].list, node)
    BY <2>2 DEF ParseSegment
  <2>4. t[j].address_start = Base(r, k) % U32
    BY <1>5 DEF k
  <2>5. Stands(node, new[k]) /\ node.end = Base(r, k + 1) % U32
    BY <2>1, <2>4, NodeStands DEF new
  <2>6. t[j].list \in Seq(Segment) /\ Len(t[j].list) = m + j
    BY <1>5, <2>2 DEF Scan
  <2>11. node \in Segment
    <3>1. t[j].address_start \in 0 .. U32 - 1 /\ r.segments[k] \in SegmentFields
      BY <1>1, <2>1, <2>2, ElementOfSeq DEF Scan
    <3> QED
      BY <3>1, NodeTyped
  <2> HIDE DEF node
  <2>7. /\ Len(t[k].list) = (m + j) + 1
        /\ \A i \in 1 .. m + j : t[k].list[i] = t[j].list[i]
        /\ t[k].list[(m + j) + 1] = node
    <3> DEFINE before == t[j].list
               after == t[k].list
    <3>1. before \in Seq(Segment) /\ Len(before) = m + j /\ after = Append(before, node)
      BY <2>3, <2>6
    <3> HIDE DEF before, after
    <3>2. /\ Len(after) = Len(before) + 1
          /\ \A i \in 1 .. Len(before) : after[i] = before[i]
          /\ after[Len(before) + 1] = node
      BY <2>11, <3>1, AppendProperties
    <3> QED
      BY <3>1, <3>2 DEF before, after
  <2>8. m + k = (m + j) + 1 /\ m + j \in Nat
    BY <1>1 DEF k
  <2>9. ASSUME NEW i \in 1 .. m + k PROVE Stands(t[k].list[i], all[i])
    <3>1. CASE i = m + k
      BY <1>3, <2>1, <2>5, <2>7, <2>8, <3>1
    <3>2. CASE i # m + k
      <4>1. i \in 1 .. m + j
        BY <2>8, <3>2
      <4> QED
        BY <1>5, <2>7, <4>1
    <3> QED
      BY <3>1, <3>2
  <2>10. Good(k)
    BY <2>3, <2>5, <2>7, <2>8, <2>9
  <2> QED
    BY <2>10 DEF k
<1> HIDE DEF Good
<1>6. 0 \in P /\ \A j \in Nat : j \in P => j + 1 \in P
  BY <1>1, <1>4, <1>5
<1>7. Good(n)
  <2>1. n \in P
    <3> HIDE DEF P, n
    <3> QED BY <1>1, <1>6, Induction
  <2> QED
    BY <1>1, <2>1
<1>8. ParseRegion(nodes, r) = t[n].list
  BY <1>2 DEF ParseRegion, scan
<1>9. Len(t[n].list) = m + n /\ \A i \in 1 .. m + n : Stands(t[n].list[i], all[i])
  BY <1>7 DEF Good
<1> QED
  BY <1>3, <1>8, <1>9 DEF Renders, all, new

(* The whole list: every region in turn.                                   *)
LEMMA ListRenders ==
  ASSUME descriptor \in Descriptor
  PROVE  /\ Renders(list, DeclaredSegments)
         /\ DeclaredSegments \in Seq(Declared)
         /\ list \in Seq(Segment)
<1> DEFINE regions == descriptor.regions
           n == Len(regions)
           of == [r \in DOMAIN regions |-> RegionSegments(regions[r])]
<1>1. regions \in Seq(RegionFields) /\ n \in Nat /\ DOMAIN regions = 1 .. n
  BY DEF Descriptor
<1>2. ASSUME NEW k \in 1 .. n
      PROVE  /\ regions[k] \in RegionFields
             /\ of[k] = RegionSegments(regions[k]) /\ of[k] \in Seq(Declared)
  <2>1. regions[k] \in RegionFields
    BY <1>1, ElementOfSeq
  <2> QED
    BY <1>1, <2>1, RegionDeclares
<1>3. of \in [1 .. n -> Seq(Declared)]
  BY <1>1, <1>2
<1>4. of \in Seq(Seq(Declared)) /\ Len(of) = n
  BY <1>1, <1>3
<1>5. DeclaredSegments = FlattenSeq(of) /\ list = FoldLeft(ParseRegion, << >>, regions)
  BY DEF DeclaredSegments, list, parse_memory_segments
<1> HIDE DEF regions, n, of
<1>6. PICK t \in [0 .. n -> Seq(Segment)] :
        /\ t[0] = << >>
        /\ \A k \in 1 .. n : t[k] = ParseRegion(t[k - 1], regions[k])
        /\ FoldLeft(ParseRegion, << >>, regions) = t[n]
  BY <1>1, RegionsTrace DEF n
<1>7. PICK d \in [0 .. n -> Seq(Declared)] :
        /\ d[0] = << >>
        /\ \A k \in 1 .. n : d[k] = d[k - 1] \o of[k]
        /\ FlattenSeq(of) = d[n]
  BY <1>4, FlattenTrace
<1> DEFINE P == { k \in Nat : k <= n => Renders(t[k], d[k]) }
<1>8. 0 \in P
  BY <1>6, <1>7 DEF Renders
<1>9. ASSUME NEW j \in Nat, j \in P PROVE j + 1 \in P
  <2> SUFFICES ASSUME j + 1 <= n PROVE Renders(t[j + 1], d[j + 1])
    OBVIOUS
  <2>1. PICK k \in 1 .. n : k = j + 1 /\ k - 1 = j /\ j \in 0 .. n
    BY <1>1
  <2>2. t[j] \in Seq(Segment) /\ d[j] \in Seq(Declared) /\ Renders(t[j], d[j])
    BY <1>1, <1>9, <2>1
  <2>3. t[k] = ParseRegion(t[j], regions[k]) /\ d[k] = d[j] \o RegionSegments(regions[k])
    BY <1>2, <1>6, <1>7, <2>1
  <2>4. Renders(ParseRegion(t[j], regions[k]), d[j] \o RegionSegments(regions[k]))
    BY <1>2, <2>2, RegionRenders
  <2> QED
    BY <2>1, <2>3, <2>4
<1>10. Renders(t[n], d[n])
  <2>1. n \in P
    <3> HIDE DEF P
    <3> QED BY <1>1, <1>8, <1>9, Induction
  <2> QED
    BY <1>1, <2>1
<1>11. t[n] \in Seq(Segment) /\ d[n] \in Seq(Declared)
  BY <1>1
<1> QED
  BY <1>5, <1>6, <1>7, <1>10, <1>11

(* Where 32 bits hold every segment, a node has its segment's own place.   *)
LEMMA ListIsExact ==
  ASSUME descriptor \in Descriptor, Fits
  PROVE  /\ Len(list) \in Nat /\ Len(list) = Len(DeclaredSegments)
         /\ DOMAIN list = 1 .. Len(list) /\ DOMAIN DeclaredSegments = 1 .. Len(list)
         /\ \A k \in 1 .. Len(list) :
              /\ DeclaredSegments[k].start \in Nat /\ DeclaredSegments[k].end \in Nat
              /\ list[k].start = DeclaredSegments[k].start
              /\ list[k].end = DeclaredSegments[k].end
              /\ list[k].type = DeclaredSegments[k].access
<1> DEFINE n == Len(list)
<1>1. /\ list \in Seq(Segment) /\ DeclaredSegments \in Seq(Declared)
      /\ n = Len(DeclaredSegments)
      /\ \A k \in 1 .. n : Stands(list[k], DeclaredSegments[k])
  BY ListRenders DEF Renders
<1>2. n \in Nat /\ DOMAIN list = 1 .. n /\ DOMAIN DeclaredSegments = 1 .. n
  BY <1>1
<1> HIDE DEF n
<1>3. ASSUME NEW k \in 1 .. n
      PROVE  /\ DeclaredSegments[k].start \in Nat /\ DeclaredSegments[k].end \in Nat
             /\ DeclaredSegments[k].start <= DeclaredSegments[k].end
             /\ list[k].start = DeclaredSegments[k].start
             /\ list[k].end = DeclaredSegments[k].end
             /\ list[k].type = DeclaredSegments[k].access
  <2>1. PICK d \in Declared : d = DeclaredSegments[k]
    BY <1>1, <1>2, ElementOfSeq
  <2>2. d.start \in Nat /\ d.end \in Nat /\ d.start <= d.end
    BY DEF Declared
  <2>3. d.end < U32
    BY <1>2, <2>1 DEF Fits
  <2>4. d.start \in 0 .. U32 - 1 /\ d.end \in 0 .. U32 - 1
    BY <2>2, <2>3, U32Assumption
  <2>5. d.start % U32 = d.start /\ d.end % U32 = d.end
    BY <2>4, U32Assumption, SmallRemainder
  <2>6. Stands(list[k], d)
    BY <1>1, <2>1
  <2> QED
    BY <2>1, <2>2, <2>5, <2>6 DEF Stands
<1> QED
  BY <1>1, <1>2, <1>3 DEF n

-----------------------------------------------------------------------------
(***************************************************************************)
(* The theorems.                                                           *)
(***************************************************************************)
(* The inductive invariant: any descriptor, any address of 32 bits.        *)
QueryTypes == descriptor \in Descriptor /\ address \in 0 .. U32 - 1

(* The queries stay in the descriptors and the addresses.                  *)
LEMMA QueryInvariance == QuerySpec => []QueryTypes
<1>1. QueryInit => QueryTypes
  <2> SUFFICES ASSUME QueryInit PROVE QueryTypes
    OBVIOUS
  <2>1. descriptor = [named |-> TRUE, regions |-> << >>] /\ address \in 0 .. U32 - 1
    BY QueryAssumption DEF QueryInit
  <2>2. TRUE \in BOOLEAN /\ << >> \in Seq(RegionFields)
    OBVIOUS
  <2> QED
    BY <2>1, <2>2 DEF QueryTypes, Descriptor
<1>2. QueryTypes /\ [QueryNext]_queryVars => QueryTypes'
  <2> SUFFICES ASSUME QueryTypes, [QueryNext]_queryVars PROVE QueryTypes'
    OBVIOUS
  <2> DEFINE regions == descriptor.regions
  <2>1. /\ descriptor = [named |-> descriptor.named, regions |-> regions]
        /\ descriptor.named \in BOOLEAN /\ regions \in Seq(RegionFields)
        /\ address \in 0 .. U32 - 1
    BY DEF QueryTypes, Descriptor
  <2>2. ASSUME NEW a \in RegionAddresses, AddRegion(a) PROVE QueryTypes'
    <3>1. [address |-> a, segments |-> << >>] \in RegionFields
      <4>1. a \in 0 .. U32 - 1 /\ << >> \in Seq(SegmentFields)
        BY QueryAssumption
      <4> QED
        BY <4>1 DEF RegionFields
    <3>2. Append(regions, [address |-> a, segments |-> << >>]) \in Seq(RegionFields)
      <4> HIDE DEF regions
      <4> QED BY <2>1, <3>1
    <3>3. /\ descriptor' = [named |-> descriptor.named,
                            regions |-> Append(regions, [address |-> a, segments |-> << >>])]
          /\ address' = address
      BY <2>1, <2>2 DEF AddRegion
    <3> QED
      BY <2>1, <3>2, <3>3 DEF QueryTypes, Descriptor
  <2>3. ASSUME NEW s \in Fields, AddSegment(s) PROVE QueryTypes'
    <3> DEFINE r == Len(regions)
               old == regions[r]
               new == [old EXCEPT !.segments = Append(@, s)]
    <3>1. r \in DOMAIN regions /\ r \in 1 .. Len(regions)
      BY <2>1, <2>3 DEF AddSegment
    <3>2. old \in RegionFields
      BY <2>1, <3>1, ElementOfSeq
    <3>3. s \in SegmentFields
      BY QueryAssumption
    <3>4. new \in RegionFields
      <4> HIDE DEF old
      <4>1. old.address \in 0 .. U32 - 1 /\ old.segments \in Seq(SegmentFields)
            /\ old = [address |-> old.address, segments |-> old.segments]
        BY <3>2 DEF RegionFields
      <4>2. Append(old.segments, s) \in Seq(SegmentFields)
        BY <3>3, <4>1
      <4>3. new = [address |-> old.address, segments |-> Append(old.segments, s)]
        BY <4>1
      <4> QED
        BY <4>1, <4>2, <4>3 DEF RegionFields
    <3>5. [regions EXCEPT ![r] = new] \in Seq(RegionFields)
      <4> HIDE DEF new, regions, r
      <4> QED BY <2>1, <3>1, <3>4, ExceptSeq
    <3>6. /\ descriptor' = [named |-> descriptor.named,
                            regions |-> [regions EXCEPT ![r] = new]]
          /\ address' = address
      BY <2>1, <2>3 DEF AddSegment
    <3> QED
      BY <2>1, <3>5, <3>6 DEF QueryTypes, Descriptor
  <2>4. CASE UNCHANGED queryVars
    BY <2>4 DEF queryVars, QueryTypes
  <2> QED
    BY <2>2, <2>3, <2>4 DEF QueryNext
<1> QED
  BY <1>1, <1>2, PTL DEF QuerySpec

(* parse_memory_segments makes one node of every declared segment, in      *)
(* order, with its access bits and its place in 32 bits, however many      *)
(* regions and segments there are and wherever they wrap.                  *)
THEOREM ParsedAsDeclared == QuerySpec => []ListIsDeclared
<1>1. ASSUME QueryTypes PROVE ListIsDeclared
  <2>1. Renders(list, DeclaredSegments)
    BY <1>1, ListRenders DEF QueryTypes
  <2>2. list \in Seq(Segment)
    BY <1>1, ListRenders DEF QueryTypes
  <2>3. DOMAIN list = 1 .. Len(list)
    BY <2>2
  <2> QED
    BY <2>1, <2>3 DEF Renders, Stands, ListIsDeclared
<1> QED
  BY <1>1, QueryInvariance, PTL

(* find_segment_node answers the first node that fits.                     *)
LEMMA FoundIsLeast ==
  ASSUME QueryTypes, Len(list) \in Nat
  PROVE  /\ Hits(list, address) = {} => found = 0
         /\ Hits(list, address) # {} =>
              /\ found \in Hits(list, address)
              /\ \A h \in Hits(list, address) : found <= h
<1> DEFINE hits == Hits(list, address % U32)
<1>1. address % U32 = address
  BY U32Assumption, SmallRemainder DEF QueryTypes
<1>2. hits = Hits(list, address)
  BY <1>1
<1>3. found = IF hits = {} THEN 0 ELSE CHOOSE k \in hits : \A h \in hits : k <= h
  BY DEF found, find_segment_node
<1>4. hits \subseteq Nat
  BY DEF Hits
<1> HIDE DEF hits
<1>5. hits # {} => \E k \in hits : \A h \in hits : k <= h
  BY <1>4, Least
<1>6. hits # {} => found \in hits /\ (\A h \in hits : found <= h)
  BY <1>3, <1>5
<1> QED
  BY <1>2, <1>3, <1>6

(* find_segment_node answers the node an address is in, or the one that    *)
(* ends at the address, for all but the last node, whose test the search   *)
(* never makes: its `<=` is off by one byte and by no more.                *)
THEOREM LookupAnswersNeighbour == QuerySpec => []LookupIsOffByOneAtMost
<1>1. QueryTypes => LookupIsOffByOneAtMost
  <2> SUFFICES ASSUME QueryTypes, Fits, Disjoint
               PROVE  /\ found # 0 =>
                           \/ Holds(DeclaredSegments[found], address)
                           \/ address = DeclaredSegments[found].end
                      /\ \A k \in 1 .. Len(list) - 1 :
                           Holds(DeclaredSegments[k], address) =>
                             \/ found = k
                             \/ found # 0 /\ DeclaredSegments[found].end = address
    BY DEF LookupIsOffByOneAtMost
  <2> DEFINE n == Len(list)
             D == DeclaredSegments
             hits == Hits(list, address)
  <2>1. /\ n \in Nat /\ DOMAIN D = 1 .. n
        /\ \A k \in 1 .. n : /\ D[k].start \in Nat /\ D[k].end \in Nat
                             /\ list[k].start = D[k].start /\ list[k].end = D[k].end
    BY ListIsExact DEF QueryTypes
  <2>2. address \in Nat
    BY U32Assumption DEF QueryTypes
  <2>3. \A k \in 1 .. n - 1 : k \in 1 .. n
    BY <2>1
  <2>4. \A k : k \in hits <=> /\ k \in 1 .. n - 1
                              /\ D[k].start <= address /\ address <= D[k].end
    BY <2>1, <2>2, <2>3 DEF Hits
  <2>5. /\ hits = {} => found = 0
        /\ hits # {} => found \in hits /\ (\A h \in hits : found <= h)
    BY <2>1, FoundIsLeast
  <2>6. \A j, k \in 1 .. n : j < k => \/ D[j].end <= D[k].start
                                      \/ D[k].end <= D[j].start
    BY <2>1 DEF Disjoint
  <2> HIDE DEF n, D, hits
  <2>7. ASSUME found # 0 PROVE Holds(D[found], address) \/ address = D[found].end
    <3>1. found \in hits
      BY <2>5, <2>7
    <3>2. found \in 1 .. n /\ D[found].start <= address /\ address <= D[found].end
      BY <2>3, <2>4, <3>1
    <3> QED
      BY <2>1, <2>2, <3>2 DEF Holds
  <2>8. ASSUME NEW k \in 1 .. n - 1, Holds(D[k], address), found # k
        PROVE  found # 0 /\ D[found].end = address
    <3>1. k \in hits
      BY <2>1, <2>2, <2>3, <2>4, <2>8 DEF Holds
    <3>2. found \in hits /\ found <= k
      BY <2>5, <3>1
    <3>3. /\ found \in 1 .. n /\ k \in 1 .. n /\ found < k
          /\ D[found].start <= address /\ address <= D[found].end
      BY <2>1, <2>3, <2>4, <2>8, <3>2
    <3>4. D[k].start <= address /\ address < D[k].end
      BY <2>8 DEF Holds
    <3>5. D[found].end <= D[k].start \/ D[k].end <= D[found].start
      BY <2>6, <3>3
    <3> QED
      BY <2>1, <2>2, <3>3, <3>4, <3>5
  <2> QED
    BY <2>7, <2>8 DEF n, D
<1> QED
  BY <1>1, QueryInvariance, PTL
=============================================================================
