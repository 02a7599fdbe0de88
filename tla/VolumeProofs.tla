---------------------------- MODULE VolumeProofs ----------------------------
(***************************************************************************)
(* Theorems about every sequence of calls on a volume, for all sets of     *)
(* names, ids, contents and import trees.                                  *)
(***************************************************************************)
EXTENDS Volume, FiniteSetTheorems, WellFoundedInduction, SequenceTheorems, TLAPS

-----------------------------------------------------------------------------
(* The counters of zones, for every table: what FileBytes computes, and    *)
(* that the statement triggers keep both counters exact.  The library sums *)
(* by recursion on the subsets of a set, so the facts here are by          *)
(* induction on finite sets, in the form that a set of sets has a least    *)
(* element (WFMin).                                                        *)

\* Any property that fails of a subset of a finite set fails of a least one.
LEMMA LeastSubset ==
  ASSUME NEW A, IsFiniteSet(A), NEW T \in SUBSET SUBSET A, T # {}
  PROVE  \E s \in T : \A u \in T : ~(u \subseteq s /\ u # s)
<1>1. T \subseteq FiniteSubsetsOf(A)
  BY FS_Subset DEF FiniteSubsetsOf
<1>2. PICK s \in T : \A u \in T : ~(<<u, s>> \in StrictSubsetOrdering(A))
  BY <1>1, FS_StrictSubsetOrderingWellFounded, WFMin
<1>3. ASSUME NEW u \in T, u \subseteq s, u # s PROVE FALSE
  <2>1. u \in SUBSET A /\ s \in SUBSET A
    OBVIOUS
  <2> QED
    BY <1>1, <1>2, <1>3, <2>1 DEF StrictSubsetOrdering
<1> QED
  BY <1>2, <1>3

\* The row that the sum takes first.
First(s) == CHOOSE x \in s : TRUE

LEMMA FirstIn == ASSUME NEW s, s # {} PROVE First(s) \in s
BY DEF First

\* h has the sums of the sizes over all subsets of A.
Sums(h, rows, A) ==
    h = [s \in SUBSET A |-> IF s = {} THEN 0 ELSE rows[First(s)].size + h[s \ {First(s)}]]

Sum(rows, A) == (CHOOSE h : Sums(h, rows, A))[A]

LEMMA BytesAreSum ==
  ASSUME NEW rows, NEW S
  PROVE  FileBytes(rows, S) = Sum(rows, {i \in S : rows[i].kind = File})
BY DEF FileBytes, MapThenSumSet, MapThenFoldSet, Sums, Sum, First

LEMMA SumsParts ==
  ASSUME NEW h, NEW rows, NEW A, Sums(h, rows, A), NEW s \in SUBSET A
  PROVE  h[s] = IF s = {} THEN 0 ELSE rows[First(s)].size + h[s \ {First(s)}]
BY DEF Sums

SameSizes(a, b, A) == \A i \in A : a[i].size = b[i].size

\* Sums depend only on the rows that they are over.
LEMMA SumsAgree ==
  ASSUME NEW A, NEW B, NEW C, IsFiniteSet(C), C \subseteq A, C \subseteq B,
         NEW a, NEW b, SameSizes(a, b, C),
         NEW h, Sums(h, a, A), NEW k, Sums(k, b, B)
  PROVE  \A s \in SUBSET C : h[s] = k[s]
<1> DEFINE T == {s \in SUBSET C : h[s] # k[s]}
<1> SUFFICES ASSUME T # {} PROVE FALSE
  OBVIOUS
<1>1. PICK s \in T : \A u \in T : ~(u \subseteq s /\ u # s)
  <2>1. T \in SUBSET SUBSET C
    OBVIOUS
  <2> HIDE DEF T
  <2> QED
    BY <2>1, LeastSubset
<1>2. s \in SUBSET A /\ s \in SUBSET B /\ s \in SUBSET C /\ h[s] # k[s]
  OBVIOUS
<1>3. CASE s = {}
  BY <1>2, <1>3, SumsParts
<1>4. CASE s # {}
  <2> DEFINE x == First(s)
             u == s \ {x}
  <2>1. x \in s /\ u \subseteq s /\ u # s /\ u \in SUBSET C
    BY <1>2, <1>4, FirstIn
  <2>2. h[u] = k[u]
    BY <1>1, <2>1
  <2>3. h[s] = a[x].size + h[u] /\ k[s] = b[x].size + k[u]
    BY <1>2, <1>4, SumsParts
  <2>4. a[x].size = b[x].size
    BY <1>2, <2>1 DEF SameSizes
  <2> HIDE DEF x, u
  <2> QED
    BY <1>2, <2>2, <2>3, <2>4
<1> QED
  BY <1>3, <1>4

\* The recursion has a solution on every finite set.
LEMMA SumsExist ==
  ASSUME NEW rows, NEW A, IsFiniteSet(A)
  PROVE  \E h : Sums(h, rows, A)
<1> DEFINE T == {s \in SUBSET A : ~ \E h : Sums(h, rows, s)}
<1>1. ASSUME T # {} PROVE FALSE
  <2>1. PICK s \in T : \A u \in T : ~(u \subseteq s /\ u # s)
    <3>1. T \in SUBSET SUBSET A
      OBVIOUS
    <3> HIDE DEF T
    <3> QED
      BY <1>1, <3>1, LeastSubset
  <2> DEFINE own(u) == CHOOSE k : Sums(k, rows, u)
             h == [u \in SUBSET s |->
                     IF u # s THEN own(u)[u]
                     ELSE IF s = {} THEN 0
                     ELSE rows[First(s)].size + own(s \ {First(s)})[s \ {First(s)}]]
  <2>2. s \in SUBSET A /\ ~ \E k : Sums(k, rows, s)
    BY <2>1
  <2>3. ASSUME NEW u \in SUBSET s, u # s PROVE Sums(own(u), rows, u)
    <3>1. u \notin T /\ u \in SUBSET A
      BY <2>1, <2>2, <2>3
    <3>2. \E k : Sums(k, rows, u)
      BY <3>1
    <3> QED
      BY <3>2
  <2> HIDE DEF own
  <2>4. ASSUME NEW u \in SUBSET s
        PROVE  h[u] = IF u = {} THEN 0 ELSE rows[First(u)].size + h[u \ {First(u)}]
    <3> DEFINE x == First(u)
               v == u \ {x}
    <3>1. CASE u = {} /\ u = s
      BY <3>1
    <3>2. CASE u = {} /\ u # s
      <4>1. h[u] = own(u)[u]
        BY <3>2
      <4>2. Sums(own(u), rows, u)
        BY <2>3, <3>2
      <4>3. u \in SUBSET u
        OBVIOUS
      <4>4. own(u)[u] = 0
        BY <3>2, <4>2, <4>3, SumsParts
      <4> QED
        BY <3>2, <4>1, <4>4
    <3>3. CASE u # {}
      <4>1. x \in u /\ v \in SUBSET u /\ v \in SUBSET s /\ v # s
        BY <3>3, FirstIn
      <4>2. h[v] = own(v)[v] /\ Sums(own(v), rows, v)
        BY <2>3, <4>1
      <4>3. CASE u = s
        BY <3>3, <4>2, <4>3
      <4>4. CASE u # s
        <5>1. h[u] = own(u)[u] /\ Sums(own(u), rows, u)
          BY <2>3, <4>4
        <5>2. own(u)[u] = rows[x].size + own(u)[v]
          <6>1. u \in SUBSET u
            OBVIOUS
          <6> HIDE DEF h
          <6> QED
            BY <3>3, <5>1, <6>1, SumsParts
        <5>3. own(u)[v] = own(v)[v]
          <6>1. IsFiniteSet(v)
            BY <2>2, <4>1, FS_Subset
          <6>2. SameSizes(rows, rows, v)
            BY DEF SameSizes
          <6>3. v \subseteq u /\ v \subseteq v /\ v \in SUBSET v
            BY <4>1
          <6>4. \A t \in SUBSET v : own(u)[t] = own(v)[t]
            <7> DEFINE big == own(u)
                       small == own(v)
            <7>1. Sums(big, rows, u) /\ Sums(small, rows, v)
              BY <4>2, <5>1
            <7> HIDE DEF v, h, big, small
            <7>2. \A t \in SUBSET v : big[t] = small[t]
              BY <6>1, <6>2, <6>3, <7>1, SumsAgree
            <7> QED
              BY <7>2 DEF big, small
          <6> QED
            BY <6>3, <6>4
        <5> HIDE DEF h, v, x
        <5> QED
          BY <3>3, <4>2, <5>1, <5>2, <5>3 DEF v, x
      <4> QED
        BY <4>3, <4>4
    <3> QED
      BY <3>1, <3>2, <3>3
  <2>5. h = [u \in SUBSET s |-> h[u]]
    OBVIOUS
  <2> HIDE DEF h
  <2>6. Sums(h, rows, s)
    BY <2>4, <2>5 DEF Sums
  <2> QED
    BY <2>2, <2>6
<1>2. A \in SUBSET A
  OBVIOUS
<1> QED
  BY <1>1, <1>2

-----------------------------------------------------------------------------
(* What a sum is.                                                          *)

LEMMA SumStep ==
  ASSUME NEW rows, NEW A, IsFiniteSet(A)
  PROVE  Sum(rows, A) = IF A = {} THEN 0 ELSE rows[First(A)].size + Sum(rows, A \ {First(A)})
<1> DEFINE own(u) == CHOOSE k : Sums(k, rows, u)
           v == A \ {First(A)}
<1>1. IsFiniteSet(v) /\ v \subseteq A
  BY FS_Subset
<1>2. Sums(own(A), rows, A) /\ Sums(own(v), rows, v)
  BY <1>1, SumsExist
<1>3. Sum(rows, A) = own(A)[A] /\ Sum(rows, v) = own(v)[v]
  BY DEF Sum
<1> HIDE DEF own, v
<1>4. \A s \in SUBSET v : own(A)[s] = own(v)[s]
  <2>1. SameSizes(rows, rows, v)
    BY DEF SameSizes
  <2> QED
    BY <1>1, <1>2, <2>1, SumsAgree
<1>5. own(A)[v] = own(v)[v]
  BY <1>4
<1>6. own(A)[A] = IF A = {} THEN 0 ELSE rows[First(A)].size + own(A)[v]
  BY <1>2, SumsParts DEF v
<1> QED
  BY <1>3, <1>5, <1>6 DEF v

LEMMA SumSame ==
  ASSUME NEW a, NEW b, NEW A, IsFiniteSet(A), SameSizes(a, b, A)
  PROVE  Sum(a, A) = Sum(b, A)
<1> DEFINE h == CHOOSE k : Sums(k, a, A)
           g == CHOOSE k : Sums(k, b, A)
<1>1. Sums(h, a, A) /\ Sums(g, b, A)
  BY SumsExist
<1>2. Sum(a, A) = h[A] /\ Sum(b, A) = g[A]
  BY DEF Sum
<1> HIDE DEF h, g
<1>3. \A s \in SUBSET A : h[s] = g[s]
  <2>1. A \subseteq A
    OBVIOUS
  <2> QED
    BY <1>1, <2>1, SumsAgree
<1> QED
  BY <1>2, <1>3

\* Any row can be taken first.
LEMMA SumTakes ==
  ASSUME NEW rows, NEW A, IsFiniteSet(A), \A i \in A : rows[i].size \in Nat
  PROVE  /\ Sum(rows, A) \in Nat
         /\ \A x \in A : Sum(rows, A) = rows[x].size + Sum(rows, A \ {x})
<1> DEFINE Good(s) == /\ Sum(rows, s) \in Nat
                      /\ \A x \in s : Sum(rows, s) = rows[x].size + Sum(rows, s \ {x})
           T == {s \in SUBSET A : ~Good(s)}
<1>1. ASSUME T # {} PROVE FALSE
  <2>1. PICK s \in T : \A u \in T : ~(u \subseteq s /\ u # s)
    <3>1. T \in SUBSET SUBSET A
      OBVIOUS
    <3> HIDE DEF T
    <3> QED
      BY <1>1, <3>1, LeastSubset
  <2>2. s \in SUBSET A /\ ~Good(s)
    BY <2>1
  <2>3. ASSUME NEW u \in SUBSET s, u # s PROVE Good(u)
    BY <2>1, <2>2, <2>3
  <2>4. \A u \in SUBSET s : IsFiniteSet(u)
    BY <2>2, FS_Subset
  <2>5. CASE s = {}
    <3>1. Sum(rows, s) = 0
      BY <2>2, <2>4, <2>5, SumStep
    <3>2. Good(s)
      BY <2>5, <3>1
    <3> QED
      BY <2>2, <3>2
  <2>6. CASE s # {}
    <3> DEFINE y == First(s)
               v == s \ {y}
    <3>1. y \in s /\ v \in SUBSET s /\ v # s /\ rows[y].size \in Nat
      BY <2>2, <2>6, FirstIn
    <3>2. Sum(rows, s) = rows[y].size + Sum(rows, v)
      BY <2>4, <2>6, SumStep
    <3>3. Good(v)
      BY <2>3, <3>1
    <3> HIDE DEF y, v
    <3>4. Sum(rows, s) \in Nat
      BY <3>1, <3>2, <3>3
    <3>5. ASSUME NEW x \in s PROVE Sum(rows, s) = rows[x].size + Sum(rows, s \ {x})
      <4>1. CASE x = y
        BY <3>2, <4>1 DEF v
      <4>2. CASE x # y
        <5> DEFINE w == s \ {x}
                   c == v \ {x}
        <5>1. x \in v /\ y \in w /\ w \in SUBSET s /\ w # s /\ c = w \ {y}
              /\ c \in SUBSET s /\ c # s /\ rows[x].size \in Nat
          BY <2>2, <3>1, <4>2 DEF v
        <5>2. Sum(rows, v) = rows[x].size + Sum(rows, c)
          BY <3>3, <5>1
        <5>3. Sum(rows, w) = rows[y].size + Sum(rows, c)
          BY <2>3, <5>1
        <5>4. Sum(rows, c) \in Nat
          BY <2>3, <5>1
        <5> HIDE DEF w, c
        <5>5. Sum(rows, s) = rows[x].size + Sum(rows, w)
          BY <3>1, <3>2, <5>1, <5>2, <5>3, <5>4
        <5> QED
          BY <5>5 DEF w
      <4> QED
        BY <4>1, <4>2
    <3> QED
      BY <2>2, <3>4, <3>5
  <2> QED
    BY <2>5, <2>6
<1>2. A \in SUBSET A
  OBVIOUS
<1> QED
  BY <1>1, <1>2

\* The sum over two sets without a common element.
LEMMA SumUnion ==
  ASSUME NEW rows, NEW A, IsFiniteSet(A), NEW B, IsFiniteSet(B), A \cap B = {},
         \A i \in A \cup B : rows[i].size \in Nat
  PROVE  Sum(rows, A \cup B) = Sum(rows, A) + Sum(rows, B)
<1> DEFINE Splits(s) == Sum(rows, s \cup B) = Sum(rows, s) + Sum(rows, B)
           T == {s \in SUBSET A : ~Splits(s)}
<1>1. ASSUME T # {} PROVE FALSE
  <2>1. PICK s \in T : \A u \in T : ~(u \subseteq s /\ u # s)
    <3>1. T \in SUBSET SUBSET A
      OBVIOUS
    <3> HIDE DEF T
    <3> QED
      BY <1>1, <3>1, LeastSubset
  <2>2. s \in SUBSET A /\ ~Splits(s)
    BY <2>1
  <2>3. \A u \in SUBSET A : IsFiniteSet(u) /\ IsFiniteSet(u \cup B)
    BY FS_Subset, FS_Union
  <2>4. Sum(rows, B) \in Nat
    BY SumTakes
  <2>5. CASE s = {}
    <3>1. Sum(rows, s) = 0
      BY <2>2, <2>3, <2>5, SumStep
    <3>2. s \cup B = B
      BY <2>5
    <3>3. Sum(rows, s \cup B) = Sum(rows, B)
      BY <3>2
    <3>4. Splits(s)
      BY <2>4, <3>1, <3>3
    <3> QED
      BY <2>2, <3>4
  <2>6. CASE s # {}
    <3>1. PICK x \in s : TRUE
      BY <2>6
    <3> DEFINE v == s \ {x}
    <3>2. /\ v \in SUBSET A /\ v \subseteq s /\ v # s /\ x \in s \cup B
          /\ (s \cup B) \ {x} = v \cup B /\ rows[x].size \in Nat
      BY <2>2
    <3>3. Splits(v)
      BY <2>1, <3>2
    <3>4. Sum(rows, s) = rows[x].size + Sum(rows, v)
      BY <2>2, <2>3, SumTakes
    <3>5. Sum(rows, s \cup B) = rows[x].size + Sum(rows, v \cup B)
      <4>1. \A i \in s \cup B : rows[i].size \in Nat
        BY <2>2
      <4>2. IsFiniteSet(s \cup B)
        BY <2>2, <2>3
      <4>3. Sum(rows, s \cup B) = rows[x].size + Sum(rows, (s \cup B) \ {x})
        BY <3>2, <4>1, <4>2, SumTakes
      <4> QED
        BY <3>2, <4>3
    <3>6. Sum(rows, v) \in Nat
      BY <2>3, <3>2, SumTakes
    <3> HIDE DEF v
    <3>7. Splits(s)
      BY <2>4, <3>2, <3>3, <3>4, <3>5, <3>6
    <3> QED
      BY <2>2, <3>7
  <2> QED
    BY <2>5, <2>6
<1>2. A \in SUBSET A
  OBVIOUS
<1> QED
  BY <1>1, <1>2

-----------------------------------------------------------------------------
(* The counters of a zone, and the triggers.                               *)

\* Rows that can be counted.
Sized(rows) == IsFiniteSet(DOMAIN rows) /\ \A i \in DOMAIN rows : rows[i].size \in Nat

Count(rows, z) == Cardinality(RowsIn(rows, z))
SizeIn(rows, z) == FileBytes(rows, RowsIn(rows, z))

\* The counters of every zone are those of the rows.
Counted(zs, rows) ==
    \A z \in DOMAIN zs :
        zs[z].entry_count = Count(rows, z) /\ zs[z].file_bytes = SizeIn(rows, z)

HasCounters(zs) == \A z \in DOMAIN zs : {"entry_count", "file_bytes"} \subseteq DOMAIN zs[z]

\* Table c is a and b together.
Together(c, a, b) ==
    /\ DOMAIN a \cap DOMAIN b = {} /\ DOMAIN c = DOMAIN a \cup DOMAIN b
    /\ \A i \in DOMAIN a : c[i] = a[i]
    /\ \A i \in DOMAIN b : c[i] = b[i]

LEMMA CountsAdd ==
  ASSUME NEW a, Sized(a), NEW b, Sized(b), NEW c, Together(c, a, b), NEW z
  PROVE  /\ Count(a, z) \in Nat /\ Count(b, z) \in Nat /\ Count(c, z) = Count(a, z) + Count(b, z)
         /\ SizeIn(a, z) \in Nat /\ SizeIn(b, z) \in Nat /\ SizeIn(c, z) = SizeIn(a, z) + SizeIn(b, z)
<1> DEFINE A == RowsIn(a, z)
           B == RowsIn(b, z)
           C == RowsIn(c, z)
           FA == {i \in A : a[i].kind = File}
           FB == {i \in B : b[i].kind = File}
           FC == {i \in C : c[i].kind = File}
<1>1. A \subseteq DOMAIN a /\ B \subseteq DOMAIN b /\ C = A \cup B /\ A \cap B = {}
  BY DEF RowsIn, Together
<1>2. FA \subseteq A /\ FB \subseteq B /\ FC = FA \cup FB /\ FA \cap FB = {}
  BY <1>1 DEF Together
<1>3. /\ SizeIn(a, z) = Sum(a, FA) /\ SizeIn(b, z) = Sum(b, FB) /\ SizeIn(c, z) = Sum(c, FC)
      /\ Count(a, z) = Cardinality(A) /\ Count(b, z) = Cardinality(B) /\ Count(c, z) = Cardinality(C)
  BY BytesAreSum DEF SizeIn, Count
<1> HIDE DEF A, B, C, FA, FB, FC
<1>4. IsFiniteSet(A) /\ IsFiniteSet(B) /\ IsFiniteSet(FA) /\ IsFiniteSet(FB)
  BY <1>1, <1>2, FS_Subset DEF Sized
<1>5. /\ Cardinality(A) \in Nat /\ Cardinality(B) \in Nat
      /\ Cardinality(C) = Cardinality(A) + Cardinality(B)
  <2>1. Cardinality(A) \in Nat /\ Cardinality(B) \in Nat
    BY <1>4, FS_CardinalityType
  <2>2. Cardinality(C) = Cardinality(A) + Cardinality(B) - Cardinality(A \cap B)
    BY <1>1, <1>4, FS_Union
  <2>3. Cardinality(A \cap B) = 0
    BY <1>1, FS_EmptySet
  <2> QED
    BY <2>1, <2>2, <2>3
<1>6. Sum(a, FA) \in Nat /\ Sum(b, FB) \in Nat /\ Sum(c, FC) = Sum(a, FA) + Sum(b, FB)
  <2>1. /\ \A i \in FA : c[i].size = a[i].size /\ a[i].size \in Nat
        /\ \A i \in FB : c[i].size = b[i].size /\ b[i].size \in Nat
    BY <1>1, <1>2 DEF Sized, Together
  <2>2. Sum(c, FA) = Sum(a, FA) /\ Sum(c, FB) = Sum(b, FB)
    BY <1>4, <2>1, SumSame DEF SameSizes
  <2>3. Sum(a, FA) \in Nat /\ Sum(b, FB) \in Nat
    BY <1>4, <2>1, SumTakes
  <2>4. \A i \in FA \cup FB : c[i].size \in Nat
    BY <2>1
  <2>5. Sum(c, FA \cup FB) = Sum(c, FA) + Sum(c, FB)
    BY <1>2, <1>4, <2>4, SumUnion
  <2> QED
    BY <1>2, <2>2, <2>3, <2>5
<1> QED
  BY <1>3, <1>5, <1>6

LEMMA NoneCounted ==
  ASSUME NEW rows, NEW z, RowsIn(rows, z) = {}
  PROVE  Count(rows, z) = 0 /\ SizeIn(rows, z) = 0
<1>1. Cardinality({}) = 0 /\ IsFiniteSet({})
  BY FS_EmptySet
<1>2. SizeIn(rows, z) = Sum(rows, {i \in {} : rows[i].kind = File})
  BY BytesAreSum DEF SizeIn
<1>3. {i \in {} : rows[i].kind = File} = {}
  OBVIOUS
<1>4. Sum(rows, {}) = 0
  BY <1>1, SumStep
<1> QED
  BY <1>1, <1>2, <1>3, <1>4 DEF Count

LEMMA InsertCounted ==
  ASSUME NEW zs, NEW es, NEW rows, HasCounters(zs), Counted(zs, es), Sized(es), Sized(rows),
         DOMAIN rows \cap DOMAIN es = {}
  PROVE  Counted(AfterInsert(zs, rows), Store(rows, es))
<1> DEFINE all == Store(rows, es)
           after == AfterInsert(zs, rows)
<1>1. Together(all, es, rows)
  BY DEF Together, Store
<1>2. DOMAIN after = DOMAIN zs
  BY DEF AfterInsert
<1> HIDE DEF all
<1>3. ASSUME NEW z \in DOMAIN zs
      PROVE  /\ after[z].entry_count = zs[z].entry_count + Count(rows, z)
             /\ after[z].file_bytes = zs[z].file_bytes + SizeIn(rows, z)
  <2>1. after[z] = [zs[z] EXCEPT !.entry_count = @ + Count(rows, z),
                                 !.file_bytes = @ + SizeIn(rows, z)]
    BY DEF AfterInsert, Count, SizeIn
  <2> HIDE DEF after
  <2> QED
    BY <2>1 DEF HasCounters
<1> HIDE DEF after
<1>4. ASSUME NEW z \in DOMAIN zs
      PROVE  after[z].entry_count = Count(all, z) /\ after[z].file_bytes = SizeIn(all, z)
  <2>1. Count(all, z) = Count(es, z) + Count(rows, z) /\ SizeIn(all, z) = SizeIn(es, z) + SizeIn(rows, z)
    BY <1>1, CountsAdd
  <2> QED
    BY <1>3, <2>1 DEF Counted
<1>5. Counted(after, all)
  BY <1>2, <1>4 DEF Counted
<1> QED
  BY <1>5 DEF after, all

LEMMA DeleteCounted ==
  ASSUME NEW zs, NEW es, NEW S, S \subseteq DOMAIN es, HasCounters(zs), Counted(zs, es), Sized(es),
         NEW rest, rest = [i \in DOMAIN es \ S |-> es[i]]
  PROVE  Counted(AfterDelete(zs, [i \in S |-> es[i]]), rest)
<1> DEFINE old == [i \in S |-> es[i]]
           after == AfterDelete(zs, old)
<1>1. Together(es, rest, old) /\ Sized(rest) /\ Sized(old)
  BY FS_Subset DEF Together, Sized
<1> HIDE DEF old
<1>2. DOMAIN after = DOMAIN zs
  BY DEF AfterDelete
<1>3. ASSUME NEW z \in DOMAIN zs
      PROVE  /\ after[z].entry_count = zs[z].entry_count - Count(old, z)
             /\ after[z].file_bytes = zs[z].file_bytes - SizeIn(old, z)
  <2>1. after[z] = [zs[z] EXCEPT !.entry_count = @ - Count(old, z),
                                 !.file_bytes = @ - SizeIn(old, z)]
    BY DEF AfterDelete, Count, SizeIn
  <2> HIDE DEF after
  <2> QED
    BY <2>1 DEF HasCounters
<1> HIDE DEF after
<1>4. ASSUME NEW z \in DOMAIN zs
      PROVE  after[z].entry_count = Count(rest, z) /\ after[z].file_bytes = SizeIn(rest, z)
  <2>1. /\ Count(rest, z) \in Nat /\ Count(old, z) \in Nat
        /\ SizeIn(rest, z) \in Nat /\ SizeIn(old, z) \in Nat
        /\ Count(es, z) = Count(rest, z) + Count(old, z)
        /\ SizeIn(es, z) = SizeIn(rest, z) + SizeIn(old, z)
    BY <1>1, CountsAdd
  <2> QED
    BY <1>3, <2>1 DEF Counted
<1>5. Counted(after, rest)
  BY <1>2, <1>4 DEF Counted
<1> QED
  BY <1>5 DEF after, old

LEMMA UpdateCounted ==
  ASSUME NEW zs, NEW es, NEW rows, DOMAIN rows \subseteq DOMAIN es, HasCounters(zs),
         Counted(zs, es), Sized(es), Sized(rows)
  PROVE  Counted(AfterUpdate(zs, [i \in DOMAIN rows |-> es[i]], rows), Store(rows, es))
<1> DEFINE old == [i \in DOMAIN rows |-> es[i]]
           rest == [i \in DOMAIN es \ DOMAIN rows |-> es[i]]
           all == Store(rows, es)
           after == AfterUpdate(zs, old, rows)
<1>1. Together(es, rest, old) /\ Sized(rest) /\ Sized(old)
  BY FS_Subset DEF Together, Sized
<1>2. Together(all, rest, rows)
  BY DEF Together, Store
<1> HIDE DEF old, rest, all
<1>3. DOMAIN after = DOMAIN zs
  BY DEF AfterUpdate
<1>4. ASSUME NEW z \in DOMAIN zs
      PROVE  /\ after[z].entry_count = zs[z].entry_count + Count(rows, z) - Count(old, z)
             /\ after[z].file_bytes = zs[z].file_bytes + SizeIn(rows, z) - SizeIn(old, z)
  <2>1. after[z] = [zs[z] EXCEPT !.entry_count = @ + Count(rows, z) - Count(old, z),
                                 !.file_bytes = @ + SizeIn(rows, z) - SizeIn(old, z)]
    BY DEF AfterUpdate, Count, SizeIn
  <2> HIDE DEF after
  <2> QED
    BY <2>1 DEF HasCounters
<1> HIDE DEF after
<1>5. ASSUME NEW z \in DOMAIN zs
      PROVE  after[z].entry_count = Count(all, z) /\ after[z].file_bytes = SizeIn(all, z)
  <2>1. /\ Count(rest, z) \in Nat /\ Count(old, z) \in Nat /\ Count(rows, z) \in Nat
        /\ SizeIn(rest, z) \in Nat /\ SizeIn(old, z) \in Nat /\ SizeIn(rows, z) \in Nat
        /\ Count(es, z) = Count(rest, z) + Count(old, z)
        /\ SizeIn(es, z) = SizeIn(rest, z) + SizeIn(old, z)
        /\ Count(all, z) = Count(rest, z) + Count(rows, z)
        /\ SizeIn(all, z) = SizeIn(rest, z) + SizeIn(rows, z)
    BY <1>1, <1>2, CountsAdd
  <2> QED
    BY <1>4, <2>1 DEF Counted
<1>6. Counted(after, all)
  BY <1>3, <1>5 DEF Counted
<1> QED
  BY <1>6 DEF after, all, old

-----------------------------------------------------------------------------
(* Sums over other sets.                                                   *)

\* Whatever solves the recursion has the sum.
LEMMA SumsSame ==
  ASSUME NEW A, IsFiniteSet(A), NEW rows, NEW h, Sums(h, rows, A), NEW k, Sums(k, rows, A)
  PROVE  h[A] = k[A]
<1> DEFINE a == rows
           b == rows
           B == A
           C == A
<1>1. SameSizes(a, b, C)
  BY DEF SameSizes
<1>2. IsFiniteSet(C) /\ C \subseteq A /\ C \subseteq B
  OBVIOUS
<1>3. Sums(h, a, A)
  OBVIOUS
<1>4. Sums(k, b, B)
  OBVIOUS
<1>5. A \in SUBSET C
  OBVIOUS
<1> HIDE DEF a, b, B, C
<1>6. \A s \in SUBSET C : h[s] = k[s]
  BY <1>1, <1>2, <1>3, <1>4, SumsAgree
<1> QED
  BY <1>5, <1>6

LEMMA SumChosen ==
  ASSUME NEW rows, NEW A, IsFiniteSet(A), NEW h, Sums(h, rows, A)
  PROVE  h[A] = Sum(rows, A)
<1> DEFINE own == CHOOSE k : Sums(k, rows, A)
<1>1. Sums(own, rows, A)
  BY SumsExist
<1>2. Sum(rows, A) = own[A]
  BY DEF Sum
<1> HIDE DEF own
<1> QED
  BY <1>1, <1>2, SumsSame

\* A sum does not change when its rows get other names, one for each.
LEMMA SumRenamed ==
  ASSUME NEW a, NEW b, NEW A, IsFiniteSet(A), NEW f,
         \A i \in A : a[i].size \in Nat /\ b[f[i]].size = a[i].size,
         \A i, j \in A : f[i] = f[j] => i = j
  PROVE  Sum(b, {f[i] : i \in A}) = Sum(a, A)
<1> DEFINE image(s) == {f[i] : i \in s}
           Same(s) == Sum(b, image(s)) = Sum(a, s)
           T == {s \in SUBSET A : ~Same(s)}
<1>1. ASSUME T # {} PROVE FALSE
  <2>1. PICK s \in T : \A u \in T : ~(u \subseteq s /\ u # s)
    <3>1. T \in SUBSET SUBSET A
      OBVIOUS
    <3> HIDE DEF T
    <3> QED
      BY <1>1, <3>1, LeastSubset
  <2>2. s \in SUBSET A /\ ~Same(s)
    BY <2>1
  <2>3. IsFiniteSet(s) /\ IsFiniteSet(image(s))
    <3> DEFINE g == [i \in s |-> f[i]]
    <3>1. IsFiniteSet(s)
      BY <2>2, FS_Subset
    <3>2. g \in Surjection(s, image(s))
      BY DEF Surjection
    <3> HIDE DEF g, image
    <3> QED
      BY <3>1, <3>2, FS_Surjection
  <2>4. CASE s = {}
    <3>1. image(s) = {}
      BY <2>4
    <3>2. Sum(a, s) = 0 /\ Sum(b, image(s)) = 0
      BY <2>3, <2>4, <3>1, SumStep
    <3> QED
      BY <2>2, <3>2
  <2>5. CASE s # {}
    <3>1. PICK x \in s : TRUE
      BY <2>5
    <3> DEFINE v == s \ {x}
    <3>2. v \in SUBSET A /\ v \subseteq s /\ v # s /\ x \in A /\ a[x].size \in Nat
      BY <2>2
    <3>3. Same(v)
      BY <2>1, <3>2
    <3>4. image(s) \ {f[x]} = image(v) /\ f[x] \in image(s)
      BY <2>2, <3>1
    <3>5. \A y \in image(s) : b[y].size \in Nat
      BY <2>2
    <3>6. \A i \in s : a[i].size \in Nat
      BY <2>2
    <3>7. Sum(a, s) = a[x].size + Sum(a, v)
      BY <2>3, <3>1, <3>6, SumTakes
    <3>8. Sum(b, image(s)) = b[f[x]].size + Sum(b, image(s) \ {f[x]})
      <4> HIDE DEF image
      <4> QED
        BY <2>3, <3>4, <3>5, SumTakes
    <3>9. b[f[x]].size = a[x].size
      BY <3>2
    <3> HIDE DEF v, image
    <3>10. Same(s)
      BY <3>3, <3>4, <3>7, <3>8, <3>9
    <3> QED
      BY <2>2, <3>10
  <2> QED
    BY <2>4, <2>5
<1>2. A \in SUBSET A
  OBVIOUS
<1> QED
  BY <1>1, <1>2

RowsUnder(rows, I, Z) == {i \in I : rows[i].zone \in Z}

LEMMA ZoneTaken ==
  ASSUME NEW rows, NEW I, IsFiniteSet(I), NEW Z, NEW z \in Z
  PROVE  /\ RowsUnder(rows, I, Z) = RowsUnder(rows, I, {z}) \cup RowsUnder(rows, I, Z \ {z})
         /\ RowsUnder(rows, I, {z}) \cap RowsUnder(rows, I, Z \ {z}) = {}
         /\ IsFiniteSet(RowsUnder(rows, I, {z})) /\ IsFiniteSet(RowsUnder(rows, I, Z \ {z}))
<1>1. RowsUnder(rows, I, {z}) \subseteq I /\ RowsUnder(rows, I, Z \ {z}) \subseteq I
  BY DEF RowsUnder
<1>2. IsFiniteSet(RowsUnder(rows, I, {z})) /\ IsFiniteSet(RowsUnder(rows, I, Z \ {z}))
  BY <1>1, FS_Subset
<1> QED
  BY <1>2 DEF RowsUnder

SizesAreNat(rows, I) == \A i \in I : rows[i].size \in Nat

SumPerZone(rows, I, Z, zs) ==
    \A z \in Z : zs[z].size = Sum(rows, RowsUnder(rows, I, {z}))

\* Summing per zone first, sizes or numbers of rows, comes to the same.
LEMMA SumOfZones ==
  ASSUME NEW rows, NEW I, IsFiniteSet(I), SizesAreNat(rows, I),
         NEW Z, IsFiniteSet(Z), NEW zs, SumPerZone(rows, I, Z, zs)
  PROVE  Sum(zs, Z) = Sum(rows, RowsUnder(rows, I, Z))
<1>3. \A i \in I : rows[i].size \in Nat
  BY DEF SizesAreNat
<1>4. \A z \in Z : zs[z].size = Sum(rows, RowsUnder(rows, I, {z}))
  BY DEF SumPerZone
<1> DEFINE Same(s) == Sum(zs, s) = Sum(rows, RowsUnder(rows, I, s))
           T == {s \in SUBSET Z : ~Same(s)}
<1>1. ASSUME T # {} PROVE FALSE
  <2>1. PICK s \in T : \A u \in T : ~(u \subseteq s /\ u # s)
    <3>1. T \in SUBSET SUBSET Z
      OBVIOUS
    <3> HIDE DEF T
    <3> QED
      BY <1>1, <3>1, LeastSubset
  <2>2. s \in SUBSET Z /\ ~Same(s)
    BY <2>1
  <2>3. IsFiniteSet(s)
    BY <2>2, FS_Subset
  <2>4. CASE s = {}
    <3>1. RowsUnder(rows, I, s) = {} /\ IsFiniteSet({})
      BY <2>4, FS_EmptySet DEF RowsUnder
    <3>2. Sum(zs, s) = 0
      BY <2>3, <2>4, SumStep
    <3>3. Sum(rows, {}) = 0
      BY <3>1, SumStep
    <3> QED
      BY <2>2, <3>1, <3>2, <3>3
  <2>5. CASE s # {}
    <3>1. PICK x \in s : TRUE
      BY <2>5
    <3> DEFINE v == s \ {x}
               A == RowsUnder(rows, I, {x})
               B == RowsUnder(rows, I, v)
    <3>2. v \in SUBSET Z /\ v \subseteq s /\ v # s /\ x \in Z
      BY <2>2
    <3>3. Same(v)
      BY <2>1, <3>2
    <3>4. /\ RowsUnder(rows, I, s) = A \cup B /\ A \cap B = {} /\ IsFiniteSet(A) /\ IsFiniteSet(B)
      BY <3>1, ZoneTaken, ZenonT(40)
    <3>5. \A i \in A \cup B : rows[i].size \in Nat
      BY <1>3 DEF RowsUnder
    <3>6. \A z \in s : zs[z].size \in Nat
      <4>1. ASSUME NEW z \in s PROVE zs[z].size \in Nat
        <5> DEFINE R == RowsUnder(rows, I, {z})
        <5>1. IsFiniteSet(R)
          BY <4>1, ZoneTaken
        <5>2. \A i \in R : rows[i].size \in Nat
          BY <1>3 DEF RowsUnder
        <5>3. zs[z].size = Sum(rows, R)
          BY <1>4, <2>2
        <5> HIDE DEF R
        <5> QED
          BY <5>1, <5>2, <5>3, SumTakes
      <4> QED
        BY <4>1
    <3>7. Sum(zs, s) = zs[x].size + Sum(zs, v)
      BY <2>3, <3>1, <3>6, SumTakes
    <3>8. zs[x].size = Sum(rows, A)
      BY <1>4, <3>2
    <3> HIDE DEF v, A, B
    <3>9. Sum(rows, A \cup B) = Sum(rows, A) + Sum(rows, B)
      BY <3>4, <3>5, SumUnion
    <3>10. Same(s)
      BY <3>3, <3>4, <3>7, <3>8, <3>9 DEF B
    <3> QED
      BY <2>2, <3>10
  <2> QED
    BY <2>4, <2>5
<1>2. Z \in SUBSET Z
  OBVIOUS
<1> QED
  BY <1>1, <1>2

LEMMA CountOfZones ==
  ASSUME NEW rows, NEW I, IsFiniteSet(I), NEW Z, IsFiniteSet(Z), NEW zs,
         \A z \in Z : zs[z].size = Cardinality(RowsUnder(rows, I, {z}))
  PROVE  Sum(zs, Z) = Cardinality(RowsUnder(rows, I, Z))
<1> DEFINE Same(s) == Sum(zs, s) = Cardinality(RowsUnder(rows, I, s))
           T == {s \in SUBSET Z : ~Same(s)}
<1>1. ASSUME T # {} PROVE FALSE
  <2>1. PICK s \in T : \A u \in T : ~(u \subseteq s /\ u # s)
    <3>1. T \in SUBSET SUBSET Z
      OBVIOUS
    <3> HIDE DEF T
    <3> QED
      BY <1>1, <3>1, LeastSubset
  <2>2. s \in SUBSET Z /\ ~Same(s)
    BY <2>1
  <2>3. IsFiniteSet(s)
    BY <2>2, FS_Subset
  <2>4. CASE s = {}
    <3>1. RowsUnder(rows, I, s) = {} /\ Cardinality({}) = 0
      BY <2>4, FS_EmptySet DEF RowsUnder
    <3>2. Sum(zs, s) = 0
      BY <2>3, <2>4, SumStep
    <3> QED
      BY <2>2, <3>1, <3>2
  <2>5. CASE s # {}
    <3>1. PICK x \in s : TRUE
      BY <2>5
    <3> DEFINE v == s \ {x}
               A == RowsUnder(rows, I, {x})
               B == RowsUnder(rows, I, v)
    <3>2. v \in SUBSET Z /\ v \subseteq s /\ v # s /\ x \in Z
      BY <2>2
    <3>3. Same(v)
      BY <2>1, <3>2
    <3>4. /\ RowsUnder(rows, I, s) = A \cup B /\ A \cap B = {} /\ IsFiniteSet(A) /\ IsFiniteSet(B)
      BY <3>1, ZoneTaken, ZenonT(40)
    <3>6. \A z \in s : zs[z].size \in Nat
      <4>1. ASSUME NEW z \in s PROVE zs[z].size \in Nat
        <5>1. IsFiniteSet(RowsUnder(rows, I, {z}))
          BY <4>1, ZoneTaken
        <5>2. zs[z].size = Cardinality(RowsUnder(rows, I, {z}))
          BY <2>2
        <5> QED
          BY <5>1, <5>2, FS_CardinalityType
      <4> QED
        BY <4>1
    <3>7. Sum(zs, s) = zs[x].size + Sum(zs, v)
      BY <2>3, <3>1, <3>6, SumTakes
    <3>8. zs[x].size = Cardinality(A)
      BY <3>2
    <3> HIDE DEF v, A, B
    <3>9. Cardinality(A \cup B) = Cardinality(A) + Cardinality(B)
      <4>1. Cardinality(A) \in Nat /\ Cardinality(B) \in Nat /\ Cardinality(A \cap B) = 0
        BY <3>4, FS_CardinalityType, FS_EmptySet
      <4>2. Cardinality(A \cup B) = Cardinality(A) + Cardinality(B) - Cardinality(A \cap B)
        BY <3>4, FS_Union
      <4> QED
        BY <4>1, <4>2
    <3>10. Same(s)
      BY <3>3, <3>4, <3>7, <3>8, <3>9 DEF B
    <3> QED
      BY <2>2, <3>10
  <2> QED
    BY <2>4, <2>5
<1>2. Z \in SUBSET Z
  OBVIOUS
<1> QED
  BY <1>1, <1>2

-----------------------------------------------------------------------------
(* Paths.                                                                  *)

\* A path other than "/" is its parent directory and its last name.
LEMMA SplitPath ==
  ASSUME NEW p \in Seq(Names), p # <<>>
  PROVE  /\ Front(p) \in Seq(Names)
         /\ Last(p) \in Names
         /\ p = Append(Front(p), Last(p))
<1>1. PICK s \in Seq(Names), e \in Names : p = Append(s, e)
  BY SequenceEmptyOrAppend
<1>2. Len(p) = Len(s) + 1 /\ Len(s) \in Nat /\ \A k \in 1 .. Len(s) : p[k] = s[k]
  BY <1>1, AppendProperties, LenProperties
<1>3. Last(p) = e
  BY <1>1, <1>2, AppendProperties DEF Last
<1>4. /\ Front(p) \in Seq(Names) /\ Len(Front(p)) = Len(s)
      /\ \A k \in 1 .. Len(s) : Front(p)[k] = p[k]
  <2>1. \A k \in 1 .. Len(s) : p[k] \in Names
    BY <1>2, ElementOfSeq
  <2>2. Front(p) = SubSeq(p, 1, Len(s))
    BY <1>2 DEF Front
  <2> QED
    BY <2>1, <2>2, <1>2, SubSeqProperties, Z3
<1>5. Front(p) = s
  BY <1>2, <1>4, SeqEqual
<1> QED
  BY <1>1, <1>3, <1>5

LEMMA SameAppend ==
  ASSUME NEW s \in Seq(Names), NEW e \in Names, NEW t \in Seq(Names), NEW f \in Names,
         Append(s, e) = Append(t, f)
  PROVE  s = t /\ e = f
BY AppendInjective, Z3

\* The parent and the last name of a path with one more name.
LEMMA SplitAppend ==
  ASSUME NEW s \in Seq(Names), NEW e \in Names
  PROVE  Front(Append(s, e)) = s /\ Last(Append(s, e)) = e
<1>1. Append(s, e) \in Seq(Names) /\ Append(s, e) # <<>>
  BY AppendProperties
<1> DEFINE p == Append(s, e)
<1>2. /\ Front(p) \in Seq(Names) /\ Last(p) \in Names
      /\ Append(s, e) = Append(Front(p), Last(p))
  BY <1>1, SplitPath
<1> HIDE DEF p
<1>3. s = Front(p) /\ e = Last(p)
  BY <1>2, SameAppend, Zenon
<1> QED
  BY <1>3 DEF p

\* What is left of q after as many names as p has.
LEMMA RemainderOf ==
  ASSUME NEW p \in Seq(Names), NEW q \in Seq(Names)
  PROVE  /\ Remainder(p, q) \in Seq(Names)
         /\ Len(p) < Len(q) => /\ Remainder(p, q) # <<>>
                               /\ Last(Remainder(p, q)) = Last(q)
         /\ Len(p) >= Len(q) => Remainder(p, q) = <<>>
<1> DEFINE m == Len(p) + 1
           n == Len(q)
<1>1. m \in Nat /\ n \in Nat /\ m >= 1 /\ \A k \in m .. n : q[k] \in Names
  BY LenProperties, ElementOfSeq
<1>2. /\ SubSeq(q, m, n) \in Seq(Names)
      /\ Len(SubSeq(q, m, n)) = IF m <= n THEN n - m + 1 ELSE 0
      /\ \A k \in 1 .. n - m + 1 : SubSeq(q, m, n)[k] = q[m + k - 1]
  <2> HIDE DEF m, n
  <2> QED
    BY <1>1, SubSeqProperties, Z3
<1>3. CASE Len(p) < Len(q)
  <2>1. Len(SubSeq(q, m, n)) = n - m + 1 /\ n - m + 1 >= 1
    BY <1>1, <1>2, <1>3
  <2>2. SubSeq(q, m, n)[n - m + 1] = q[n]
    BY <1>1, <1>2, <2>1
  <2>3. Remainder(p, q) = SubSeq(q, m, n)
    BY DEF Remainder
  <2>4. Last(Remainder(p, q)) = q[n] /\ Last(q) = q[n]
    BY <2>1, <2>2, <2>3 DEF Last
  <2>5. Remainder(p, q) # <<>>
    <3>1. Len(Remainder(p, q)) # 0
      BY <1>1, <2>1, <2>3
    <3> QED
      BY <3>1
  <2> QED
    BY <1>2, <1>3, <2>3, <2>4, <2>5
<1>4. CASE Len(p) >= Len(q)
  BY <1>1, <1>2, <1>4, SubSeqEmpty DEF Remainder
<1> QED
  BY <1>1, <1>3, <1>4

\* A prefix that leaves nothing is the whole path.
LEMMA EmptyRemainder ==
  ASSUME NEW p \in Seq(Names), NEW q \in Seq(Names), IsPrefix(p, q), Len(p) >= Len(q)
  PROVE  p = q
<1>1. Len(p) = Len(q)
  BY LenProperties DEF IsPrefix
<1>2. SubSeq(p, 1, Len(p)) = p /\ SubSeq(q, 1, Len(q)) = q
  BY SubSeqFull
<1> QED
  BY <1>1, <1>2 DEF IsPrefix

\* Whatever the pattern below a path matches has more names than the path.
LEMMA BelowIsLonger ==
  ASSUME NEW p \in Seq(Names), NEW q \in Seq(Names), LikeBelow(p, q)
  PROVE  Len(p) < Len(q)
<1>1. CASE IsStrictPrefix(p, q)
  BY <1>1, EmptyRemainder, LenProperties DEF IsStrictPrefix
<1>2. CASE <<p, q>> \in Wild
  BY <1>2, WildAssumption
<1> QED
  BY <1>1, <1>2 DEF LikeBelow

LEMMA PathConcat ==
  ASSUME NEW x \in Seq(Names), NEW y \in Seq(Names), NEW w \in Seq(Names)
  PROVE  x \o (y \o w) = (x \o y) \o w
BY SMTT(30)

\* Two nonempty parts of a path: its last name is that of the second part.
LEMMA SplitConcat ==
  ASSUME NEW s \in Seq(Names), NEW t \in Seq(Names), t # <<>>
  PROVE  /\ s \o t \in Seq(Names)
         /\ s \o t = Append(s \o Front(t), Last(t))
         /\ Front(s \o t) = s \o Front(t)
         /\ Last(s \o t) = Last(t)
<1>1. Front(t) \in Seq(Names) /\ Last(t) \in Names /\ t = Append(Front(t), Last(t))
  BY SplitPath
<1>2. t = Front(t) \o <<Last(t)>>
  BY <1>1, AppendIsConcat
<1>3. <<Last(t)>> \in Seq(Names)
  BY <1>1
<1>4. s \o t = (s \o Front(t)) \o <<Last(t)>>
  <2> DEFINE u == <<Last(t)>>
             v == Front(t)
  <2>1. v \in Seq(Names) /\ u \in Seq(Names) /\ t = v \o u
    BY <1>1, <1>2, <1>3
  <2> HIDE DEF u, v
  <2>2. s \o (v \o u) = (s \o v) \o u
    BY <2>1, PathConcat
  <2> QED
    BY <2>1, <2>2 DEF u, v
<1>5. s \o Front(t) \in Seq(Names)
  BY <1>1, ConcatProperties
<1>6. s \o t = Append(s \o Front(t), Last(t))
  BY <1>1, <1>4, <1>5, AppendIsConcat
<1>7. Front(Append(s \o Front(t), Last(t))) = s \o Front(t)
      /\ Last(Append(s \o Front(t), Last(t))) = Last(t)
  BY <1>1, <1>5, SplitAppend, Zenon
<1> QED
  BY <1>6, <1>7, ConcatProperties

-----------------------------------------------------------------------------
(* Tables, and the statements that write to them.                          *)

LEMMA StoreParts ==
  ASSUME NEW rows, NEW table
  PROVE  /\ DOMAIN Store(rows, table) = DOMAIN rows \cup DOMAIN table
         /\ \A i \in DOMAIN rows : Store(rows, table)[i] = rows[i]
         /\ \A i \in DOMAIN table \ DOMAIN rows : Store(rows, table)[i] = table[i]
BY DEF Store

LEMMA OneRowParts ==
  ASSUME NEW i, NEW r
  PROVE  DOMAIN OneRow(i, r) = {i} /\ OneRow(i, r)[i] = r
BY DEF OneRow

\* A database state has the five tables.
IsDb(d) == DOMAIN d = {"zones", "entries", "objects", "segments", "staging"}

\* What each statement leaves in each table.
LEMMA InsertParts ==
  ASSUME NEW d, IsDb(d), NEW rows
  PROVE  LET c == InsertEntries(d, rows)
         IN /\ IsDb(c) /\ c.objects = d.objects
            /\ c.segments = d.segments /\ c.staging = d.staging
            /\ c.entries = Store(rows, d.entries)
            /\ c.zones = AfterInsert(d.zones, rows)
<1> DEFINE X == Store(rows, d.entries)
           Y == AfterInsert(d.zones, rows)
           c == [d EXCEPT !.entries = X, !.zones = Y]
<1>1. InsertEntries(d, rows) = c
  BY Zenon DEF InsertEntries
<1>2. /\ IsDb(c) /\ c.objects = d.objects
      /\ c.segments = d.segments /\ c.staging = d.staging
      /\ c.entries = X /\ c.zones = Y
  <2> HIDE DEF X, Y
  <2> QED
    BY DEF IsDb
<1> QED
  BY <1>1, <1>2, Zenon

LEMMA UpdateParts ==
  ASSUME NEW d, IsDb(d), NEW rows
  PROVE  LET c == UpdateEntries(d, rows)
         IN /\ IsDb(c) /\ c.objects = d.objects
            /\ c.segments = d.segments /\ c.staging = d.staging
            /\ c.entries = Store(rows, d.entries)
            /\ c.zones = AfterUpdate(d.zones, [i \in DOMAIN rows |-> d.entries[i]], rows)
<1> DEFINE X == Store(rows, d.entries)
           Y == AfterUpdate(d.zones, [i \in DOMAIN rows |-> d.entries[i]], rows)
           c == [d EXCEPT !.entries = X, !.zones = Y]
<1>1. UpdateEntries(d, rows) = c
  BY Zenon DEF UpdateEntries
<1>2. /\ IsDb(c) /\ c.objects = d.objects
      /\ c.segments = d.segments /\ c.staging = d.staging
      /\ c.entries = X /\ c.zones = Y
  <2> HIDE DEF X, Y
  <2> QED
    BY DEF IsDb
<1> QED
  BY <1>1, <1>2, Zenon

LEMMA DeleteParts ==
  ASSUME NEW d, IsDb(d), NEW S
  PROVE  LET c == DeleteEntries(d, S)
         IN /\ IsDb(c) /\ c.objects = d.objects
            /\ c.segments = d.segments /\ c.staging = d.staging
            /\ c.entries = [i \in DOMAIN d.entries \ S |-> d.entries[i]]
            /\ c.zones = AfterDelete(d.zones, [i \in S |-> d.entries[i]])
<1> DEFINE X == [i \in DOMAIN d.entries \ S |-> d.entries[i]]
           Y == AfterDelete(d.zones, [i \in S |-> d.entries[i]])
           c == [d EXCEPT !.entries = X, !.zones = Y]
<1>1. DeleteEntries(d, S) = c
  BY Zenon DEF DeleteEntries
<1>2. /\ IsDb(c) /\ c.objects = d.objects
      /\ c.segments = d.segments /\ c.staging = d.staging
      /\ c.entries = X /\ c.zones = Y
  <2> HIDE DEF X, Y
  <2> QED
    BY DEF IsDb
<1> QED
  BY <1>1, <1>2, Zenon

\* One table replaced.
LEMMA WithZones ==
  ASSUME NEW d, IsDb(d), NEW zs
  PROVE  LET c == [d EXCEPT !.zones = zs]
         IN /\ IsDb(c) /\ c.objects = d.objects /\ c.entries = d.entries
            /\ c.segments = d.segments /\ c.staging = d.staging /\ c.zones = zs
BY DEF IsDb

LEMMA WithObjects ==
  ASSUME NEW d, IsDb(d), NEW os
  PROVE  LET c == [d EXCEPT !.objects = os]
         IN /\ IsDb(c) /\ c.objects = os /\ c.entries = d.entries
            /\ c.segments = d.segments /\ c.staging = d.staging /\ c.zones = d.zones
BY DEF IsDb

LEMMA WithSegments ==
  ASSUME NEW d, IsDb(d), NEW ss
  PROVE  LET c == [d EXCEPT !.segments = ss]
         IN /\ IsDb(c) /\ c.objects = d.objects /\ c.entries = d.entries
            /\ c.segments = ss /\ c.staging = d.staging /\ c.zones = d.zones
BY DEF IsDb

LEMMA WithStaging ==
  ASSUME NEW d, IsDb(d), NEW ss
  PROVE  LET c == [d EXCEPT !.staging = ss]
         IN /\ IsDb(c) /\ c.objects = d.objects /\ c.entries = d.entries
            /\ c.segments = d.segments /\ c.staging = ss /\ c.zones = d.zones
BY DEF IsDb

-----------------------------------------------------------------------------
(* The inductive invariant.                                                *)

\* Besides their types: the zones of a volume include that of "/".
GoodZones(zs) ==
    /\ DOMAIN zs \subseteq NodeId
    /\ \A z \in DOMAIN zs : IsZoneRow(zs[z])
    /\ DOMAIN zs # {} => \E z \in DOMAIN zs : zs[z].path = <<>>

\* An entry of one of the zones in Z whose content, if it is an object, is
\* in os: its two ways to be found agree, and so does its size.
GoodRow(Z, os, e) ==
    /\ e \in EntryRows
    /\ e.zone \in Z
    /\ e.rel # <<>> /\ e.rel = Append(e.dir, e.name)
    /\ e.gen \in 1..MaxGeneration
    /\ e.obj # None => e.obj \in DOMAIN os
    /\ e.kind = File => IF e.obj = None THEN e.body \in Data /\ e.size = Size[e.body]
                        ELSE e.size = Size[os[e.obj].data]

GoodEntries(Z, os, es) ==
    /\ DOMAIN es \subseteq NodeId
    /\ Z \cap DOMAIN es = {}
    /\ \A i \in DOMAIN es : GoodRow(Z, os, es[i])

GoodObjects(os, ss) ==
    /\ DOMAIN os \subseteq ObjectId
    /\ \A o \in DOMAIN os : os[o] \in ObjectRows
    /\ \A o \in DOMAIN os : os[o].segment # None => os[o].segment \in ss

Good(d) ==
    /\ IsDb(d)
    /\ GoodZones(d.zones)
    /\ GoodEntries(DOMAIN d.zones, d.objects, d.entries)
    /\ Counted(d.zones, d.entries)
    /\ GoodObjects(d.objects, d.segments)
    /\ d.segments \subseteq SegmentId /\ d.staging \subseteq SegmentId

\* The triggers write only the counters.
OnlyCounters(zs, ys) ==
    /\ DOMAIN ys = DOMAIN zs
    /\ \A z \in DOMAIN zs : \E n, b :
        ys[z] = [zs[z] EXCEPT !.entry_count = n, !.file_bytes = b]

LEMMA InsertCounts ==
  ASSUME NEW zs, NEW new
  PROVE  OnlyCounters(zs, AfterInsert(zs, new))
BY Zenon DEF OnlyCounters, AfterInsert

LEMMA DeleteCounts ==
  ASSUME NEW zs, NEW old
  PROVE  OnlyCounters(zs, AfterDelete(zs, old))
BY Zenon DEF OnlyCounters, AfterDelete

LEMMA UpdateCounts ==
  ASSUME NEW zs, NEW old, NEW new
  PROVE  OnlyCounters(zs, AfterUpdate(zs, old, new))
BY Zenon DEF OnlyCounters, AfterUpdate

LEMMA CountersGood ==
  ASSUME NEW zs, NEW ys, GoodZones(zs), OnlyCounters(zs, ys)
  PROVE  GoodZones(ys) /\ DOMAIN ys = DOMAIN zs
<1>1. ASSUME NEW z \in DOMAIN zs
      PROVE  IsZoneRow(ys[z]) /\ ys[z].path = zs[z].path
  <2>1. PICK n, b : ys[z] = [zs[z] EXCEPT !.entry_count = n, !.file_bytes = b]
    BY DEF OnlyCounters
  <2>2. IsZoneRow(zs[z])
    BY DEF GoodZones
  <2> QED
    BY <2>1, <2>2 DEF IsZoneRow, ZoneColumns
<1>2. DOMAIN ys = DOMAIN zs
  BY DEF OnlyCounters
<1> QED
  BY <1>1, <1>2, Zenon DEF GoodZones

LEMMA Countable ==
  ASSUME NEW zs, GoodZones(zs)
  PROVE  HasCounters(zs)
BY DEF GoodZones, IsZoneRow, ZoneColumns, HasCounters

LEMMA RowsSized ==
  ASSUME NEW Z, NEW os, NEW rows, DOMAIN rows \subseteq NodeId,
         \A i \in DOMAIN rows : GoodRow(Z, os, rows[i])
  PROVE  Sized(rows)
BY NodeIdAssumption, FS_Subset DEF Sized, GoodRow, EntryRows

LEMMA StoredGood ==
  ASSUME NEW Z, NEW os, NEW es, NEW rows,
         DOMAIN es \subseteq NodeId, Z \cap DOMAIN es = {},
         \A i \in DOMAIN es : GoodRow(Z, os, es[i]),
         DOMAIN rows \subseteq NodeId, Z \cap DOMAIN rows = {},
         \A i \in DOMAIN rows : GoodRow(Z, os, rows[i])
  PROVE  GoodEntries(Z, os, Store(rows, es))
<1> DEFINE st == Store(rows, es)
<1>1. /\ DOMAIN st = DOMAIN rows \cup DOMAIN es
      /\ \A i \in DOMAIN rows : st[i] = rows[i]
      /\ \A i \in DOMAIN es \ DOMAIN rows : st[i] = es[i]
  BY StoreParts
<1> HIDE DEF st
<1>2. ASSUME NEW i \in DOMAIN st
      PROVE  GoodRow(Z, os, st[i])
  <2>1. CASE i \in DOMAIN rows
    BY <1>1, <2>1
  <2>2. CASE i \in DOMAIN es \ DOMAIN rows
    BY <1>1, <2>2
  <2> QED
    BY <1>1, <2>1, <2>2
<1>3. GoodEntries(Z, os, st)
  BY <1>1, <1>2 DEF GoodEntries
<1> QED
  BY <1>3 DEF st

LEMMA InsertGood ==
  ASSUME NEW d, Good(d), NEW rows,
         DOMAIN rows \subseteq FreshNodes(d),
         \A i \in DOMAIN rows : GoodRow(DOMAIN d.zones, d.objects, rows[i])
  PROVE  Good(InsertEntries(d, rows))
<1> DEFINE c == InsertEntries(d, rows)
<1>1. IsDb(d)
  BY DEF Good
<1>2. /\ IsDb(c) /\ c.objects = d.objects
      /\ c.segments = d.segments /\ c.staging = d.staging
      /\ c.entries = Store(rows, d.entries)
      /\ c.zones = AfterInsert(d.zones, rows)
  BY <1>1, InsertParts, Zenon
<1> HIDE DEF c
<1>3. OnlyCounters(d.zones, c.zones)
  BY <1>2, InsertCounts
<1>4. GoodZones(c.zones) /\ DOMAIN c.zones = DOMAIN d.zones
  BY <1>3, CountersGood DEF Good
<1>5. GoodEntries(DOMAIN d.zones, d.objects, Store(rows, d.entries))
  <2>1. /\ DOMAIN d.entries \subseteq NodeId /\ DOMAIN d.zones \cap DOMAIN d.entries = {}
        /\ \A i \in DOMAIN d.entries : GoodRow(DOMAIN d.zones, d.objects, d.entries[i])
    BY DEF Good, GoodEntries
  <2>2. DOMAIN rows \subseteq NodeId /\ DOMAIN d.zones \cap DOMAIN rows = {}
    BY DEF FreshNodes
  <2> QED
    BY <2>1, <2>2, StoredGood
<1>6. Counted(c.zones, c.entries)
  <2>1. Sized(d.entries) /\ Counted(d.zones, d.entries) /\ HasCounters(d.zones)
    BY RowsSized, Countable DEF Good, GoodEntries
  <2>2. Sized(rows) /\ DOMAIN rows \cap DOMAIN d.entries = {}
    BY RowsSized DEF FreshNodes
  <2> QED
    BY <1>2, <2>1, <2>2, InsertCounted
<1>7. Good(c)
  BY <1>2, <1>4, <1>5, <1>6 DEF Good
<1> QED
  BY <1>7 DEF c

LEMMA UpdateGood ==
  ASSUME NEW d, Good(d), NEW rows,
         DOMAIN rows \subseteq DOMAIN d.entries,
         \A i \in DOMAIN rows : GoodRow(DOMAIN d.zones, d.objects, rows[i])
  PROVE  Good(UpdateEntries(d, rows))
<1> DEFINE c == UpdateEntries(d, rows)
<1>1. IsDb(d)
  BY DEF Good
<1>2. /\ IsDb(c) /\ c.objects = d.objects
      /\ c.segments = d.segments /\ c.staging = d.staging
      /\ c.entries = Store(rows, d.entries)
      /\ c.zones = AfterUpdate(d.zones, [i \in DOMAIN rows |-> d.entries[i]], rows)
  BY <1>1, UpdateParts, Zenon
<1> HIDE DEF c
<1>3. OnlyCounters(d.zones, c.zones)
  BY <1>2, UpdateCounts
<1>4. GoodZones(c.zones) /\ DOMAIN c.zones = DOMAIN d.zones
  BY <1>3, CountersGood DEF Good
<1>5. GoodEntries(DOMAIN d.zones, d.objects, Store(rows, d.entries))
  <2>1. /\ DOMAIN d.entries \subseteq NodeId /\ DOMAIN d.zones \cap DOMAIN d.entries = {}
        /\ \A i \in DOMAIN d.entries : GoodRow(DOMAIN d.zones, d.objects, d.entries[i])
    BY DEF Good, GoodEntries
  <2> QED
    BY <2>1, StoredGood
<1>6. Counted(c.zones, c.entries)
  <2>1. Sized(d.entries) /\ Counted(d.zones, d.entries) /\ HasCounters(d.zones)
    BY RowsSized, Countable DEF Good, GoodEntries
  <2>2. Sized(rows)
    BY RowsSized DEF Good, GoodEntries
  <2> QED
    BY <1>2, <2>1, <2>2, UpdateCounted
<1>7. Good(c)
  BY <1>2, <1>4, <1>5, <1>6 DEF Good
<1> QED
  BY <1>7 DEF c

SamePaths(zs, ys) ==
    DOMAIN ys = DOMAIN zs /\ \A z \in DOMAIN zs : ys[z].path = zs[z].path

LEMMA DeleteGood ==
  ASSUME NEW d, Good(d), NEW S, S \subseteq DOMAIN d.entries
  PROVE  /\ Good(DeleteEntries(d, S))
         /\ SamePaths(d.zones, DeleteEntries(d, S).zones)
         /\ DeleteEntries(d, S).entries = [i \in DOMAIN d.entries \ S |-> d.entries[i]]
<1> DEFINE c == DeleteEntries(d, S)
<1>1. IsDb(d)
  BY DEF Good
<1>2. /\ IsDb(c) /\ c.objects = d.objects
      /\ c.segments = d.segments /\ c.staging = d.staging
      /\ c.entries = [i \in DOMAIN d.entries \ S |-> d.entries[i]]
      /\ c.zones = AfterDelete(d.zones, [i \in S |-> d.entries[i]])
  BY <1>1, DeleteParts, Zenon
<1> HIDE DEF c
<1>3. OnlyCounters(d.zones, c.zones)
  BY <1>2, DeleteCounts
<1>4. GoodZones(c.zones) /\ DOMAIN c.zones = DOMAIN d.zones
  BY <1>3, CountersGood DEF Good
<1>5. GoodEntries(DOMAIN d.zones, d.objects, c.entries)
  BY <1>2 DEF Good, GoodEntries
<1>6. Good(c)
  <2>1. Sized(d.entries) /\ Counted(d.zones, d.entries) /\ HasCounters(d.zones)
    BY RowsSized, Countable DEF Good, GoodEntries
  <2>2. Counted(c.zones, c.entries)
    BY <1>2, <2>1, DeleteCounted
  <2> QED
    BY <1>2, <1>4, <1>5, <2>2 DEF Good
<1>7. SamePaths(d.zones, c.zones)
  <2>1. ASSUME NEW z \in DOMAIN d.zones
        PROVE  c.zones[z].path = d.zones[z].path
    <3>1. PICK n, b : c.zones[z] = [d.zones[z] EXCEPT !.entry_count = n, !.file_bytes = b]
      BY <1>3 DEF OnlyCounters
    <3>2. IsZoneRow(d.zones[z])
      BY DEF Good, GoodZones
    <3> QED
      BY <3>1, <3>2 DEF IsZoneRow, ZoneColumns
  <2> QED
    BY <1>4, <2>1 DEF SamePaths
<1> QED
  BY <1>2, <1>6, <1>7 DEF c

LEMMA DeleteZonesGood ==
  ASSUME NEW d, Good(d), NEW Z,
         \A i \in DOMAIN d.entries : d.entries[i].zone \notin Z,
         \A z \in DOMAIN d.zones \cap Z : d.zones[z].path # <<>>
  PROVE  Good(DeleteZones(d, Z)) /\ DeleteZones(d, Z).entries = d.entries
<1> DEFINE zs == [z \in DOMAIN d.zones \ Z |-> d.zones[z]]
           c == DeleteZones(d, Z)
<1>1. IsDb(d)
  BY DEF Good
<1>2. c = [d EXCEPT !.zones = zs]
  BY Zenon DEF DeleteZones
<1> HIDE DEF c
<1>3. /\ IsDb(c) /\ c.objects = d.objects /\ c.entries = d.entries
      /\ c.segments = d.segments /\ c.staging = d.staging /\ c.zones = zs
  BY <1>1, <1>2, WithZones, ZenonT(60)
<1>4. GoodZones(zs)
  <2>1. DOMAIN zs = DOMAIN d.zones \ Z /\ \A z \in DOMAIN zs : zs[z] = d.zones[z]
    OBVIOUS
  <2>2. GoodZones(d.zones)
    BY DEF Good
  <2> HIDE DEF zs
  <2>3. DOMAIN zs \subseteq NodeId /\ \A z \in DOMAIN zs : IsZoneRow(zs[z])
    BY <2>1, <2>2 DEF GoodZones
  <2>4. ASSUME DOMAIN zs # {}
        PROVE  \E z \in DOMAIN zs : zs[z].path = <<>>
    <3>1. PICK z \in DOMAIN d.zones : d.zones[z].path = <<>>
      BY <2>1, <2>2, <2>4 DEF GoodZones
    <3>2. z \in DOMAIN zs /\ zs[z] = d.zones[z]
      BY <2>1, <3>1
    <3> QED
      BY <3>1, <3>2
  <2> QED
    BY <2>3, <2>4 DEF GoodZones
<1>5. ASSUME NEW i \in DOMAIN d.entries
      PROVE  GoodRow(DOMAIN zs, d.objects, d.entries[i])
  BY DEF Good, GoodEntries, GoodRow
<1>6. GoodEntries(DOMAIN zs, d.objects, d.entries)
  BY <1>5 DEF Good, GoodEntries
<1>8. Counted(zs, d.entries)
  BY DEF Good, Counted
<1> HIDE DEF zs
<1>7. Good(c)
  BY <1>3, <1>4, <1>6, <1>8 DEF Good
<1> QED
  BY <1>3, <1>7 DEF c

LEMMA ReclaimGood ==
  ASSUME NEW d, Good(d)
  PROVE  Good(Reclaim(d)) /\ Reclaim(d).entries = d.entries
<1> DEFINE live == {s \in d.segments : Referenced(d, s)}
           kept == {o \in DOMAIN d.objects : d.objects[o].segment \notin d.segments \ live}
           os == [o \in kept |-> d.objects[o]]
           c == Reclaim(d)
           b == [d EXCEPT !.segments = live]
<1>1. IsDb(d)
  BY DEF Good
<1>2. c = [d EXCEPT !.segments = live, !.objects = os]
  BY Zenon DEF Reclaim
<1>3. /\ IsDb(c) /\ c.objects = os /\ c.entries = d.entries
      /\ c.segments = live /\ c.staging = d.staging /\ c.zones = d.zones
  <2> HIDE DEF live, os, c
  <2> QED
    BY <1>1, <1>2 DEF IsDb
<1> HIDE DEF c
<1>4. GoodObjects(os, live)
  <2>1. ASSUME NEW o \in kept, os[o].segment # None
        PROVE  os[o].segment \in live
    BY <2>1 DEF Good, GoodObjects
  <2> QED
    BY <2>1 DEF Good, GoodObjects
<1>5. ASSUME NEW i \in DOMAIN d.entries
      PROVE  GoodRow(DOMAIN d.zones, os, d.entries[i])
  <2>1. GoodRow(DOMAIN d.zones, d.objects, d.entries[i])
    BY DEF Good, GoodEntries
  <2>2. CASE d.entries[i].obj = None
    BY <2>1, <2>2 DEF GoodRow
  <2>3. CASE d.entries[i].obj # None
    <3> DEFINE o == d.entries[i].obj
    <3>1. o \in DOMAIN d.objects
      BY <2>1, <2>3 DEF GoodRow
    <3>2. o \in kept
      BY <3>1 DEF Referenced
    <3>3. os[o] = d.objects[o]
      BY <3>2
    <3> QED
      BY <2>1, <2>3, <3>2, <3>3 DEF GoodRow
  <2> QED
    BY <2>2, <2>3
<1>6. GoodEntries(DOMAIN d.zones, os, d.entries)
  BY <1>5 DEF Good, GoodEntries
<1>7. live \subseteq SegmentId
  BY DEF Good
<1> HIDE DEF live, os, kept
<1>8. Good(c)
  BY <1>3, <1>4, <1>6, <1>7 DEF Good
<1> QED
  BY <1>3, <1>8 DEF c

\* Rows stay good when objects are added.
LEMMA ObjectsGrow ==
  ASSUME NEW Z, NEW os, NEW made, NEW e, GoodRow(Z, os, e), DOMAIN made \cap DOMAIN os = {}
  PROVE  GoodRow(Z, Store(made, os), e)
<1> DEFINE all == Store(made, os)
<1>0. /\ DOMAIN all = DOMAIN made \cup DOMAIN os
      /\ \A o \in DOMAIN os \ DOMAIN made : all[o] = os[o]
  BY StoreParts
<1> HIDE DEF all
<1>1. DOMAIN os \subseteq DOMAIN all /\ \A o \in DOMAIN os : all[o] = os[o]
  BY <1>0
<1>2. GoodRow(Z, all, e)
  BY <1>1 DEF GoodRow
<1> QED
  BY <1>2 DEF all

\* New objects can be stored at any time.
LEMMA MadeGood ==
  ASSUME NEW d, Good(d), NEW made,
         DOMAIN made \subseteq FreshObjects(d),
         \A o \in DOMAIN made : /\ made[o] \in ObjectRows
                                /\ made[o].segment # None => made[o].segment \in d.segments
  PROVE  Good([d EXCEPT !.objects = Store(made, d.objects)])
<1> DEFINE os == Store(made, d.objects)
           c == [d EXCEPT !.objects = os]
<1>1. /\ DOMAIN os = DOMAIN made \cup DOMAIN d.objects
      /\ \A o \in DOMAIN made : os[o] = made[o]
      /\ \A o \in DOMAIN d.objects \ DOMAIN made : os[o] = d.objects[o]
  BY StoreParts
<1>2. DOMAIN made \cap DOMAIN d.objects = {} /\ DOMAIN made \subseteq ObjectId
  BY DEF FreshObjects
<1>3. \A i \in DOMAIN d.entries : GoodRow(DOMAIN d.zones, os, d.entries[i])
  BY <1>2, ObjectsGrow DEF Good, GoodEntries
<1> HIDE DEF os
<1>4. /\ IsDb(c) /\ c.objects = os /\ c.entries = d.entries
      /\ c.segments = d.segments /\ c.staging = d.staging /\ c.zones = d.zones
  BY WithObjects DEF Good
<1> HIDE DEF c
<1>5. GoodObjects(os, d.segments)
  <2>1. ASSUME NEW o \in DOMAIN os
        PROVE  os[o] \in ObjectRows /\ (os[o].segment # None => os[o].segment \in d.segments)
    <3>1. CASE o \in DOMAIN made
      BY <1>1, <3>1
    <3>2. CASE o \in DOMAIN d.objects \ DOMAIN made
      BY <1>1, <3>2 DEF Good, GoodObjects
    <3> QED
      BY <1>1, <3>1, <3>2
  <2>2. DOMAIN os \subseteq ObjectId
    BY <1>1, <1>2 DEF Good, GoodObjects
  <2> QED
    BY <2>1, <2>2 DEF GoodObjects
<1>6. Good(c)
  BY <1>3, <1>4, <1>5 DEF Good, GoodEntries
<1> QED
  BY <1>6 DEF c, os

\* Segments and staging schemas can be added at any time.
LEMMA SegmentsGood ==
  ASSUME NEW d, Good(d), NEW s \in SegmentId
  PROVE  /\ Good([d EXCEPT !.segments = d.segments \cup {s}])
         /\ Good([d EXCEPT !.staging = d.staging \cup {s}])
<1> DEFINE ss == d.segments \cup {s}
           ts == d.staging \cup {s}
           c == [d EXCEPT !.segments = ss]
           b == [d EXCEPT !.staging = ts]
<1>1. IsDb(d) /\ ss \subseteq SegmentId /\ ts \subseteq SegmentId /\ d.segments \subseteq ss
  BY DEF Good
<1> HIDE DEF ss, ts
<1>2. /\ IsDb(c) /\ c.objects = d.objects /\ c.entries = d.entries
      /\ c.segments = ss /\ c.staging = d.staging /\ c.zones = d.zones
  BY <1>1, WithSegments
<1>3. /\ IsDb(b) /\ b.objects = d.objects /\ b.entries = d.entries
      /\ b.segments = d.segments /\ b.staging = ts /\ b.zones = d.zones
  BY <1>1, WithStaging
<1> HIDE DEF c, b
<1>4. Good(c)
  BY <1>1, <1>2 DEF Good, GoodObjects
<1>5. Good(b)
  BY <1>1, <1>3 DEF Good
<1> QED
  BY <1>4, <1>5 DEF c, b, ss, ts

LEMMA BlockizeGood ==
  ASSUME NEW d, Good(d), NEW z, NEW f \in Mappings(d, z),
         NEW seg, seg \in d.segments \cup {None}
  PROVE  Good(Blockize(d, z, f, seg))
<1> DEFINE U == Unblocked(d, z)
           rows == [i \in U |-> [d.entries[i] EXCEPT !.obj = f[i], !.body = EmptyText]]
           made == [o \in {f[i] : i \in U} |->
                      [data |-> d.entries[CHOOSE i \in U : f[i] = o].body, segment |-> seg]]
           c == [d EXCEPT !.objects = Store(made, d.objects)]
<1>1. Blockize(d, z, f, seg) = UpdateEntries(c, rows)
  BY Zenon DEF Blockize
<1>2. /\ U \subseteq DOMAIN d.entries
      /\ \A i \in U : /\ d.entries[i].body \in Text /\ d.entries[i].obj = None
                      /\ d.entries[i].kind = File
  BY DEF Unblocked
<1>3. /\ \A i \in U : f[i] \in FreshObjects(d)
      /\ \A i, j \in U : f[i] = f[j] => i = j
  <2> HIDE DEF U
  <2>1. f \in [U -> FreshObjects(d)] /\ IsInjective(f)
    BY DEF Mappings, Injection, U
  <2> QED
    BY <2>1 DEF IsInjective
<1>4. \A i \in U : (CHOOSE j \in U : f[j] = f[i]) = i
  BY <1>3
<1>5. /\ DOMAIN made \subseteq FreshObjects(d)
      /\ \A i \in U : f[i] \in DOMAIN made /\ made[f[i]] = [data |-> d.entries[i].body, segment |-> seg]
  BY <1>3, <1>4
<1>6. ASSUME NEW o \in DOMAIN made
      PROVE  /\ made[o] \in ObjectRows
             /\ made[o].segment # None => made[o].segment \in d.segments
  <2>1. PICK i \in U : o = f[i]
    OBVIOUS
  <2>2. made[o] = [data |-> d.entries[i].body, segment |-> seg]
    BY <1>5, <2>1
  <2> HIDE DEF made, U
  <2> QED
    BY <1>2, <2>2 DEF ObjectRows, Good
<1> HIDE DEF made
<1>7. Good(c)
  BY <1>5, <1>6, MadeGood
<1>8. c.entries = d.entries /\ c.zones = d.zones /\ c.objects = Store(made, d.objects)
  BY WithObjects DEF Good
<1>9. ASSUME NEW i \in U
      PROVE  GoodRow(DOMAIN d.zones, Store(made, d.objects), rows[i])
  <2> DEFINE e == d.entries[i]
             r == [e EXCEPT !.obj = f[i], !.body = EmptyText]
  <2>1. GoodRow(DOMAIN d.zones, d.objects, e)
    BY <1>2 DEF Good, GoodEntries
  <2>2. /\ f[i] \in DOMAIN Store(made, d.objects)
        /\ Store(made, d.objects)[f[i]].data = e.body
    <3> DEFINE all == Store(made, d.objects)
    <3>1. /\ DOMAIN all = DOMAIN made \cup DOMAIN d.objects
          /\ \A o \in DOMAIN made : all[o] = made[o]
      BY StoreParts
    <3> HIDE DEF all, e, rows
    <3>3. f[i] \in DOMAIN made /\ made[f[i]] = [data |-> d.entries[i].body, segment |-> seg]
      BY <1>5
    <3>4. made[f[i]].data = d.entries[i].body
      BY <3>3
    <3>2. f[i] \in DOMAIN all /\ all[f[i]].data = d.entries[i].body
      BY <3>1, <3>3, <3>4
    <3> QED
      BY <3>2 DEF all, e
  <2>3. e.obj = None /\ e.kind = File
    BY <1>2
  <2>4. f[i] \in ObjectId
    BY <1>3 DEF FreshObjects
  <2>5. rows[i] = r
    OBVIOUS
  <2> HIDE DEF e, U, rows
  <2>6. /\ r \in EntryRows /\ r.obj = f[i] /\ r.body = EmptyText /\ r.kind = e.kind
        /\ r.zone = e.zone /\ r.rel = e.rel /\ r.dir = e.dir /\ r.name = e.name
        /\ r.size = e.size /\ r.gen = e.gen
    BY <2>1, <2>4, ContentAssumption DEF GoodRow, EntryRows, Data
  <2>7. f[i] # None
    BY <2>4, NoneAssumption
  <2>8. e.size = Size[e.body]
    BY <2>1, <2>3 DEF GoodRow
  <2> HIDE DEF r
  <2>9. GoodRow(DOMAIN d.zones, Store(made, d.objects), r)
    BY <2>1, <2>2, <2>6, <2>7, <2>8 DEF GoodRow
  <2> QED
    BY <2>5, <2>9
<1>10. DOMAIN rows = U
  OBVIOUS
<1> HIDE DEF c, rows, U
<1>11. Good(UpdateEntries(c, rows))
  BY <1>2, <1>7, <1>8, <1>9, <1>10, UpdateGood
<1> QED
  BY <1>1, <1>11

-----------------------------------------------------------------------------
(* Lookups.                                                                *)

\* A set of numbers has a least one.
LEMMA LeastNumber ==
  ASSUME NEW T \in SUBSET Nat, T # {}
  PROVE  \E x \in T : \A y \in T : x =< y
<1> DEFINE R == OpToRel(<, Nat)
           S == {ss \in Nat \X Nat : ss[1] < ss[2]}
<1>1. IsWellFoundedOn(R, Nat)
  BY NatLessThanWellFounded, Zenon
<1>2. R = S
  BY Zenon DEF OpToRel
<1>3. \A m, n \in Nat : ~(<<m, n>> \in S) => n =< m
  OBVIOUS
<1> HIDE DEF R, S
<1>4. PICK x \in T : \A y \in T : ~(<<y, x>> \in R)
  BY <1>1, WFMin
<1>5. \A y \in T : x =< y
  BY <1>2, <1>3, <1>4
<1> QED
  BY <1>5

\* The deepest zone above a path exists as soon as one zone is above it.
LEMMA Located ==
  ASSUME NEW d, Good(d), NEW p \in Seq(Names), ZonesOver(d, p) # {}
  PROVE  /\ LocateZone(d, p) \in ZonesOver(d, p)
         /\ \A y \in ZonesOver(d, p) :
                Len(d.zones[y].path) =< Len(d.zones[LocateZone(d, p)].path)
<1> DEFINE over == ZonesOver(d, p)
           Above(z) == Len(p) - Len(d.zones[z].path)
           T == {Above(z) : z \in over}
<1>1. over \subseteq DOMAIN d.zones
  BY DEF ZonesOver
<1>2. \A z \in over : Len(d.zones[z].path) \in Nat /\ Above(z) \in Nat
  <2>1. ASSUME NEW z \in over
        PROVE  Len(d.zones[z].path) \in Nat /\ Above(z) \in Nat
    <3>1. d.zones[z].path \in Seq(Names)
      BY <1>1 DEF Good, GoodZones, IsZoneRow
    <3>2. Len(d.zones[z].path) \in Nat /\ Len(p) \in Nat
      BY <3>1, LenProperties
    <3>3. Len(d.zones[z].path) =< Len(p)
      BY DEF ZonesOver, IsPrefix
    <3> QED
      BY <3>2, <3>3
  <2> QED
    BY <2>1
<1>3. T \subseteq Nat /\ T # {}
  BY <1>2
<1>5. PICK x \in T : \A y \in T : x =< y
  <2> HIDE DEF T
  <2> QED
    BY <1>3, LeastNumber
<1>6. PICK z \in over : x = Above(z)
  OBVIOUS
<1>7. \A y \in over : Len(d.zones[y].path) =< Len(d.zones[z].path)
  <2>1. \A y \in over : Above(z) =< Above(y)
    BY <1>5, <1>6
  <2> QED
    BY <1>2, <2>1, LenProperties
<1> HIDE DEF over, T, Above
<1>8. \E v \in over : \A y \in over : Len(d.zones[y].path) =< Len(d.zones[v].path)
  BY <1>7
<1> DEFINE found == CHOOSE v \in over : \A y \in over : Len(d.zones[y].path) =< Len(d.zones[v].path)
<1>9. found \in over /\ \A y \in over : Len(d.zones[y].path) =< Len(d.zones[found].path)
  BY <1>8
<1>10. LocateZone(d, p) = found
  BY Zenon DEF LocateZone, over
<1> HIDE DEF found
<1> QED
  BY <1>9, <1>10 DEF over

LEMMA LocatedParts ==
  ASSUME NEW d, Good(d), NEW p \in Seq(Names), ZonesOver(d, p) # {}
  PROVE  /\ LocateZone(d, p) \in DOMAIN d.zones
         /\ LocateZone(d, p) \in NodeId
         /\ d.zones[LocateZone(d, p)].path \in Seq(Names)
         /\ IsPrefix(d.zones[LocateZone(d, p)].path, p)
         /\ RelativePath(d, p) \in Seq(Names)
         /\ RelativePath(d, p) = <<>> => d.zones[LocateZone(d, p)].path = p
<1> DEFINE z == LocateZone(d, p)
           q == d.zones[z].path
<1>1. z \in DOMAIN d.zones /\ IsPrefix(q, p)
  BY Located DEF ZonesOver
<1>2. z \in NodeId /\ q \in Seq(Names)
  BY <1>1 DEF Good, GoodZones, IsZoneRow
<1>3. RelativePath(d, p) = Remainder(q, p)
  BY DEF RelativePath
<1> HIDE DEF z, q
<1>4. Remainder(q, p) \in Seq(Names) /\ (Remainder(q, p) = <<>> => q = p)
  BY <1>1, <1>2, RemainderOf, EmptyRemainder, LenProperties
<1> QED
  BY <1>1, <1>2, <1>3, <1>4 DEF z, q

LEMMA DirIsOver ==
  ASSUME NEW d, NEW p, KindOf(d, p) # None
  PROVE  ZonesOver(d, p) # {}
BY DEF KindOf

\* "/" is above everything.
LEMMA RootIsOver ==
  ASSUME NEW d, Good(d), DOMAIN d.zones # {}, NEW p \in Seq(Names)
  PROVE  /\ ZonesOver(d, p) # {}
         /\ KindOf(d, <<>>) = Dir
<1>1. PICK z \in DOMAIN d.zones : d.zones[z].path = <<>>
  BY DEF Good, GoodZones
<1>2. IsPrefix(<<>>, p) /\ IsPrefix(<<>>, <<>>)
  <2>1. Len(<<>>) = 0 /\ Len(p) \in Nat
    BY LenProperties
  <2>2. SubSeq(<<>>, 1, 0) = <<>> /\ SubSeq(p, 1, 0) = <<>>
    BY SubSeqEmpty
  <2> QED
    BY <2>1, <2>2 DEF IsPrefix
<1>3. z \in ZonesOver(d, p) /\ z \in ZonesOver(d, <<>>)
  BY <1>1, <1>2 DEF ZonesOver
<1> QED
  BY <1>1, <1>3 DEF KindOf, IsZonePath

-----------------------------------------------------------------------------
(* The rows that the calls build.                                          *)

LEMMA EntryRowGood ==
  ASSUME NEW d, Good(d), NEW p \in Seq(Names), p # <<>>, ZonesOver(d, Front(p)) # {},
         NEW kind \in Kinds, NEW body \in Data \cup {None}, kind = File => body \in Data,
         NEW os
  PROVE  /\ GoodRow(DOMAIN d.zones, os, EntryRow(d, p, kind, body))
         /\ EntryRow(d, p, kind, body).kind = kind
         /\ EntryRow(d, p, kind, body).body = body
         /\ EntryRow(d, p, kind, body).obj = None
<1> DEFINE z == LocateZone(d, Front(p))
           dir == RelativePath(d, Front(p))
           size == IF kind = File THEN Size[body] ELSE 0
           r == [zone |-> z, rel |-> Append(dir, Last(p)), dir |-> dir, name |-> Last(p),
                 kind |-> kind, body |-> body, obj |-> None, size |-> size, gen |-> 1]
<1>1. Front(p) \in Seq(Names) /\ Last(p) \in Names
  BY SplitPath
<1>2. z \in DOMAIN d.zones /\ z \in NodeId /\ dir \in Seq(Names)
  BY <1>1, LocatedParts
<1>3. Append(dir, Last(p)) \in Seq(Names) /\ Append(dir, Last(p)) # <<>>
  BY <1>1, <1>2, AppendProperties
<1>4. size \in Nat
  BY ContentAssumption
<1>5. EntryRow(d, p, kind, body) = r
  BY Zenon DEF EntryRow
<1> HIDE DEF z, dir, size
<1>6. /\ r \in EntryRows /\ r.zone = z /\ r.rel = Append(dir, Last(p)) /\ r.dir = dir
      /\ r.name = Last(p) /\ r.kind = kind /\ r.body = body /\ r.obj = None /\ r.size = size
      /\ r.gen = 1
  BY <1>1, <1>2, <1>3, <1>4 DEF EntryRows
<1> HIDE DEF r
<1>7. GoodRow(DOMAIN d.zones, os, r)
  BY <1>2, <1>3, <1>6, GenerationAssumption DEF GoodRow, size
<1> QED
  BY <1>5, <1>6, <1>7

LEMMA DirRowGood ==
  ASSUME NEW d, Good(d), NEW p \in Seq(Names), p # <<>>, ZonesOver(d, Front(p)) # {}, NEW os
  PROVE  GoodRow(DOMAIN d.zones, os, EntryRow(d, p, Dir, None))
<1>1. Dir \in Kinds /\ Dir # File /\ None \in Data \cup {None}
  BY DEF Kinds, File, Dir
<1> QED
  BY <1>1, EntryRowGood

LEMMA FileRowGood ==
  ASSUME NEW d, Good(d), NEW p \in Seq(Names), p # <<>>, ZonesOver(d, Front(p)) # {},
         NEW body \in Data, NEW os
  PROVE  /\ GoodRow(DOMAIN d.zones, os, EntryRow(d, p, File, body))
         /\ EntryRow(d, p, File, body).kind = File
<1>1. File \in Kinds /\ body \in Data \cup {None} /\ (File = File => body \in Data)
  BY DEF Kinds
<1> DEFINE kind == File
<1>2. kind \in Kinds /\ body \in Data \cup {None} /\ (kind = File => body \in Data)
  BY <1>1
<1> HIDE DEF kind
<1>3. /\ GoodRow(DOMAIN d.zones, os, EntryRow(d, p, kind, body))
      /\ EntryRow(d, p, kind, body).kind = kind
  BY <1>2, EntryRowGood, ZenonT(60)
<1> QED
  BY <1>3 DEF kind

LEMMA ZoneRowGood ==
  ASSUME NEW d, Good(d), NEW p \in Seq(Names), p # <<>>, ZonesOver(d, Front(p)) # {}
  PROVE  /\ IsZoneRow(ZoneRow(d, p))
         /\ ZoneRow(d, p).entry_count = 0 /\ ZoneRow(d, p).file_bytes = 0
<1> DEFINE z == LocateZone(d, Front(p))
           dir == RelativePath(d, Front(p))
           r == [path |-> p, parent |-> z, dir |-> dir, name |-> Last(p),
                 entry_count |-> 0, file_bytes |-> 0, gen |-> 1]
<1>1. Front(p) \in Seq(Names) /\ Last(p) \in Names
  BY SplitPath
<1>2. z \in NodeId /\ dir \in Seq(Names)
  BY <1>1, LocatedParts
<1>3. ZoneRow(d, p) = r
  BY Zenon DEF ZoneRow
<1> HIDE DEF z, dir
<1>4. IsZoneRow(r) /\ r.entry_count = 0 /\ r.file_bytes = 0
  BY <1>1, <1>2 DEF IsZoneRow, ZoneColumns
<1> QED
  BY <1>3, <1>4

IsNewZone(r) == IsZoneRow(r) /\ r.entry_count = 0 /\ r.file_bytes = 0

\* A zone can be attached to a volume that has its root.
LEMMA AttachGood ==
  ASSUME NEW d, Good(d), DOMAIN d.zones # {}, NEW n \in FreshNodes(d),
         NEW r, IsNewZone(r)
  PROVE  LET c == [d EXCEPT !.zones = Store(OneRow(n, r), d.zones)]
         IN /\ Good(c)
            /\ DOMAIN c.zones = DOMAIN d.zones \cup {n}
            /\ c.entries = d.entries /\ c.objects = d.objects
            /\ c.segments = d.segments /\ c.staging = d.staging
<1> DEFINE zs == Store(OneRow(n, r), d.zones)
           c == [d EXCEPT !.zones = zs]
<1>1. n \in NodeId /\ n \notin DOMAIN d.zones /\ n \notin DOMAIN d.entries
  BY DEF FreshNodes
<1>9. IsZoneRow(r) /\ r.entry_count = 0 /\ r.file_bytes = 0
  BY DEF IsNewZone
<1>2. /\ DOMAIN zs = DOMAIN d.zones \cup {n} /\ zs[n] = r
      /\ \A z \in DOMAIN d.zones : zs[z] = d.zones[z]
  <2> DEFINE one == OneRow(n, r)
  <2>1. DOMAIN one = {n} /\ one[n] = r
    BY OneRowParts
  <2> HIDE DEF one
  <2>2. /\ DOMAIN Store(one, d.zones) = DOMAIN one \cup DOMAIN d.zones
        /\ \A z \in DOMAIN one : Store(one, d.zones)[z] = one[z]
        /\ \A z \in DOMAIN d.zones \ DOMAIN one : Store(one, d.zones)[z] = d.zones[z]
    BY StoreParts
  <2> QED
    BY <1>1, <2>1, <2>2 DEF one
<1> HIDE DEF zs
<1>3. GoodZones(zs)
  <2>1. \A z \in DOMAIN zs : IsZoneRow(zs[z])
    BY <1>2, <1>9 DEF Good, GoodZones
  <2>2. \E z \in DOMAIN zs : zs[z].path = <<>>
    BY <1>2 DEF Good, GoodZones
  <2> QED
    BY <1>1, <1>2, <2>1, <2>2 DEF Good, GoodZones
<1>4. GoodEntries(DOMAIN zs, d.objects, d.entries)
  BY <1>1, <1>2 DEF Good, GoodEntries, GoodRow
<1>5. /\ IsDb(c) /\ c.objects = d.objects /\ c.entries = d.entries
      /\ c.segments = d.segments /\ c.staging = d.staging /\ c.zones = zs
  BY WithZones DEF Good
<1> HIDE DEF c
<1>8. Counted(zs, d.entries)
  <2>1. RowsIn(d.entries, n) = {}
    BY <1>1 DEF RowsIn, Good, GoodEntries, GoodRow
  <2>2. Count(d.entries, n) = 0 /\ SizeIn(d.entries, n) = 0
    BY <2>1, NoneCounted
  <2> QED
    BY <1>2, <1>9, <2>2 DEF Good, Counted
<1>6. Good(c)
  BY <1>3, <1>4, <1>5, <1>8 DEF Good
<1>7. DOMAIN c.zones = DOMAIN d.zones \cup {n}
  BY <1>2, <1>5
<1> QED
  BY <1>5, <1>6, <1>7 DEF c, zs

\* One row inserted or replaced.
LEMMA OneRowGood ==
  ASSUME NEW d, Good(d), NEW i, NEW r, GoodRow(DOMAIN d.zones, d.objects, r)
  PROVE  /\ i \in FreshNodes(d) => Good(InsertEntries(d, OneRow(i, r)))
         /\ i \in DOMAIN d.entries => Good(UpdateEntries(d, OneRow(i, r)))
<1> DEFINE one == OneRow(i, r)
<1>0. DOMAIN one = {i} /\ one[i] = r
  BY OneRowParts
<1> HIDE DEF one
<1>1. DOMAIN one = {i} /\ \A k \in DOMAIN one : GoodRow(DOMAIN d.zones, d.objects, one[k])
  BY <1>0
<1>2. i \in FreshNodes(d) => Good(InsertEntries(d, one))
  BY <1>1, InsertGood
<1>3. i \in DOMAIN d.entries => Good(UpdateEntries(d, one))
  BY <1>1, UpdateGood
<1> QED
  BY <1>2, <1>3 DEF one

LEMMA BumpType ==
  /\ \A g \in Nat : Bump(g) \in Nat
  /\ \A g \in 1..MaxGeneration : Bump(g) \in 1..MaxGeneration
BY GenerationAssumption DEF Bump

LEMMA PathParts ==
  ASSUME NEW p \in Paths
  PROVE  p \in Seq(Names)
BY PathsAssumption

\* What a parent directory gives: a path to split and a zone above.
LEMMA ParentParts ==
  ASSUME NEW d, NEW p, ParentIsDir(d, p)
  PROVE  p # <<>> /\ ZonesOver(d, Front(p)) # {}
BY DirIsOver, NoneAssumption DEF ParentIsDir, Kinds

-----------------------------------------------------------------------------
(* Every call keeps the invariant.                                         *)

\* A commit stores a good state as it is.
LEMMA CommitGood ==
  ASSUME NEW d, Good(d), Commit(d)
  PROVE  Good(db)'
<1>1. IsDb(db)' /\ db'.zones = d.zones /\ db'.entries = d.entries /\ db'.objects = d.objects
      /\ db'.segments = d.segments /\ db'.staging = d.staging
  BY DEF Commit, db, IsDb
<1> QED
  BY <1>1 DEF Good

LEMMA create_volumeGood ==
  ASSUME Good(db), create_volume
  PROVE  Good(db)'
<1>1. PICK z \in FreshNodes(db) : Commit([db EXCEPT !.zones = OneRow(z, RootRow)])
  BY DEF create_volume
<1> DEFINE zs == OneRow(z, RootRow)
           c == [db EXCEPT !.zones = zs]
<1>2. DOMAIN zs = {z} /\ zs[z] = RootRow /\ z \in NodeId /\ z \notin DOMAIN db.entries
  BY OneRowParts DEF FreshNodes
<1>3. IsZoneRow(RootRow) /\ RootRow.path = <<>>
  BY DEF IsZoneRow, ZoneColumns, RootRow
<1> HIDE DEF zs
<1>4. /\ IsDb(c) /\ c.objects = db.objects /\ c.entries = db.entries
      /\ c.segments = db.segments /\ c.staging = db.staging /\ c.zones = zs
  BY WithZones DEF Good
<1>5. DOMAIN db.zones = {}
  BY DEF create_volume, db, NoRows
<1> HIDE DEF c
<1>6. GoodEntries(DOMAIN zs, db.objects, db.entries)
  BY <1>2, <1>5 DEF Good, GoodEntries, GoodRow
<1>7. GoodZones(zs)
  BY <1>2, <1>3 DEF GoodZones
<1>9. Counted(zs, db.entries)
  <2>1. RowsIn(db.entries, z) = {}
    BY <1>5 DEF RowsIn, Good, GoodEntries, GoodRow
  <2>2. Count(db.entries, z) = 0 /\ SizeIn(db.entries, z) = 0
    BY <2>1, NoneCounted
  <2>3. RootRow.entry_count = 0 /\ RootRow.file_bytes = 0
    BY DEF RootRow
  <2> QED
    BY <1>2, <2>2, <2>3 DEF Counted
<1>8. Good(c)
  BY <1>4, <1>6, <1>7, <1>9 DEF Good
<1> QED
  BY <1>1, <1>8, CommitGood DEF c, zs

LEMMA mkdirGood ==
  ASSUME Good(db), NEW p \in Paths, mkdir(p)
  PROVE  Good(db)'
<1>1. PICK i \in FreshNodes(db) : Commit(InsertEntries(db, OneRow(i, EntryRow(db, p, Dir, None))))
  BY DEF mkdir
<1>2. p # <<>> /\ ZonesOver(db, Front(p)) # {}
  BY ParentParts DEF mkdir
<1>3. GoodRow(DOMAIN db.zones, db.objects, EntryRow(db, p, Dir, None))
  BY <1>2, DirRowGood, PathParts
<1>4. Good(InsertEntries(db, OneRow(i, EntryRow(db, p, Dir, None))))
  BY <1>3, OneRowGood
<1> QED
  BY <1>1, <1>4, CommitGood

\* Directories are inserted under zones that exist.
LEMMA DirRowsGood ==
  ASSUME NEW d, Good(d), NEW P \in SUBSET Seq(Names), NEW f \in Injection(P, FreshNodes(d)),
         \A q \in P : q # <<>> /\ ZonesOver(d, Front(q)) # {}
  PROVE  Good(InsertEntries(d, DirRows(d, P, f)))
<1> DEFINE rows == DirRows(d, P, f)
<1>1. \A q \in P : f[q] \in FreshNodes(d)
  BY DEF Injection
<1>2. DOMAIN rows \subseteq FreshNodes(d)
  BY <1>1 DEF DirRows
<1>3. ASSUME NEW i \in DOMAIN rows
      PROVE  GoodRow(DOMAIN d.zones, d.objects, rows[i])
  <2> DEFINE q == CHOOSE q \in P : f[q] = i
  <2>1. q \in P
    BY DEF DirRows
  <2>2. rows[i] = EntryRow(d, q, Dir, None)
    BY DEF DirRows
  <2> HIDE DEF q, rows
  <2> QED
    BY <2>1, <2>2, DirRowGood
<1> HIDE DEF rows
<1>4. Good(InsertEntries(d, rows))
  BY <1>2, <1>3, InsertGood
<1> QED
  BY <1>4 DEF rows

LEMMA mkdir_manyGood ==
  ASSUME Good(db), NEW P \in Batches, mkdir_many(P)
  PROVE  Good(db)'
<1>1. PICK f \in Injection(P, FreshNodes(db)) : Commit(InsertEntries(db, DirRows(db, P, f)))
  BY DEF mkdir_many
<1>2. P \in SUBSET Seq(Names)
  BY BatchesAssumption, PathsAssumption
<1>3. \A q \in P : q # <<>> /\ ZonesOver(db, Front(q)) # {}
  BY ParentParts DEF mkdir_many
<1>4. Good(InsertEntries(db, DirRows(db, P, f)))
  BY <1>2, <1>3, DirRowsGood
<1> QED
  BY <1>1, <1>4, CommitGood

LEMMA mkdir_parentsGood ==
  ASSUME Good(db), NEW P \in Batches, mkdir_parents(P)
  PROVE  Good(db)'
<1> DEFINE prefixes == UNION {Prefixes(p) : p \in P}
           missing == {q \in prefixes : KindOf(db, q) = None}
<1>1. DOMAIN db.zones # {}
  BY DEF mkdir_parents, db
<1>2. PICK f \in Injection(missing, FreshNodes(db)) :
        Commit(InsertEntries(db, DirRows(db, missing, f)))
  BY Zenon DEF mkdir_parents
<1>3. prefixes \subseteq Seq(Names)
  <2>1. ASSUME NEW p \in P, NEW l \in 0 .. Len(p)
        PROVE  SubSeq(p, 1, l) \in Seq(Names)
    <3>1. p \in Seq(Names)
      BY BatchesAssumption, PathsAssumption
    <3>2. \A k \in 1 .. l : p[k] \in Names
      BY <3>1, LenProperties, ElementOfSeq
    <3> QED
      BY <3>2, SubSeqProperties
  <2> QED
    BY <2>1 DEF Prefixes
<1>4. \A q \in missing : q # <<>> /\ ZonesOver(db, Front(q)) # {}
  <2>1. ASSUME NEW q \in missing
        PROVE  q # <<>> /\ ZonesOver(db, Front(q)) # {}
    <3>1. q \in Seq(Names) /\ KindOf(db, q) = None
      BY <1>3
    <3>2. KindOf(db, <<>>) = Dir /\ Dir # None
      BY <1>1, RootIsOver, EmptySeq, NoneAssumption DEF Kinds
    <3>3. q # <<>>
      BY <3>1, <3>2
    <3> QED
      BY <1>1, <3>1, <3>3, SplitPath, RootIsOver
  <2> QED
    BY <2>1
<1>5. missing \in SUBSET Seq(Names)
  BY <1>3
<1> HIDE DEF missing
<1>6. Good(InsertEntries(db, DirRows(db, missing, f)))
  BY <1>4, <1>5, DirRowsGood
<1> QED
  BY <1>2, <1>6, CommitGood

LEMMA WriteInlineGood ==
  ASSUME NEW d, Good(d), NEW p \in Seq(Names), ParentIsDir(d, p),
         NEW body \in Data, NEW i \in UpsertIds(d, p)
  PROVE  LET c == WriteInline(d, p, body, i)
         IN /\ Good(c)
            /\ i \in DOMAIN c.entries /\ c.entries[i].kind = File
            /\ c.objects = d.objects
<1> DEFINE c == WriteInline(d, p, body, i)
<1>1. CASE i \in DOMAIN d.entries
  <2> DEFINE e == d.entries[i]
             r == [e EXCEPT !.body = body, !.obj = None, !.size = Size[body],
                            !.gen = Bump(e.gen)]
  <2>1. c = UpdateEntries(d, OneRow(i, r))
    BY <1>1, Zenon DEF WriteInline
  <2>2. e.kind = File /\ GoodRow(DOMAIN d.zones, d.objects, e)
    BY <1>1 DEF UpsertIds, FreshNodes, Good, GoodEntries
  <2> HIDE DEF e, c
  <2>3. Size[body] \in Nat /\ Bump(e.gen) \in Nat /\ Bump(e.gen) \in 1..MaxGeneration
    BY <2>2, BumpType, ContentAssumption DEF GoodRow, EntryRows
  <2>4. /\ r \in EntryRows /\ r.zone = e.zone /\ r.rel = e.rel /\ r.dir = e.dir
        /\ r.name = e.name /\ r.kind = File /\ r.body = body /\ r.obj = None
        /\ r.size = Size[body] /\ r.gen = Bump(e.gen)
    BY <2>2, <2>3 DEF GoodRow, EntryRows
  <2> HIDE DEF r
  <2>5. GoodRow(DOMAIN d.zones, d.objects, r)
    BY <2>2, <2>3, <2>4 DEF GoodRow
  <2>6. Good(c)
    BY <1>1, <2>1, <2>5, OneRowGood
  <2>7. c.entries = Store(OneRow(i, r), d.entries) /\ c.objects = d.objects
    BY <2>1, UpdateParts, Zenon DEF Good
  <2>8. i \in DOMAIN c.entries /\ c.entries[i] = r
    BY <2>7 DEF Store, OneRow
  <2> QED
    BY <2>4, <2>6, <2>7, <2>8 DEF c
<1>2. CASE i \notin DOMAIN d.entries
  <2> DEFINE r == EntryRow(d, p, File, body)
  <2>1. c = InsertEntries(d, OneRow(i, r))
    BY <1>2, Zenon DEF WriteInline
  <2>2. i \in FreshNodes(d)
    <3> DEFINE row == EntryRow(d, p, Dir, None)
               old == EntriesAt(d, row.zone, row.rel)
    <3>1. old \subseteq DOMAIN d.entries
      BY DEF EntriesAt
    <3>2. UpsertIds(d, p) = IF old = {} THEN FreshNodes(d) ELSE {k \in old : d.entries[k].kind = File}
      BY Zenon DEF UpsertIds
    <3> HIDE DEF old
    <3> QED
      BY <1>2, <3>1, <3>2
  <2>3. p # <<>> /\ ZonesOver(d, Front(p)) # {}
    BY ParentParts
  <2>4. GoodRow(DOMAIN d.zones, d.objects, r) /\ r.kind = File
    BY <2>3, FileRowGood
  <2> HIDE DEF r, c
  <2>5. Good(c)
    BY <2>1, <2>2, <2>4, OneRowGood
  <2>6. c.entries = Store(OneRow(i, r), d.entries) /\ c.objects = d.objects
    BY <2>1, InsertParts, Zenon DEF Good
  <2>7. i \in DOMAIN c.entries /\ c.entries[i] = r
    BY <2>6 DEF Store, OneRow
  <2> QED
    BY <2>4, <2>5, <2>6, <2>7 DEF c
<1> QED
  BY <1>1, <1>2

LEMMA write_fileGood ==
  ASSUME Good(db), NEW p \in Paths, NEW body \in Data, write_file(p, body)
  PROVE  Good(db)'
<1>1. PICK i \in UpsertIds(db, p) :
        LET written == WriteInline(db, p, body, i)
            z == LocateZone(written, p)
        IN \E f \in Mappings(written, z) : Commit(Reclaim(Blockize(written, z, f, None)))
  BY Zenon DEF write_file
<1> DEFINE written == WriteInline(db, p, body, i)
           z == LocateZone(written, p)
<1>2. PICK f \in Mappings(written, z) : Commit(Reclaim(Blockize(written, z, f, None)))
  BY <1>1, Zenon
<1>3. Good(written)
  BY WriteInlineGood, PathParts DEF write_file
<1> HIDE DEF written, z
<1>4. Good(Blockize(written, z, f, None))
  BY <1>3, BlockizeGood
<1>5. Good(Reclaim(Blockize(written, z, f, None)))
  BY <1>4, ReclaimGood
<1> QED
  BY <1>2, <1>5, CommitGood

\* Lookups read zones and zone_entries only.
LEMMA SameLookups ==
  ASSUME NEW a, NEW b, a.zones = b.zones, a.entries = b.entries, NEW p
  PROVE  /\ ParentIsDir(a, p) <=> ParentIsDir(b, p)
         /\ UpsertIds(a, p) = UpsertIds(b, p)
         /\ KindOf(a, p) = KindOf(b, p)
<1> DEFINE Deepest(over, zs) ==
             CHOOSE z \in over : \A y \in over : Len(zs[y].path) =< Len(zs[z].path)
           Kind(over, atzone, found, es) ==
             IF over = {} THEN None ELSE IF atzone THEN Dir
             ELSE IF found = {} THEN None ELSE es[CHOOSE i \in found : TRUE].kind
           Ids(old, fresh, es) == IF old = {} THEN fresh ELSE {i \in old : es[i].kind = File}
<1>1. \A q : ZonesOver(a, q) = ZonesOver(b, q)
  BY DEF ZonesOver
<1>2. \A q : LocateZone(a, q) = LocateZone(b, q)
  <2>1. \A q : /\ LocateZone(a, q) = Deepest(ZonesOver(a, q), a.zones)
               /\ LocateZone(b, q) = Deepest(ZonesOver(b, q), b.zones)
    BY Zenon DEF LocateZone
  <2> HIDE DEF Deepest
  <2> QED
    BY <1>1, <2>1, Zenon
<1>3. \A q : RelativePath(a, q) = RelativePath(b, q)
  BY <1>2 DEF RelativePath
<1>4. \A z, q : EntriesAt(a, z, q) = EntriesAt(b, z, q)
  BY DEF EntriesAt
<1>5. \A q : EntriesFor(a, q) = EntriesFor(b, q)
  BY <1>2, <1>4 DEF EntriesFor
<1>6. \A q : IsZonePath(a, q) <=> IsZonePath(b, q)
  BY DEF IsZonePath
<1>7. \A q : KindOf(a, q) = KindOf(b, q)
  <2>1. \A q : /\ KindOf(a, q) = Kind(ZonesOver(a, q), IsZonePath(a, q), EntriesFor(a, q), a.entries)
               /\ KindOf(b, q) = Kind(ZonesOver(b, q), IsZonePath(b, q), EntriesFor(b, q), b.entries)
    BY Zenon DEF KindOf
  <2>2. ASSUME NEW q PROVE KindOf(a, q) = KindOf(b, q)
    <3>1. CASE IsZonePath(a, q)
      <4>1. IsZonePath(b, q)
        BY <1>6, <3>1
      <4> QED
        BY <1>1, <2>1, <3>1, <4>1
    <3>2. CASE ~IsZonePath(a, q)
      <4>1. ~IsZonePath(b, q)
        BY <1>6, <3>2
      <4> QED
        BY <1>1, <1>5, <2>1, <3>2, <4>1
    <3> QED
      BY <3>1, <3>2
  <2> QED
    BY <2>2
<1>8. \A q : EntryRow(a, q, Dir, None) = EntryRow(b, q, Dir, None)
  BY <1>2, <1>3, Zenon DEF EntryRow
<1>9. FreshNodes(a) = FreshNodes(b)
  BY DEF FreshNodes
<1>10. UpsertIds(a, p) = UpsertIds(b, p)
  <2> DEFINE row(d) == EntryRow(d, p, Dir, None)
  <2>1. \A d : UpsertIds(d, p) =
               Ids(EntriesAt(d, row(d).zone, row(d).rel), FreshNodes(d), d.entries)
    BY Zenon DEF UpsertIds
  <2>2. row(a) = row(b)
    BY <1>8
  <2> HIDE DEF Ids, row
  <2>3. EntriesAt(a, row(a).zone, row(a).rel) = EntriesAt(b, row(b).zone, row(b).rel)
    BY <1>4, <2>2
  <2> QED
    BY <1>9, <2>1, <2>3
<1> QED
  BY <1>7, <1>10 DEF ParentIsDir

LEMMA import_textGood ==
  ASSUME Good(db), NEW p \in Paths, NEW body \in Text, import_text(p, body)
  PROVE  Good(db)'
<1>1. PICK s \in FreshSegments(db), o \in FreshObjects(db), i \in UpsertIds(db, p) :
        LET stored == [db EXCEPT !.segments = segments \cup {s},
                                 !.objects = Store(OneRow(o, [data |-> body, segment |-> s]), objects)]
            written == WriteInline(stored, p, EmptyText, i)
        IN Commit(UpdateEntries(written, OneRow(i, [written.entries[i] EXCEPT
                                                 !.obj = o, !.size = Size[body]])))
  BY Zenon DEF import_text
<1> DEFINE b == [db EXCEPT !.segments = db.segments \cup {s}]
           x == [data |-> body, segment |-> s]
           made == OneRow(o, x)
           stored == [b EXCEPT !.objects = Store(made, b.objects)]
           written == WriteInline(stored, p, EmptyText, i)
           e == written.entries[i]
           r == [e EXCEPT !.obj = o, !.size = Size[body]]
<1>2. s \in SegmentId /\ o \in ObjectId /\ o \notin DOMAIN db.objects
  BY DEF FreshSegments, FreshObjects
<1>3. Good(b) /\ b.segments = db.segments \cup {s} /\ b.objects = db.objects
      /\ b.entries = db.entries /\ b.zones = db.zones
  BY <1>2, SegmentsGood, WithSegments DEF Good
<1>4. Commit(UpdateEntries(written, OneRow(i, r)))
  BY <1>1, <1>3, Zenon DEF db
<1>5. /\ DOMAIN made = {o} /\ made[o] = x
      /\ x \in ObjectRows /\ x.segment \in b.segments /\ x.data = body
  BY <1>2, <1>3, OneRowParts DEF ObjectRows
<1> HIDE DEF x, made
<1>6. Good(stored)
  <2>1. DOMAIN made \subseteq FreshObjects(b)
    BY <1>2, <1>3, <1>5 DEF FreshObjects
  <2> HIDE DEF b
  <2> QED
    BY <1>3, <1>5, <2>1, MadeGood
<1> HIDE DEF b
<1>7. /\ stored.zones = db.zones /\ stored.entries = db.entries
      /\ stored.objects = Store(made, b.objects)
  BY <1>3, WithObjects DEF Good
<1>8. o \in DOMAIN stored.objects /\ stored.objects[o] = x
  BY <1>5, <1>7 DEF Store
<1> HIDE DEF stored
<1>9. ParentIsDir(stored, p) /\ i \in UpsertIds(stored, p)
  BY <1>7, SameLookups DEF import_text
<1>10. EmptyText \in Data
  BY ContentAssumption DEF Data
<1>11. /\ Good(written) /\ i \in DOMAIN written.entries /\ e.kind = File
       /\ written.objects = stored.objects
  BY <1>6, <1>9, <1>10, WriteInlineGood, PathParts
<1> HIDE DEF written
<1>12. GoodRow(DOMAIN written.zones, written.objects, e)
  BY <1>11 DEF Good, GoodEntries
<1>13. Size[body] \in Nat /\ o # None
  BY <1>2, ContentAssumption, NoneAssumption DEF Data
<1> HIDE DEF e
<1>14. /\ r \in EntryRows /\ r.zone = e.zone /\ r.rel = e.rel /\ r.dir = e.dir
       /\ r.name = e.name /\ r.kind = e.kind /\ r.obj = o /\ r.size = Size[body]
       /\ r.gen = e.gen
  BY <1>2, <1>12, <1>13 DEF GoodRow, EntryRows
<1> HIDE DEF r
<1>15. GoodRow(DOMAIN written.zones, written.objects, r)
  BY <1>5, <1>8, <1>11, <1>12, <1>13, <1>14 DEF GoodRow
<1>16. Good(UpdateEntries(written, OneRow(i, r)))
  BY <1>11, <1>15, OneRowGood
<1> QED
  BY <1>4, <1>16, CommitGood

LEMMA ImportZoneGood ==
  ASSUME NEW d, Good(d), NEW p \in Seq(Names), ParentIsDir(d, p), NEW tree \in Trees,
         DOMAIN d.zones # {}, NEW z \in FreshNodes(d),
         NEW f \in Injection(DOMAIN tree \ {<<>>}, FreshNodes(d) \ {z})
  PROVE  Good(ImportZone(d, p, tree, z, f))
<1> DEFINE made == [d EXCEPT !.zones = Store(OneRow(z, ZoneRow(d, p)), d.zones)]
           below == DOMAIN tree \ {<<>>}
           row(r) == [zone |-> z, rel |-> r, dir |-> Front(r), name |-> Last(r),
                      kind |-> tree[r].kind, body |-> tree[r].body, obj |-> None,
                      size |-> IF tree[r].kind = File THEN Size[tree[r].body] ELSE 0,
                      gen |-> 1]
           rows == [i \in {f[r] : r \in below} |-> row(CHOOSE r \in below : f[r] = i)]
<1>1. ImportZone(d, p, tree, z, f) = InsertEntries(made, rows)
  BY Zenon DEF ImportZone
<1>2. /\ IsZoneRow(ZoneRow(d, p))
      /\ ZoneRow(d, p).entry_count = 0 /\ ZoneRow(d, p).file_bytes = 0
  BY ParentParts, ZoneRowGood
<1>3. /\ Good(made) /\ DOMAIN made.zones = DOMAIN d.zones \cup {z}
      /\ made.entries = d.entries /\ made.objects = d.objects
  <2>1. IsNewZone(ZoneRow(d, p))
    BY <1>2 DEF IsNewZone
  <2> QED
    BY <2>1, AttachGood, ZenonT(60)
<1> HIDE DEF made
<1>4. \A r \in below : f[r] \in FreshNodes(d) \ {z}
  BY DEF Injection
<1>5. DOMAIN rows \subseteq FreshNodes(made)
  BY <1>3, <1>4 DEF FreshNodes
<1>6. ASSUME NEW r \in below
      PROVE  GoodRow(DOMAIN made.zones, made.objects, row(r))
  <2> DEFINE k == tree[r].kind
             b == tree[r].body
             size == IF k = File THEN Size[b] ELSE 0
             e == [zone |-> z, rel |-> r, dir |-> Front(r), name |-> Last(r),
                   kind |-> k, body |-> b, obj |-> None, size |-> size, gen |-> 1]
  <2>1. r \in Seq(Names) /\ r # <<>>
    BY TreesAssumption
  <2>2. /\ Front(r) \in Seq(Names) /\ Last(r) \in Names /\ r = Append(Front(r), Last(r))
    BY <2>1, SplitPath
  <2>3. k \in Kinds /\ b \in Data \cup {None} /\ (k = File => b \in Data)
    BY TreesAssumption
  <2>4. z \in NodeId /\ z \in DOMAIN made.zones
    BY <1>3 DEF FreshNodes
  <2> HIDE DEF k, b
  <2>5. size \in Nat
    BY <2>3, ContentAssumption
  <2> HIDE DEF size
  <2>6. /\ e \in EntryRows /\ e.zone = z /\ e.rel = r /\ e.dir = Front(r)
        /\ e.name = Last(r) /\ e.kind = k /\ e.body = b /\ e.obj = None /\ e.size = size
        /\ e.gen = 1
    BY <2>1, <2>2, <2>3, <2>4, <2>5 DEF EntryRows
  <2>7. row(r) = e
    BY Zenon DEF size, k, b
  <2> HIDE DEF e, row
  <2>8. GoodRow(DOMAIN made.zones, made.objects, e)
    BY <2>1, <2>2, <2>3, <2>4, <2>6, GenerationAssumption DEF GoodRow, size
  <2> QED
    BY <2>7, <2>8
<1>7. ASSUME NEW i \in DOMAIN rows
      PROVE  GoodRow(DOMAIN made.zones, made.objects, rows[i])
  <2>1. PICK r \in below : rows[i] = row(r)
    <3> HIDE DEF row
    <3> QED
      OBVIOUS
  <2> HIDE DEF row, rows
  <2> QED
    BY <1>6, <2>1
<1> HIDE DEF rows
<1> QED
  BY <1>1, <1>3, <1>5, <1>7, InsertGood

LEMMA BlockizeSegmentGood ==
  ASSUME NEW d, Good(d), NEW z, NEW f \in Mappings(d, z), NEW s \in SegmentId
  PROVE  Good(BlockizeSegment(d, z, f, s))
<1> DEFINE b == [d EXCEPT !.segments = d.segments \cup {s}]
<1>1. Good(b) /\ Good([d EXCEPT !.staging = d.staging \cup {s}])
  BY SegmentsGood
<1>2. /\ b.entries = d.entries /\ b.zones = d.zones /\ b.objects = d.objects
      /\ b.segments = d.segments \cup {s}
  BY WithSegments DEF Good
<1> HIDE DEF b
<1>3. Mappings(b, z) = Mappings(d, z)
  <2>1. Unblocked(b, z) = Unblocked(d, z)
    BY <1>2, Zenon DEF Unblocked
  <2>2. FreshObjects(b) = FreshObjects(d)
    BY <1>2, Zenon DEF FreshObjects
  <2> QED
    BY <2>1, <2>2 DEF Mappings
<1>4. Good(Blockize(b, z, f, s))
  BY <1>1, <1>2, <1>3, BlockizeGood
<1> QED
  BY <1>1, <1>4, Zenon DEF BlockizeSegment, b

LEMMA importGood ==
  ASSUME Good(db), NEW p \in Paths, NEW tree \in Trees, import(p, tree)
  PROVE  Good(db)'
<1>1. PICK s \in FreshSegments(db), n \in FreshNodes(db) :
        \E f \in Injection(DOMAIN tree \ {<<>>}, FreshNodes(db) \ {n}) :
            LET root == tree[<<>>]
                inserted ==
                  IF root.kind = Dir THEN ImportZone(db, p, tree, n, f)
                  ELSE InsertEntries(db, OneRow(n, EntryRow(db, p, root.kind, root.body)))
                z == LocateZone(inserted, p)
            IN \E g \in Mappings(inserted, z) : Commit(BlockizeSegment(inserted, z, g, s))
  BY Zenon DEF import
<1>2. PICK f \in Injection(DOMAIN tree \ {<<>>}, FreshNodes(db) \ {n}) :
            LET root == tree[<<>>]
                inserted ==
                  IF root.kind = Dir THEN ImportZone(db, p, tree, n, f)
                  ELSE InsertEntries(db, OneRow(n, EntryRow(db, p, root.kind, root.body)))
                z == LocateZone(inserted, p)
            IN \E g \in Mappings(inserted, z) : Commit(BlockizeSegment(inserted, z, g, s))
  BY <1>1, Zenon
<1> DEFINE k == tree[<<>>].kind
           b == tree[<<>>].body
           inserted == IF k = Dir THEN ImportZone(db, p, tree, n, f)
                       ELSE InsertEntries(db, OneRow(n, EntryRow(db, p, k, b)))
           z == LocateZone(inserted, p)
<1>3. PICK g \in Mappings(inserted, z) : Commit(BlockizeSegment(inserted, z, g, s))
  BY <1>2, Zenon
<1>4. /\ p \in Seq(Names) /\ ParentIsDir(db, p)
      /\ p # <<>> /\ ZonesOver(db, Front(p)) # {}
  BY PathParts, ParentParts DEF import
<1>5. k \in Kinds /\ b \in Data \cup {None} /\ (k = File => b \in Data)
  BY TreesAssumption DEF import, StagedWell
<1>6. DOMAIN db.zones # {}
  BY <1>4 DEF ZonesOver
<1> HIDE DEF k, b
<1>7. Good(inserted)
  <2>1. CASE k = Dir
    BY <1>4, <1>6, <2>1, ImportZoneGood
  <2>2. CASE k # Dir
    <3>1. GoodRow(DOMAIN db.zones, db.objects, EntryRow(db, p, k, b))
      BY <1>4, <1>5, EntryRowGood
    <3> QED
      BY <2>2, <3>1, OneRowGood
  <2> QED
    BY <2>1, <2>2
<1> HIDE DEF inserted, z
<1>8. s \in SegmentId
  BY DEF FreshSegments
<1>9. Good(BlockizeSegment(inserted, z, g, s))
  BY <1>7, <1>8, BlockizeSegmentGood
<1> QED
  BY <1>3, <1>9, CommitGood

\* A row that is copied or moved below another directory.
LEMMA RebaseGood ==
  ASSUME NEW d, Good(d), NEW p \in Seq(Names), p # <<>>, ZonesOver(d, Front(p)) # {},
         NEW source \in Seq(Names), NEW os, NEW e, GoodRow(DOMAIN d.zones, os, e),
         e.rel = source \/ LikeBelow(source, e.rel), NEW g \in 1..MaxGeneration
  PROVE  GoodRow(DOMAIN d.zones, os, [Rebase(d, p, source, e) EXCEPT !.gen = g])
<1> DEFINE z == LocateZone(d, Front(p))
           dir == RelativePath(d, Front(p))
           top == Append(dir, Last(p))
           rel == top \o Remainder(source, e.rel)
           name == IF e.rel = source THEN Last(p) ELSE e.name
           r == [e EXCEPT !.zone = z, !.rel = rel, !.dir = Front(rel), !.name = name]
           c == [r EXCEPT !.gen = g]
<1>1. Rebase(d, p, source, e) = r
  BY Zenon DEF Rebase
<1>2. Front(p) \in Seq(Names) /\ Last(p) \in Names
  BY SplitPath
<1>3. z \in DOMAIN d.zones /\ z \in NodeId /\ dir \in Seq(Names)
  BY <1>2, LocatedParts
<1>4. /\ e.rel \in Seq(Names) /\ e.dir \in Seq(Names) /\ e.name \in Names
      /\ e.rel = Append(e.dir, e.name)
  BY DEF GoodRow, EntryRows
<1> HIDE DEF z, dir
<1>5. top \in Seq(Names) /\ Front(top) = dir /\ Last(top) = Last(p)
  BY <1>2, <1>3, AppendProperties, SplitAppend
<1>6. /\ rel \in Seq(Names) /\ rel # <<>> /\ Front(rel) \in Seq(Names) /\ name \in Names
      /\ rel = Append(Front(rel), name)
  <2>1. CASE e.rel = source
    <3>1. Remainder(source, e.rel) = <<>>
      BY <1>4, <2>1, RemainderOf, LenProperties
    <3>2. rel = top
      BY <1>5, <3>1, ConcatEmptySeq
    <3>3. name = Last(p)
      BY <2>1
    <3>4. top # <<>>
      BY <1>2, <1>3, AppendProperties
    <3> HIDE DEF top, rel, name
    <3> QED
      BY <1>2, <1>3, <1>5, <3>2, <3>3, <3>4 DEF top
  <2>2. CASE e.rel # source
    <3> DEFINE rest == Remainder(source, e.rel)
    <3>1. Len(source) < Len(e.rel)
      BY <1>4, <2>2, BelowIsLonger
    <3>2. rest \in Seq(Names) /\ rest # <<>> /\ Last(rest) = Last(e.rel)
      BY <1>4, <3>1, RemainderOf
    <3>3. Last(e.rel) = e.name
      BY <1>4, SplitAppend
    <3>4. name = e.name
      BY <2>2
    <3>5. rel = top \o rest
      OBVIOUS
    <3> HIDE DEF rest, top, name, rel
    <3>6. /\ rel \in Seq(Names) /\ rel = Append(top \o Front(rest), Last(rest))
          /\ Front(rel) = top \o Front(rest)
      BY <1>5, <3>2, <3>5, SplitConcat
    <3>7. top \o Front(rest) \in Seq(Names)
      BY <1>5, <3>2, SplitPath, ConcatProperties
    <3>8. rel # <<>>
      BY <3>2, <3>5, <1>5, ConcatEqualIffEmpty
    <3> QED
      BY <1>4, <3>2, <3>3, <3>4, <3>6, <3>7, <3>8
  <2> QED
    BY <2>1, <2>2
<1> HIDE DEF rel, name, top
<1>7. /\ c \in EntryRows /\ c.zone = z /\ c.rel = rel /\ c.dir = Front(rel)
      /\ c.name = name /\ c.kind = e.kind /\ c.body = e.body /\ c.obj = e.obj
      /\ c.size = e.size /\ c.gen = g
  <2>1. r \in EntryRows /\ r.zone = z /\ r.rel = rel /\ r.dir = Front(rel)
        /\ r.name = name /\ r.kind = e.kind /\ r.body = e.body /\ r.obj = e.obj
        /\ r.size = e.size
    BY <1>3, <1>6 DEF GoodRow, EntryRows
  <2>2. g \in Nat
    BY GenerationAssumption
  <2> HIDE DEF r
  <2> QED
    BY <2>1, <2>2 DEF EntryRows
<1> HIDE DEF c
<1>8. GoodRow(DOMAIN d.zones, os, c)
  BY <1>3, <1>6, <1>7 DEF GoodRow
<1> QED
  BY <1>1, <1>8 DEF c

LEMMA CopyZoneGood ==
  ASSUME Good(db), NEW src \in Seq(Names), NEW dst \in Seq(Names),
         CanPlace(db, src, dst), CopyZone(src, dst)
  PROVE  Good(db)'
<1> DEFINE old == EntriesOf(db, {LocateZone(db, src)})
<1>1. PICK n \in FreshNodes(db) : \E f \in Injection(old, FreshNodes(db) \ {n}) :
            LET made == [db EXCEPT !.zones = Store(OneRow(n, ZoneRow(db, dst)), zones)]
            IN Commit(InsertEntries(made, [k \in {f[i] : i \in old} |->
                    [entries[CHOOSE i \in old : f[i] = k] EXCEPT !.zone = n, !.gen = 1]]))
  BY Zenon DEF CopyZone
<1>2. PICK f \in Injection(old, FreshNodes(db) \ {n}) :
            LET made == [db EXCEPT !.zones = Store(OneRow(n, ZoneRow(db, dst)), zones)]
            IN Commit(InsertEntries(made, [k \in {f[i] : i \in old} |->
                    [entries[CHOOSE i \in old : f[i] = k] EXCEPT !.zone = n, !.gen = 1]]))
  BY <1>1, Zenon
<1> DEFINE made == [db EXCEPT !.zones = Store(OneRow(n, ZoneRow(db, dst)), db.zones)]
           row(i) == [db.entries[i] EXCEPT !.zone = n, !.gen = 1]
           rows == [k \in {f[i] : i \in old} |-> row(CHOOSE i \in old : f[i] = k)]
<1>3. Commit(InsertEntries(made, rows))
  BY <1>2 DEF db
<1>4. dst # <<>> /\ ZonesOver(db, Front(dst)) # {}
  BY ParentParts DEF CanPlace
<1>5. /\ DOMAIN db.zones # {} /\ IsZoneRow(ZoneRow(db, dst))
      /\ ZoneRow(db, dst).entry_count = 0 /\ ZoneRow(db, dst).file_bytes = 0
  BY <1>4, ZoneRowGood DEF ZonesOver
<1>6. /\ Good(made) /\ DOMAIN made.zones = DOMAIN db.zones \cup {n}
      /\ made.entries = db.entries /\ made.objects = db.objects
  <2>1. DOMAIN db.zones # {} /\ IsNewZone(ZoneRow(db, dst))
    BY <1>5 DEF IsNewZone
  <2> QED
    BY <2>1, AttachGood, ZenonT(60)
<1> HIDE DEF made
<1>7. \A i \in old : f[i] \in FreshNodes(db) \ {n}
  BY DEF Injection
<1>8. DOMAIN rows \subseteq FreshNodes(made)
  BY <1>6, <1>7 DEF FreshNodes
<1>9. ASSUME NEW i \in old
      PROVE  GoodRow(DOMAIN made.zones, made.objects, row(i))
  <2> DEFINE e == db.entries[i]
             r == [e EXCEPT !.zone = n, !.gen = 1]
  <2>1. GoodRow(DOMAIN db.zones, db.objects, e)
    BY DEF EntriesOf, Good, GoodEntries
  <2>2. n \in NodeId
    BY DEF FreshNodes
  <2> HIDE DEF e
  <2>3. /\ r \in EntryRows /\ r.zone = n /\ r.rel = e.rel /\ r.dir = e.dir
        /\ r.name = e.name /\ r.kind = e.kind /\ r.body = e.body /\ r.obj = e.obj
        /\ r.size = e.size /\ r.gen = 1
    BY <2>1, <2>2 DEF GoodRow, EntryRows
  <2> HIDE DEF r
  <2>4. GoodRow(DOMAIN made.zones, made.objects, r)
    BY <1>6, <2>1, <2>3, GenerationAssumption DEF GoodRow
  <2> QED
    BY <2>4 DEF r, e
<1>10. ASSUME NEW k \in DOMAIN rows
       PROVE  GoodRow(DOMAIN made.zones, made.objects, rows[k])
  <2>1. PICK i \in old : rows[k] = row(i)
    <3> HIDE DEF row, old
    <3> QED
      OBVIOUS
  <2> HIDE DEF row, rows
  <2> QED
    BY <1>9, <2>1
<1> HIDE DEF rows
<1>11. Good(InsertEntries(made, rows))
  BY <1>6, <1>8, <1>10, InsertGood
<1> QED
  BY <1>3, <1>11, CommitGood

LEMMA CopyEntryGood ==
  ASSUME Good(db), NEW src \in Seq(Names), NEW dst \in Seq(Names), NEW recursive \in BOOLEAN,
         CanPlace(db, src, dst), CopyEntry(src, dst, recursive)
  PROVE  Good(db)'
<1> DEFINE source == RelativePath(db, src)
           old == {i \in EntriesOf(db, {LocateZone(db, src)}) :
                     \/ entries[i].rel = source
                     \/ recursive /\ LikeBelow(source, entries[i].rel)}
<1>1. PICK f \in Injection(old, FreshNodes(db)) :
        Commit(InsertEntries(db, [k \in {f[i] : i \in old} |->
             [Rebase(db, dst, source, entries[CHOOSE i \in old : f[i] = k]) EXCEPT !.gen = 1]]))
  BY Zenon DEF CopyEntry
<1> DEFINE row(i) == [Rebase(db, dst, source, entries[i]) EXCEPT !.gen = 1]
           rows == [k \in {f[i] : i \in old} |-> row(CHOOSE i \in old : f[i] = k)]
<1>2. dst # <<>> /\ ZonesOver(db, Front(dst)) # {}
  BY ParentParts DEF CanPlace
<1>3. KindOf(db, src) # None
  BY Zenon DEF CopyEntry
<1>4. source \in Seq(Names)
  BY <1>3, DirIsOver, LocatedParts
<1> HIDE DEF source
<1>5. \A i \in old : f[i] \in FreshNodes(db)
  BY DEF Injection
<1>6. ASSUME NEW i \in old
      PROVE  GoodRow(DOMAIN db.zones, db.objects, row(i))
  <2> DEFINE e == entries[i]
  <2>1. GoodRow(DOMAIN db.zones, db.objects, e)
    BY DEF EntriesOf, Good, GoodEntries, db
  <2>2. e.rel = source \/ LikeBelow(source, e.rel)
    OBVIOUS
  <2>3. row(i) = [Rebase(db, dst, source, e) EXCEPT !.gen = 1]
    OBVIOUS
  <2>5. 1 \in 1..MaxGeneration
    BY GenerationAssumption
  <2> HIDE DEF e, row
  <2>4. GoodRow(DOMAIN db.zones, db.objects, [Rebase(db, dst, source, e) EXCEPT !.gen = 1])
    BY <1>2, <1>4, <2>1, <2>2, <2>5, RebaseGood
  <2> QED
    BY <2>3, <2>4
<1> HIDE DEF row, old
<1>7. DOMAIN rows \subseteq FreshNodes(db)
  BY <1>5
<1>8. ASSUME NEW k \in DOMAIN rows
      PROVE  GoodRow(DOMAIN db.zones, db.objects, rows[k])
  <2>1. PICK i \in old : rows[k] = row(i)
    OBVIOUS
  <2> HIDE DEF rows
  <2> QED
    BY <1>6, <2>1
<1>9. Good(InsertEntries(db, rows))
  <2> HIDE DEF rows
  <2> QED
    BY <1>7, <1>8, InsertGood
<1> QED
  BY <1>1, <1>9, CommitGood DEF row

LEMMA copyGood ==
  ASSUME Good(db), NEW src \in Paths, NEW dst \in Paths, NEW recursive \in BOOLEAN,
         copy(src, dst, recursive)
  PROVE  Good(db)'
<1>1. src \in Seq(Names) /\ dst \in Seq(Names)
  BY PathParts
<1>2. CanPlace(db, src, dst) /\ (CopyZone(src, dst) \/ CopyEntry(src, dst, recursive))
  BY Zenon DEF copy
<1> QED
  BY <1>1, <1>2, CopyZoneGood, CopyEntryGood

LEMMA MoveZoneGood ==
  ASSUME NEW d, Good(d), NEW src \in Seq(Names), NEW dst \in Seq(Names),
         src # <<>>, ZonesOver(d, src) # {}, RelativePath(d, src) = <<>>,
         dst # <<>>, ZonesOver(d, Front(dst)) # {}
  PROVE  Good(MoveZone(d, src, dst))
<1> DEFINE top == LocateZone(d, src)
           moved == ZonesLike(d, src) \cup {top}
           under == LocateZone(d, Front(dst))
           dir == RelativePath(d, Front(dst))
           place(z) == [d.zones[z] EXCEPT !.path = dst \o Remainder(src, d.zones[z].path)]
           first == [place(top) EXCEPT !.parent = under, !.dir = dir,
                                       !.name = Last(dst), !.gen = Bump(place(top).gen)]
           zs == [z \in DOMAIN d.zones |->
                    IF z = top THEN first ELSE IF z \in moved THEN place(z) ELSE d.zones[z]]
           c == [d EXCEPT !.zones = zs]
<1>1. MoveZone(d, src, dst) = c
  BY Zenon DEF MoveZone
<1>2. Front(dst) \in Seq(Names) /\ Last(dst) \in Names
  BY SplitPath
<1>3. under \in NodeId /\ dir \in Seq(Names)
  BY <1>2, LocatedParts
<1>4. top \in DOMAIN d.zones /\ d.zones[top].path = src
  BY LocatedParts
<1> HIDE DEF top, under, dir
<1>5. ASSUME NEW z \in DOMAIN d.zones
      PROVE  IsZoneRow(place(z))
  <2> DEFINE q == d.zones[z].path
             new == dst \o Remainder(src, q)
  <2>1. IsZoneRow(d.zones[z])
    BY DEF Good, GoodZones
  <2>2. q \in Seq(Names)
    BY <2>1 DEF IsZoneRow
  <2> HIDE DEF q
  <2>3. new \in Seq(Names)
    BY <2>2, RemainderOf, ConcatProperties
  <2>4. place(z) = [d.zones[z] EXCEPT !.path = new]
    BY DEF q
  <2> HIDE DEF new, place
  <2> QED
    BY <2>1, <2>3, <2>4 DEF IsZoneRow, ZoneColumns
<1>6. IsZoneRow(first)
  <2>1. IsZoneRow(place(top))
    BY <1>4, <1>5
  <2> HIDE DEF place
  <2>2. Bump(place(top).gen) \in Nat
    BY <2>1, BumpType DEF IsZoneRow
  <2> QED
    BY <1>2, <1>3, <2>1, <2>2 DEF IsZoneRow, ZoneColumns
<1>7. \E z \in DOMAIN d.zones : z \notin moved /\ d.zones[z].path = <<>>
  <2>1. PICK z \in DOMAIN d.zones : d.zones[z].path = <<>>
    BY <1>4 DEF Good, GoodZones
  <2>2. z \notin ZonesLike(d, src)
    <3>1. ~ (Len(src) < Len(<<>>))
      BY LenProperties
    <3>2. <<>> \in Seq(Names)
      BY EmptySeq
    <3>3. ~ LikeBelow(src, <<>>)
      BY <3>1, <3>2, BelowIsLonger
    <3> QED
      BY <2>1, <3>3 DEF ZonesLike
  <2> QED
    BY <1>4, <2>1, <2>2
<1> HIDE DEF place, first, moved
<1>12. \A z \in DOMAIN d.zones :
         zs[z].entry_count = d.zones[z].entry_count /\ zs[z].file_bytes = d.zones[z].file_bytes
  <2>1. ASSUME NEW z \in DOMAIN d.zones
        PROVE  /\ place(z).entry_count = d.zones[z].entry_count
               /\ place(z).file_bytes = d.zones[z].file_bytes
    <3> DEFINE q == dst \o Remainder(src, d.zones[z].path)
    <3>1. DOMAIN d.zones[z] = ZoneColumns
      BY DEF Good, GoodZones, IsZoneRow
    <3>2. place(z) = [d.zones[z] EXCEPT !.path = q]
      BY DEF place
    <3> HIDE DEF q
    <3> QED
      BY <3>1, <3>2 DEF ZoneColumns
  <2>2. first.entry_count = d.zones[top].entry_count /\ first.file_bytes = d.zones[top].file_bytes
    <3>1. DOMAIN place(top) = ZoneColumns
      BY <1>4, <1>5 DEF IsZoneRow
    <3>2. first.entry_count = place(top).entry_count /\ first.file_bytes = place(top).file_bytes
      BY <3>1 DEF first, ZoneColumns
    <3> QED
      BY <1>4, <2>1, <3>2
  <2> QED
    BY <2>1, <2>2
<1>8. GoodZones(zs)
  <2>1. \A z \in DOMAIN zs : IsZoneRow(zs[z])
    BY <1>5, <1>6 DEF Good, GoodZones
  <2>2. \E z \in DOMAIN zs : zs[z].path = <<>>
    BY <1>7 DEF moved
  <2> QED
    BY <2>1, <2>2 DEF Good, GoodZones
<1>9. DOMAIN zs = DOMAIN d.zones
  OBVIOUS
<1> HIDE DEF zs
<1>10. /\ IsDb(c) /\ c.objects = d.objects /\ c.entries = d.entries
       /\ c.segments = d.segments /\ c.staging = d.staging /\ c.zones = zs
  BY WithZones DEF Good
<1> HIDE DEF c
<1>13. Counted(zs, d.entries)
  BY <1>9, <1>12 DEF Good, Counted
<1>11. Good(c)
  BY <1>8, <1>9, <1>10, <1>13 DEF Good
<1> QED
  BY <1>1, <1>11

LEMMA MoveEntryGood ==
  ASSUME NEW d, Good(d), NEW src \in Seq(Names), NEW dst \in Seq(Names),
         ZonesOver(d, src) # {}, dst # <<>>, ZonesOver(d, Front(dst)) # {}
  PROVE  Good(MoveEntry(d, src, dst))
<1> DEFINE source == RelativePath(d, src)
           moved == {i \in EntriesOf(d, {LocateZone(d, src)}) :
                       LikeWithin(source, d.entries[i].rel)}
           row(i) == [Rebase(d, dst, source, d.entries[i]) EXCEPT
                        !.gen = Bump(Rebase(d, dst, source, d.entries[i]).gen)]
           rows == [i \in moved |-> row(i)]
<1>1. MoveEntry(d, src, dst) = UpdateEntries(d, rows)
  BY Zenon DEF MoveEntry
<1>2. source \in Seq(Names)
  BY LocatedParts
<1>3. moved \subseteq DOMAIN d.entries
  BY DEF EntriesOf
<1> HIDE DEF source
<1>4. ASSUME NEW i \in moved
      PROVE  GoodRow(DOMAIN d.zones, d.objects, row(i))
  <2> DEFINE e == d.entries[i]
             g == Bump(Rebase(d, dst, source, e).gen)
  <2>1. GoodRow(DOMAIN d.zones, d.objects, e)
    BY <1>3 DEF Good, GoodEntries
  <2>2. e.rel = source \/ LikeBelow(source, e.rel)
    BY DEF LikeWithin
  <2>3. Rebase(d, dst, source, e).gen \in 1..MaxGeneration
    <3>1. e.gen \in 1..MaxGeneration
      BY <2>1 DEF GoodRow
    <3>2. Rebase(d, dst, source, e).gen = e.gen
      BY <2>1 DEF Rebase, GoodRow, EntryRows
    <3> QED
      BY <3>1, <3>2
  <2>4. g \in 1..MaxGeneration
    BY <2>3, BumpType
  <2>5. row(i) = [Rebase(d, dst, source, e) EXCEPT !.gen = g]
    OBVIOUS
  <2> HIDE DEF e, g, row
  <2>6. GoodRow(DOMAIN d.zones, d.objects, [Rebase(d, dst, source, e) EXCEPT !.gen = g])
    BY <1>2, <2>1, <2>2, <2>4, RebaseGood
  <2> QED
    BY <2>5, <2>6
<1>5. DOMAIN rows = moved /\ \A i \in moved : rows[i] = row(i)
  OBVIOUS
<1> HIDE DEF rows, row, moved
<1> QED
  BY <1>1, <1>3, <1>4, <1>5, UpdateGood

LEMMA moveGood ==
  ASSUME Good(db), NEW src \in Paths, NEW dst \in Paths, move(src, dst)
  PROVE  Good(db)'
<1> DEFINE cleared == IF KindOf(db, dst) = None THEN db
                      ELSE DeleteEntries(db, EntriesFor(db, dst))
<1>1. /\ CanPlace(db, src, dst) /\ KindOf(db, src) # None
      /\ IF RelativePath(cleared, src) = <<>>
         THEN Commit(MoveZone(cleared, src, dst))
         ELSE Commit(MoveEntry(cleared, src, dst))
  BY Zenon DEF move
<1>2. src \in Seq(Names) /\ dst \in Seq(Names)
  BY PathParts
<1>3. /\ src # <<>> /\ dst # <<>>
      /\ ZonesOver(db, src) # {} /\ ZonesOver(db, Front(dst)) # {}
  BY <1>1, DirIsOver, ParentParts DEF CanPlace
<1>4. /\ Good(cleared) /\ DOMAIN cleared.zones = DOMAIN db.zones
      /\ \A z \in DOMAIN db.zones : cleared.zones[z].path = db.zones[z].path
  <2>1. CASE KindOf(db, dst) = None
    BY <2>1
  <2>2. CASE KindOf(db, dst) # None
    <3> DEFINE S == EntriesFor(db, dst)
    <3>1. cleared = DeleteEntries(db, S) /\ S \subseteq DOMAIN db.entries
      BY <2>2 DEF EntriesFor, EntriesAt
    <3> HIDE DEF S, cleared
    <3>2. Good(cleared) /\ SamePaths(db.zones, cleared.zones)
      BY <3>1, DeleteGood
    <3> QED
      BY <3>2 DEF SamePaths
  <2> QED
    BY <2>1, <2>2
<1> HIDE DEF cleared
<1>5. ZonesOver(cleared, src) # {} /\ ZonesOver(cleared, Front(dst)) # {}
  BY <1>3, <1>4 DEF ZonesOver
<1>6. CASE RelativePath(cleared, src) = <<>>
  <2>1. Good(MoveZone(cleared, src, dst))
    BY <1>2, <1>3, <1>4, <1>5, <1>6, MoveZoneGood
  <2> QED
    BY <1>1, <1>6, <2>1, CommitGood
<1>7. CASE RelativePath(cleared, src) # <<>>
  <2>1. Good(MoveEntry(cleared, src, dst))
    BY <1>2, <1>3, <1>4, <1>5, MoveEntryGood
  <2> QED
    BY <1>1, <1>7, <2>1, CommitGood
<1> QED
  BY <1>6, <1>7

LEMMA RemovedGood ==
  ASSUME NEW d, Good(d), NEW p \in Seq(Names), NEW recursive \in BOOLEAN,
         CanRemove(d, p, recursive)
  PROVE  Good(Removed(d, p, recursive))
<1> DEFINE rel == RelativePath(d, p)
           here == LocateZone(d, p)
           gone == IF rel = <<>> THEN ZonesLike(d, p) \cup {here}
                   ELSE IF recursive THEN ZonesLike(d, p) ELSE {}
           emptied == DeleteEntries(d, EntriesOf(d, gone))
           cut == DeleteZones(emptied, gone)
           own == {i \in EntriesOf(cut, {here} \ gone) :
                     \/ cut.entries[i].rel = rel
                     \/ recursive /\ LikeBelow(rel, cut.entries[i].rel)}
<1>1. Removed(d, p, recursive) = Reclaim(DeleteEntries(cut, own))
  BY Zenon DEF Removed
<1>2. p # <<>> /\ ZonesOver(d, p) # {}
  BY DirIsOver DEF CanRemove
<1>3. rel = <<>> => d.zones[here].path = p
  BY <1>2, LocatedParts
<1> HIDE DEF rel, here
<1>4. \A z \in DOMAIN d.zones \cap gone : d.zones[z].path # <<>>
  <2>1. \A z \in ZonesLike(d, p) : d.zones[z].path # <<>>
    <3>1. ~ (Len(p) < Len(<<>>))
      BY LenProperties
    <3>2. <<>> \in Seq(Names)
      BY EmptySeq
    <3>3. ~ LikeBelow(p, <<>>)
      BY <3>1, <3>2, BelowIsLonger
    <3> QED
      BY <3>3 DEF ZonesLike
  <2> QED
    BY <1>2, <1>3, <2>1
<1> HIDE DEF gone
<1>5. /\ Good(emptied) /\ DOMAIN emptied.zones = DOMAIN d.zones
      /\ \A z \in DOMAIN d.zones : emptied.zones[z].path = d.zones[z].path
      /\ emptied.entries = [i \in DOMAIN d.entries \ EntriesOf(d, gone) |-> d.entries[i]]
  <2> DEFINE S == EntriesOf(d, gone)
  <2>1. emptied = DeleteEntries(d, S) /\ S \subseteq DOMAIN d.entries
    BY DEF EntriesOf
  <2> HIDE DEF emptied, S
  <2>2. /\ Good(emptied) /\ SamePaths(d.zones, emptied.zones)
        /\ emptied.entries = [i \in DOMAIN d.entries \ S |-> d.entries[i]]
    BY <2>1, DeleteGood
  <2> QED
    BY <2>2 DEF S, SamePaths
<1> HIDE DEF emptied
<1>6. \A i \in DOMAIN emptied.entries : emptied.entries[i].zone \notin gone
  BY <1>5 DEF EntriesOf
<1>7. \A z \in DOMAIN emptied.zones \cap gone : emptied.zones[z].path # <<>>
  BY <1>4, <1>5
<1>8. Good(cut)
  BY <1>5, <1>6, <1>7, DeleteZonesGood
<1> HIDE DEF cut
<1>11. own \subseteq DOMAIN cut.entries
  BY DEF EntriesOf
<1> HIDE DEF own
<1>9. Good(DeleteEntries(cut, own))
  BY <1>8, <1>11, DeleteGood
<1>10. Good(Reclaim(DeleteEntries(cut, own)))
  BY <1>9, ReclaimGood
<1> QED
  BY <1>1, <1>10

LEMMA removeGood ==
  ASSUME Good(db), NEW p \in Paths, NEW recursive \in BOOLEAN, remove(p, recursive)
  PROVE  Good(db)'
<1>1. Good(Removed(db, p, recursive))
  BY RemovedGood, PathParts DEF remove
<1> QED
  BY <1>1, CommitGood DEF remove

LEMMA RemoveEachGood ==
  ASSUME Good(db), NEW p \in Seq(Names), NEW q \in Seq(Names),
         NEW recursive \in BOOLEAN, NEW force \in BOOLEAN,
         RemoveEach(p, q, recursive, force)
  PROVE  Good(db)'
<1>1. \A d, r : r \in Seq(Names) /\ Good(d) =>
        \A e \in RemoveRound(d, r, recursive, force) : Good(e)
  <2>1. ASSUME NEW d, NEW r \in Seq(Names), Good(d),
               NEW e \in RemoveRound(d, r, recursive, force)
        PROVE  Good(e)
    <3>1. e = d \/ (CanRemove(d, r, recursive) /\ e = Removed(d, r, recursive))
      BY DEF RemoveRound
    <3> QED
      BY <2>1, <3>1, RemovedGood
  <2> QED
    BY <2>1
<1>2. PICK d \in RemoveRound(db, p, recursive, force) :
        \E e \in RemoveRound(d, q, recursive, force) : Commit(e)
  BY DEF RemoveEach
<1>3. PICK e \in RemoveRound(d, q, recursive, force) : Commit(e)
  BY <1>2
<1>4. Good(d)
  BY <1>1
<1>5. Good(e)
  BY <1>1, <1>4
<1> QED
  BY <1>3, <1>5, CommitGood

LEMMA remove_manyGood ==
  ASSUME Good(db), NEW P \in Batches, NEW recursive \in BOOLEAN, NEW force \in BOOLEAN,
         remove_many(P, recursive, force)
  PROVE  Good(db)'
<1>1. \A p \in P : p \in Seq(Names)
  BY BatchesAssumption, PathsAssumption
<1>2. CASE \E p \in P : IsZonePath(db, p)
  <2>1. PICK p \in P : \E q \in P : RemoveEach(p, q, recursive, force)
    BY <1>2 DEF remove_many
  <2>2. PICK q \in P : RemoveEach(p, q, recursive, force)
    BY <2>1
  <2> QED
    BY <1>1, <2>2, RemoveEachGood
<1>3. CASE ~ \E p \in P : IsZonePath(db, p)
  <2> DEFINE gone == Exact(db, P, recursive)
  <2>1. Commit(Reclaim(DeleteEntries(db, gone)))
    BY <1>3 DEF remove_many, RemoveExact
  <2>4. gone \subseteq DOMAIN db.entries
    BY DEF Exact
  <2> HIDE DEF gone
  <2>2. Good(DeleteEntries(db, gone))
    BY <2>4, DeleteGood
  <2>3. Good(Reclaim(DeleteEntries(db, gone)))
    BY <2>2, ReclaimGood
  <2> QED
    BY <2>1, <2>3, CommitGood
<1> QED
  BY <1>2, <1>3

LEMMA remove_volumeGood ==
  ASSUME Good(db), remove_volume
  PROVE  Good(db)'
<1> DEFINE cut == DeleteEntries(db, DOMAIN db.entries)
           emptied == Reclaim(cut)
           c == [emptied EXCEPT !.zones = NoRows, !.objects = NoRows, !.segments = {}]
<1>1. Commit(c)
  BY Zenon DEF remove_volume, db
<1>2. Good(cut) /\ cut.entries = [i \in DOMAIN db.entries \ DOMAIN db.entries |-> db.entries[i]]
  BY DeleteGood
<1> HIDE DEF cut
<1>3. Good(emptied) /\ emptied.entries = cut.entries
  BY <1>2, ReclaimGood
<1> HIDE DEF emptied
<1>4. DOMAIN NoRows = {}
  BY DEF NoRows
<1>5. /\ IsDb(c) /\ c.zones = NoRows /\ c.objects = NoRows /\ c.segments = {}
      /\ c.entries = emptied.entries /\ c.staging = emptied.staging
  BY <1>3 DEF Good, IsDb
<1> HIDE DEF c
<1>6. DOMAIN c.entries = {}
  BY <1>2, <1>3, <1>5
<1>7. GoodZones(c.zones) /\ GoodObjects(c.objects, c.segments)
  BY <1>4, <1>5 DEF GoodZones, GoodObjects
<1>8. GoodEntries(DOMAIN c.zones, c.objects, c.entries)
  BY <1>6 DEF GoodEntries
<1>10. Counted(c.zones, c.entries)
  BY <1>4, <1>5 DEF Counted
<1>9. Good(c)
  BY <1>3, <1>5, <1>7, <1>8, <1>10 DEF Good
<1> QED
  BY <1>1, <1>9, CommitGood

LEMMA set_timesGood ==
  ASSUME Good(db), NEW p \in Paths, set_times(p)
  PROVE  Good(db)'
<1>1. CASE RelativePath(db, p) = <<>>
  <2> DEFINE z == LocateZone(db, p)
             g == Bump(db.zones[z].gen)
             r == [db.zones[z] EXCEPT !.gen = g]
             zs == [db.zones EXCEPT ![z] = r]
             c == [db EXCEPT !.zones = zs]
  <2>1. Commit([db EXCEPT !.zones = [zones EXCEPT ![z].gen = Bump(@)]])
    BY <1>1, Zenon DEF set_times
  <2>2. zones = db.zones
    BY DEF db
  <2>3. Commit(c)
    BY <2>1, <2>2
  <2>4. z \in DOMAIN db.zones
    BY DirIsOver, LocatedParts, PathParts DEF set_times
  <2>5. /\ IsZoneRow(r) /\ r.path = db.zones[z].path
        /\ r.entry_count = db.zones[z].entry_count /\ r.file_bytes = db.zones[z].file_bytes
    <3>1. IsZoneRow(db.zones[z])
      BY <2>4 DEF Good, GoodZones
    <3>2. g \in Nat
      BY <3>1, BumpType DEF IsZoneRow
    <3> HIDE DEF g
    <3> QED
      BY <3>1, <3>2 DEF IsZoneRow, ZoneColumns
  <2> HIDE DEF z, r
  <2>6. /\ DOMAIN zs = DOMAIN db.zones
        /\ \A y \in DOMAIN zs : zs[y] = IF y = z THEN r ELSE db.zones[y]
    BY <2>4
  <2> HIDE DEF zs
  <2>7. GoodZones(zs)
    BY <2>5, <2>6 DEF Good, GoodZones
  <2>8. /\ IsDb(c) /\ c.objects = db.objects /\ c.entries = db.entries
        /\ c.segments = db.segments /\ c.staging = db.staging /\ c.zones = zs
    BY WithZones DEF Good
  <2> HIDE DEF c
  <2>10. Counted(zs, db.entries)
    BY <2>5, <2>6 DEF Good, Counted
  <2>9. Good(c)
    BY <2>6, <2>7, <2>8, <2>10 DEF Good
  <2> QED
    BY <2>3, <2>9, CommitGood
<1>2. CASE RelativePath(db, p) # <<>>
  <2> DEFINE S == EntriesFor(db, p)
             row(i) == [db.entries[i] EXCEPT !.gen = Bump(db.entries[i].gen)]
             rows == [i \in S |-> row(i)]
  <2>1. Commit(UpdateEntries(db, [i \in S |-> [entries[i] EXCEPT !.gen = Bump(@)]]))
    BY <1>2, Zenon DEF set_times
  <2>2. Commit(UpdateEntries(db, rows))
    BY <2>1, Zenon DEF db
  <2>3. S \subseteq DOMAIN db.entries
    BY DEF EntriesFor, EntriesAt
  <2> HIDE DEF S
  <2>4. ASSUME NEW i \in S
        PROVE  GoodRow(DOMAIN db.zones, db.objects, row(i))
    <3> DEFINE e == db.entries[i]
               g == Bump(e.gen)
               r == [e EXCEPT !.gen = g]
    <3>1. GoodRow(DOMAIN db.zones, db.objects, e)
      BY <2>3 DEF Good, GoodEntries
    <3> HIDE DEF e
    <3>2. g \in Nat /\ g \in 1..MaxGeneration
      BY <3>1, BumpType DEF GoodRow, EntryRows
    <3> HIDE DEF g
    <3>3. /\ r \in EntryRows /\ r.zone = e.zone /\ r.rel = e.rel /\ r.dir = e.dir
          /\ r.name = e.name /\ r.kind = e.kind /\ r.body = e.body /\ r.obj = e.obj
          /\ r.size = e.size /\ r.gen = g
      BY <3>1, <3>2 DEF GoodRow, EntryRows
    <3> HIDE DEF r
    <3>4. GoodRow(DOMAIN db.zones, db.objects, r)
      BY <3>1, <3>2, <3>3 DEF GoodRow
    <3> QED
      BY <3>4 DEF r, g, e
  <2>5. DOMAIN rows = S /\ \A i \in S : rows[i] = row(i)
    OBVIOUS
  <2> HIDE DEF rows, row
  <2>6. Good(UpdateEntries(db, rows))
    BY <2>3, <2>4, <2>5, UpdateGood
  <2> QED
    BY <2>2, <2>6, CommitGood
<1> QED
  BY <1>1, <1>2

\* Every step of Next, which is every step of GuardedNext as well.
LEMMA NextGood ==
  ASSUME Good(db), Next
  PROVE  Good(db)'
<1>1. CASE create_volume
  BY <1>1, create_volumeGood
<1>2. CASE remove_volume
  BY <1>2, remove_volumeGood
<1>3. ASSUME NEW p \in Paths, mkdir(p)
      PROVE  Good(db)'
  BY <1>3, mkdirGood
<1>4. ASSUME NEW p \in Paths, set_times(p)
      PROVE  Good(db)'
  BY <1>4, set_timesGood
<1>5. ASSUME NEW p \in Paths, NEW body \in Data, write_file(p, body)
      PROVE  Good(db)'
  BY <1>5, write_fileGood
<1>6. ASSUME NEW p \in Paths, NEW body \in Text, import_text(p, body)
      PROVE  Good(db)'
  BY <1>6, import_textGood
<1>7. ASSUME NEW p \in Paths, NEW tree \in Trees, import(p, tree)
      PROVE  Good(db)'
  BY <1>7, importGood
<1>8. ASSUME NEW p \in Paths, NEW recursive \in BOOLEAN, remove(p, recursive)
      PROVE  Good(db)'
  BY <1>8, removeGood
<1>9. ASSUME NEW p \in Paths, NEW q \in Paths, move(p, q)
      PROVE  Good(db)'
  BY <1>9, moveGood
<1>10. ASSUME NEW p \in Paths, NEW q \in Paths, NEW recursive \in BOOLEAN, copy(p, q, recursive)
       PROVE  Good(db)'
  BY <1>10, copyGood
<1>11. ASSUME NEW P \in Batches, mkdir_parents(P)
       PROVE  Good(db)'
  BY <1>11, mkdir_parentsGood
<1>12. ASSUME NEW P \in Batches, mkdir_many(P)
       PROVE  Good(db)'
  BY <1>12, mkdir_manyGood
<1>13. ASSUME NEW P \in Batches, NEW recursive \in BOOLEAN, NEW force \in BOOLEAN,
              remove_many(P, recursive, force)
       PROVE  Good(db)'
  BY <1>13, remove_manyGood
<1> QED
  BY <1>1, <1>2, <1>3, <1>4, <1>5, <1>6, <1>7, <1>8, <1>9, <1>10, <1>11, <1>12, <1>13, Zenon DEF Next

LEMMA InitGood == Init => Good(db)
<1> SUFFICES ASSUME Init PROVE Good(db)
  OBVIOUS
<1>1. /\ IsDb(db) /\ db.zones = NoRows /\ db.entries = NoRows /\ db.objects = NoRows
      /\ db.segments = {} /\ db.staging = {}
  BY DEF Init, db, IsDb
<1>2. DOMAIN NoRows = {}
  BY DEF NoRows
<1> QED
  BY <1>1, <1>2 DEF Good, GoodZones, GoodEntries, GoodObjects, Counted

LEMMA StutterGood ==
  ASSUME Good(db), UNCHANGED vars
  PROVE  Good(db)'
<1>1. db' = db
  BY DEF vars, db
<1>2. /\ IsDb(db)' /\ GoodZones(db.zones)' /\ GoodObjects(db.objects, db.segments)'
      /\ GoodEntries(DOMAIN db.zones, db.objects, db.entries)'
      /\ Counted(db.zones, db.entries)'
      /\ (db.segments \subseteq SegmentId /\ db.staging \subseteq SegmentId)'
  BY <1>1 DEF Good
<1> QED
  BY <1>2 DEF Good

-----------------------------------------------------------------------------
(* What holds in every state that calls can reach.                         *)

\* Good(db) is inductive: no sequence of calls, in any order and with any
\* arguments, leaves a volume that is not good.
THEOREM Invariant == Spec => []Good(db)
<1>1. Good(db) /\ [Next]_vars => Good(db)'
  BY NextGood, StutterGood
<1> QED
  BY <1>1, InitGood, PTL DEF Spec

\* Every column keeps its type, and no id names two nodes.
THEOREM TypesKept == Spec => []TypeOK
<1>1. Good(db) => TypeOK
  BY DEF Good, GoodZones, GoodEntries, GoodObjects, GoodRow, TypeOK, db
<1> QED
  BY <1>1, Invariant, PTL

\* Neither a foreign key nor a reclamation is ever violated: the content
\* object of every entry exists, and so does the segment of every object.
THEOREM ContentKept == Spec => []ContentResident
<1>1. Good(db) => ContentResident
  BY DEF Good, GoodEntries, GoodObjects, GoodRow, ContentResident, db
<1> QED
  BY <1>1, Invariant, PTL

\* No removal, of zones or of entries, strands a row.
THEOREM ZonesKept == Spec => []EntriesHaveZones
<1>1. Good(db) => EntriesHaveZones
  BY DEF Good, GoodEntries, GoodRow, EntriesHaveZones, db
<1> QED
  BY <1>1, Invariant, PTL

\* After every call, however many statements it took and however they split
\* its rows over zones, the counters of every zone are those of its rows.
THEOREM CountersKept == Spec => []CountersExact
<1>1. Good(db) => CountersExact
  BY DEF Good, Counted, Count, SizeIn, CountersExact, db
<1> QED
  BY <1>1, Invariant, PTL

\* Whatever is copied, moved or imported, the columns that a listing reads
\* agree with the one that a lookup reads.
THEOREM PlacesKept == Spec => []EntriesPlaced
<1>1. Good(db) => EntriesPlaced
  BY DEF Good, GoodEntries, GoodRow, EntriesPlaced, db
<1> QED
  BY <1>1, Invariant, PTL

\* Moving content from rows to blocks and to segments, sharing it between
\* copies and dropping segments never changes what a file's size says.
THEOREM SizesKept == Spec => []SizesAgree
<1>1. ASSUME Good(db), NEW i \in DOMAIN entries, entries[i].kind = File
      PROVE  entries[i].size = Size[Contents(db, i)]
  <2> DEFINE e == db.entries[i]
  <2>1. GoodRow(DOMAIN db.zones, db.objects, e)
    BY <1>1 DEF Good, GoodEntries, db
  <2>2. e = entries[i] /\ e.kind = File
    BY <1>1 DEF db
  <2>3. Contents(db, i) = IF e.obj = None THEN e.body ELSE db.objects[e.obj].data
    BY DEF Contents
  <2> HIDE DEF e
  <2> QED
    BY <2>1, <2>2, <2>3 DEF GoodRow
<1>2. Good(db) => SizesAgree
  BY <1>1 DEF SizesAgree
<1> QED
  BY <1>2, Invariant, PTL

\* A client that looks before it calls makes no call that another could not
\* make, so what is proved of the one holds for the other.
LEMMA GuardedIsSpec == GuardedSpec => Spec
<1>1. GuardedNext => Next
  BY Zenon DEF GuardedNext, Next
<1>2. [GuardedNext]_vars => [Next]_vars
  BY <1>1
<1> QED
  BY <1>2, PTL DEF GuardedSpec, Spec

-----------------------------------------------------------------------------
(* What each statement changes, besides what it keeps good.                *)

\* Two zone tables that differ in counters only.
SamePlaces(zs, ys) ==
    /\ DOMAIN ys = DOMAIN zs
    /\ \A z \in DOMAIN zs : /\ ys[z].path = zs[z].path /\ ys[z].parent = zs[z].parent
                            /\ ys[z].dir = zs[z].dir /\ ys[z].name = zs[z].name

LEMMA CountersPlace ==
  ASSUME NEW zs, NEW ys, GoodZones(zs), OnlyCounters(zs, ys)
  PROVE  SamePlaces(zs, ys)
<1>1. ASSUME NEW z \in DOMAIN zs
      PROVE  /\ ys[z].path = zs[z].path /\ ys[z].parent = zs[z].parent
             /\ ys[z].dir = zs[z].dir /\ ys[z].name = zs[z].name
  <2>1. PICK n, b : ys[z] = [zs[z] EXCEPT !.entry_count = n, !.file_bytes = b]
    BY DEF OnlyCounters
  <2>2. DOMAIN zs[z] = ZoneColumns
    BY DEF GoodZones, IsZoneRow
  <2> QED
    BY <2>1, <2>2 DEF ZoneColumns
<1> QED
  BY <1>1 DEF OnlyCounters, SamePlaces

LEMMA InsertLeaves ==
  ASSUME NEW d, Good(d), NEW rows, NEW c, c = InsertEntries(d, rows)
  PROVE  /\ c.entries = Store(rows, d.entries) /\ c.objects = d.objects
         /\ SamePlaces(d.zones, c.zones)
<1>1. IsDb(d) /\ GoodZones(d.zones)
  BY DEF Good
<1>2. /\ c.objects = d.objects /\ c.entries = Store(rows, d.entries)
      /\ c.zones = AfterInsert(d.zones, rows)
  <2> DEFINE b == InsertEntries(d, rows)
  <2>1. /\ b.objects = d.objects /\ b.entries = Store(rows, d.entries)
        /\ b.zones = AfterInsert(d.zones, rows)
    BY <1>1, InsertParts, Zenon
  <2>2. c = b
    OBVIOUS
  <2> HIDE DEF b
  <2> QED
    BY <2>1, <2>2
<1>3. SamePlaces(d.zones, c.zones)
  BY <1>1, <1>2, InsertCounts, CountersPlace
<1> QED
  BY <1>2, <1>3

LEMMA UpdateLeaves ==
  ASSUME NEW d, Good(d), NEW rows, NEW c, c = UpdateEntries(d, rows)
  PROVE  /\ c.entries = Store(rows, d.entries) /\ c.objects = d.objects
         /\ SamePlaces(d.zones, c.zones)
<1>1. IsDb(d) /\ GoodZones(d.zones)
  BY DEF Good
<1>2. /\ c.objects = d.objects /\ c.entries = Store(rows, d.entries)
      /\ c.zones = AfterUpdate(d.zones, [i \in DOMAIN rows |-> d.entries[i]], rows)
  <2> DEFINE b == UpdateEntries(d, rows)
  <2>1. /\ b.objects = d.objects /\ b.entries = Store(rows, d.entries)
        /\ b.zones = AfterUpdate(d.zones, [i \in DOMAIN rows |-> d.entries[i]], rows)
    BY <1>1, UpdateParts, Zenon
  <2>2. c = b
    OBVIOUS
  <2> HIDE DEF b
  <2> QED
    BY <2>1, <2>2
<1>3. SamePlaces(d.zones, c.zones)
  BY <1>1, <1>2, UpdateCounts, CountersPlace
<1> QED
  BY <1>2, <1>3

LEMMA DeleteLeaves ==
  ASSUME NEW d, Good(d), NEW S, NEW c, c = DeleteEntries(d, S)
  PROVE  /\ c.entries = [i \in DOMAIN d.entries \ S |-> d.entries[i]] /\ c.objects = d.objects
         /\ SamePlaces(d.zones, c.zones)
<1>1. IsDb(d) /\ GoodZones(d.zones)
  BY DEF Good
<1>2. /\ c.objects = d.objects /\ c.entries = [i \in DOMAIN d.entries \ S |-> d.entries[i]]
      /\ c.zones = AfterDelete(d.zones, [i \in S |-> d.entries[i]])
  <2> DEFINE b == DeleteEntries(d, S)
  <2>1. /\ b.objects = d.objects /\ b.entries = [i \in DOMAIN d.entries \ S |-> d.entries[i]]
        /\ b.zones = AfterDelete(d.zones, [i \in S |-> d.entries[i]])
    BY <1>1, DeleteParts, Zenon
  <2>2. c = b
    OBVIOUS
  <2> HIDE DEF b
  <2> QED
    BY <2>1, <2>2
<1>3. SamePlaces(d.zones, c.zones)
  BY <1>1, <1>2, DeleteCounts, CountersPlace
<1> QED
  BY <1>2, <1>3

LEMMA DeleteZonesLeaves ==
  ASSUME NEW d, Good(d), NEW Z, NEW c, c = DeleteZones(d, Z)
  PROVE  /\ c.entries = d.entries /\ c.objects = d.objects
         /\ c.zones = [z \in DOMAIN d.zones \ Z |-> d.zones[z]]
<1> DEFINE zs == [z \in DOMAIN d.zones \ Z |-> d.zones[z]]
<1>1. IsDb(d)
  BY DEF Good
<1>2. c = [d EXCEPT !.zones = zs]
  BY Zenon DEF DeleteZones
<1> HIDE DEF zs
<1>3. c.zones = zs /\ c.entries = d.entries /\ c.objects = d.objects
  BY <1>1, <1>2 DEF IsDb
<1> QED
  BY <1>3 DEF zs

\* The objects that entries refer to stay.
LEMMA ReclaimLeaves ==
  ASSUME NEW d, Good(d), NEW c, c = Reclaim(d)
  PROVE  /\ c.entries = d.entries /\ c.zones = d.zones
         /\ \A i \in DOMAIN d.entries : d.entries[i].obj # None =>
                c.objects[d.entries[i].obj] = d.objects[d.entries[i].obj]
<1> DEFINE live == {s \in d.segments : Referenced(d, s)}
           kept == {o \in DOMAIN d.objects : d.objects[o].segment \notin d.segments \ live}
           os == [o \in kept |-> d.objects[o]]
<1>1. IsDb(d)
  BY DEF Good
<1>2. c = [d EXCEPT !.segments = live, !.objects = os]
  BY Zenon DEF Reclaim
<1>3. c.objects = os /\ c.entries = d.entries /\ c.zones = d.zones
  <2> HIDE DEF live, os
  <2> QED
    BY <1>1, <1>2 DEF IsDb
<1>4. ASSUME NEW i \in DOMAIN d.entries, d.entries[i].obj # None
      PROVE  os[d.entries[i].obj] = d.objects[d.entries[i].obj]
  <2> DEFINE o == d.entries[i].obj
  <2>1. o \in DOMAIN d.objects
    BY <1>4 DEF Good, GoodEntries, GoodRow
  <2>2. o \in kept
    BY <2>1 DEF Referenced
  <2> QED
    BY <2>2
<1> HIDE DEF os
<1> QED
  BY <1>3, <1>4

\* Blockization moves the text of the files of one zone to new objects.
Blockized(d, z, f, c) ==
    /\ DOMAIN c.entries = DOMAIN d.entries
    /\ \A i \in Unblocked(d, z) :
         /\ c.entries[i] = [d.entries[i] EXCEPT !.obj = f[i], !.body = EmptyText]
         /\ f[i] # None /\ c.objects[f[i]].data = d.entries[i].body
    /\ \A i \in DOMAIN d.entries \ Unblocked(d, z) : c.entries[i] = d.entries[i]
    /\ \A o \in DOMAIN d.objects : c.objects[o] = d.objects[o]
    /\ SamePlaces(d.zones, c.zones)

LEMMA BlockizeLeaves ==
  ASSUME NEW d, Good(d), NEW z, NEW f \in Mappings(d, z), NEW seg, seg \in d.segments \cup {None},
         NEW c, c = Blockize(d, z, f, seg)
  PROVE  Blockized(d, z, f, c)
<1> DEFINE U == Unblocked(d, z)
           rows == [i \in U |-> [d.entries[i] EXCEPT !.obj = f[i], !.body = EmptyText]]
           made == [o \in {f[i] : i \in U} |->
                      [data |-> d.entries[CHOOSE i \in U : f[i] = o].body, segment |-> seg]]
           b == [d EXCEPT !.objects = Store(made, d.objects)]
<1>1. c = UpdateEntries(b, rows)
  BY Zenon DEF Blockize
<1>2. U \subseteq DOMAIN d.entries /\ \A i \in U : d.entries[i].body \in Text
  BY DEF Unblocked
<1>3. /\ \A i \in U : f[i] \in FreshObjects(d)
      /\ \A i, j \in U : f[i] = f[j] => i = j
  <2> HIDE DEF U
  <2>1. f \in [U -> FreshObjects(d)] /\ IsInjective(f)
    BY DEF Mappings, Injection, U
  <2> QED
    BY <2>1 DEF IsInjective
<1>4. \A i \in U : (CHOOSE j \in U : f[j] = f[i]) = i
  BY <1>3
<1>5. /\ DOMAIN made \subseteq FreshObjects(d)
      /\ \A i \in U : f[i] \in DOMAIN made /\ made[f[i]] = [data |-> d.entries[i].body, segment |-> seg]
  BY <1>3, <1>4
<1>6. ASSUME NEW o \in DOMAIN made
      PROVE  /\ made[o] \in ObjectRows
             /\ made[o].segment # None => made[o].segment \in d.segments
  <2>1. PICK i \in U : o = f[i]
    OBVIOUS
  <2>2. made[o] = [data |-> d.entries[i].body, segment |-> seg]
    BY <1>5, <2>1
  <2> HIDE DEF made, U
  <2> QED
    BY <1>2, <2>2 DEF ObjectRows, Good
<1> HIDE DEF made
<1>7. Good(b)
  BY <1>5, <1>6, MadeGood
<1>8. b.entries = d.entries /\ b.zones = d.zones /\ b.objects = Store(made, d.objects)
  BY WithObjects DEF Good
<1>9. DOMAIN rows = U /\ \A i \in U : rows[i] = [d.entries[i] EXCEPT !.obj = f[i], !.body = EmptyText]
  OBVIOUS
<1> HIDE DEF b, rows, U
<1>10. /\ c.entries = Store(rows, d.entries) /\ c.objects = Store(made, d.objects)
       /\ SamePlaces(d.zones, c.zones)
  BY <1>1, <1>7, <1>8, UpdateLeaves
<1>11. /\ DOMAIN c.entries = DOMAIN d.entries
       /\ \A i \in U : c.entries[i] = rows[i]
       /\ \A i \in DOMAIN d.entries \ U : c.entries[i] = d.entries[i]
  <2> DEFINE after == Store(rows, d.entries)
  <2>1. /\ DOMAIN after = DOMAIN rows \cup DOMAIN d.entries
        /\ \A i \in DOMAIN rows : after[i] = rows[i]
        /\ \A i \in DOMAIN d.entries \ DOMAIN rows : after[i] = d.entries[i]
    BY StoreParts
  <2>2. c.entries = after
    BY <1>10
  <2> HIDE DEF after
  <2> QED
    BY <1>2, <1>9, <2>1, <2>2
<1>12. /\ \A o \in DOMAIN made : c.objects[o] = made[o]
       /\ \A o \in DOMAIN d.objects : c.objects[o] = d.objects[o]
  <2>1. DOMAIN made \cap DOMAIN d.objects = {}
    BY <1>5 DEF FreshObjects
  <2> DEFINE after == Store(made, d.objects)
  <2>2. /\ DOMAIN after = DOMAIN made \cup DOMAIN d.objects
        /\ \A i \in DOMAIN made : after[i] = made[i]
        /\ \A i \in DOMAIN d.objects \ DOMAIN made : after[i] = d.objects[i]
    BY StoreParts
  <2>3. c.objects = after
    BY <1>10
  <2> HIDE DEF after
  <2> QED
    BY <2>1, <2>2, <2>3
<1>13. ASSUME NEW i \in U
       PROVE  f[i] # None /\ c.objects[f[i]].data = d.entries[i].body
  <2>1. c.objects[f[i]] = [data |-> d.entries[i].body, segment |-> seg]
    BY <1>5, <1>12
  <2>2. f[i] \in ObjectId
    BY <1>3 DEF FreshObjects
  <2> QED
    BY <2>1, <2>2, NoneAssumption
<1> QED
  BY <1>9, <1>10, <1>11, <1>12, <1>13 DEF U, Blockized


-----------------------------------------------------------------------------
(* Generations.                                                            *)

\* The same row with the same content, in both states.
SameFile(c, d, i) ==
    /\ d.entries[i].zone = c.entries[i].zone /\ d.entries[i].rel = c.entries[i].rel
    /\ Contents(d, i) = Contents(c, i)

\* From c to d no row changes its kind, and each row that changes its place
\* or its content has a higher generation, if there is one.
Tracks(c, d) ==
    \A i \in DOMAIN c.entries \cap DOMAIN d.entries :
        /\ d.entries[i].kind = c.entries[i].kind
        /\ d.entries[i].gen >= c.entries[i].gen
        /\ \/ SameFile(c, d, i)
           \/ d.entries[i].gen > c.entries[i].gen
           \/ c.entries[i].gen = MaxGeneration

Generations(d) == \A i \in DOMAIN d.entries : d.entries[i].gen \in 1..MaxGeneration

LEMMA GoodGenerations ==
  ASSUME NEW d, Good(d)
  PROVE  Generations(d)
BY DEF Good, GoodEntries, GoodRow, Generations

\* One part of a call after another.
LEMMA TracksThen ==
  ASSUME NEW a, NEW b, NEW c, Tracks(a, b), Tracks(b, c),
         Generations(a), Generations(b), Generations(c),
         DOMAIN a.entries \cap DOMAIN c.entries \subseteq DOMAIN b.entries
  PROVE  Tracks(a, c)
<1>1. ASSUME NEW i \in DOMAIN a.entries \cap DOMAIN c.entries
      PROVE  /\ c.entries[i].kind = a.entries[i].kind
             /\ c.entries[i].gen >= a.entries[i].gen
             /\ \/ SameFile(a, c, i)
                \/ c.entries[i].gen > a.entries[i].gen
                \/ a.entries[i].gen = MaxGeneration
  <2> DEFINE f == a.entries[i].gen
             g == b.entries[i].gen
             h == c.entries[i].gen
  <2>1. i \in DOMAIN b.entries
    OBVIOUS
  <2>2. f \in 1..MaxGeneration /\ g \in 1..MaxGeneration /\ h \in 1..MaxGeneration
    BY <2>1 DEF Generations
  <2>3. /\ b.entries[i].kind = a.entries[i].kind /\ g >= f
        /\ SameFile(a, b, i) \/ g > f \/ f = MaxGeneration
    BY <2>1 DEF Tracks
  <2>4. /\ c.entries[i].kind = b.entries[i].kind /\ h >= g
        /\ SameFile(b, c, i) \/ h > g \/ g = MaxGeneration
    BY <2>1 DEF Tracks
  <2>5. SameFile(a, b, i) /\ SameFile(b, c, i) => SameFile(a, c, i)
    BY DEF SameFile
  <2> HIDE DEF f, g, h
  <2>6. h >= f /\ (SameFile(a, c, i) \/ h > f \/ f = MaxGeneration)
    BY <2>2, <2>3, <2>4, <2>5, GenerationAssumption
  <2> QED
    BY <2>3, <2>4, <2>6 DEF f, h
<1> QED
  BY <1>1 DEF Tracks

\* Rows that stay as they are, with the objects they refer to.
Keeps(c, d) ==
    \A i \in DOMAIN c.entries \cap DOMAIN d.entries :
        /\ d.entries[i] = c.entries[i]
        /\ c.entries[i].obj # None =>
              d.objects[c.entries[i].obj] = c.objects[c.entries[i].obj]

LEMMA KeepsTracks ==
  ASSUME NEW c, Good(c), NEW d, Keeps(c, d)
  PROVE  Tracks(c, d)
<1>1. ASSUME NEW i \in DOMAIN c.entries \cap DOMAIN d.entries
      PROVE  SameFile(c, d, i) /\ d.entries[i].kind = c.entries[i].kind
             /\ d.entries[i].gen >= c.entries[i].gen
  <2>1. c.entries[i].gen \in 1..MaxGeneration
    BY GoodGenerations DEF Generations
  <2>2. d.entries[i] = c.entries[i]
    BY DEF Keeps
  <2>3. Contents(d, i) = Contents(c, i)
    <3>1. CASE c.entries[i].obj = None
      BY <2>2, <3>1 DEF Contents
    <3>2. CASE c.entries[i].obj # None
      <4>1. d.objects[c.entries[i].obj] = c.objects[c.entries[i].obj]
        BY <3>2 DEF Keeps
      <4> QED
        BY <2>2, <3>2, <4>1 DEF Contents
    <3> QED
      BY <3>1, <3>2
  <2> QED
    BY <2>1, <2>2, <2>3, GenerationAssumption DEF SameFile
<1> QED
  BY <1>1 DEF Tracks

LEMMA InsertTracks ==
  ASSUME NEW d, Good(d), NEW rows, DOMAIN rows \subseteq FreshNodes(d),
         NEW c, c = InsertEntries(d, rows)
  PROVE  Tracks(d, c)
<1>1. c.entries = Store(rows, d.entries) /\ c.objects = d.objects
  BY InsertLeaves
<1>2. DOMAIN rows \cap DOMAIN d.entries = {}
  BY DEF FreshNodes
<1>3. \A i \in DOMAIN d.entries : c.entries[i] = d.entries[i]
  BY <1>1, <1>2 DEF Store
<1> QED
  BY <1>1, <1>3, KeepsTracks DEF Keeps

LEMMA DeleteTracks ==
  ASSUME NEW d, Good(d), NEW S, NEW c, c = DeleteEntries(d, S)
  PROVE  Tracks(d, c) /\ DOMAIN c.entries \subseteq DOMAIN d.entries
<1>1. c.entries = [i \in DOMAIN d.entries \ S |-> d.entries[i]] /\ c.objects = d.objects
  BY DeleteLeaves
<1> QED
  BY <1>1, KeepsTracks DEF Keeps

LEMMA ReclaimTracks ==
  ASSUME NEW d, Good(d), NEW c, c = Reclaim(d)
  PROVE  Tracks(d, c) /\ c.entries = d.entries
BY ReclaimLeaves, KeepsTracks DEF Keeps

\* An update that gives every row that it writes its next generation.
LEMMA UpdateTracks ==
  ASSUME NEW d, Good(d), NEW rows, DOMAIN rows \subseteq DOMAIN d.entries,
         \A i \in DOMAIN rows : /\ rows[i].kind = d.entries[i].kind
                                /\ rows[i].gen = Bump(d.entries[i].gen),
         NEW c, c = UpdateEntries(d, rows)
  PROVE  Tracks(d, c) /\ DOMAIN c.entries = DOMAIN d.entries
<1> DEFINE after == Store(rows, d.entries)
<1>1. c.entries = after /\ c.objects = d.objects
  BY UpdateLeaves
<1>2. /\ DOMAIN after = DOMAIN d.entries
      /\ \A i \in DOMAIN rows : after[i] = rows[i]
      /\ \A i \in DOMAIN d.entries \ DOMAIN rows : after[i] = d.entries[i]
  BY DEF Store
<1> HIDE DEF after
<1>3. ASSUME NEW i \in DOMAIN d.entries
      PROVE  /\ c.entries[i].kind = d.entries[i].kind
             /\ c.entries[i].gen >= d.entries[i].gen
             /\ \/ SameFile(d, c, i)
                \/ c.entries[i].gen > d.entries[i].gen
                \/ d.entries[i].gen = MaxGeneration
  <2>1. d.entries[i].gen \in 1..MaxGeneration
    BY GoodGenerations DEF Generations
  <2>2. CASE i \in DOMAIN rows
    BY <1>1, <1>2, <2>1, <2>2, GenerationAssumption DEF Bump
  <2>3. CASE i \notin DOMAIN rows
    BY <1>1, <1>2, <2>1, <2>3, GenerationAssumption DEF SameFile, Contents
  <2> QED
    BY <2>2, <2>3
<1> QED
  BY <1>1, <1>2, <1>3 DEF Tracks

\* Blocks hold what the row held.
LEMMA BlockizeTracks ==
  ASSUME NEW d, Good(d), NEW z, NEW f \in Mappings(d, z), NEW seg, seg \in d.segments \cup {None},
         NEW c, c = Blockize(d, z, f, seg)
  PROVE  Tracks(d, c) /\ DOMAIN c.entries = DOMAIN d.entries
<1>1. /\ DOMAIN c.entries = DOMAIN d.entries
      /\ \A i \in Unblocked(d, z) :
           /\ c.entries[i] = [d.entries[i] EXCEPT !.obj = f[i], !.body = EmptyText]
           /\ f[i] # None /\ c.objects[f[i]].data = d.entries[i].body
      /\ \A i \in DOMAIN d.entries \ Unblocked(d, z) : c.entries[i] = d.entries[i]
      /\ \A o \in DOMAIN d.objects : c.objects[o] = d.objects[o]
  <2>1. Blockized(d, z, f, c)
    BY BlockizeLeaves
  <2> QED
    BY <2>1 DEF Blockized
<1>2. ASSUME NEW i \in DOMAIN d.entries
      PROVE  /\ c.entries[i].kind = d.entries[i].kind
             /\ c.entries[i].gen >= d.entries[i].gen
             /\ SameFile(d, c, i)
  <2>1. /\ d.entries[i].gen \in 1..MaxGeneration /\ d.entries[i] \in EntryRows
        /\ d.entries[i].obj # None => d.entries[i].obj \in DOMAIN d.objects
    BY DEF Good, GoodEntries, GoodRow
  <2>2. CASE i \in Unblocked(d, z)
    <3> DEFINE e == d.entries[i]
               r == c.entries[i]
    <3>1. r = [e EXCEPT !.obj = f[i], !.body = EmptyText] /\ f[i] # None
          /\ c.objects[f[i]].data = e.body
      BY <1>1, <2>2
    <3>2. e.obj = None
      BY <2>2 DEF Unblocked
    <3>3. Contents(d, i) = IF e.obj = None THEN e.body ELSE d.objects[e.obj].data
      BY DEF Contents
    <3>4. Contents(c, i) = IF r.obj = None THEN r.body ELSE c.objects[r.obj].data
      BY DEF Contents
    <3>5. e \in EntryRows /\ e.gen \in 1..MaxGeneration
      BY <2>1
    <3>6. (r.zone = e.zone /\ r.rel = e.rel /\ Contents(c, i) = Contents(d, i)) => SameFile(d, c, i)
      BY DEF SameFile
    <3> HIDE DEF e, r
    <3>7. /\ r.zone = e.zone /\ r.rel = e.rel /\ r.kind = e.kind /\ r.gen = e.gen
          /\ r.obj = f[i]
      BY <3>1, <3>5 DEF EntryRows
    <3>8. Contents(c, i) = Contents(d, i)
      BY <3>1, <3>2, <3>3, <3>4, <3>7
    <3>9. r.gen >= e.gen
      BY <3>5, <3>7, GenerationAssumption
    <3> QED
      BY <3>6, <3>7, <3>8, <3>9 DEF e, r
  <2>3. CASE i \notin Unblocked(d, z)
    <3>1. c.entries[i] = d.entries[i]
      BY <1>1, <2>3
    <3>2. Contents(c, i) = Contents(d, i)
      <4>1. CASE d.entries[i].obj = None
        BY <3>1, <4>1 DEF Contents
      <4>2. CASE d.entries[i].obj # None
        <5>1. c.objects[d.entries[i].obj] = d.objects[d.entries[i].obj]
          BY <1>1, <2>1, <4>2
        <5> QED
          BY <3>1, <4>2, <5>1 DEF Contents
      <4> QED
        BY <4>1, <4>2
    <3>3. SameFile(d, c, i)
      BY <3>1, <3>2 DEF SameFile
    <3> QED
      BY <2>1, <3>1, <3>3, GenerationAssumption
  <2> QED
    BY <2>2, <2>3
<1> QED
  BY <1>1, <1>2 DEF Tracks

\* What is committed is what the call built.
TracksNext ==
    \A i \in DOMAIN entries \cap DOMAIN entries' :
        /\ entries'[i].kind = entries[i].kind
        /\ \/ /\ entries'[i].zone = entries[i].zone /\ entries'[i].rel = entries[i].rel
              /\ Contents(db, i)' = Contents(db, i)
           \/ entries'[i].gen > entries[i].gen \/ entries[i].gen = MaxGeneration

LEMMA CommitTracks ==
  ASSUME NEW d, Tracks(db, d), Commit(d)
  PROVE  TracksNext
<1>1. /\ entries' = d.entries /\ objects' = d.objects
      /\ db.entries = entries /\ db'.entries = entries' /\ db'.objects = objects'
  BY DEF Commit, db
<1>2. \A i : Contents(db, i)' = Contents(d, i)
  BY <1>1 DEF Contents
<1> QED
  BY <1>1, <1>2 DEF Tracks, TracksNext, SameFile

LEMMA WriteInlineTracks ==
  ASSUME NEW d, Good(d), NEW p, NEW body, NEW i \in UpsertIds(d, p),
         NEW c, c = WriteInline(d, p, body, i)
  PROVE  Tracks(d, c) /\ DOMAIN d.entries \subseteq DOMAIN c.entries
<1>1. CASE i \in DOMAIN d.entries
  <2> DEFINE e == d.entries[i]
             r == [e EXCEPT !.body = body, !.obj = None, !.size = Size[body],
                            !.gen = Bump(e.gen)]
             rows == OneRow(i, r)
  <2>1. c = UpdateEntries(d, rows)
    BY <1>1, Zenon DEF WriteInline
  <2>2. e \in EntryRows
    BY <1>1 DEF Good, GoodEntries, GoodRow
  <2>3. DOMAIN rows = {i} /\ rows[i] = r
    BY OneRowParts
  <2> HIDE DEF e, rows
  <2>4. r.kind = e.kind /\ r.gen = Bump(e.gen)
    BY <2>2 DEF EntryRows
  <2> HIDE DEF r
  <2>5. /\ DOMAIN rows \subseteq DOMAIN d.entries
        /\ \A k \in DOMAIN rows : /\ rows[k].kind = d.entries[k].kind
                                  /\ rows[k].gen = Bump(d.entries[k].gen)
    BY <1>1, <2>3, <2>4 DEF e
  <2> QED
    BY <2>1, <2>5, UpdateTracks
<1>2. CASE i \notin DOMAIN d.entries
  <2> DEFINE rows == OneRow(i, EntryRow(d, p, File, body))
             row == EntryRow(d, p, Dir, None)
             old == EntriesAt(d, row.zone, row.rel)
  <2>1. c = InsertEntries(d, rows)
    BY <1>2, Zenon DEF WriteInline
  <2>2. old \subseteq DOMAIN d.entries
    BY DEF EntriesAt
  <2>3. UpsertIds(d, p) = IF old = {} THEN FreshNodes(d) ELSE {k \in old : d.entries[k].kind = File}
    BY Zenon DEF UpsertIds
  <2>4. DOMAIN rows = {i}
    BY OneRowParts
  <2> HIDE DEF old, rows
  <2>5. i \in FreshNodes(d)
    BY <1>2, <2>2, <2>3
  <2>6. Tracks(d, c)
    BY <2>1, <2>4, <2>5, InsertTracks
  <2>7. c.entries = Store(rows, d.entries)
    BY <2>1, InsertLeaves
  <2> QED
    BY <2>6, <2>7 DEF Store
<1> QED
  BY <1>1, <1>2


\* Between them, the parts of a call that end in a commit.
LEMMA InsertCommitTracks ==
  ASSUME Good(db), NEW rows, DOMAIN rows \subseteq FreshNodes(db),
         Commit(InsertEntries(db, rows))
  PROVE  TracksNext
<1> DEFINE c == InsertEntries(db, rows)
<1>1. Tracks(db, c)
  BY InsertTracks
<1>2. Commit(c)
  OBVIOUS
<1> HIDE DEF c
<1> QED
  BY <1>1, <1>2, CommitTracks

LEMMA UpdateCommitTracks ==
  ASSUME Good(db), NEW rows, DOMAIN rows \subseteq DOMAIN db.entries,
         \A i \in DOMAIN rows : /\ rows[i].kind = db.entries[i].kind
                                /\ rows[i].gen = Bump(db.entries[i].gen),
         Commit(UpdateEntries(db, rows))
  PROVE  TracksNext
<1> DEFINE c == UpdateEntries(db, rows)
<1>1. Tracks(db, c)
  BY UpdateTracks
<1>2. Commit(c)
  OBVIOUS
<1> HIDE DEF c
<1> QED
  BY <1>1, <1>2, CommitTracks

\* Entries that are as they were, or gone, with all objects still there.
LEMMA SameCommitTracks ==
  ASSUME Good(db), NEW c, Commit(c), c.objects = db.objects,
         \A i \in DOMAIN c.entries \cap DOMAIN db.entries : c.entries[i] = db.entries[i]
  PROVE  TracksNext
BY KeepsTracks, CommitTracks DEF Keeps

LEMMA create_volumeTracks ==
  ASSUME Good(db), create_volume
  PROVE  TracksNext
<1>1. PICK z \in FreshNodes(db) : Commit([db EXCEPT !.zones = OneRow(z, RootRow)])
  BY DEF create_volume
<1> DEFINE zs == OneRow(z, RootRow)
           c == [db EXCEPT !.zones = zs]
<1> HIDE DEF zs
<1>2. c.entries = db.entries /\ c.objects = db.objects
  BY WithZones DEF Good
<1> HIDE DEF c
<1>3. Commit(c)
  BY <1>1 DEF c, zs
<1> QED
  BY <1>2, <1>3, SameCommitTracks

LEMMA remove_volumeTracks ==
  ASSUME Good(db), remove_volume
  PROVE  TracksNext
<1> DEFINE cut == DeleteEntries(db, DOMAIN db.entries)
           emptied == Reclaim(cut)
           c == [emptied EXCEPT !.zones = NoRows, !.objects = NoRows, !.segments = {}]
<1>1. Commit(c)
  BY Zenon DEF remove_volume, db
<1>2. Good(cut) /\ cut.entries = [i \in DOMAIN db.entries \ DOMAIN db.entries |-> db.entries[i]]
  BY DeleteGood
<1> HIDE DEF cut
<1>3. Good(emptied) /\ emptied.entries = cut.entries
  BY <1>2, ReclaimGood
<1> HIDE DEF emptied
<1>4. c.entries = emptied.entries
  BY <1>3 DEF Good, IsDb
<1> HIDE DEF c
<1>5. DOMAIN c.entries = {}
  BY <1>2, <1>3, <1>4
<1> QED
  BY <1>1, <1>5, CommitTracks DEF Tracks

LEMMA mkdirTracks ==
  ASSUME Good(db), NEW p \in Paths, mkdir(p)
  PROVE  TracksNext
<1>1. PICK i \in FreshNodes(db) : Commit(InsertEntries(db, OneRow(i, EntryRow(db, p, Dir, None))))
  BY DEF mkdir
<1>2. DOMAIN OneRow(i, EntryRow(db, p, Dir, None)) \subseteq FreshNodes(db)
  BY DEF OneRow
<1> QED
  BY <1>1, <1>2, InsertCommitTracks

LEMMA DirRowsTracks ==
  ASSUME Good(db), NEW P, NEW f \in Injection(P, FreshNodes(db)),
         Commit(InsertEntries(db, DirRows(db, P, f)))
  PROVE  TracksNext
<1>1. DOMAIN DirRows(db, P, f) \subseteq FreshNodes(db)
  BY DEF DirRows, Injection
<1> QED
  BY <1>1, InsertCommitTracks

LEMMA mkdir_manyTracks ==
  ASSUME Good(db), NEW P \in Batches, mkdir_many(P)
  PROVE  TracksNext
<1>1. PICK f \in Injection(P, FreshNodes(db)) : Commit(InsertEntries(db, DirRows(db, P, f)))
  BY DEF mkdir_many
<1> QED
  BY <1>1, DirRowsTracks

LEMMA mkdir_parentsTracks ==
  ASSUME Good(db), NEW P \in Batches, mkdir_parents(P)
  PROVE  TracksNext
<1> DEFINE missing == {q \in UNION {Prefixes(p) : p \in P} : KindOf(db, q) = None}
<1>1. PICK f \in Injection(missing, FreshNodes(db)) :
        Commit(InsertEntries(db, DirRows(db, missing, f)))
  BY Zenon DEF mkdir_parents
<1> HIDE DEF missing
<1> QED
  BY <1>1, DirRowsTracks

LEMMA write_fileTracks ==
  ASSUME Good(db), NEW p \in Paths, NEW body \in Data, write_file(p, body)
  PROVE  TracksNext
<1>1. PICK i \in UpsertIds(db, p) :
        LET written == WriteInline(db, p, body, i)
            z == LocateZone(written, p)
        IN \E f \in Mappings(written, z) : Commit(Reclaim(Blockize(written, z, f, None)))
  BY Zenon DEF write_file
<1> DEFINE written == WriteInline(db, p, body, i)
           z == LocateZone(written, p)
<1>2. PICK f \in Mappings(written, z) : Commit(Reclaim(Blockize(written, z, f, None)))
  BY <1>1, Zenon
<1> DEFINE stored == Blockize(written, z, f, None)
           c == Reclaim(stored)
<1>3. Good(written)
  BY WriteInlineGood, PathParts DEF write_file
<1>4. Tracks(db, written) /\ DOMAIN db.entries \subseteq DOMAIN written.entries
  BY WriteInlineTracks
<1> HIDE DEF written, z
<1>5. Good(stored)
  BY <1>3, BlockizeGood
<1>6. Tracks(written, stored) /\ DOMAIN stored.entries = DOMAIN written.entries
  <2>1. None \in written.segments \cup {None}
    OBVIOUS
  <2> QED
    BY <1>3, <2>1, BlockizeTracks
<1> HIDE DEF stored
<1>7. Good(c) /\ Tracks(stored, c) /\ c.entries = stored.entries
  BY <1>5, ReclaimGood, ReclaimTracks
<1>8. Commit(c)
  BY <1>2 DEF stored
<1> HIDE DEF c
<1>9. Generations(db) /\ Generations(written) /\ Generations(stored) /\ Generations(c)
  BY <1>3, <1>5, <1>7, GoodGenerations
<1>10. Tracks(db, stored)
  BY <1>4, <1>6, <1>9, TracksThen
<1>11. Tracks(db, c)
  BY <1>4, <1>6, <1>7, <1>9, <1>10, TracksThen
<1> QED
  BY <1>8, <1>11, CommitTracks

LEMMA import_textTracks ==
  ASSUME Good(db), NEW p \in Paths, NEW body \in Text, import_text(p, body)
  PROVE  TracksNext
<1>1. PICK s \in FreshSegments(db), o \in FreshObjects(db), i \in UpsertIds(db, p) :
        LET stored == [db EXCEPT !.segments = segments \cup {s},
                                 !.objects = Store(OneRow(o, [data |-> body, segment |-> s]), objects)]
            written == WriteInline(stored, p, EmptyText, i)
        IN Commit(UpdateEntries(written, OneRow(i, [written.entries[i] EXCEPT
                                                 !.obj = o, !.size = Size[body]])))
  BY Zenon DEF import_text
<1> DEFINE b == [db EXCEPT !.segments = db.segments \cup {s}]
           x == [data |-> body, segment |-> s]
           made == OneRow(o, x)
           stored == [b EXCEPT !.objects = Store(made, b.objects)]
           written == WriteInline(stored, p, EmptyText, i)
           e == written.entries[i]
           r == [e EXCEPT !.obj = o, !.size = Size[body]]
           rows == OneRow(i, r)
           c == UpdateEntries(written, rows)
<1>2. s \in SegmentId /\ o \in ObjectId /\ o \notin DOMAIN db.objects
  BY DEF FreshSegments, FreshObjects
<1>3. Good(b) /\ b.segments = db.segments \cup {s} /\ b.objects = db.objects
      /\ b.entries = db.entries /\ b.zones = db.zones
  BY <1>2, SegmentsGood, WithSegments DEF Good
<1>4. Commit(c)
  BY <1>1, <1>3, Zenon DEF db
<1>5. /\ DOMAIN made = {o} /\ made[o] = x
      /\ x \in ObjectRows /\ x.segment \in b.segments
  BY <1>2, <1>3, OneRowParts DEF ObjectRows
<1> HIDE DEF x, made
<1>6. Good(stored)
  <2>1. DOMAIN made \subseteq FreshObjects(b)
    BY <1>2, <1>3, <1>5 DEF FreshObjects
  <2> HIDE DEF b
  <2> QED
    BY <1>3, <1>5, <2>1, MadeGood
<1> HIDE DEF b
<1>7. /\ stored.zones = db.zones /\ stored.entries = db.entries
      /\ stored.objects = Store(made, b.objects)
  BY <1>3, WithObjects DEF Good
<1>8. \A k \in DOMAIN db.objects : stored.objects[k] = db.objects[k]
  BY <1>2, <1>3, <1>5, <1>7 DEF Store
<1> HIDE DEF stored
<1>9. ParentIsDir(stored, p) /\ i \in UpsertIds(stored, p)
  BY <1>7, SameLookups DEF import_text
<1>10. EmptyText \in Data
  BY ContentAssumption DEF Data
<1>11. /\ Good(written) /\ i \in DOMAIN written.entries
       /\ written.objects = stored.objects
  BY <1>6, <1>9, <1>10, WriteInlineGood, PathParts
\* The row that is written: its generation is the next one.
<1>12. ASSUME i \in DOMAIN db.entries
       PROVE  e.kind = db.entries[i].kind /\ e.gen = Bump(db.entries[i].gen)
              /\ \A k \in DOMAIN db.entries \ {i} : written.entries[k] = db.entries[k]
  <2> DEFINE old == stored.entries[i]
             n == [old EXCEPT !.body = EmptyText, !.obj = None, !.size = Size[EmptyText],
                              !.gen = Bump(old.gen)]
             one == OneRow(i, n)
  <2>1. written = UpdateEntries(stored, one)
    BY <1>7, <1>12, Zenon DEF WriteInline
  <2>2. DOMAIN one = {i} /\ one[i] = n
    BY OneRowParts
  <2>3. old = db.entries[i] /\ old \in EntryRows
    BY <1>7, <1>12 DEF Good, GoodEntries, GoodRow
  <2> HIDE DEF one, old, e, written
  <2>4. written.entries = Store(one, stored.entries)
    BY <1>6, <2>1, UpdateLeaves
  <2>5. written.entries[i] = n /\ \A k \in DOMAIN db.entries \ {i} : written.entries[k] = db.entries[k]
    BY <1>7, <1>12, <2>2, <2>4 DEF Store
  <2>6. n.kind = old.kind /\ n.gen = Bump(old.gen)
    BY <2>3 DEF EntryRows
  <2> HIDE DEF n
  <2> QED
    BY <2>3, <2>5, <2>6 DEF e
<1>13. ASSUME i \notin DOMAIN db.entries
       PROVE  \A k \in DOMAIN db.entries : written.entries[k] = db.entries[k]
  <2> DEFINE one == OneRow(i, EntryRow(stored, p, File, EmptyText))
  <2>1. written = InsertEntries(stored, one)
    BY <1>7, <1>13, Zenon DEF WriteInline
  <2>2. DOMAIN one = {i}
    BY OneRowParts
  <2> HIDE DEF one, written
  <2>3. written.entries = Store(one, stored.entries)
    BY <1>6, <2>1, InsertLeaves
  <2> QED
    BY <1>7, <1>13, <2>2, <2>3 DEF Store
<1>14. e \in EntryRows
  BY <1>11 DEF Good, GoodEntries, GoodRow
<1> HIDE DEF written, e
<1>15. r.kind = e.kind /\ r.gen = e.gen
  BY <1>14 DEF EntryRows
<1> HIDE DEF r
<1>16. DOMAIN rows = {i} /\ rows[i] = r
  BY OneRowParts
<1> HIDE DEF rows
<1>17. c.entries = Store(rows, written.entries) /\ c.objects = stored.objects
  BY <1>11, UpdateLeaves
<1> HIDE DEF c
<1>18. c.entries[i] = r /\ \A k \in DOMAIN written.entries \ {i} : c.entries[k] = written.entries[k]
  BY <1>16, <1>17 DEF Store
<1>19. \A k \in DOMAIN db.entries \ {i} : c.entries[k] = db.entries[k]
  <2>1. DOMAIN db.entries \subseteq DOMAIN written.entries
    BY <1>6, <1>7, <1>9, WriteInlineTracks DEF written
  <2> QED
    BY <1>12, <1>13, <1>18, <2>1
<1>20. ASSUME NEW k \in DOMAIN db.entries
       PROVE  /\ c.entries[k].kind = db.entries[k].kind
              /\ c.entries[k].gen >= db.entries[k].gen
              /\ \/ SameFile(db, c, k)
                 \/ c.entries[k].gen > db.entries[k].gen
                 \/ db.entries[k].gen = MaxGeneration
  <2>1. /\ db.entries[k].gen \in 1..MaxGeneration
        /\ db.entries[k].obj # None => db.entries[k].obj \in DOMAIN db.objects
    BY DEF Good, GoodEntries, GoodRow
  <2>2. CASE k = i
    <3>1. c.entries[k].kind = db.entries[k].kind /\ c.entries[k].gen = Bump(db.entries[k].gen)
      BY <1>12, <1>15, <1>18, <2>2
    <3> QED
      BY <2>1, <3>1, GenerationAssumption DEF Bump
  <2>3. CASE k # i
    <3>1. c.entries[k] = db.entries[k]
      BY <1>19, <2>3
    <3>2. Contents(c, k) = Contents(db, k)
      <4>1. CASE db.entries[k].obj = None
        BY <3>1, <4>1 DEF Contents
      <4>2. CASE db.entries[k].obj # None
        <5>1. c.objects[db.entries[k].obj] = db.objects[db.entries[k].obj]
          BY <1>8, <1>17, <2>1, <4>2
        <5> QED
          BY <3>1, <4>2, <5>1 DEF Contents
      <4> QED
        BY <4>1, <4>2
    <3> QED
      BY <2>1, <3>1, <3>2, GenerationAssumption DEF SameFile
  <2> QED
    BY <2>2, <2>3
<1>21. Tracks(db, c)
  BY <1>20 DEF Tracks
<1> QED
  BY <1>4, <1>21, CommitTracks DEF c


LEMMA BlockizeSegmentTracks ==
  ASSUME NEW d, Good(d), NEW z, NEW f \in Mappings(d, z), NEW s \in SegmentId,
         NEW c, c = BlockizeSegment(d, z, f, s)
  PROVE  Tracks(d, c) /\ DOMAIN c.entries = DOMAIN d.entries
<1> DEFINE b == [d EXCEPT !.segments = d.segments \cup {s}]
           a == [d EXCEPT !.staging = d.staging \cup {s}]
<1>1. IsDb(d)
  BY DEF Good
<1>2. CASE Unblocked(d, z) = {}
  <2>1. c = a
    BY <1>2, Zenon DEF BlockizeSegment
  <2>2. a.entries = d.entries /\ a.objects = d.objects
    BY <1>1, WithStaging
  <2> HIDE DEF a
  <2>3. c.entries = d.entries /\ c.objects = d.objects
    BY <2>1, <2>2
  <2> QED
    BY <2>3, KeepsTracks DEF Keeps
<1>3. CASE Unblocked(d, z) # {}
  <2>1. c = Blockize(b, z, f, s)
    BY <1>3, Zenon DEF BlockizeSegment
  <2>2. Good(b)
    BY SegmentsGood
  <2>3. /\ b.entries = d.entries /\ b.zones = d.zones /\ b.objects = d.objects
        /\ b.segments = d.segments \cup {s}
    BY <1>1, WithSegments
  <2> HIDE DEF b
  <2>4. Mappings(b, z) = Mappings(d, z)
    <3>1. Unblocked(b, z) = Unblocked(d, z)
      BY <2>3, Zenon DEF Unblocked
    <3>2. FreshObjects(b) = FreshObjects(d)
      BY <2>3, Zenon DEF FreshObjects
    <3> QED
      BY <3>1, <3>2 DEF Mappings
  <2>5. s \in b.segments \cup {None} /\ f \in Mappings(b, z)
    BY <2>3, <2>4
  <2>6. Tracks(b, c) /\ DOMAIN c.entries = DOMAIN b.entries
    BY <2>1, <2>2, <2>5, BlockizeTracks
  <2> QED
    BY <2>3, <2>6 DEF Tracks, SameFile, Contents
<1> QED
  BY <1>2, <1>3

Grows(c, d) == Tracks(c, d) /\ DOMAIN c.entries \subseteq DOMAIN d.entries

LEMMA ImportZoneTracks ==
  ASSUME NEW d, Good(d), NEW p \in Seq(Names), ParentIsDir(d, p), NEW tree,
         DOMAIN d.zones # {}, NEW z \in FreshNodes(d),
         NEW f \in Injection(DOMAIN tree \ {<<>>}, FreshNodes(d) \ {z})
  PROVE  Grows(d, ImportZone(d, p, tree, z, f))
<1> DEFINE c == ImportZone(d, p, tree, z, f)
           made == [d EXCEPT !.zones = Store(OneRow(z, ZoneRow(d, p)), d.zones)]
           below == DOMAIN tree \ {<<>>}
           row(r) == [zone |-> z, rel |-> r, dir |-> Front(r), name |-> Last(r),
                      kind |-> tree[r].kind, body |-> tree[r].body, obj |-> None,
                      size |-> IF tree[r].kind = File THEN Size[tree[r].body] ELSE 0,
                      gen |-> 1]
           rows == [i \in {f[r] : r \in below} |-> row(CHOOSE r \in below : f[r] = i)]
<1>1. c = InsertEntries(made, rows)
  BY Zenon DEF ImportZone
<1> HIDE DEF c
<1>2. /\ Good(made) /\ DOMAIN made.zones = DOMAIN d.zones \cup {z}
      /\ made.entries = d.entries /\ made.objects = d.objects
  <2>1. IsNewZone(ZoneRow(d, p))
    BY ParentParts, ZoneRowGood DEF IsNewZone
  <2> QED
    BY <2>1, AttachGood, ZenonT(60)
<1> HIDE DEF made
<1>3. \A r \in below : f[r] \in FreshNodes(d) \ {z}
  BY DEF Injection
<1>4. DOMAIN rows \subseteq FreshNodes(made)
  BY <1>2, <1>3 DEF FreshNodes
<1> HIDE DEF rows
<1>5. Tracks(made, c) /\ c.entries = Store(rows, made.entries)
  BY <1>1, <1>2, <1>4, InsertTracks, InsertLeaves
<1>6. DOMAIN d.entries \subseteq DOMAIN c.entries
  BY <1>2, <1>5 DEF Store
<1>7. Tracks(d, c)
  BY <1>2, <1>5 DEF Tracks, SameFile, Contents
<1>8. Grows(d, c)
  BY <1>6, <1>7 DEF Grows
<1> QED
  BY <1>8 DEF c

LEMMA importTracks ==
  ASSUME Good(db), NEW p \in Paths, NEW tree \in Trees, import(p, tree)
  PROVE  TracksNext
<1>1. PICK s \in FreshSegments(db), n \in FreshNodes(db) :
        \E f \in Injection(DOMAIN tree \ {<<>>}, FreshNodes(db) \ {n}) :
            LET root == tree[<<>>]
                inserted ==
                  IF root.kind = Dir THEN ImportZone(db, p, tree, n, f)
                  ELSE InsertEntries(db, OneRow(n, EntryRow(db, p, root.kind, root.body)))
                z == LocateZone(inserted, p)
            IN \E g \in Mappings(inserted, z) : Commit(BlockizeSegment(inserted, z, g, s))
  BY Zenon DEF import
<1>2. PICK f \in Injection(DOMAIN tree \ {<<>>}, FreshNodes(db) \ {n}) :
            LET root == tree[<<>>]
                inserted ==
                  IF root.kind = Dir THEN ImportZone(db, p, tree, n, f)
                  ELSE InsertEntries(db, OneRow(n, EntryRow(db, p, root.kind, root.body)))
                z == LocateZone(inserted, p)
            IN \E g \in Mappings(inserted, z) : Commit(BlockizeSegment(inserted, z, g, s))
  BY <1>1, Zenon
<1> DEFINE k == tree[<<>>].kind
           b == tree[<<>>].body
           inserted == IF k = Dir THEN ImportZone(db, p, tree, n, f)
                       ELSE InsertEntries(db, OneRow(n, EntryRow(db, p, k, b)))
           z == LocateZone(inserted, p)
<1>3. PICK g \in Mappings(inserted, z) : Commit(BlockizeSegment(inserted, z, g, s))
  BY <1>2, Zenon
<1>4. /\ p \in Seq(Names) /\ ParentIsDir(db, p)
      /\ p # <<>> /\ ZonesOver(db, Front(p)) # {}
  BY PathParts, ParentParts DEF import
<1>5. k \in Kinds /\ b \in Data \cup {None} /\ (k = File => b \in Data)
  BY TreesAssumption DEF import, StagedWell
<1>6. DOMAIN db.zones # {}
  BY <1>4 DEF ZonesOver
<1> HIDE DEF k, b
<1>7. Good(inserted) /\ Tracks(db, inserted) /\ DOMAIN db.entries \subseteq DOMAIN inserted.entries
  <2>1. CASE k = Dir
    <3>1. inserted = ImportZone(db, p, tree, n, f)
      BY <2>1
    <3>2. Good(ImportZone(db, p, tree, n, f))
      BY <1>4, <1>6, ImportZoneGood
    <3> HIDE DEF inserted
    <3>3. Grows(db, inserted)
      BY <1>4, <1>6, <3>1, ImportZoneTracks
    <3> QED
      BY <3>1, <3>2, <3>3 DEF Grows
  <2>2. CASE k # Dir
    <3> DEFINE rows == OneRow(n, EntryRow(db, p, k, b))
    <3>1. GoodRow(DOMAIN db.zones, db.objects, EntryRow(db, p, k, b))
      BY <1>4, <1>5, EntryRowGood
    <3>2. inserted = InsertEntries(db, rows)
      BY <2>2
    <3>3. Good(InsertEntries(db, rows))
      BY <3>1, OneRowGood
    <3>4. DOMAIN rows \subseteq FreshNodes(db)
      BY DEF OneRow
    <3> HIDE DEF rows, inserted
    <3>5. Tracks(db, inserted) /\ inserted.entries = Store(rows, db.entries)
      BY <3>2, <3>4, InsertTracks, InsertLeaves
    <3> QED
      BY <3>2, <3>3, <3>5 DEF Store
  <2> QED
    BY <2>1, <2>2
<1> HIDE DEF inserted, z
<1> DEFINE c == BlockizeSegment(inserted, z, g, s)
<1>8. s \in SegmentId
  BY DEF FreshSegments
<1>9. Good(c)
  BY <1>7, <1>8, BlockizeSegmentGood
<1>10. Tracks(inserted, c) /\ DOMAIN c.entries = DOMAIN inserted.entries
  BY <1>7, <1>8, BlockizeSegmentTracks
<1>11. Commit(c)
  BY <1>3
<1> HIDE DEF c
<1>12. Generations(db) /\ Generations(inserted) /\ Generations(c)
  BY <1>7, <1>9, GoodGenerations
<1>13. Tracks(db, c)
  BY <1>7, <1>10, <1>12, TracksThen
<1> QED
  BY <1>11, <1>13, CommitTracks

LEMMA copyTracks ==
  ASSUME Good(db), NEW src \in Paths, NEW dst \in Paths, NEW recursive \in BOOLEAN,
         copy(src, dst, recursive)
  PROVE  TracksNext
<1>1. CASE CopyZone(src, dst)
  <2> DEFINE old == EntriesOf(db, {LocateZone(db, src)})
  <2>1. PICK n \in FreshNodes(db) : \E f \in Injection(old, FreshNodes(db) \ {n}) :
            LET made == [db EXCEPT !.zones = Store(OneRow(n, ZoneRow(db, dst)), zones)]
            IN Commit(InsertEntries(made, [k \in {f[i] : i \in old} |->
                    [entries[CHOOSE i \in old : f[i] = k] EXCEPT !.zone = n, !.gen = 1]]))
    BY <1>1, Zenon DEF CopyZone
  <2>2. PICK f \in Injection(old, FreshNodes(db) \ {n}) :
            LET made == [db EXCEPT !.zones = Store(OneRow(n, ZoneRow(db, dst)), zones)]
            IN Commit(InsertEntries(made, [k \in {f[i] : i \in old} |->
                    [entries[CHOOSE i \in old : f[i] = k] EXCEPT !.zone = n, !.gen = 1]]))
    BY <2>1, Zenon
  <2> DEFINE made == [db EXCEPT !.zones = Store(OneRow(n, ZoneRow(db, dst)), db.zones)]
             rows == [k \in {f[i] : i \in old} |->
                        [db.entries[CHOOSE i \in old : f[i] = k] EXCEPT !.zone = n, !.gen = 1]]
             c == InsertEntries(made, rows)
  <2>3. Commit(c)
    BY <2>2 DEF db
  <2>4. /\ Good(made) /\ DOMAIN made.zones = DOMAIN db.zones \cup {n}
        /\ made.entries = db.entries /\ made.objects = db.objects
    <3>1. DOMAIN db.zones # {} /\ IsNewZone(ZoneRow(db, dst))
      BY PathParts, ParentParts, ZoneRowGood DEF ZonesOver, IsNewZone, copy, CanPlace
    <3> QED
      BY <3>1, AttachGood, ZenonT(60)
  <2> HIDE DEF made
  <2>5. \A i \in old : f[i] \in FreshNodes(db) \ {n}
    BY DEF Injection
  <2>6. DOMAIN rows \subseteq FreshNodes(made)
    BY <2>4, <2>5 DEF FreshNodes
  <2> HIDE DEF rows
  <2>7. c.entries = Store(rows, made.entries) /\ c.objects = made.objects
    BY <2>4, InsertLeaves
  <2> HIDE DEF c
  <2>8. \A i \in DOMAIN db.entries : c.entries[i] = db.entries[i]
    BY <2>4, <2>6, <2>7 DEF Store, FreshNodes
  <2> QED
    BY <2>3, <2>4, <2>7, <2>8, SameCommitTracks
<1>2. CASE CopyEntry(src, dst, recursive)
  <2> DEFINE source == RelativePath(db, src)
             old == {i \in EntriesOf(db, {LocateZone(db, src)}) :
                       \/ entries[i].rel = source
                       \/ recursive /\ LikeBelow(source, entries[i].rel)}
  <2>1. PICK f \in Injection(old, FreshNodes(db)) :
          Commit(InsertEntries(db, [k \in {f[i] : i \in old} |->
               [Rebase(db, dst, source, entries[CHOOSE i \in old : f[i] = k]) EXCEPT !.gen = 1]]))
    BY <1>2, Zenon DEF CopyEntry
  <2> DEFINE rows == [k \in {f[i] : i \in old} |->
               [Rebase(db, dst, source, entries[CHOOSE i \in old : f[i] = k]) EXCEPT !.gen = 1]]
  <2>2. DOMAIN rows \subseteq FreshNodes(db)
    <3> HIDE DEF old
    <3> QED
      BY DEF Injection
  <2>3. Commit(InsertEntries(db, rows))
    BY <2>1
  <2> HIDE DEF rows
  <2> QED
    BY <2>2, <2>3, InsertCommitTracks
<1> QED
  BY <1>1, <1>2, Zenon DEF copy

LEMMA MoveEntryTracks ==
  ASSUME NEW d, Good(d), NEW src, NEW dst, NEW c, c = MoveEntry(d, src, dst)
  PROVE  Tracks(d, c) /\ DOMAIN c.entries = DOMAIN d.entries
<1> DEFINE source == RelativePath(d, src)
           moved == {i \in EntriesOf(d, {LocateZone(d, src)}) :
                       LikeWithin(source, d.entries[i].rel)}
           row(i) == [Rebase(d, dst, source, d.entries[i]) EXCEPT
                        !.gen = Bump(Rebase(d, dst, source, d.entries[i]).gen)]
           rows == [i \in moved |-> row(i)]
<1>1. c = UpdateEntries(d, rows)
  BY Zenon DEF MoveEntry
<1>2. moved \subseteq DOMAIN d.entries
  BY DEF EntriesOf
<1> HIDE DEF source, moved
<1>3. ASSUME NEW i \in moved
      PROVE  row(i).kind = d.entries[i].kind /\ row(i).gen = Bump(d.entries[i].gen)
  <2> DEFINE e == d.entries[i]
             rel == Append(RelativePath(d, Front(dst)), Last(dst)) \o Remainder(source, e.rel)
             zone == LocateZone(d, Front(dst))
             name == IF e.rel = source THEN Last(dst) ELSE e.name
             r == [e EXCEPT !.zone = zone, !.rel = rel, !.dir = Front(rel), !.name = name]
             g == Bump(r.gen)
  <2>1. Rebase(d, dst, source, e) = r
    BY Zenon DEF Rebase
  <2>2. e \in EntryRows
    BY <1>2 DEF Good, GoodEntries, GoodRow
  <2>3. row(i) = [r EXCEPT !.gen = g]
    BY <2>1
  <2> HIDE DEF e, rel, zone, name, row, g
  <2>4. r.kind = e.kind /\ r.gen = e.gen /\ DOMAIN r = DOMAIN e
    BY <2>2 DEF EntryRows
  <2>5. "kind" \in DOMAIN e /\ "gen" \in DOMAIN e
    BY <2>2 DEF EntryRows
  <2> HIDE DEF r
  <2>6. row(i).kind = r.kind /\ row(i).gen = g
    BY <2>3, <2>4, <2>5
  <2> QED
    BY <2>4, <2>6 DEF g, e
<1>4. DOMAIN rows = moved /\ \A i \in moved : rows[i] = row(i)
  OBVIOUS
<1> HIDE DEF rows, row
<1> QED
  BY <1>1, <1>2, <1>3, <1>4, UpdateTracks

LEMMA moveTracks ==
  ASSUME Good(db), NEW src \in Paths, NEW dst \in Paths, move(src, dst)
  PROVE  TracksNext
<1> DEFINE S == EntriesFor(db, dst)
           cleared == IF KindOf(db, dst) = None THEN db ELSE DeleteEntries(db, S)
<1>1. /\ CanPlace(db, src, dst) /\ KindOf(db, src) # None
      /\ IF RelativePath(cleared, src) = <<>>
         THEN Commit(MoveZone(cleared, src, dst))
         ELSE Commit(MoveEntry(cleared, src, dst))
  BY Zenon DEF move
<1>2. Good(cleared) /\ Tracks(db, cleared) /\ DOMAIN cleared.entries \subseteq DOMAIN db.entries
      /\ DOMAIN cleared.zones = DOMAIN db.zones
      /\ \A z \in DOMAIN db.zones : cleared.zones[z].path = db.zones[z].path
  <2>1. CASE KindOf(db, dst) = None
    <3>1. cleared = db
      BY <2>1
    <3>2. Keeps(db, db)
      BY DEF Keeps
    <3> QED
      BY <3>1, <3>2, KeepsTracks
  <2>2. CASE KindOf(db, dst) # None
    <3>1. cleared = DeleteEntries(db, S) /\ S \subseteq DOMAIN db.entries
      BY <2>2 DEF EntriesFor, EntriesAt
    <3> HIDE DEF S, cleared
    <3>2. Good(cleared) /\ SamePaths(db.zones, cleared.zones)
      BY <3>1, DeleteGood
    <3>3. Tracks(db, cleared) /\ DOMAIN cleared.entries \subseteq DOMAIN db.entries
      BY <3>1, DeleteTracks
    <3> QED
      BY <3>2, <3>3 DEF SamePaths
  <2> QED
    BY <2>1, <2>2
<1> HIDE DEF cleared
<1>3. /\ src \in Seq(Names) /\ dst \in Seq(Names) /\ src # <<>> /\ dst # <<>>
      /\ ZonesOver(db, src) # {} /\ ZonesOver(db, Front(dst)) # {}
  BY <1>1, PathParts, DirIsOver, ParentParts DEF CanPlace
<1>4. ZonesOver(cleared, src) # {} /\ ZonesOver(cleared, Front(dst)) # {}
  BY <1>2, <1>3 DEF ZonesOver
<1>5. CASE RelativePath(cleared, src) = <<>>
  <2> DEFINE c == MoveZone(cleared, src, dst)
             zs == c.zones
  <2>1. c.entries = cleared.entries /\ c.objects = cleared.objects
    <3>1. \E ys : c = [cleared EXCEPT !.zones = ys]
      BY Zenon DEF MoveZone
    <3> HIDE DEF c
    <3>2. PICK ys : c = [cleared EXCEPT !.zones = ys]
      BY <3>1
    <3> QED
      BY <1>2, <3>2 DEF Good, IsDb
  <2>2. Commit(c)
    BY <1>1, <1>5
  <2> HIDE DEF c
  <2>3. Tracks(db, c)
    BY <1>2, <2>1 DEF Tracks, SameFile, Contents
  <2> QED
    BY <2>2, <2>3, CommitTracks
<1>6. CASE RelativePath(cleared, src) # <<>>
  <2> DEFINE c == MoveEntry(cleared, src, dst)
  <2>1. Good(c)
    BY <1>2, <1>3, <1>4, MoveEntryGood
  <2>2. Tracks(cleared, c) /\ DOMAIN c.entries = DOMAIN cleared.entries
    BY <1>2, MoveEntryTracks
  <2>3. Commit(c)
    BY <1>1, <1>6
  <2> HIDE DEF c
  <2>4. Generations(db) /\ Generations(cleared) /\ Generations(c)
    BY <1>2, <2>1, GoodGenerations
  <2>5. Tracks(db, c)
    BY <1>2, <2>2, <2>4, TracksThen
  <2> QED
    BY <2>3, <2>5, CommitTracks
<1> QED
  BY <1>5, <1>6


\* A removal changes no row that stays.
LEMMA RemovedKeeps ==
  ASSUME NEW d, Good(d), NEW p \in Seq(Names), NEW recursive \in BOOLEAN,
         CanRemove(d, p, recursive), NEW c, c = Removed(d, p, recursive)
  PROVE  Tracks(d, c) /\ DOMAIN c.entries \subseteq DOMAIN d.entries
<1> DEFINE rel == RelativePath(d, p)
           here == LocateZone(d, p)
           gone == IF rel = <<>> THEN ZonesLike(d, p) \cup {here}
                   ELSE IF recursive THEN ZonesLike(d, p) ELSE {}
           emptied == DeleteEntries(d, EntriesOf(d, gone))
           cut == DeleteZones(emptied, gone)
           own == {i \in EntriesOf(cut, {here} \ gone) :
                     \/ cut.entries[i].rel = rel
                     \/ recursive /\ LikeBelow(rel, cut.entries[i].rel)}
           left == DeleteEntries(cut, own)
<1>1. c = Reclaim(left)
  BY Zenon DEF Removed
<1>2. p # <<>> /\ ZonesOver(d, p) # {}
  BY DirIsOver DEF CanRemove
<1>3. rel = <<>> => d.zones[here].path = p
  BY <1>2, LocatedParts
<1> HIDE DEF rel, here
<1>4. \A z \in DOMAIN d.zones \cap gone : d.zones[z].path # <<>>
  <2>1. ~ LikeBelow(p, <<>>)
    <3>1. <<>> \in Seq(Names) /\ ~ (Len(p) < Len(<<>>))
      BY EmptySeq, LenProperties
    <3> QED
      BY <3>1, BelowIsLonger
  <2>2. \A z \in ZonesLike(d, p) : d.zones[z].path # <<>>
    BY <2>1 DEF ZonesLike
  <2> QED
    BY <1>2, <1>3, <2>2
<1> HIDE DEF gone
<1>5. EntriesOf(d, gone) \subseteq DOMAIN d.entries
  BY DEF EntriesOf
<1>6. Good(emptied) /\ SamePaths(d.zones, emptied.zones)
      /\ emptied.entries = [i \in DOMAIN d.entries \ EntriesOf(d, gone) |-> d.entries[i]]
      /\ emptied.objects = d.objects
  BY <1>5, DeleteGood, DeleteLeaves
<1> HIDE DEF emptied
<1>7. Good(cut)
  <2>1. \A i \in DOMAIN emptied.entries : emptied.entries[i].zone \notin gone
    BY <1>6 DEF EntriesOf
  <2>2. \A z \in DOMAIN emptied.zones \cap gone : emptied.zones[z].path # <<>>
    BY <1>4, <1>6 DEF SamePaths
  <2> QED
    BY <1>6, <2>1, <2>2, DeleteZonesGood
<1>8. cut.entries = emptied.entries /\ cut.objects = emptied.objects
  BY <1>6, DeleteZonesLeaves, ZenonT(40)
<1> HIDE DEF cut
<1>9. own \subseteq DOMAIN cut.entries
  BY DEF EntriesOf
<1> HIDE DEF own
<1>10. Good(left) /\ left.objects = cut.objects
       /\ left.entries = [i \in DOMAIN cut.entries \ own |-> cut.entries[i]]
  BY <1>7, <1>9, DeleteGood, DeleteLeaves
<1> HIDE DEF left
<1>11. /\ c.entries = left.entries
       /\ \A i \in DOMAIN left.entries : left.entries[i].obj # None =>
              c.objects[left.entries[i].obj] = left.objects[left.entries[i].obj]
  BY <1>1, <1>10, ReclaimLeaves
<1>12. DOMAIN c.entries \subseteq DOMAIN d.entries
       /\ \A i \in DOMAIN c.entries : c.entries[i] = d.entries[i]
  BY <1>6, <1>8, <1>10, <1>11
<1>13. DOMAIN left.entries = DOMAIN c.entries /\ left.objects = d.objects
  BY <1>6, <1>8, <1>10, <1>11
<1>14. Keeps(d, c)
  BY <1>11, <1>12, <1>13 DEF Keeps
<1> QED
  BY <1>12, <1>14, KeepsTracks

LEMMA removeTracks ==
  ASSUME Good(db), NEW p \in Paths, NEW recursive \in BOOLEAN, remove(p, recursive)
  PROVE  TracksNext
<1> DEFINE c == Removed(db, p, recursive)
<1>1. CanRemove(db, p, recursive) /\ Commit(c) /\ p \in Seq(Names)
  BY PathParts DEF remove
<1>2. Tracks(db, c)
  BY <1>1, RemovedKeeps
<1> HIDE DEF c
<1> QED
  BY <1>1, <1>2, CommitTracks

LEMMA RemoveRoundTracks ==
  ASSUME NEW d, Good(d), NEW p \in Seq(Names), NEW recursive \in BOOLEAN, NEW force \in BOOLEAN,
         NEW c \in RemoveRound(d, p, recursive, force)
  PROVE  Good(c) /\ Tracks(d, c) /\ DOMAIN c.entries \subseteq DOMAIN d.entries
<1>1. CASE c = d
  <2>1. Keeps(d, d)
    BY DEF Keeps
  <2> QED
    BY <1>1, <2>1, KeepsTracks
<1>2. CASE c # d
  <2>1. CanRemove(d, p, recursive) /\ c = Removed(d, p, recursive)
    BY <1>2 DEF RemoveRound
  <2> QED
    BY <2>1, RemovedGood, RemovedKeeps
<1> QED
  BY <1>1, <1>2

LEMMA remove_manyTracks ==
  ASSUME Good(db), NEW P \in Batches, NEW recursive \in BOOLEAN, NEW force \in BOOLEAN,
         remove_many(P, recursive, force)
  PROVE  TracksNext
<1>1. \A p \in P : p \in Seq(Names)
  BY BatchesAssumption, PathsAssumption
<1>2. CASE \E p \in P : IsZonePath(db, p)
  <2>1. PICK p \in P, q \in P : RemoveEach(p, q, recursive, force)
    BY <1>2 DEF remove_many
  <2>2. PICK d \in RemoveRound(db, p, recursive, force) :
          \E e \in RemoveRound(d, q, recursive, force) : Commit(e)
    BY <2>1 DEF RemoveEach
  <2>3. PICK e \in RemoveRound(d, q, recursive, force) : Commit(e)
    BY <2>2
  <2>4. Good(d) /\ Tracks(db, d) /\ DOMAIN d.entries \subseteq DOMAIN db.entries
    BY <1>1, RemoveRoundTracks
  <2>5. Good(e) /\ Tracks(d, e) /\ DOMAIN e.entries \subseteq DOMAIN d.entries
    BY <1>1, <2>4, RemoveRoundTracks
  <2>6. Tracks(db, e)
    BY <2>4, <2>5, GoodGenerations, TracksThen
  <2> QED
    BY <2>3, <2>6, CommitTracks
<1>3. CASE ~ \E p \in P : IsZonePath(db, p)
  <2> DEFINE gone == Exact(db, P, recursive)
             cut == DeleteEntries(db, gone)
             c == Reclaim(cut)
  <2>1. Commit(c)
    BY <1>3 DEF remove_many, RemoveExact
  <2>2. gone \subseteq DOMAIN db.entries
    BY DEF Exact
  <2> HIDE DEF gone
  <2>3. Good(cut) /\ Tracks(db, cut) /\ DOMAIN cut.entries \subseteq DOMAIN db.entries
    BY <2>2, DeleteGood, DeleteTracks
  <2> HIDE DEF cut
  <2>4. Good(c) /\ Tracks(cut, c) /\ c.entries = cut.entries
    BY <2>3, ReclaimGood, ReclaimTracks
  <2> HIDE DEF c
  <2>5. Tracks(db, c)
    BY <2>3, <2>4, GoodGenerations, TracksThen
  <2> QED
    BY <2>1, <2>5, CommitTracks
<1> QED
  BY <1>2, <1>3

LEMMA set_timesTracks ==
  ASSUME Good(db), NEW p \in Paths, set_times(p)
  PROVE  TracksNext
<1>1. CASE RelativePath(db, p) = <<>>
  <2> DEFINE zs == [zones EXCEPT ![LocateZone(db, p)].gen = Bump(@)]
             c == [db EXCEPT !.zones = zs]
  <2>1. Commit(c)
    BY <1>1, Zenon DEF set_times
  <2> HIDE DEF zs
  <2>2. c.entries = db.entries /\ c.objects = db.objects
    BY WithZones DEF Good
  <2> HIDE DEF c
  <2> QED
    BY <2>1, <2>2, SameCommitTracks
<1>2. CASE RelativePath(db, p) # <<>>
  <2> DEFINE S == EntriesFor(db, p)
             row(i) == [db.entries[i] EXCEPT !.gen = Bump(db.entries[i].gen)]
             rows == [i \in S |-> row(i)]
  <2>1. Commit(UpdateEntries(db, [i \in S |-> [entries[i] EXCEPT !.gen = Bump(@)]]))
    BY <1>2, Zenon DEF set_times
  <2>2. Commit(UpdateEntries(db, rows))
    BY <2>1, Zenon DEF db
  <2>3. S \subseteq DOMAIN db.entries
    BY DEF EntriesFor, EntriesAt
  <2> HIDE DEF S
  <2>4. ASSUME NEW i \in S
        PROVE  row(i).kind = db.entries[i].kind /\ row(i).gen = Bump(db.entries[i].gen)
    <3> DEFINE e == db.entries[i]
               g == Bump(e.gen)
    <3>1. DOMAIN e = DOMAIN e /\ e \in EntryRows
      BY <2>3 DEF Good, GoodEntries, GoodRow
    <3>2. row(i) = [e EXCEPT !.gen = g]
      OBVIOUS
    <3> HIDE DEF e, g, row
    <3>3. row(i).kind = e.kind /\ row(i).gen = g
      BY <3>1, <3>2 DEF EntryRows
    <3> QED
      BY <3>3 DEF e, g
  <2>5. DOMAIN rows = S /\ \A i \in S : rows[i] = row(i)
    OBVIOUS
  <2> HIDE DEF rows, row
  <2> QED
    BY <2>2, <2>3, <2>4, <2>5, UpdateCommitTracks
<1> QED
  BY <1>1, <1>2

LEMMA NextTracks ==
  ASSUME Good(db), [Next]_vars
  PROVE  TracksNext
<1>0. CASE UNCHANGED vars
  <2>1. db' = db /\ entries' = entries
    BY <1>0 DEF vars, db
  <2>2. \A i : Contents(db, i)' = Contents(db, i)
    BY <2>1 DEF Contents
  <2> QED
    BY <2>1, <2>2 DEF TracksNext
<1>1. CASE create_volume
  BY <1>1, create_volumeTracks
<1>2. CASE remove_volume
  BY <1>2, remove_volumeTracks
<1>3. ASSUME NEW p \in Paths, mkdir(p)
      PROVE  TracksNext
  BY <1>3, mkdirTracks
<1>4. ASSUME NEW p \in Paths, set_times(p)
      PROVE  TracksNext
  BY <1>4, set_timesTracks
<1>5. ASSUME NEW p \in Paths, NEW body \in Data, write_file(p, body)
      PROVE  TracksNext
  BY <1>5, write_fileTracks
<1>6. ASSUME NEW p \in Paths, NEW body \in Text, import_text(p, body)
      PROVE  TracksNext
  BY <1>6, import_textTracks
<1>7. ASSUME NEW p \in Paths, NEW tree \in Trees, import(p, tree)
      PROVE  TracksNext
  BY <1>7, importTracks
<1>8. ASSUME NEW p \in Paths, NEW recursive \in BOOLEAN, remove(p, recursive)
      PROVE  TracksNext
  BY <1>8, removeTracks
<1>9. ASSUME NEW p \in Paths, NEW q \in Paths, move(p, q)
      PROVE  TracksNext
  BY <1>9, moveTracks
<1>10. ASSUME NEW p \in Paths, NEW q \in Paths, NEW recursive \in BOOLEAN, copy(p, q, recursive)
       PROVE  TracksNext
  BY <1>10, copyTracks
<1>11. ASSUME NEW P \in Batches, mkdir_parents(P)
       PROVE  TracksNext
  BY <1>11, mkdir_parentsTracks
<1>12. ASSUME NEW P \in Batches, mkdir_many(P)
       PROVE  TracksNext
  BY <1>12, mkdir_manyTracks
<1>13. ASSUME NEW P \in Batches, NEW recursive \in BOOLEAN, NEW force \in BOOLEAN,
              remove_many(P, recursive, force)
       PROVE  TracksNext
  BY <1>13, remove_manyTracks
<1> QED
  BY <1>0, <1>1, <1>2, <1>3, <1>4, <1>5, <1>6, <1>7, <1>8, <1>9, <1>10, <1>11, <1>12, <1>13, Zenon DEF Next

\* Whatever a call does to a row that it leaves: the kind stays, and a new
\* place or a new content comes with a higher generation, up to the bound.
THEOREM GenerationsKept == Spec => GenerationTracks
<1>1. Good(db) /\ [Next]_vars => [TracksNext]_vars
  BY NextTracks
<1>2. Spec => [][TracksNext]_vars
  BY <1>1, Invariant, PTL DEF Spec
<1> QED
  BY <1>2 DEF GenerationTracks, TracksNext
=============================================================================
