------------------------------ MODULE MountProofs ------------------------------
(***************************************************************************)
(* Theorems about the mount, for any number of threads, any workload and   *)
(* any tree: what the kernel may ask for is in the maps, and a read        *)
(* through a file that was never moved answers with that file.             *)
(***************************************************************************)
EXTENDS Mount, SequenceTheorems, FiniteSetTheorems, TLAPS

-----------------------------------------------------------------------------
(* Paths.                                                                  *)

Path == Seq(Names)

LEMMA Cut ==
  ASSUME NEW t \in Path, NEW m \in 1..(Len(t) + 1), NEW n \in 0..Len(t)
  PROVE  /\ SubSeq(t, m, n) \in Path
         /\ Len(SubSeq(t, m, n)) = IF m <= n THEN n - m + 1 ELSE 0
         /\ \A k \in 1..(n - m + 1) : SubSeq(t, m, n)[k] = t[m + k - 1]
<1>1. Len(t) \in Nat /\ m \in Int /\ n \in Int
  BY LenProperties DEF Path
<1>2. \A k \in m..n : t[k] \in Names
  BY <1>1, ElementOfSeq DEF Path
<1> QED
  BY <1>1, <1>2, SubSeqProperties, Z3 DEF Path

\* The first n names of a path.
LEMMA Start ==
  ASSUME NEW t \in Path, NEW n \in 0..Len(t)
  PROVE  /\ SubSeq(t, 1, n) \in Path /\ Len(SubSeq(t, 1, n)) = n
         /\ \A k \in 1..n : SubSeq(t, 1, n)[k] = t[k]
<1>1. Len(t) \in Nat
  BY LenProperties DEF Path
<1>2. /\ SubSeq(t, 1, n) \in Path
      /\ Len(SubSeq(t, 1, n)) = IF 1 <= n THEN n - 1 + 1 ELSE 0
      /\ \A k \in 1..(n - 1 + 1) : SubSeq(t, 1, n)[k] = t[1 + k - 1]
  BY <1>1, Cut
<1> QED
  BY <1>1, <1>2

LEMMA SamePath ==
  ASSUME NEW s \in Path, NEW t \in Path, Len(s) = Len(t), \A k \in 1..Len(s) : s[k] = t[k]
  PROVE  s = t
BY SeqEqual DEF Path

LEMMA PrefixMeans ==
  ASSUME NEW p \in Path, NEW t \in Path
  PROVE  IsPrefix(p, t) <=> Len(p) <= Len(t) /\ \A k \in 1..Len(p) : p[k] = t[k]
<1>1. Len(p) \in Nat /\ Len(t) \in Nat
  BY LenProperties DEF Path
<1>2. CASE Len(p) <= Len(t)
  <2> DEFINE a == SubSeq(p, 1, Len(p))
             b == SubSeq(t, 1, Len(p))
  <2>1. /\ a \in Path /\ Len(a) = Len(p) /\ \A k \in 1..Len(p) : a[k] = p[k]
        /\ b \in Path /\ Len(b) = Len(p) /\ \A k \in 1..Len(p) : b[k] = t[k]
    BY <1>1, <1>2, Start
  <2>2. IsPrefix(p, t) <=> a = b
    BY <1>2 DEF IsPrefix
  <2> HIDE DEF a, b
  <2>3. a = b <=> \A k \in 1..Len(p) : a[k] = b[k]
    BY <1>1, <2>1, SamePath
  <2> QED
    BY <1>2, <2>1, <2>2, <2>3
<1>3. CASE ~(Len(p) <= Len(t))
  BY <1>3 DEF IsPrefix
<1> QED
  BY <1>2, <1>3

\* The parent's path is all but the last name, and has the same beginnings.
LEMMA FrontOf ==
  ASSUME NEW p \in Path, p # <<>>
  PROVE  /\ Front(p) \in Path /\ Len(p) \in Nat \ {0} /\ Len(Front(p)) = Len(p) - 1
         /\ \A n \in 0..(Len(p) - 1) :
               SubSeq(p, 1, n) = IF n = Len(p) - 1 THEN Front(p) ELSE SubSeq(Front(p), 1, n)
<1>1. Len(p) \in Nat \ {0}
  BY EmptySeq DEF Path
<1>2. /\ Front(p) \in Path /\ Len(Front(p)) = Len(p) - 1
      /\ \A k \in 1..(Len(p) - 1) : Front(p)[k] = p[k]
  <2>1. Len(p) - 1 \in 0..Len(p)
    BY <1>1
  <2>2. Front(p) = SubSeq(p, 1, Len(p) - 1)
    BY DEF Front
  <2> QED
    BY <2>1, <2>2, Start
<1>3. ASSUME NEW n \in 0..(Len(p) - 1), n # Len(p) - 1
      PROVE  SubSeq(p, 1, n) = SubSeq(Front(p), 1, n)
  <2>1. /\ SubSeq(p, 1, n) \in Path /\ Len(SubSeq(p, 1, n)) = n
        /\ \A k \in 1..n : SubSeq(p, 1, n)[k] = p[k]
    BY <1>1, Start
  <2>2. /\ SubSeq(Front(p), 1, n) \in Path /\ Len(SubSeq(Front(p), 1, n)) = n
        /\ \A k \in 1..n : SubSeq(Front(p), 1, n)[k] = Front(p)[k]
    BY <1>1, <1>2, Start
  <2> QED
    BY <1>1, <1>2, <2>1, <2>2, SamePath
<1> QED
  BY <1>1, <1>2, <1>3 DEF Front

\* A path below p, once p is moved to q.
Rebased(p, q, t) == q \o SubSeq(t, Len(p) + 1, Len(t))

LEMMA RebasedIs ==
  ASSUME NEW p \in Path, NEW q \in Path, NEW t \in Path, IsPrefix(p, t)
  PROVE  /\ Rebased(p, q, t) \in Path
         /\ Len(Rebased(p, q, t)) = Len(q) + (Len(t) - Len(p))
         /\ \A k \in 1..Len(q) : Rebased(p, q, t)[k] = q[k]
         /\ \A k \in 1..(Len(t) - Len(p)) : Rebased(p, q, t)[Len(q) + k] = t[Len(p) + k]
<1>1. Len(p) \in Nat /\ Len(q) \in Nat /\ Len(t) \in Nat /\ Len(p) <= Len(t)
  BY LenProperties, PrefixMeans DEF Path
<1> DEFINE r == SubSeq(t, Len(p) + 1, Len(t))
<1>2. /\ r \in Path /\ Len(r) = Len(t) - Len(p)
      /\ \A k \in 1..(Len(t) - Len(p)) : r[k] = t[Len(p) + k]
  <2>1. Len(p) + 1 \in 1..(Len(t) + 1) /\ Len(t) \in 0..Len(t)
    BY <1>1
  <2>2. /\ r \in Path
        /\ Len(r) = IF Len(p) + 1 <= Len(t) THEN Len(t) - (Len(p) + 1) + 1 ELSE 0
        /\ \A k \in 1..(Len(t) - (Len(p) + 1) + 1) : r[k] = t[Len(p) + 1 + k - 1]
    BY <2>1, Cut
  <2> HIDE DEF r
  <2>3. ASSUME NEW k \in 1..(Len(t) - Len(p)) PROVE r[k] = t[Len(p) + k]
    <3>1. k \in 1..(Len(t) - (Len(p) + 1) + 1) /\ Len(p) + 1 + k - 1 = Len(p) + k
      BY <1>1
    <3> QED
      BY <2>2, <3>1
  <2>4. Len(r) = Len(t) - Len(p)
    BY <1>1, <2>2
  <2> QED
    BY <2>2, <2>3, <2>4
<1> HIDE DEF r
<1>3. /\ q \o r \in Path /\ Len(q \o r) = Len(q) + Len(r)
      /\ \A k \in 1..(Len(q) + Len(r)) :
            (q \o r)[k] = IF k <= Len(q) THEN q[k] ELSE r[k - Len(q)]
  BY <1>2, ConcatProperties DEF Path
<1>4. Rebased(p, q, t) = q \o r
  BY DEF Rebased, r
<1>5. \A k \in 1..(Len(t) - Len(p)) :
        /\ Len(q) + k \in 1..(Len(q) + Len(r)) /\ ~(Len(q) + k <= Len(q))
        /\ Len(q) + k - Len(q) = k
  BY <1>1, <1>2
<1>6. \A k \in 1..Len(q) : k \in 1..(Len(q) + Len(r)) /\ k <= Len(q)
  BY <1>1, <1>2
<1> QED
  BY <1>2, <1>3, <1>4, <1>5, <1>6

\* Different paths stay different.
LEMMA RebasedInjective ==
  ASSUME NEW p \in Path, NEW q \in Path, NEW t \in Path, NEW u \in Path,
         IsPrefix(p, t), IsPrefix(p, u), Rebased(p, q, t) = Rebased(p, q, u)
  PROVE  t = u
<1>1. /\ Len(p) \in Nat /\ Len(q) \in Nat /\ Len(t) \in Nat /\ Len(u) \in Nat
      /\ Len(p) <= Len(t) /\ Len(p) <= Len(u)
      /\ \A k \in 1..Len(p) : t[k] = p[k] /\ u[k] = p[k]
  BY LenProperties, PrefixMeans DEF Path
<1> DEFINE r == Rebased(p, q, t)
<1>2. /\ Len(r) = Len(q) + (Len(t) - Len(p)) /\ Len(r) = Len(q) + (Len(u) - Len(p))
      /\ \A k \in 1..(Len(t) - Len(p)) : r[Len(q) + k] = t[Len(p) + k]
      /\ \A k \in 1..(Len(u) - Len(p)) : r[Len(q) + k] = u[Len(p) + k]
  <2>1. /\ Len(r) = Len(q) + (Len(t) - Len(p))
        /\ \A k \in 1..(Len(t) - Len(p)) : r[Len(q) + k] = t[Len(p) + k]
    BY RebasedIs
  <2> DEFINE v == Rebased(p, q, u)
  <2>2. /\ Len(v) = Len(q) + (Len(u) - Len(p))
        /\ \A k \in 1..(Len(u) - Len(p)) : v[Len(q) + k] = u[Len(p) + k]
    BY RebasedIs
  <2>3. r = v
    OBVIOUS
  <2> HIDE DEF r, v
  <2> QED
    BY <2>1, <2>2, <2>3
<1> HIDE DEF r
<1>3. Len(t) = Len(u)
  BY <1>1, <1>2
<1>4. \A k \in 1..(Len(t) - Len(p)) : t[Len(p) + k] = u[Len(p) + k]
  BY <1>2, <1>3
<1>5. ASSUME NEW k \in 1..Len(t) PROVE t[k] = u[k]
  <2>1. CASE k <= Len(p)
    BY <1>1, <2>1
  <2>2. CASE ~(k <= Len(p))
    <3>1. k - Len(p) \in 1..(Len(t) - Len(p)) /\ Len(p) + (k - Len(p)) = k
      BY <1>1, <2>2
    <3> QED
      BY <1>4, <3>1
  <2> QED
    BY <2>1, <2>2
<1> QED
  BY <1>3, <1>5, SamePath

\* A beginning of a moved path is one of q, or was one of the old path below p.
LEMMA RebasedStart ==
  ASSUME NEW p \in Path, NEW q \in Path, NEW t \in Path, IsPrefix(p, t),
         NEW n \in 0..Len(Rebased(p, q, t))
  PROVE  /\ n <= Len(q) => SubSeq(Rebased(p, q, t), 1, n) = SubSeq(q, 1, n)
         /\ n >= Len(q) =>
               LET m == Len(p) + (n - Len(q))
               IN  /\ m \in Len(p)..Len(t) /\ IsPrefix(p, SubSeq(t, 1, m))
                   /\ SubSeq(Rebased(p, q, t), 1, n) = Rebased(p, q, SubSeq(t, 1, m))
<1> DEFINE r == Rebased(p, q, t)
           s == SubSeq(r, 1, n)
<1>1. /\ Len(p) \in Nat /\ Len(q) \in Nat /\ Len(t) \in Nat /\ Len(p) <= Len(t)
      /\ \A k \in 1..Len(p) : t[k] = p[k]
  BY LenProperties, PrefixMeans DEF Path
<1>2. /\ r \in Path /\ Len(r) = Len(q) + (Len(t) - Len(p))
      /\ \A k \in 1..Len(q) : r[k] = q[k]
      /\ \A k \in 1..(Len(t) - Len(p)) : r[Len(q) + k] = t[Len(p) + k]
  BY RebasedIs
<1>3. n \in 0..Len(r)
  OBVIOUS
<1> HIDE DEF r
<1>4. n \in Nat /\ n <= Len(r)
  BY <1>1, <1>2, <1>3
<1>5. s \in Path /\ Len(s) = n /\ \A k \in 1..n : s[k] = r[k]
  BY <1>2, <1>3, Start
<1> HIDE DEF s
<1>6. ASSUME n <= Len(q) PROVE s = SubSeq(q, 1, n)
  <2> DEFINE a == SubSeq(q, 1, n)
  <2>1. a \in Path /\ Len(a) = n /\ \A k \in 1..n : a[k] = q[k]
    BY <1>1, <1>4, <1>6, Start
  <2> HIDE DEF a
  <2>2. \A k \in 1..n : s[k] = a[k]
    BY <1>1, <1>2, <1>4, <1>5, <1>6, <2>1
  <2>3. s = a
    BY <1>5, <2>1, <2>2, SamePath
  <2> QED
    BY <2>3 DEF a
<1>7. ASSUME n >= Len(q), NEW m, m = Len(p) + (n - Len(q))
      PROVE  /\ m \in Len(p)..Len(t) /\ IsPrefix(p, SubSeq(t, 1, m))
             /\ s = Rebased(p, q, SubSeq(t, 1, m))
  <2> DEFINE u == SubSeq(t, 1, m)
  <2>1. m \in Len(p)..Len(t) /\ m \in 0..Len(t) /\ m \in Nat
    BY <1>1, <1>2, <1>4, <1>7
  <2>2. u \in Path /\ Len(u) = m /\ \A k \in 1..m : u[k] = t[k]
    BY <2>1, Start
  <2> HIDE DEF u
  <2>3. IsPrefix(p, u)
    <3>1. Len(p) <= Len(u) /\ \A k \in 1..Len(p) : p[k] = u[k]
      BY <1>1, <2>1, <2>2
    <3> QED
      BY <2>2, <3>1, PrefixMeans
  <2> DEFINE v == Rebased(p, q, u)
  <2>4. /\ v \in Path /\ Len(v) = Len(q) + (m - Len(p))
        /\ \A k \in 1..Len(q) : v[k] = q[k]
        /\ \A k \in 1..(m - Len(p)) : v[Len(q) + k] = u[Len(p) + k]
    BY <2>2, <2>3, RebasedIs
  <2> HIDE DEF v
  <2>5. Len(v) = n
    BY <1>1, <1>4, <1>7, <2>4
  <2>6. ASSUME NEW k \in 1..n PROVE s[k] = v[k]
    <3>1. CASE k <= Len(q)
      BY <1>1, <1>2, <1>4, <1>5, <2>4, <3>1
    <3>2. CASE ~(k <= Len(q))
      <4>1. PICK j \in Nat : k = Len(q) + j
        <5>1. k - Len(q) \in Nat /\ k = Len(q) + (k - Len(q))
          BY <1>1, <1>4, <3>2
        <5> QED
          BY <5>1
      <4>2. /\ j \in 1..(m - Len(p)) /\ j \in 1..(Len(t) - Len(p))
            /\ Len(p) + j \in 1..m
        BY <1>1, <1>2, <1>4, <1>7, <2>1, <3>2, <4>1
      <4>3. s[k] = r[Len(q) + j] /\ r[Len(q) + j] = t[Len(p) + j]
        BY <1>2, <1>5, <4>1, <4>2
      <4>4. v[Len(q) + j] = u[Len(p) + j] /\ u[Len(p) + j] = t[Len(p) + j]
        BY <2>2, <2>4, <4>2
      <4> QED
        BY <4>1, <4>3, <4>4
    <3> QED
      BY <3>1, <3>2
  <2>7. s = v
    BY <1>5, <2>4, <2>5, <2>6, SamePath
  <2> QED
    BY <2>1, <2>3, <2>7 DEF u, v
<1> QED
  BY <1>6, <1>7, <1>4 DEF s, r

-----------------------------------------------------------------------------
(***************************************************************************)
(* The tree: rows are typed, a path has one row, and every beginning of a  *)
(* path is a directory.  Said of the parent alone the last would not be    *)
(* enough for a move, which needs that nothing is below its destination.   *)
(***************************************************************************)
Typed(at) ==
    /\ DOMAIN at \subseteq Ids
    /\ \A i \in DOMAIN at :
          /\ DOMAIN at[i] = {"path", "kind", "data"}
          /\ at[i].path \in Path /\ at[i].kind \in {File, Dir}

Unique(at) == \A i, j \in DOMAIN at : at[i].path = at[j].path => i = j

HasDir(at, p) == \E k \in DOMAIN at : at[k].path = p /\ at[k].kind = Dir

Rooted(at) ==
    \A i \in DOMAIN at : \A n \in 0..(Len(at[i].path) - 1) : HasDir(at, SubSeq(at[i].path, 1, n))

TreeOK(at) == Typed(at) /\ Unique(at) /\ Rooted(at)

\* No row changes its kind, and a number that was in use is not given to another.
Evolves(at) ==
    \A i \in DOMAIN at : past[i] # {} => i \in DOMAIN nodes /\ at[i].kind = nodes[i].kind

Past ==
    /\ DOMAIN past = Ids
    /\ \A i \in Ids : past[i] \subseteq Path /\ IsFiniteSet(past[i])
    /\ \A i \in DOMAIN nodes : nodes[i].path \in past[i]

TreeInv == TreeOK(nodes) /\ Past

LEMMA Kinds ==
  ASSUME TreeInv, NEW p
  PROVE  /\ \A i \in IdsAt(p) : KindAt(p) = nodes[i].kind /\ IdAt(p) = i
         /\ KindAt(p) \in {None, File} => \A i \in IdsAt(p) : nodes[i].kind = File
         /\ KindAt(p) = Dir <=> HasDir(nodes, p)
         /\ KindAt(p) = None => IdsAt(p) = {}
         /\ Exists(p) => IdAt(p) \in IdsAt(p)
<1>1. ASSUME NEW i \in IdsAt(p) PROVE KindAt(p) = nodes[i].kind /\ IdAt(p) = i
  <2>1. i \in DOMAIN nodes /\ nodes[i].path = p /\ Exists(p)
    BY <1>1 DEF IdsAt, Exists
  <2>2. IdAt(p) \in DOMAIN nodes /\ nodes[IdAt(p)].path = p
    BY <2>1 DEF IdAt
  <2>3. IdAt(p) = i
    BY <2>1, <2>2 DEF TreeInv, TreeOK, Unique
  <2> QED
    BY <2>1, <2>3 DEF KindAt
<1>2. IdsAt(p) = {} => KindAt(p) = None
  BY DEF KindAt, Exists
<1>3. \A i \in IdsAt(p) : nodes[i].kind \in {File, Dir}
  BY DEF IdsAt, TreeInv, TreeOK, Typed
<1>4. File # Dir /\ None \notin {File, Dir}
  BY MountAssumption DEF File, Dir
<1>5. HasDir(nodes, p) <=> \E i \in IdsAt(p) : nodes[i].kind = Dir
  BY DEF HasDir, IdsAt
<1>6. Exists(p) => IdAt(p) \in IdsAt(p)
  BY <1>1 DEF Exists
<1> QED
  BY <1>1, <1>2, <1>3, <1>4, <1>5, <1>6

\* What ParentIsDir promises of all beginnings of a path.
LEMMA ParentMeans ==
  ASSUME TreeInv, NEW p \in Path, ParentIsDir(p)
  PROVE  /\ p # <<>>
         /\ \A n \in 0..(Len(p) - 1) : HasDir(nodes, SubSeq(p, 1, n))
<1>1. p # <<>> /\ HasDir(nodes, Front(p))
  BY Kinds DEF ParentIsDir
<1>2. /\ Front(p) \in Path /\ Len(p) \in Nat \ {0} /\ Len(Front(p)) = Len(p) - 1
      /\ \A n \in 0..(Len(p) - 1) :
            SubSeq(p, 1, n) = IF n = Len(p) - 1 THEN Front(p) ELSE SubSeq(Front(p), 1, n)
  BY <1>1, FrontOf
<1>3. PICK k \in DOMAIN nodes : nodes[k].path = Front(p)
  BY <1>1 DEF HasDir
<1>4. \A n \in 0..(Len(Front(p)) - 1) : HasDir(nodes, SubSeq(Front(p), 1, n))
  BY <1>3 DEF TreeInv, TreeOK, Rooted
<1>5. ASSUME NEW n \in 0..(Len(p) - 1) PROVE HasDir(nodes, SubSeq(p, 1, n))
  <2>1. CASE n = Len(p) - 1
    BY <1>1, <1>2, <2>1
  <2>2. CASE n # Len(p) - 1
    <3>1. n \in 0..(Len(Front(p)) - 1)
      BY <1>2, <2>2
    <3> QED
      BY <1>2, <1>4, <2>2, <3>1
  <2> QED
    BY <2>1, <2>2
<1> QED
  BY <1>1, <1>5

\* A row is made, or a file's row is written.
LEMMA PutGood ==
  ASSUME TreeInv, NEW p \in Path, ParentIsDir(p), NEW i \in Ids,
         NEW kind \in {File, Dir}, NEW data,
         \/ past[i] = {} /\ IdsAt(p) = {}
         \/ i \in IdsAt(p) /\ kind = File /\ nodes[i].kind = File,
         NEW after, after = WithNode(i, [path |-> p, kind |-> kind, data |-> data])
  PROVE  /\ TreeOK(after) /\ Evolves(after)
         /\ i \in DOMAIN after /\ after[i].path = p /\ after[i].kind = kind
<1> DEFINE node == [path |-> p, kind |-> kind, data |-> data]
<1>0. File # Dir
  BY DEF File, Dir
<1>1. /\ DOMAIN after = DOMAIN nodes \cup {i} /\ after[i] = node
      /\ \A j \in DOMAIN nodes \ {i} : after[j] = nodes[j]
  BY DEF WithNode
<1>2. /\ DOMAIN node = {"path", "kind", "data"} /\ node.path = p /\ node.kind = kind
  OBVIOUS
<1> HIDE DEF node
<1>3. \A j \in DOMAIN nodes : past[j] # {}
  BY DEF TreeInv, Past
<1>4. i \in DOMAIN nodes => nodes[i].path = p /\ kind = File /\ nodes[i].kind = File
  BY <1>3 DEF IdsAt
<1>5. \A j \in DOMAIN nodes : nodes[j].path = p => j = i
  BY DEF IdsAt, TreeInv, TreeOK, Unique
<1>6. Typed(after)
  BY <1>1, <1>2 DEF Typed, TreeInv, TreeOK
<1>7. Unique(after)
  BY <1>1, <1>2, <1>5 DEF Unique, TreeInv, TreeOK
<1>8. \A s : HasDir(nodes, s) => HasDir(after, s)
  BY <1>0, <1>1, <1>4 DEF HasDir
<1>9. Rooted(after)
  <2> SUFFICES ASSUME NEW j \in DOMAIN after, NEW n \in 0..(Len(after[j].path) - 1)
               PROVE  HasDir(nodes, SubSeq(after[j].path, 1, n))
    BY <1>8 DEF Rooted
  <2>1. CASE j = i
    BY <1>1, <1>2, <2>1, ParentMeans
  <2>2. CASE j # i
    BY <1>1, <2>2 DEF TreeInv, TreeOK, Rooted
  <2> QED
    BY <2>1, <2>2
<1>10. Evolves(after)
  <2>1. past[i] # {} => i \in DOMAIN nodes /\ nodes[i].kind = kind
    BY DEF IdsAt
  <2> QED
    BY <1>1, <1>2, <2>1 DEF Evolves
<1> QED
  BY <1>1, <1>2, <1>6, <1>7, <1>9, <1>10 DEF TreeOK

\* A row is taken away, with nothing below it.
LEMMA RemoveGood ==
  ASSUME TreeInv, NEW p \in Path, CanRemove(p)
  PROVE  TreeOK(AfterRemove(p)) /\ Evolves(AfterRemove(p))
<1> DEFINE after == AfterRemove(p)
<1>1. DOMAIN after = DOMAIN nodes \ IdsAt(p) /\ \A i \in DOMAIN after : after[i] = nodes[i]
  BY DEF AfterRemove
<1> HIDE DEF after
<1>2. Typed(after) /\ Unique(after) /\ Evolves(after)
  BY <1>1 DEF Typed, Unique, Evolves, TreeInv, TreeOK
<1>3. Rooted(after)
  <2> SUFFICES ASSUME NEW i \in DOMAIN after, NEW n \in 0..(Len(after[i].path) - 1)
               PROVE  HasDir(after, SubSeq(after[i].path, 1, n))
    BY DEF Rooted
  <2> DEFINE t == nodes[i].path
  <2>1. i \in DOMAIN nodes /\ after[i].path = t /\ t \in Path /\ n \in 0..(Len(t) - 1)
    BY <1>1 DEF TreeInv, TreeOK, Typed
  <2>2. Len(t) \in Nat /\ n \in 0..Len(t) /\ n < Len(t)
    BY <2>1, LenProperties DEF Path
  <2>3. PICK k \in DOMAIN nodes : nodes[k].path = SubSeq(t, 1, n) /\ nodes[k].kind = Dir
    BY <2>1 DEF TreeInv, TreeOK, Rooted, HasDir
  <2>4. ASSUME k \in IdsAt(p) PROVE FALSE
    <3>1. SubSeq(t, 1, n) = p /\ KindAt(p) = Dir
      BY <2>3, <2>4, Kinds DEF IdsAt
    <3>2. Len(p) = n /\ \A j \in 1..n : p[j] = t[j]
      BY <2>1, <2>2, <3>1, Start
    <3>3. IsPrefix(p, t) /\ p # t
      BY <2>1, <2>2, <3>2, PrefixMeans
    <3>4. i \in Below(p)
      BY <2>1, <3>3 DEF Below, IsStrictPrefix
    <3> QED
      BY <3>1, <3>4 DEF CanRemove
  <2> QED
    BY <1>1, <2>1, <2>3, <2>4 DEF HasDir
<1> QED
  BY <1>2, <1>3 DEF TreeOK, after

\* A subtree moves.
LEMMA MoveGood ==
  ASSUME TreeInv, NEW p \in Path, NEW q \in Path, CanMove(p, q)
  PROVE  TreeOK(AfterMove(p, q)) /\ Evolves(AfterMove(p, q))
<1> DEFINE after == AfterMove(p, q)
           Moved(i) == IsPrefix(p, nodes[i].path)
<1>1. /\ ~IsPrefix(p, q) /\ KindAt(q) # Dir /\ ~HasDir(nodes, q) /\ ParentIsDir(q)
  BY Kinds DEF CanMove
<1>2. /\ DOMAIN after = DOMAIN nodes \ IdsAt(q)
      /\ \A i \in DOMAIN after :
            after[i] = IF Moved(i) THEN [nodes[i] EXCEPT !.path = Rebased(p, q, nodes[i].path)]
                       ELSE nodes[i]
  BY DEF AfterMove, Rebased
<1> HIDE DEF after
<1>3. \A i \in DOMAIN nodes : /\ nodes[i].path \in Path /\ Len(nodes[i].path) \in Nat
                              /\ DOMAIN nodes[i] = {"path", "kind", "data"}
  BY LenProperties DEF TreeInv, TreeOK, Typed, Path
<1>4. \A i \in DOMAIN after :
        /\ i \in DOMAIN nodes /\ nodes[i].path # q
        /\ after[i].kind = nodes[i].kind /\ DOMAIN after[i] = {"path", "kind", "data"}
        /\ Moved(i) => after[i].path = Rebased(p, q, nodes[i].path)
        /\ ~Moved(i) => after[i].path = nodes[i].path
  BY <1>2, <1>3 DEF IdsAt
<1> HIDE DEF Moved
<1>5. Len(p) \in Nat /\ Len(q) \in Nat
  BY LenProperties DEF Path
<1>6. Typed(after)
  <2> SUFFICES ASSUME NEW i \in DOMAIN after
               PROVE  /\ i \in Ids /\ DOMAIN after[i] = {"path", "kind", "data"}
                      /\ after[i].path \in Path /\ after[i].kind \in {File, Dir}
    BY DEF Typed
  <2>1. i \in Ids /\ nodes[i].kind \in {File, Dir}
    BY <1>4 DEF TreeInv, TreeOK, Typed
  <2>2. after[i].path \in Path
    BY <1>3, <1>4, RebasedIs DEF Moved
  <2> QED
    BY <1>4, <2>1, <2>2
<1>7. ASSUME NEW j \in DOMAIN nodes, NEW n \in 0..(Len(nodes[j].path) - 1)
      PROVE  SubSeq(nodes[j].path, 1, n) # q
  BY <1>1 DEF TreeInv, TreeOK, Rooted
<1>8. ASSUME NEW i \in DOMAIN after, NEW j \in DOMAIN after, Moved(i), ~Moved(j)
      PROVE  after[i].path # after[j].path
  <2> DEFINE t == nodes[i].path
             u == nodes[j].path
             r == Rebased(p, q, t)
  <2>1. t \in Path /\ u \in Path /\ Len(u) \in Nat /\ IsPrefix(p, t)
    BY <1>3, <1>4, <1>8 DEF Moved
  <2>2. /\ r \in Path /\ Len(r) = Len(q) + (Len(t) - Len(p))
        /\ \A k \in 1..Len(q) : r[k] = q[k]
    BY <2>1, RebasedIs
  <2>3. Len(p) <= Len(t) /\ Len(t) \in Nat
    BY <2>1, PrefixMeans, LenProperties DEF Path
  <2> SUFFICES ASSUME r = u PROVE FALSE
    BY <1>4, <1>8
  <2> HIDE DEF r, t, u
  <2>4. Len(q) \in 0..Len(u) /\ \A k \in 1..Len(q) : u[k] = q[k]
    BY <1>5, <2>1, <2>2, <2>3
  <2>5. SubSeq(u, 1, Len(q)) = q
    <3>1. /\ SubSeq(u, 1, Len(q)) \in Path /\ Len(SubSeq(u, 1, Len(q))) = Len(q)
          /\ \A k \in 1..Len(q) : SubSeq(u, 1, Len(q))[k] = u[k]
      BY <2>1, <2>4, Start
    <3> QED
      BY <2>4, <3>1, SamePath
  <2>6. CASE Len(u) = Len(q)
    <3>1. u = q
      BY <2>1, <2>4, <2>6, SamePath
    <3> QED
      BY <1>4, <1>8, <3>1 DEF u
  <2>7. CASE Len(u) # Len(q)
    <3>1. Len(q) \in 0..(Len(u) - 1)
      BY <1>5, <2>1, <2>4, <2>7
    <3> QED
      BY <1>4, <1>7, <1>8, <2>5, <3>1 DEF u
  <2> QED
    BY <2>6, <2>7
<1>9. Unique(after)
  <2> SUFFICES ASSUME NEW i \in DOMAIN after, NEW j \in DOMAIN after, after[i].path = after[j].path
               PROVE  i = j
    BY DEF Unique
  <2>1. nodes[i].path = nodes[j].path => i = j
    BY <1>4 DEF TreeInv, TreeOK, Unique
  <2>2. CASE Moved(i) /\ Moved(j)
    <3>1. Rebased(p, q, nodes[i].path) = Rebased(p, q, nodes[j].path)
      BY <1>4, <2>2
    <3>2. nodes[i].path \in Path /\ nodes[j].path \in Path
          /\ IsPrefix(p, nodes[i].path) /\ IsPrefix(p, nodes[j].path)
      BY <1>3, <1>4, <2>2 DEF Moved
    <3> QED
      BY <2>1, <3>1, <3>2, RebasedInjective
  <2>3. CASE ~Moved(i) /\ ~Moved(j)
    BY <1>4, <2>1, <2>3
  <2> QED
    BY <1>8, <2>2, <2>3
\* A directory that does not move is still there.
<1>10. ASSUME NEW s \in Path, ~IsPrefix(p, s), HasDir(nodes, s) PROVE HasDir(after, s)
  <2>1. PICK k \in DOMAIN nodes : nodes[k].path = s /\ nodes[k].kind = Dir
    BY <1>10 DEF HasDir
  <2>2. k \in DOMAIN after /\ ~Moved(k)
    BY <1>1, <1>2, <1>10, <2>1 DEF IdsAt, HasDir, Moved
  <2> QED
    BY <1>4, <2>1, <2>2 DEF HasDir
<1>11. Rooted(after)
  <2> SUFFICES ASSUME NEW i \in DOMAIN after, NEW n \in 0..(Len(after[i].path) - 1)
               PROVE  HasDir(after, SubSeq(after[i].path, 1, n))
    BY DEF Rooted
  <2> DEFINE t == nodes[i].path
  <2>1. i \in DOMAIN nodes /\ t \in Path /\ Len(t) \in Nat
    BY <1>3, <1>4
  <2>2. CASE ~Moved(i)
    <3>1. after[i].path = t /\ ~IsPrefix(p, t) /\ n \in 0..(Len(t) - 1)
      BY <1>4, <2>2 DEF Moved
    <3> DEFINE s == SubSeq(t, 1, n)
    <3>2. HasDir(nodes, s)
      BY <2>1, <3>1 DEF TreeInv, TreeOK, Rooted
    <3>3. n \in 0..Len(t) /\ n < Len(t)
      BY <2>1, <3>1
    <3>4. s \in Path /\ Len(s) = n /\ \A k \in 1..n : s[k] = t[k]
      BY <2>1, <3>3, Start
    <3>5. ~IsPrefix(p, s)
      <4> SUFFICES ASSUME IsPrefix(p, s) PROVE FALSE
        OBVIOUS
      <4> HIDE DEF s, t
      <4>1. Len(p) <= n /\ \A k \in 1..Len(p) : p[k] = s[k]
        BY <3>4, PrefixMeans
      <4>2. Len(p) <= Len(t) /\ \A k \in 1..Len(p) : p[k] = t[k]
        BY <1>5, <2>1, <3>3, <3>4, <4>1
      <4> QED
        BY <2>1, <3>1, <4>2, PrefixMeans
    <3> QED
      BY <1>10, <3>1, <3>2, <3>4, <3>5
  <2>3. CASE Moved(i)
    <3> DEFINE r == Rebased(p, q, t)
    <3>1. after[i].path = r /\ IsPrefix(p, t)
      BY <1>4, <2>3 DEF Moved
    <3>2. r \in Path /\ Len(r) = Len(q) + (Len(t) - Len(p)) /\ Len(p) <= Len(t)
      BY <2>1, <3>1, RebasedIs, PrefixMeans
    <3> HIDE DEF r
    <3>3. n \in 0..(Len(r) - 1) /\ n \in 0..Len(r) /\ n < Len(r) /\ n \in Nat
      BY <1>5, <2>1, <3>1, <3>2
    <3>4. CASE n < Len(q)
      <4> DEFINE s == SubSeq(q, 1, n)
      <4>1. SubSeq(r, 1, n) = s
        BY <1>5, <2>1, <3>1, <3>3, <3>4, RebasedStart DEF r
      <4>2. n \in 0..(Len(q) - 1) /\ n \in 0..Len(q)
        BY <1>5, <3>3, <3>4
      <4>3. HasDir(nodes, s)
        BY <1>1, <4>2, ParentMeans
      <4>4. s \in Path /\ Len(s) = n /\ \A k \in 1..n : s[k] = q[k]
        BY <4>2, Start
      <4>5. ~IsPrefix(p, s)
        <5> SUFFICES ASSUME IsPrefix(p, s) PROVE FALSE
          OBVIOUS
        <5> HIDE DEF s
        <5>1. Len(p) <= n /\ \A k \in 1..Len(p) : p[k] = s[k]
          BY <4>4, PrefixMeans
        <5>2. Len(p) <= Len(q) /\ \A k \in 1..Len(p) : p[k] = q[k]
          BY <1>5, <3>3, <3>4, <4>4, <5>1
        <5> QED
          BY <1>1, <5>2, PrefixMeans
      <4> QED
        BY <1>10, <3>1, <4>1, <4>3, <4>4, <4>5
    <3>5. CASE ~(n < Len(q))
      <4> DEFINE m == Len(p) + (n - Len(q))
                 s == SubSeq(t, 1, m)
      <4>1. n >= Len(q)
        BY <1>5, <3>3, <3>5
      <4>2. m \in Len(p)..Len(t) /\ IsPrefix(p, s) /\ SubSeq(r, 1, n) = Rebased(p, q, s)
        BY <2>1, <3>1, <3>3, <4>1, RebasedStart, ZenonT(30) DEF r
      <4>3. m \in 0..(Len(t) - 1)
        BY <1>5, <2>1, <3>2, <3>3, <4>1
      <4> HIDE DEF m
      <4>4. PICK k \in DOMAIN nodes : nodes[k].path = s /\ nodes[k].kind = Dir
        BY <2>1, <4>3 DEF TreeInv, TreeOK, Rooted, HasDir
      <4>5. k \in DOMAIN after /\ Moved(k)
        BY <1>1, <1>2, <4>2, <4>4 DEF IdsAt, HasDir, Moved
      <4> QED
        BY <1>4, <3>1, <4>2, <4>4, <4>5 DEF HasDir
    <3> QED
      BY <3>4, <3>5
  <2> QED
    BY <2>2, <2>3
<1>12. Evolves(after)
  BY <1>4 DEF Evolves
<1> QED
  BY <1>6, <1>9, <1>11, <1>12 DEF TreeOK, after

\* What can be written.
LEMMA WriteGood ==
  ASSUME TreeInv, NEW p \in Path, CanWrite(p), NEW i \in Written(p), NEW data,
         NEW after, after = AfterWrite(i, p, data)
  PROVE  /\ TreeOK(after) /\ Evolves(after)
         /\ i \in Ids /\ i \in DOMAIN after /\ after[i].path = p /\ after[i].kind = File
<1>1. ParentIsDir(p) /\ KindAt(p) \in {None, File}
  BY DEF CanWrite
<1>2. i \in Ids /\ ((past[i] = {} /\ IdsAt(p) = {}) \/ (i \in IdsAt(p) /\ nodes[i].kind = File))
  <2>1. CASE Exists(p)
    BY <1>1, <2>1, Kinds DEF Written, IdsAt, TreeInv, TreeOK, Typed
  <2>2. CASE ~Exists(p)
    BY <2>2 DEF Written, Fresh, Exists
  <2> QED
    BY <2>1, <2>2
<1>3. after = WithNode(i, [path |-> p, kind |-> File, data |-> data])
  BY DEF AfterWrite
<1> QED
  BY <1>1, <1>2, <1>3, PutGood

LEMMA MkdirGood ==
  ASSUME TreeInv, NEW p \in Path, CanMkdir(p), NEW i \in Fresh,
         NEW after, after = WithNode(i, [path |-> p, kind |-> Dir, data |-> <<>>])
  PROVE  /\ TreeOK(after) /\ Evolves(after)
         /\ i \in Ids /\ i \in DOMAIN after /\ after[i].path = p /\ after[i].kind = Dir
<1>1. ParentIsDir(p) /\ IdsAt(p) = {} /\ i \in Ids /\ past[i] = {}
  BY Kinds DEF CanMkdir, Fresh
<1> QED
  BY <1>1, PutGood

-----------------------------------------------------------------------------
(***************************************************************************)
(* Requests and maps, said of the volume and the maps as values (at, was,  *)
(* inodes, ...), so that a step relates one set of values to the next.     *)
(***************************************************************************)
Fields == {"op", "step", "ino", "alone", "name", "ino2", "name2", "handle", "trunc",
           "offset", "byte", "path", "to", "entry", "data", "seen"}
Named == {"lookup", "create", "mkdir", "remove", "rename"}
Entries == {"getattr", "setattr", "readdir", "open", "write"}

\* A row that is a file, if it is still there.
FileOK(i, at, was) == i \in Ids /\ was[i] # {} /\ (i \in DOMAIN at => at[i].kind = File)

\* What was read of a row was true of it at some time.
EntryOK(e, at, was) ==
    /\ e.id \in Ids /\ e.path \in was[e.id]
    /\ e.id \in DOMAIN at => at[e.id].kind = e.kind

RequestOK(r, at, was, inodes, mapped, held) ==
    \/ r = Idle
    \/ /\ DOMAIN r = Fields
       /\ r.ino \in inodes
       /\ r.op = "rename" => r.name2 \in Names /\ r.ino2 \in inodes
       /\ r.op = "read" => <<r.handle, r.ino>> \in held
       /\ r.step \in {"path", "path2", "call"} => r.op \in Named /\ r.name \in Names
       /\ r.step = "path2" => r.op = "rename"
       /\ r.step \in {"path2", "call"} => r.path \in Path
       /\ r.step = "call" /\ r.op = "rename" => r.to \in Path
       /\ r.step = "entry" => r.op \in Entries
       /\ r.step = "list" => r.op = "readdir"
       /\ r.step = "remember" =>
             /\ r.op \in Entries \cup {"lookup", "create", "mkdir"}
             /\ r.op = "create" => r.entry.kind = File
       /\ r.step \in {"remember", "truncate", "handle", "load", "save", "times"} =>
             EntryOK(r.entry, at, was)
       /\ r.step \in {"truncate", "handle"} => r.entry.kind = File /\ r.entry.id \in mapped
       /\ r.step = "range" /\ r.op = "read" => r.path \in was[r.ino]

MapsOK(at, was, inodes, paths, opened, next, held) ==
    /\ inodes \subseteq Ids \cap DOMAIN paths
    /\ \A i \in DOMAIN paths : paths[i] \in Path
    /\ next \in Nat
    /\ \A h \in DOMAIN opened : h \in Nat /\ h < next
    /\ \A f \in held : /\ f = <<f[1], f[2]>> /\ f[1] \in DOMAIN opened /\ f[2] \in inodes
                       /\ FileOK(f[2], at, was) /\ opened[f[1]] \in was[f[2]]
    /\ \A f, g \in held : f[1] = g[1] => f = g

Inv ==
    /\ TreeInv
    /\ MapsOK(nodes, past, known, inode_paths, open_files, next_handle, files)
    /\ \A t \in Threads :
          RequestOK(request[t], nodes, past, known, DOMAIN inode_paths, files)

\* From (at, was) to (at2, was2) paths are only added and no row changes its kind.
Grows(at, was, at2, was2) ==
    /\ \A i \in Ids : was[i] \subseteq was2[i]
    /\ \A i \in DOMAIN at2 : was[i] # {} => i \in DOMAIN at /\ at2[i].kind = at[i].kind

LEMMA EntryKept ==
  ASSUME NEW at, NEW was, NEW at2, NEW was2, Grows(at, was, at2, was2)
  PROVE  /\ \A e : EntryOK(e, at, was) => EntryOK(e, at2, was2)
         /\ \A i : FileOK(i, at, was) => FileOK(i, at2, was2)
BY DEF Grows, EntryOK, FileOK

\* A request as it was, or with its reading of the volume spoiled.
Noted(r) == {r, [r EXCEPT !.alone = FALSE]}

LEMMA RequestKept ==
  ASSUME NEW at, NEW was, NEW inodes, NEW mapped, NEW held,
         NEW at2, NEW was2, NEW inodes2, NEW mapped2, NEW held2,
         Grows(at, was, at2, was2), inodes \subseteq inodes2, mapped \subseteq mapped2, inodes \subseteq Ids,
         NEW r, RequestOK(r, at, was, inodes, mapped, held),
         r # Idle /\ r.op = "read" => <<r.handle, r.ino>> \in held2,
         NEW s \in Noted(r)
  PROVE  RequestOK(s, at2, was2, inodes2, mapped2, held2)
<1>1. CASE r = Idle
  <2>1. s = Idle
    BY <1>1 DEF Idle, Noted
  <2> QED
    BY <2>1 DEF RequestOK
<1>2. CASE r # Idle
  <2>1. DOMAIN r = Fields
    BY <1>2 DEF RequestOK
  <2>2. DOMAIN s = Fields /\ \A x \in Fields \ {"alone"} : s[x] = r[x]
    BY <2>1 DEF Noted
  <2>3. /\ s.ino = r.ino /\ s.ino2 = r.ino2 /\ s.op = r.op /\ s.step = r.step /\ s.name = r.name
        /\ s.name2 = r.name2 /\ s.handle = r.handle /\ s.path = r.path /\ s.to = r.to /\ s.entry = r.entry
    BY <2>2 DEF Fields
  <2>4. EntryOK(r.entry, at, was) => EntryOK(r.entry, at2, was2)
    BY EntryKept
  <2>5. r.ino \in Ids /\ was[r.ino] \subseteq was2[r.ino]
    BY <1>2 DEF RequestOK, Grows
  <2> QED
    BY <1>2, <2>2, <2>3, <2>4, <2>5 DEF RequestOK
<1> QED
  BY <1>1, <1>2

\* A step of the volume and of one request keeps the tree.
LEMMA TreeKept ==
  ASSUME TreeInv, NEW t, NEW r, NEW after, TreeOK(after), Evolves(after), Becomes(t, r, after)
  PROVE  TreeInv' /\ Grows(nodes, past, nodes', past')
<1>1. /\ nodes' = after
      /\ past' = [i \in Ids |-> IF i \in DOMAIN after THEN past[i] \cup {after[i].path} ELSE past[i]]
  BY DEF Becomes
<1>2. \A i \in DOMAIN after : i \in Ids /\ after[i].path \in Path
  BY DEF TreeOK, Typed
<1>3. DOMAIN past' = Ids
  BY <1>1
<1>4. ASSUME NEW i \in Ids
      PROVE  past'[i] \subseteq Path /\ IsFiniteSet(past'[i]) /\ past[i] \subseteq past'[i]
  <2>1. past[i] \subseteq Path /\ IsFiniteSet(past[i])
    BY DEF TreeInv, Past
  <2>2. CASE i \in DOMAIN after
    <3>1. past'[i] = past[i] \cup {after[i].path}
      BY <1>1, <2>2
    <3>2. IsFiniteSet({after[i].path})
      BY FS_Singleton
    <3>3. IsFiniteSet(past[i] \cup {after[i].path})
      BY <2>1, <3>2, FS_Union
    <3> QED
      BY <1>2, <2>1, <2>2, <3>1, <3>3
  <2>3. CASE i \notin DOMAIN after
    BY <1>1, <2>1, <2>3
  <2> QED
    BY <2>2, <2>3
<1>5. \A i \in DOMAIN after : after[i].path \in past'[i]
  BY <1>1, <1>2
<1>6. TreeOK(nodes')
  BY <1>1
<1>7. TreeInv'
  BY <1>1, <1>3, <1>4, <1>5, <1>6 DEF TreeInv, Past, TreeOK, Typed, Unique, Rooted, HasDir
<1>8. Grows(nodes, past, nodes', past')
  BY <1>1, <1>4 DEF Evolves, Grows
<1> QED
  BY <1>7, <1>8

\* The maps stay right when the volume changes around them.
LEMMA MapsKept ==
  ASSUME Inv, Grows(nodes, past, nodes', past'), UNCHANGED <<mount, kernel>>
  PROVE  MapsOK(nodes', past', known', inode_paths', open_files', next_handle', files')
<1>1. /\ known' = known /\ inode_paths' = inode_paths /\ open_files' = open_files
      /\ next_handle' = next_handle /\ files' = files
  BY DEF mount, kernel
<1>2. MapsOK(nodes, past, known, inode_paths, open_files, next_handle, files)
  BY DEF Inv
<1>3. \A i : FileOK(i, nodes, past) => FileOK(i, nodes', past') /\ past[i] \subseteq past'[i]
  BY EntryKept DEF FileOK, Grows
<1> QED
  BY <1>1, <1>2, <1>3 DEF MapsOK

\* A step in which thread t goes on with r, and the volume with after.
LEMMA Stepped ==
  ASSUME Inv, NEW t, NEW r, NEW after, TreeOK(after), Evolves(after), Becomes(t, r, after),
         known \subseteq known', DOMAIN inode_paths \subseteq DOMAIN inode_paths', files \subseteq files',
         MapsOK(nodes', past', known', inode_paths', open_files', next_handle', files'),
         t \in Threads => RequestOK(r, nodes', past', known', DOMAIN inode_paths', files')
  PROVE  Inv'
<1>1. TreeInv' /\ Grows(nodes, past, nodes', past')
  BY TreeKept DEF Inv
<1>2. ASSUME NEW u \in Threads
      PROVE  RequestOK(request'[u], nodes', past', known', DOMAIN inode_paths', files')
  <2>1. CASE u = t
    BY <2>1 DEF Becomes
  <2>2. CASE u # t
    <3> DEFINE v == request[u]
               mapped == DOMAIN inode_paths
               mapped2 == DOMAIN inode_paths'
    <3>1. request'[u] \in Noted(v)
      BY <2>2 DEF Becomes, Noted
    <3>2. RequestOK(v, nodes, past, known, mapped, files)
      BY DEF Inv
    <3>3. v # Idle /\ v.op = "read" => <<v.handle, v.ino>> \in files'
      BY <3>2 DEF RequestOK
    <3>4. known \subseteq Ids /\ mapped \subseteq mapped2
      BY DEF Inv, MapsOK
    <3> HIDE DEF v, mapped, mapped2
    <3>5. RequestOK(request'[u], nodes', past', known', mapped2, files')
      BY <1>1, <3>1, <3>2, <3>3, <3>4, RequestKept
    <3> QED
      BY <3>5 DEF mapped2
  <2> QED
    BY <2>1, <2>2
<1> QED
  BY <1>1, <1>2 DEF Inv

\* A thread changes the volume, or only reads it, and leaves the maps alone.
LEMMA Changed ==
  ASSUME Inv, NEW t, NEW r, NEW after, TreeOK(after), Evolves(after), Becomes(t, r, after),
         UNCHANGED <<mount, kernel>>,
         t \in Threads => RequestOK(r, nodes', past', known, DOMAIN inode_paths, files)
  PROVE  Inv'
<1>1. MapsOK(nodes', past', known', inode_paths', open_files', next_handle', files')
  BY TreeKept, MapsKept DEF Inv
<1>2. known' = known /\ inode_paths' = inode_paths /\ files' = files
  BY DEF mount, kernel
<1> QED
  BY <1>1, <1>2, Stepped

LEMMA Same == ASSUME TreeInv PROVE TreeOK(nodes) /\ Evolves(nodes)
BY DEF TreeInv, Evolves

LEMMA GoesOn ==
  ASSUME Inv, NEW t \in Threads, NEW r, Goes(t, r), UNCHANGED <<mount, kernel>>,
         RequestOK(r, nodes, past, known, DOMAIN inode_paths, files)
  PROVE  Inv'
<1>1. TreeOK(nodes) /\ Evolves(nodes) /\ Becomes(t, r, nodes) /\ known \subseteq Ids
  BY Same DEF Inv, Goes, MapsOK
<1>2. Grows(nodes, past, nodes', past')
  BY <1>1, TreeKept DEF Inv
<1>3. r # Idle /\ r.op = "read" => <<r.handle, r.ino>> \in files
  BY DEF RequestOK
<1>4. RequestOK(r, nodes', past', known, DOMAIN inode_paths, files)
  <2>1. r \in Noted(r)
    BY DEF Noted
  <2> QED
    BY <1>1, <1>2, <1>3, <2>1, RequestKept
<1> QED
  BY <1>1, <1>4, Changed

LEMMA Fails ==
  ASSUME Inv, NEW t \in Threads, Failed(t), UNCHANGED <<mount, kernel>>
  PROVE  Inv'
BY GoesOn DEF Failed, RequestOK

-----------------------------------------------------------------------------
(* The actions that only read the volume or the maps.                      *)

LEMMA Working ==
  ASSUME Inv, NEW t \in Threads, NEW r, r = request[t], r.step # "idle"
  PROVE  /\ r # Idle /\ DOMAIN r = Fields
         /\ RequestOK(r, nodes, past, known, DOMAIN inode_paths, files)
         /\ r.ino \in DOMAIN inode_paths
<1>1. r # Idle /\ RequestOK(r, nodes, past, known, DOMAIN inode_paths, files)
  BY DEF Idle, Inv
<1> QED
  BY <1>1 DEF RequestOK, Inv, MapsOK

LEMMA PathStep == ASSUME Inv, NEW t \in Threads, ChildPath(t) PROVE Inv'
<1> DEFINE r == request[t]
           p == Append(inode_paths[r.ino], r.name)
           s == [r EXCEPT !.path = p, !.step = IF r.op = "rename" THEN "path2" ELSE "call"]
<1>1. r.step = "path" /\ Goes(t, s) /\ UNCHANGED <<mount, kernel>>
  BY DEF ChildPath, At
<1>2. /\ r # Idle /\ DOMAIN r = Fields /\ r.ino \in DOMAIN inode_paths
      /\ RequestOK(r, nodes, past, known, DOMAIN inode_paths, files)
  BY <1>1, Working
<1> HIDE DEF r
<1>3. p \in Path
  <2>1. inode_paths[r.ino] \in Path /\ r.name \in Names
    BY <1>1, <1>2 DEF Inv, MapsOK, RequestOK
  <2> QED
    BY <2>1, AppendProperties DEF Path
<1> HIDE DEF p
<1>4. RequestOK(s, nodes, past, known, DOMAIN inode_paths, files)
  BY <1>1, <1>2, <1>3 DEF RequestOK, Fields, Named
<1> QED
  BY <1>1, <1>4, GoesOn

LEMMA Path2Step == ASSUME Inv, NEW t \in Threads, SecondPath(t) PROVE Inv'
<1> DEFINE r == request[t]
           p == Append(inode_paths[r.ino2], r.name2)
           s == [r EXCEPT !.step = "call", !.to = p]
<1>1. r.step = "path2" /\ Goes(t, s) /\ UNCHANGED <<mount, kernel>>
  BY DEF SecondPath, At, Destination
<1>2. /\ r # Idle /\ DOMAIN r = Fields
      /\ RequestOK(r, nodes, past, known, DOMAIN inode_paths, files)
  BY <1>1, Working
<1> HIDE DEF r
<1>3. p \in Path
  <2>1. inode_paths[r.ino2] \in Path /\ r.name2 \in Names
    BY <1>1, <1>2 DEF Inv, MapsOK, RequestOK
  <2> QED
    BY <2>1, AppendProperties DEF Path
<1> HIDE DEF p
<1>4. RequestOK(s, nodes, past, known, DOMAIN inode_paths, files)
  BY <1>1, <1>2, <1>3 DEF RequestOK, Fields, Named
<1> QED
  BY <1>1, <1>4, GoesOn

LEMMA EntryStep == ASSUME Inv, NEW t \in Threads, Entry(t) PROVE Inv'
<1> DEFINE r == request[t]
           e == [id |-> r.ino, path |-> nodes[r.ino].path, kind |-> nodes[r.ino].kind]
           s == [r EXCEPT !.entry = e, !.step = "remember"]
<1>1. r.step = "entry" /\ UNCHANGED <<mount, kernel>>
  BY DEF Entry, At
<1>2. /\ r # Idle /\ DOMAIN r = Fields
      /\ RequestOK(r, nodes, past, known, DOMAIN inode_paths, files)
  BY <1>1, Working
<1>3. CASE r.ino \in DOMAIN nodes
  <2>1. Goes(t, s)
    BY <1>3 DEF Entry
  <2> HIDE DEF r
  <2>2. EntryOK(e, nodes, past)
    BY <1>3 DEF EntryOK, Inv, TreeInv, TreeOK, Typed, Past
  <2> HIDE DEF e
  <2>3. RequestOK(s, nodes, past, known, DOMAIN inode_paths, files)
    BY <1>1, <1>2, <2>2 DEF RequestOK, Fields, Entries, Named
  <2> QED
    BY <1>1, <2>1, <2>3, GoesOn
<1>4. CASE r.ino \notin DOMAIN nodes
  BY <1>1, <1>4, Fails DEF Entry
<1> QED
  BY <1>3, <1>4

LEMMA ReadPathStep == ASSUME Inv, NEW t \in Threads, ReadPath(t) PROVE Inv'
<1> DEFINE r == request[t]
           p == OpenPath(r.handle, r.ino)
           s == [r EXCEPT !.path = p, !.step = "range"]
<1>1. r.step = "read" /\ Goes(t, s) /\ UNCHANGED <<mount, kernel>>
  BY DEF ReadPath, At
<1>2. /\ r # Idle /\ DOMAIN r = Fields
      /\ RequestOK(r, nodes, past, known, DOMAIN inode_paths, files)
  BY <1>1, Working
<1> HIDE DEF r
<1>3. r.op = "read" => p \in past[r.ino]
  <2> SUFFICES ASSUME r.op = "read" PROVE p \in past[r.ino]
    OBVIOUS
  <2> DEFINE f == <<r.handle, r.ino>>
  <2>1. f \in files
    BY <1>2 DEF RequestOK
  <2>2. f[1] \in DOMAIN open_files /\ open_files[f[1]] \in past[f[2]]
    BY <2>1 DEF Inv, MapsOK
  <2> QED
    BY <2>2 DEF OpenPath
<1> HIDE DEF p
<1>4. RequestOK(s, nodes, past, known, DOMAIN inode_paths, files)
  BY <1>1, <1>2, <1>3 DEF RequestOK, Fields
<1> QED
  BY <1>1, <1>4, GoesOn

LEMMA RangeStep == ASSUME Inv, NEW t \in Threads, ReadRange(t) PROVE Inv'
<1> DEFINE r == request[t]
           d == nodes[IdAt(r.path)].data
           s == [r EXCEPT !.data = d, !.step = "answer"]
<1>1. r.step = "range" /\ UNCHANGED <<mount, kernel>> /\ (Goes(t, s) \/ Failed(t))
  BY DEF ReadRange, At
<1>2. /\ r # Idle /\ DOMAIN r = Fields
      /\ RequestOK(r, nodes, past, known, DOMAIN inode_paths, files)
  BY <1>1, Working
<1> HIDE DEF r, d
<1>3. RequestOK(s, nodes, past, known, DOMAIN inode_paths, files)
  BY <1>1, <1>2 DEF RequestOK, Fields
<1> QED
  BY <1>1, <1>3, GoesOn, Fails

LEMMA LoadStep == ASSUME Inv, NEW t \in Threads, Load(t) PROVE Inv'
<1> DEFINE r == request[t]
           d == nodes[IdAt(r.entry.path)].data
           s == [r EXCEPT !.data = d, !.step = "save"]
<1>1. r.step = "load" /\ UNCHANGED <<mount, kernel>> /\ (Goes(t, s) \/ Failed(t))
  BY DEF Load, At
<1>2. /\ r # Idle /\ DOMAIN r = Fields
      /\ RequestOK(r, nodes, past, known, DOMAIN inode_paths, files)
  BY <1>1, Working
<1> HIDE DEF r, d
<1>3. RequestOK(s, nodes, past, known, DOMAIN inode_paths, files)
  BY <1>1, <1>2 DEF RequestOK, Fields
<1> QED
  BY <1>1, <1>3, GoesOn, Fails

LEMMA TimesStep == ASSUME Inv, NEW t \in Threads, SetTimes(t) PROVE Inv'
<1> DEFINE r == request[t]
           p == r.entry.path
           e == [id |-> IdAt(p), path |-> p, kind |-> KindAt(p)]
           s == [r EXCEPT !.entry = e, !.op = "getattr", !.step = "remember"]
<1>1. r.step = "times" /\ UNCHANGED <<mount, kernel>>
  BY DEF SetTimes, At
<1>2. /\ r # Idle /\ DOMAIN r = Fields
      /\ RequestOK(r, nodes, past, known, DOMAIN inode_paths, files)
  BY <1>1, Working
<1>3. CASE Exists(p) /\ Goes(t, s)
  <2>1. Goes(t, s)
    BY <1>3
  <2> HIDE DEF r, p
  <2>2. EntryOK(e, nodes, past)
    <3>1. IdAt(p) \in IdsAt(p) /\ KindAt(p) = nodes[IdAt(p)].kind
      BY <1>3, Kinds DEF Inv
    <3> QED
      BY <3>1 DEF EntryOK, IdsAt, Inv, TreeInv, TreeOK, Typed, Past
  <2> HIDE DEF e
  <2>3. RequestOK(s, nodes, past, known, DOMAIN inode_paths, files)
    BY <1>1, <1>2, <2>2 DEF RequestOK, Fields, Entries
  <2> QED
    BY <1>1, <2>1, <2>3, GoesOn
<1>4. CASE Failed(t)
  BY <1>1, <1>4, Fails
<1> QED
  BY <1>3, <1>4 DEF SetTimes

LEMMA ListStep == ASSUME Inv, NEW t \in Threads, List(t) PROVE Inv'
<1> DEFINE r == request[t]
           s(seen, offset) == [r EXCEPT !.seen = seen, !.offset = offset, !.step = "entry"]
<1>1. r.step = "list" /\ UNCHANGED <<mount, kernel>>
  BY DEF List, At
<1>2. /\ r # Idle /\ DOMAIN r = Fields
      /\ RequestOK(r, nodes, past, known, DOMAIN inode_paths, files)
  BY <1>1, Working
<1>3. \/ Failed(t)
      \/ Goes(t, [r EXCEPT !.step = "answer"])
      \/ \E seen, offset : Goes(t, s(seen, offset))
  BY DEF List, To
<1> HIDE DEF r
<1>4. RequestOK([r EXCEPT !.step = "answer"], nodes, past, known, DOMAIN inode_paths, files)
  BY <1>1, <1>2 DEF RequestOK, Fields
<1>5. \A seen, offset : RequestOK(s(seen, offset), nodes, past, known, DOMAIN inode_paths, files)
  BY <1>1, <1>2 DEF RequestOK, Fields, Entries
<1> HIDE DEF s
<1>6. CASE \E seen, offset : Goes(t, s(seen, offset))
  BY <1>1, <1>5, <1>6, GoesOn
<1> QED
  BY <1>1, <1>3, <1>4, <1>6, GoesOn, Fails

LEMMA AnswerStep == ASSUME Inv, NEW t \in Threads, Answer(t) PROVE Inv'
BY Fails DEF Answer, Failed

-----------------------------------------------------------------------------
(* The actions that change the volume.                                     *)

\* A call that has answered with entry e goes on to remember it.
LEMMA Answered ==
  ASSUME Inv, NEW t \in Threads, NEW r, r = request[t], r.step = "call",
         NEW i, NEW kind, NEW after, TreeOK(after), Evolves(after),
         i \in DOMAIN after, after[i].path = r.path, after[i].kind = kind,
         r.op \in {"lookup", "create", "mkdir"}, r.op = "create" => kind = File,
         NEW e, e = [id |-> i, path |-> r.path, kind |-> kind],
         Becomes(t, [r EXCEPT !.entry = e, !.step = "remember"], after), UNCHANGED <<mount, kernel>>
  PROVE  Inv'
<1> DEFINE s == [r EXCEPT !.entry = e, !.step = "remember"]
<1>1. /\ r # Idle /\ DOMAIN r = Fields
      /\ RequestOK(r, nodes, past, known, DOMAIN inode_paths, files)
  BY Working
<1>2. TreeInv' /\ Grows(nodes, past, nodes', past') /\ nodes' = after
  <2>1. Becomes(t, s, after) /\ TreeInv
    BY DEF Inv
  <2> HIDE DEF s
  <2>2. nodes' = after
    BY <2>1 DEF Becomes
  <2> QED
    BY <2>1, <2>2, TreeKept
<1>3. EntryOK(e, nodes', past') /\ e.kind = kind
  BY <1>2 DEF EntryOK, TreeInv, TreeOK, Typed, Past
<1>4. RequestOK(s, nodes', past', known, DOMAIN inode_paths, files)
  BY <1>1, <1>3 DEF RequestOK, Fields, Entries
<1> QED
  BY <1>4, Changed

LEMMA CallStep == ASSUME Inv, NEW t \in Threads, Call(t) PROVE Inv'
<1> DEFINE r == request[t]
           p == r.path
<1>1. r.step = "call" /\ UNCHANGED <<mount, kernel>>
  BY DEF Call, At
<1>2. /\ RequestOK(r, nodes, past, known, DOMAIN inode_paths, files) /\ r # Idle
      /\ r.op \in Named /\ p \in Path /\ (r.op = "rename" => r.to \in Path)
  BY <1>1, Working DEF RequestOK
<1>3. TreeInv /\ TreeOK(nodes) /\ Evolves(nodes)
  BY Same DEF Inv
<1>4. CASE r.op = "lookup"
  <2>1. CASE Exists(p)
    <3> DEFINE e == [id |-> IdAt(p), path |-> p, kind |-> nodes[IdAt(p)].kind]
    <3>1. Becomes(t, [r EXCEPT !.entry = e, !.step = "remember"], nodes)
      BY <1>4, <2>1 DEF Call
    <3>2. IdAt(p) \in DOMAIN nodes /\ nodes[IdAt(p)].path = p
      BY <1>3, <2>1, Kinds DEF IdsAt
    <3> QED
      BY <1>1, <1>3, <1>4, <3>1, <3>2, Answered
  <2>2. CASE ~Exists(p)
    BY <1>1, <1>4, <2>2, Fails DEF Call
  <2> QED
    BY <2>1, <2>2
<1>5. CASE r.op = "create"
  <2>1. CASE CanWrite(p)
    <3> DEFINE after(i) == AfterWrite(i, p, <<>>)
    <3>1. PICK i \in Written(p) :
            Becomes(t, [r EXCEPT !.entry = [id |-> i, path |-> p, kind |-> after(i)[i].kind],
                                 !.step = "remember"], after(i))
      BY <1>5, <2>1 DEF Call
    <3> DEFINE now == after(i)
               e == [id |-> i, path |-> p, kind |-> now[i].kind]
    <3>2. /\ TreeOK(now) /\ Evolves(now)
          /\ i \in DOMAIN now /\ now[i].path = p /\ now[i].kind = File
      BY <1>2, <1>3, <2>1, WriteGood
    <3>3. Becomes(t, [r EXCEPT !.entry = e, !.step = "remember"], now)
      BY <3>1
    <3> HIDE DEF now
    <3> QED
      BY <1>1, <1>5, <3>2, <3>3, Answered
  <2>2. CASE ~CanWrite(p)
    BY <1>1, <1>5, <2>2, Fails DEF Call
  <2> QED
    BY <2>1, <2>2
<1>6. CASE r.op = "mkdir"
  <2>1. CASE CanMkdir(p)
    <3> DEFINE after(i) == WithNode(i, [path |-> p, kind |-> Dir, data |-> <<>>])
    <3>1. PICK i \in Fresh :
            Becomes(t, [r EXCEPT !.entry = [id |-> i, path |-> p, kind |-> after(i)[i].kind],
                                 !.step = "remember"], after(i))
      BY <1>6, <2>1 DEF Call
    <3> DEFINE now == after(i)
               e == [id |-> i, path |-> p, kind |-> now[i].kind]
    <3>2. /\ TreeOK(now) /\ Evolves(now)
          /\ i \in DOMAIN now /\ now[i].path = p /\ now[i].kind = Dir
      BY <1>2, <1>3, <2>1, MkdirGood
    <3>3. Becomes(t, [r EXCEPT !.entry = e, !.step = "remember"], now)
      BY <3>1
    <3> HIDE DEF now
    <3> QED
      BY <1>1, <1>6, <3>2, <3>3, Answered
  <2>2. CASE ~CanMkdir(p)
    BY <1>1, <1>6, <2>2, Fails DEF Call
  <2> QED
    BY <2>1, <2>2
<1>7. CASE r.op = "remove"
  <2>1. CASE CanRemove(p)
    <3>1. Becomes(t, Idle, AfterRemove(p))
      BY <1>7, <2>1 DEF Call
    <3>2. TreeOK(AfterRemove(p)) /\ Evolves(AfterRemove(p))
      BY <1>2, <1>3, <2>1, RemoveGood
    <3> QED
      BY <1>1, <3>1, <3>2, Changed DEF RequestOK
  <2>2. CASE ~CanRemove(p)
    BY <1>1, <1>7, <2>2, Fails DEF Call
  <2> QED
    BY <2>1, <2>2
<1>8. CASE r.op = "rename"
  <2>1. CASE CanMove(p, r.to)
    <3>1. Becomes(t, Idle, AfterMove(p, r.to))
      BY <1>8, <2>1 DEF Call
    <3>2. TreeOK(AfterMove(p, r.to)) /\ Evolves(AfterMove(p, r.to))
      BY <1>2, <1>3, <1>8, <2>1, MoveGood
    <3> QED
      BY <1>1, <3>1, <3>2, Changed DEF RequestOK
  <2>2. CASE ~CanMove(p, r.to)
    BY <1>1, <1>8, <2>2, Fails DEF Call
  <2> QED
    BY <2>1, <2>2
<1> QED
  BY <1>2, <1>4, <1>5, <1>6, <1>7, <1>8 DEF Named

LEMMA TruncateStep == ASSUME Inv, NEW t \in Threads, Truncate(t) PROVE Inv'
<1> DEFINE r == request[t]
           p == r.entry.path
           s == [r EXCEPT !.step = "handle"]
<1>1. r.step = "truncate" /\ UNCHANGED <<mount, kernel>>
  BY DEF Truncate, At
<1>2. /\ RequestOK(r, nodes, past, known, DOMAIN inode_paths, files) /\ r # Idle /\ DOMAIN r = Fields
      /\ EntryOK(r.entry, nodes, past)
  BY <1>1, Working DEF RequestOK
<1>3. p \in Path
  BY <1>2 DEF EntryOK, Inv, TreeInv, Past
<1>4. CASE CanWrite(p)
  <2>1. PICK i \in Written(p) : Becomes(t, s, AfterWrite(i, p, <<>>))
    BY <1>4 DEF Truncate, To
  <2> DEFINE after == AfterWrite(i, p, <<>>)
  <2>2. TreeOK(after) /\ Evolves(after) /\ Becomes(t, s, after)
    BY <1>3, <1>4, <2>1, WriteGood DEF Inv
  <2> HIDE DEF after, r
  <2>3. Grows(nodes, past, nodes', past')
    BY <2>2, TreeKept DEF Inv
  <2>4. EntryOK(r.entry, nodes', past')
    BY <1>2, <2>3, EntryKept
  <2>5. RequestOK(s, nodes', past', known, DOMAIN inode_paths, files)
    BY <1>1, <1>2, <2>4 DEF RequestOK, Fields
  <2> QED
    BY <1>1, <2>2, <2>5, Changed
<1>5. CASE ~CanWrite(p)
  BY <1>1, <1>5, Fails DEF Truncate
<1> QED
  BY <1>4, <1>5

LEMMA SaveStep == ASSUME Inv, NEW t \in Threads, Save(t) PROVE Inv'
<1> DEFINE r == request[t]
           p == r.entry.path
           d == Patched(r.data, r.offset, r.byte)
<1>1. r.step = "save" /\ UNCHANGED <<mount, kernel>>
  BY DEF Save, At
<1>2. p \in Path
  <2>1. EntryOK(r.entry, nodes, past)
    BY <1>1, Working DEF RequestOK
  <2> QED
    BY <2>1 DEF EntryOK, Inv, TreeInv, Past
<1>3. CASE CanWrite(p)
  <2>1. PICK i \in Written(p) : Becomes(t, Idle, AfterWrite(i, p, d))
    BY <1>3 DEF Save
  <2> DEFINE after == AfterWrite(i, p, d)
  <2>2. TreeOK(after) /\ Evolves(after) /\ Becomes(t, Idle, after)
    BY <1>2, <1>3, <2>1, WriteGood DEF Inv
  <2> HIDE DEF after
  <2> QED
    BY <1>1, <2>2, Changed DEF RequestOK
<1>4. CASE ~CanWrite(p)
  BY <1>1, <1>4, Fails DEF Save
<1> QED
  BY <1>3, <1>4

LEMMA OthersStep == ASSUME Inv, Others PROVE Inv'
<1> DEFINE Paths == UNION {[1..n -> Names] : n \in 1..MaxDepth}
<1>1. Paths \subseteq Path
  BY SeqDef DEF Path
<1>2. UNCHANGED <<mount, kernel>> /\ TreeInv /\ None \notin Threads
  BY MountAssumption DEF Others, Inv
<1>3. \E after : TreeOK(after) /\ Evolves(after) /\ Becomes(None, Idle, after)
  <2>1. PICK p \in Paths :
          \/ \E i \in Written(p), b \in Bytes : CanWrite(p) /\ Becomes(None, Idle, AfterWrite(i, p, <<b>>))
          \/ CanRemove(p) /\ Becomes(None, Idle, AfterRemove(p))
          \/ \E q \in Paths : CanMove(p, q) /\ Becomes(None, Idle, AfterMove(p, q))
    BY DEF Others
  <2> HIDE DEF Paths
  <2>2. p \in Path
    BY <1>1
  <2>3. CASE \E i \in Written(p), b \in Bytes : CanWrite(p) /\ Becomes(None, Idle, AfterWrite(i, p, <<b>>))
    BY <1>2, <2>2, <2>3, WriteGood
  <2>4. CASE CanRemove(p) /\ Becomes(None, Idle, AfterRemove(p))
    BY <1>2, <2>2, <2>4, RemoveGood
  <2>5. CASE \E q \in Paths : CanMove(p, q) /\ Becomes(None, Idle, AfterMove(p, q))
    BY <1>1, <1>2, <2>2, <2>5, MoveGood
  <2> QED
    BY <2>1, <2>3, <2>4, <2>5
<1> QED
  BY <1>2, <1>3, Changed

-----------------------------------------------------------------------------
(* The actions that change the maps.                                       *)

LEMMA RememberStep == ASSUME Inv, NEW t \in Threads, Remember(t) PROVE Inv'
<1> DEFINE r == request[t]
           e == r.entry
<1>1. /\ r.step = "remember" /\ inode_paths' = Remembered(e)
      /\ UNCHANGED <<open_files, next_handle, files>>
      /\ known' = IF r.op \in {"lookup", "mkdir"} THEN known \cup {e.id} ELSE known
  BY DEF Remember, At
<1>2. /\ RequestOK(r, nodes, past, known, DOMAIN inode_paths, files) /\ r # Idle /\ DOMAIN r = Fields
      /\ EntryOK(e, nodes, past)
      /\ r.op \in Entries \cup {"lookup", "create", "mkdir"}
      /\ r.op = "create" => e.kind = File
  BY <1>1, Working DEF RequestOK
\* The thread goes on with s.
<1>3. \E s : /\ Goes(t, s)
             /\ \/ s = Idle
                \/ \E step \in {"truncate", "handle"} :
                      e.kind = File /\ s = [r EXCEPT !.step = step]
                \/ s = [r EXCEPT !.step = "load"] \/ s = [r EXCEPT !.step = "times"]
                \/ r.op = "readdir" /\ s = [r EXCEPT !.step = "list"]
  <2>1. CASE r.op \in {"lookup", "mkdir", "getattr"}
    BY <2>1 DEF Remember
  <2>2. CASE r.op = "open"
    <3>1. CASE e.kind # File
      BY <2>2, <3>1 DEF Remember, Failed
    <3>2. CASE e.kind = File
      BY <2>2, <3>2 DEF Remember, To
    <3> QED
      BY <3>1, <3>2
  <2>3. CASE r.op = "create"
    BY <1>2, <2>3 DEF Remember, To
  <2>4. CASE r.op = "write"
    BY <2>4 DEF Remember, To
  <2>5. CASE r.op = "setattr"
    BY <2>5 DEF Remember, To
  <2>6. CASE r.op = "readdir"
    BY <2>6 DEF Remember, To
  <2> QED
    BY <1>2, <2>1, <2>2, <2>3, <2>4, <2>5, <2>6 DEF Entries
<1>4. PICK s : /\ Goes(t, s)
               /\ \/ s = Idle
                  \/ \E step \in {"truncate", "handle"} :
                        e.kind = File /\ s = [r EXCEPT !.step = step]
                  \/ s = [r EXCEPT !.step = "load"] \/ s = [r EXCEPT !.step = "times"]
                  \/ r.op = "readdir" /\ s = [r EXCEPT !.step = "list"]
  BY <1>3
<1> HIDE DEF r
<1>5. TreeOK(nodes) /\ Evolves(nodes) /\ Becomes(t, s, nodes) /\ nodes' = nodes
  BY <1>4, Same DEF Goes, Inv, Becomes
<1>6. TreeInv /\ Grows(nodes, past, nodes', past')
  BY <1>5, TreeKept DEF Inv
<1>7. EntryOK(e, nodes', past') /\ e.id \in Ids /\ e.path \in Path
  BY <1>2, <1>6, EntryKept DEF EntryOK, TreeInv, Past
<1> DEFINE mapped == DOMAIN inode_paths
           mapped2 == DOMAIN inode_paths'
<1>8. /\ mapped2 = mapped \cup {e.id}
      /\ \A i \in mapped2 : inode_paths'[i] = IF i = e.id THEN e.path ELSE inode_paths[i]
  BY <1>1 DEF Remembered
<1>9. known \subseteq known' /\ known' \subseteq known \cup {e.id} /\ known \subseteq Ids \cap mapped
  BY <1>1 DEF Inv, MapsOK
<1>10. MapsOK(nodes', past', known', inode_paths', open_files', next_handle', files')
  <2>1. open_files' = open_files /\ next_handle' = next_handle /\ files' = files
    BY <1>1
  <2>2. \A i : FileOK(i, nodes, past) => FileOK(i, nodes', past') /\ past[i] \subseteq past'[i]
    BY <1>6, EntryKept DEF FileOK, Grows
  <2>3. \A i \in mapped2 : inode_paths'[i] \in Path
    BY <1>7, <1>8 DEF Inv, MapsOK
  <2>4. known' \subseteq Ids \cap mapped2
    BY <1>7, <1>8, <1>9
  <2> QED
    BY <1>9, <2>1, <2>2, <2>3, <2>4 DEF Inv, MapsOK
<1>11. RequestOK(r, nodes', past', known', mapped2, files')
  <2>1. /\ r # Idle /\ r.op = "read" => <<r.handle, r.ino>> \in files'
        /\ RequestOK(r, nodes, past, known, mapped, files)
    BY <1>1, <1>2 DEF RequestOK
  <2>2. mapped \subseteq mapped2 /\ known \subseteq known' /\ known \subseteq Ids /\ r \in Noted(r)
    BY <1>8, <1>9 DEF Noted
  <2> HIDE DEF mapped, mapped2
  <2> QED
    BY <1>6, <2>1, <2>2, RequestKept
<1>12. e.id \in mapped2
  BY <1>8
<1>13. RequestOK(s, nodes', past', known', mapped2, files')
  <2> HIDE DEF mapped, mapped2
  <2>1. ASSUME NEW step \in {"truncate", "handle"}, e.kind = File, s = [r EXCEPT !.step = step]
        PROVE  RequestOK(s, nodes', past', known', mapped2, files')
    BY <1>2, <1>7, <1>11, <1>12, <2>1 DEF RequestOK, Fields
  <2>2. ASSUME NEW step \in {"load", "times"}, s = [r EXCEPT !.step = step]
        PROVE  RequestOK(s, nodes', past', known', mapped2, files')
    BY <1>2, <1>7, <1>11, <2>2 DEF RequestOK, Fields
  <2>3. ASSUME r.op = "readdir", s = [r EXCEPT !.step = "list"]
        PROVE  RequestOK(s, nodes', past', known', mapped2, files')
    BY <1>2, <1>11, <2>3 DEF RequestOK, Fields
  <2> QED
    BY <1>4, <2>1, <2>2, <2>3 DEF RequestOK
<1>14. files \subseteq files' /\ mapped \subseteq mapped2
  BY <1>1, <1>8
<1> QED
  BY <1>5, <1>9, <1>10, <1>13, <1>14, Stepped

\* A handle is new, and is given to a file.
LEMMA HandleStep == ASSUME Inv, NEW t \in Threads, AllocateHandle(t) PROVE Inv'
<1> DEFINE r == request[t]
           e == r.entry
           h == next_handle
           new == <<h, e.id>>
<1>1. /\ r.step = "handle" /\ next_handle' = h + 1 /\ inode_paths' = inode_paths
      /\ open_files' = [g \in DOMAIN open_files \cup {h} |-> IF g = h THEN e.path ELSE open_files[g]]
      /\ files' = files \cup {new} /\ known' = known \cup {e.id} /\ Goes(t, Idle)
  BY DEF AllocateHandle, At, HandleAfter
<1>2. /\ RequestOK(r, nodes, past, known, DOMAIN inode_paths, files) /\ r # Idle
      /\ EntryOK(e, nodes, past) /\ e.kind = File /\ e.id \in DOMAIN inode_paths
  BY <1>1, Working DEF RequestOK
<1>3. TreeOK(nodes) /\ Evolves(nodes) /\ Becomes(t, Idle, nodes)
  BY <1>1, Same DEF Goes, Inv
<1>4. TreeInv /\ Grows(nodes, past, nodes', past')
  BY <1>3, TreeKept DEF Inv
<1> HIDE DEF r
<1>5. FileOK(e.id, nodes', past') /\ e.path \in past'[e.id] /\ e.id \in Ids
  <2>1. EntryOK(e, nodes', past') /\ e.id \in Ids
    BY <1>2, <1>4, EntryKept DEF EntryOK
  <2> QED
    BY <1>2, <2>1 DEF EntryOK, FileOK
<1>6. \A i : FileOK(i, nodes, past) => FileOK(i, nodes', past') /\ past[i] \subseteq past'[i]
  BY <1>4, EntryKept DEF FileOK, Grows
<1>7. MapsOK(nodes, past, known, inode_paths, open_files, next_handle, files)
  BY DEF Inv
<1>8. h \in Nat /\ h \notin DOMAIN open_files /\ DOMAIN open_files' = DOMAIN open_files \cup {h}
      /\ open_files'[h] = e.path
      /\ \A g \in DOMAIN open_files : open_files'[g] = open_files[g]
  BY <1>1, <1>7 DEF MapsOK
<1>9. new[1] = h /\ new[2] = e.id /\ new = <<new[1], new[2]>>
  OBVIOUS
<1> HIDE DEF new
<1>10. MapsOK(nodes', past', known', inode_paths', open_files', next_handle', files')
  <2>1. known' \subseteq Ids \cap DOMAIN inode_paths' /\ \A i \in DOMAIN inode_paths' : inode_paths'[i] \in Path
    BY <1>1, <1>2, <1>5, <1>7 DEF MapsOK
  <2>2. next_handle' \in Nat /\ \A g \in DOMAIN open_files' : g \in Nat /\ g < next_handle'
    BY <1>1, <1>7, <1>8 DEF MapsOK
  <2>3. ASSUME NEW f \in files'
        PROVE  /\ f = <<f[1], f[2]>> /\ f[1] \in DOMAIN open_files' /\ f[2] \in known'
               /\ FileOK(f[2], nodes', past') /\ open_files'[f[1]] \in past'[f[2]]
    <3>1. CASE f = new
      BY <1>1, <1>5, <1>8, <1>9, <3>1
    <3>2. CASE f \in files
      BY <1>1, <1>6, <1>7, <1>8, <3>2 DEF MapsOK
    <3> QED
      BY <1>1, <3>1, <3>2
  <2>4. ASSUME NEW f \in files', NEW g \in files', f[1] = g[1]
        PROVE  f = g
    <3>1. \A x \in files : x[1] # h
      BY <1>7, <1>8 DEF MapsOK
    <3> QED
      BY <1>1, <1>7, <1>9, <2>4, <3>1 DEF MapsOK
  <2> QED
    BY <2>1, <2>2, <2>3, <2>4 DEF MapsOK
<1>11. RequestOK(Idle, nodes', past', known', DOMAIN inode_paths', files')
  BY DEF RequestOK
<1> QED
  BY <1>1, <1>3, <1>10, <1>11, Stepped

LEMMA ReleaseStep == ASSUME Inv, NEW f \in files, Release(f) PROVE Inv'
<1>1. /\ open_files' = [g \in DOMAIN open_files \ {f[1]} |-> open_files[g]]
      /\ files' = files \ {f}
      /\ UNCHANGED <<nodes, inode_paths, next_handle, known, request, past>>
      /\ \A t \in Threads : request[t].op # None => <<request[t].handle, request[t].ino>> # f
  BY DEF Release
<1>2. MapsOK(nodes, past, known, inode_paths, open_files, next_handle, files) /\ TreeInv
  BY DEF Inv
<1>3. \A g \in files' : g \in files /\ g[1] # f[1]
  BY <1>1, <1>2 DEF MapsOK
<1>4. MapsOK(nodes', past', known', inode_paths', open_files', next_handle', files')
  BY <1>1, <1>2, <1>3 DEF MapsOK
<1>5. Grows(nodes, past, nodes, past)
  BY <1>2 DEF Grows
<1>6. ASSUME NEW u \in Threads
      PROVE  RequestOK(request[u], nodes, past, known, DOMAIN inode_paths, files')
  <2> DEFINE r == request[u]
             mapped == DOMAIN inode_paths
  <2>1. RequestOK(r, nodes, past, known, mapped, files) /\ known \subseteq Ids
    BY DEF Inv, MapsOK
  <2>2. r # Idle /\ r.op = "read" => <<r.handle, r.ino>> \in files'
    BY <1>1, <2>1, MountAssumption DEF RequestOK
  <2>3. r \in Noted(r)
    BY DEF Noted
  <2> HIDE DEF r, mapped
  <2>4. RequestOK(r, nodes, past, known, mapped, files')
    BY <1>5, <2>1, <2>2, <2>3, RequestKept
  <2> QED
    BY <2>4 DEF r, mapped
<1>7. TreeInv'
  BY <1>1, <1>2 DEF TreeInv, Past
<1>8. \A u \in Threads : RequestOK(request'[u], nodes', past', known', DOMAIN inode_paths', files')
  BY <1>1, <1>6
<1> QED
  BY <1>4, <1>7, <1>8 DEF Inv

-----------------------------------------------------------------------------
(* A new request.                                                          *)

LEMMA NewStep ==
  ASSUME Inv, NEW t \in Threads, NEW s, Goes(t, s), UNCHANGED <<mount, kernel>>,
         DOMAIN s = Fields, s.ino \in known,
         \/ s.step = "path" /\ s.op \in Named \ {"rename"} /\ s.name \in Names
         \/ s.step = "path" /\ s.op = "rename" /\ {s.name, s.name2} \subseteq Names /\ s.ino2 \in known
         \/ s.step = "entry" /\ s.op \in Entries
         \/ s.step = "read" /\ s.op = "read" /\ <<s.handle, s.ino>> \in files
  PROVE  Inv'
<1>1. s.op # "read" \/ <<s.handle, s.ino>> \in files
  BY DEF Named, Entries
<1>2. s.op # "rename" \/ (s.name2 \in Names /\ s.ino2 \in known)
  BY DEF Named, Entries
<1>3. RequestOK(s, nodes, past, known, DOMAIN inode_paths, files)
  BY <1>1, <1>2 DEF RequestOK, Named
<1> QED
  BY <1>3, GoesOn

LEMMA RequestStep ==
  ASSUME Inv, NEW t \in Threads, NEW op, NEW ino \in known, Request(t, op, ino)
  PROVE  Inv'
<1> DEFINE new(step) == NewRequest(op, ino, step)
<1>1. UNCHANGED <<mount, kernel>>
  BY DEF Request
<1>2. \A step : /\ DOMAIN new(step) = Fields /\ new(step).op = op
                /\ new(step).step = step /\ new(step).ino = ino
  BY DEF NewRequest, Fields
<1>3. \/ /\ op \in {"lookup", "create", "mkdir", "remove"}
         /\ \E n \in Names : Goes(t, [new("path") EXCEPT !.name = n])
      \/ /\ op = "rename"
         /\ \E n, m \in Names, j \in known :
               Goes(t, [new("path") EXCEPT !.name = n, !.ino2 = j, !.name2 = m])
      \/ op \in {"getattr", "setattr", "readdir"} /\ Goes(t, new("entry"))
      \/ op = "open" /\ \E trunc \in BOOLEAN : Goes(t, [new("entry") EXCEPT !.trunc = trunc])
      \/ op = "read" /\ \E f \in files : f[2] = ino /\ Goes(t, [new("read") EXCEPT !.handle = f[1]])
      \/ /\ op = "write"
         /\ \E f \in files, b \in Bytes, offset \in 0..1 :
               Goes(t, [new("entry") EXCEPT !.handle = f[1], !.byte = b, !.offset = offset])
  BY DEF Request
<1> HIDE DEF new
<1>4. CASE /\ op \in {"lookup", "create", "mkdir", "remove"}
           /\ \E n \in Names : Goes(t, [new("path") EXCEPT !.name = n])
  <2>1. PICK n \in Names : Goes(t, [new("path") EXCEPT !.name = n])
    BY <1>4
  <2> DEFINE s == [new("path") EXCEPT !.name = n]
  <2>2. /\ DOMAIN s = Fields /\ s.ino = ino /\ s.step = "path" /\ s.op = op /\ s.name = n
    BY <1>2 DEF Fields
  <2> HIDE DEF s
  <2>3. Goes(t, s)
    BY <2>1 DEF s
  <2> QED
    BY <1>1, <1>4, <2>2, <2>3, NewStep DEF Named
<1>5. CASE /\ op = "rename"
           /\ \E n, m \in Names, j \in known :
                 Goes(t, [new("path") EXCEPT !.name = n, !.ino2 = j, !.name2 = m])
  <2>1. PICK n \in Names, m \in Names, j \in known :
          Goes(t, [new("path") EXCEPT !.name = n, !.ino2 = j, !.name2 = m])
    BY <1>5
  <2> DEFINE s == [new("path") EXCEPT !.name = n, !.ino2 = j, !.name2 = m]
  <2>2. /\ DOMAIN s = Fields /\ s.ino = ino /\ s.step = "path" /\ s.op = op
        /\ s.name = n /\ s.name2 = m /\ s.ino2 = j
    BY <1>2 DEF Fields
  <2> HIDE DEF s
  <2>3. Goes(t, s)
    BY <2>1 DEF s
  <2> QED
    BY <1>1, <1>5, <2>2, <2>3, NewStep
<1>6. CASE op \in {"getattr", "setattr", "readdir"} /\ Goes(t, new("entry"))
  <2> DEFINE s == new("entry")
  <2>1. DOMAIN s = Fields /\ s.ino = ino /\ s.step = "entry" /\ s.op = op /\ Goes(t, s)
    BY <1>2, <1>6
  <2> HIDE DEF s
  <2> QED
    BY <1>1, <1>6, <2>1, NewStep DEF Entries
<1>7. CASE op = "open" /\ \E trunc \in BOOLEAN : Goes(t, [new("entry") EXCEPT !.trunc = trunc])
  <2>1. PICK trunc \in BOOLEAN : Goes(t, [new("entry") EXCEPT !.trunc = trunc])
    BY <1>7
  <2> DEFINE s == [new("entry") EXCEPT !.trunc = trunc]
  <2>2. DOMAIN s = Fields /\ s.ino = ino /\ s.step = "entry" /\ s.op = op
    BY <1>2 DEF Fields
  <2> HIDE DEF s
  <2>3. Goes(t, s)
    BY <2>1 DEF s
  <2> QED
    BY <1>1, <1>7, <2>2, <2>3, NewStep DEF Entries
<1>8. CASE op = "read" /\ \E f \in files : f[2] = ino /\ Goes(t, [new("read") EXCEPT !.handle = f[1]])
  <2>1. PICK f \in files : f[2] = ino /\ Goes(t, [new("read") EXCEPT !.handle = f[1]])
    BY <1>8
  <2> DEFINE s == [new("read") EXCEPT !.handle = f[1]]
  <2>2. DOMAIN s = Fields /\ s.ino = ino /\ s.step = "read" /\ s.op = op /\ s.handle = f[1]
    BY <1>2 DEF Fields
  <2> HIDE DEF s
  <2>3. Goes(t, s)
    BY <2>1 DEF s
  <2>4. <<f[1], f[2]>> = f
    BY DEF Inv, MapsOK
  <2> QED
    BY <1>1, <1>8, <2>1, <2>2, <2>3, <2>4, NewStep
<1>9. CASE /\ op = "write"
           /\ \E f \in files, b \in Bytes, offset \in 0..1 :
                 Goes(t, [new("entry") EXCEPT !.handle = f[1], !.byte = b, !.offset = offset])
  <2>1. PICK f \in files, b \in Bytes, offset \in 0..1 :
          Goes(t, [new("entry") EXCEPT !.handle = f[1], !.byte = b, !.offset = offset])
    BY <1>9
  <2> DEFINE s == [new("entry") EXCEPT !.handle = f[1], !.byte = b, !.offset = offset]
  <2>2. DOMAIN s = Fields /\ s.ino = ino /\ s.step = "entry" /\ s.op = op
    BY <1>2 DEF Fields
  <2> HIDE DEF s
  <2>3. Goes(t, s)
    BY <2>1 DEF s
  <2> QED
    BY <1>1, <1>9, <2>2, <2>3, NewStep DEF Entries
<1> QED
  BY <1>3, <1>4, <1>5, <1>6, <1>7, <1>8, <1>9

-----------------------------------------------------------------------------
(* The theorems.                                                           *)

LEMMA First == Init => Inv
<1> SUFFICES ASSUME Init PROVE Inv
  OBVIOUS
<1>1. TreeOK(nodes)
  <2>1. nodes = Tree
    BY DEF Init
  <2>2. Typed(Tree) /\ Unique(Tree)
    BY MountAssumption, TreeAssumption DEF Typed, Unique, Path
  <2>3. Rooted(Tree)
    BY TreeAssumption DEF Rooted, HasDir
  <2> QED
    BY <2>1, <2>2, <2>3 DEF TreeOK
<1>2. Past
  <2>1. DOMAIN past = Ids /\ \A i \in Ids : past[i] = IF i \in DOMAIN Tree THEN {Tree[i].path} ELSE {}
    BY DEF Init
  <2>2. ASSUME NEW i \in Ids PROVE past[i] \subseteq Path /\ IsFiniteSet(past[i])
    <3>1. CASE i \in DOMAIN Tree
      <4>1. past[i] = {Tree[i].path} /\ Tree[i].path \in Path
        BY <2>1, <3>1, TreeAssumption DEF Path
      <4> QED
        BY <4>1, FS_Singleton
    <3>2. CASE i \notin DOMAIN Tree
      BY <2>1, <3>2, FS_EmptySet
    <3> QED
      BY <3>1, <3>2
  <2>3. \A i \in DOMAIN nodes : nodes[i].path \in past[i]
    BY <1>1, <2>1 DEF Init, TreeOK, Typed
  <2> QED
    BY <2>1, <2>2, <2>3 DEF Past
<1>3. MapsOK(nodes, past, known, inode_paths, open_files, next_handle, files)
  <2>1. <<>> \in Path /\ Root \in Ids
    BY MountAssumption DEF Path
  <2> QED
    BY <2>1 DEF Init, MapsOK
<1>4. \A t \in Threads : RequestOK(request[t], nodes, past, known, DOMAIN inode_paths, files)
  BY DEF Init, RequestOK
<1> QED
  BY <1>1, <1>2, <1>3, <1>4 DEF Inv, TreeInv

LEMMA NextKeeps == Inv /\ [Next]_vars => Inv'
<1> SUFFICES ASSUME Inv, [Next]_vars PROVE Inv'
  OBVIOUS
<1>1. ASSUME NEW t \in Threads, Work(t) PROVE Inv'
  BY <1>1, PathStep, Path2Step, EntryStep, CallStep, RememberStep, TruncateStep, HandleStep,
     ReadPathStep, RangeStep, LoadStep, SaveStep, TimesStep, ListStep, AnswerStep DEF Work
<1>2. ASSUME NEW t \in Threads, NEW op \in ops[t], NEW ino \in known, Request(t, op, ino) PROVE Inv'
  BY <1>2, RequestStep
<1>3. ASSUME NEW f \in files, Release(f) PROVE Inv'
  BY <1>3, ReleaseStep
<1>4. CASE UNCHANGED vars
  <2>1. /\ nodes' = nodes /\ past' = past /\ request' = request
        /\ known' = known /\ inode_paths' = inode_paths /\ open_files' = open_files
        /\ next_handle' = next_handle /\ files' = files
    BY <1>4 DEF vars, mount, kernel
  <2> QED
    BY <2>1 DEF Inv, TreeInv, Past
<1> QED
  BY <1>1, <1>2, <1>3, <1>4, OthersStep DEF Next

\* The tree is a tree, and the maps and the requests speak of rows that were
\* there, at paths that they had, through every call of every thread and client.
THEOREM Invariance == Spec => []Inv
<1>1. Inv /\ [Next]_vars => Inv'
  BY NextKeeps
<1> QED
  BY <1>1, First, PTL DEF Spec

\* Every inode and every open file of the kernel has its entry in the maps, so
\* inode_path and open_path never fall back to another path.
THEOREM ResolvableTheorem == Spec => []Resolvable
<1>1. Inv => Resolvable
  BY DEF Inv, MapsOK, Resolvable
<1> QED
  BY <1>1, Invariance, PTL

\* Every step of a thread is one of Becomes.
LEMMA Acts ==
  ASSUME Inv, NEW t \in Threads, Work(t) \/ \E op \in ops[t], ino \in known : Request(t, op, ino)
  PROVE  \E s, after : Becomes(t, s, after)
<1>1. CASE \E op \in ops[t], ino \in known : Request(t, op, ino)
  BY <1>1 DEF Request, Goes
<1>2. CASE ChildPath(t) \/ SecondPath(t) \/ ReadPath(t) \/ Answer(t) \/ AllocateHandle(t)
  BY <1>2 DEF ChildPath, SecondPath, ReadPath, Answer, AllocateHandle, Goes
<1>3. CASE Entry(t)
  BY <1>3 DEF Entry, Goes, Failed
<1>4. CASE ReadRange(t)
  BY <1>4 DEF ReadRange, Goes, Failed
<1>5. CASE Load(t)
  BY <1>5 DEF Load, Goes, Failed
<1>6. CASE SetTimes(t)
  BY <1>6 DEF SetTimes, Goes, Failed
<1>7. CASE List(t)
  BY <1>7 DEF List, Goes, Failed
<1>8. CASE Truncate(t)
  BY <1>8 DEF Truncate, Goes, Failed
<1>9. CASE Save(t)
  BY <1>9 DEF Save, Goes, Failed
<1> DEFINE r == request[t]
<1>10. CASE Remember(t)
  <2>1. r.op \in Entries \cup {"lookup", "create", "mkdir"}
    BY <1>10, Working DEF RequestOK, Remember, At
  <2> QED
    BY <1>10, <2>1 DEF Remember, Goes, Failed, Entries
<1>11. CASE Call(t)
  <2>1. r.op \in Named
    BY <1>11, Working DEF RequestOK, Call, At
  <2> QED
    BY <1>11, <2>1 DEF Call, Goes, Failed, Named
<1> QED
  BY <1>1, <1>2, <1>3, <1>4, <1>5, <1>6, <1>7, <1>8, <1>9, <1>10, <1>11 DEF Work

\* A read through a file that was never moved answers with that file's
\* contents: no handle is given to two files (allocate_handle, open_path).
THEOREM ReadsOwnTheorem == Spec => ReadsOwnUnlessMoved
<1> DEFINE Own(t) ==
             LET r == request[t]
             IN /\ r.op = "read" /\ r.step = "range" /\ request'[t].step # "range"
                /\ r.ino \in DOMAIN nodes /\ Cardinality(past[r.ino]) = 1
                => request'[t].step = "answer" /\ request'[t].data = nodes[r.ino].data
<1>1. ASSUME Inv, [Next]_vars, NEW t \in Threads PROVE Own(t)
  <2> DEFINE r == request[t]
             i == r.ino
  <2> SUFFICES ASSUME r.op = "read", r.step = "range", request'[t].step # "range",
                      i \in DOMAIN nodes, Cardinality(past[i]) = 1
               PROVE  request'[t].step = "answer" /\ request'[t].data = nodes[i].data
    OBVIOUS
  <2>1. /\ DOMAIN r = Fields /\ <<r.handle, i>> \in files /\ r.path \in past[i]
        /\ r # Idle
    BY <1>1, Working DEF RequestOK
  <2>2. r.path = nodes[i].path
    <3>1. i \in Ids /\ nodes[i].path \in past[i] /\ IsFiniteSet(past[i])
      BY <1>1 DEF Inv, TreeInv, TreeOK, Typed, Past
    <3>2. PICK x : past[i] = {x}
      BY <3>1, FS_Singleton
    <3> QED
      BY <2>1, <3>1, <3>2
  <2>3. KindAt(r.path) = File /\ IdAt(r.path) = i
    <3> DEFINE f == <<r.handle, i>>
    <3>1. FileOK(f[2], nodes, past)
      BY <1>1, <2>1 DEF Inv, MapsOK
    <3>2. i \in IdsAt(r.path) /\ nodes[i].kind = File
      BY <2>2, <3>1 DEF FileOK, IdsAt
    <3> QED
      BY <1>1, <3>2, Kinds DEF Inv
  \* Only a step of the thread itself takes it past "range".
  <2>4. ASSUME NEW u, NEW s, NEW after, Becomes(u, s, after), u # t PROVE FALSE
    <3>1. request'[t] \in Noted(r)
      BY <2>4 DEF Becomes, Noted
    <3>2. request'[t].step = r.step
      BY <2>1, <3>1 DEF Noted, Fields
    <3> QED
      BY <3>2
  <2>5. request' # request
    OBVIOUS
  <2>6. ~Others /\ ~(\E f \in files : Release(f)) /\ ~UNCHANGED vars
    <3>1. ~Others
      BY <2>4, MountAssumption DEF Others
    <3> QED
      BY <2>5, <3>1 DEF Release, vars
  <2>7. Work(t) \/ \E op \in ops[t], ino \in known : Request(t, op, ino)
    <3>1. PICK u \in Threads : Work(u) \/ \E op \in ops[u], ino \in known : Request(u, op, ino)
      BY <1>1, <2>6 DEF Next
    <3>2. u = t
      BY <1>1, <2>4, <3>1, Acts
    <3> QED
      BY <3>1, <3>2
  <2>8. ReadRange(t)
    BY <2>7 DEF Work, Request, At, ChildPath, SecondPath, Entry, Call, Remember, Truncate,
       AllocateHandle, ReadPath, Load, Save, SetTimes, List, Answer
  <2> QED
    BY <2>1, <2>3, <2>8 DEF ReadRange, Goes, Becomes, Fields
<1>2. ASSUME Inv, [Next]_vars PROVE [\A t \in Threads : Own(t)]_vars
  BY <1>1, <1>2
<1>3. Spec => [][\A t \in Threads : Own(t)]_vars
  BY <1>2, Invariance, PTL DEF Spec
<1> QED
  BY <1>3 DEF ReadsOwnUnlessMoved

-----------------------------------------------------------------------------
(***************************************************************************)
(* What a request has read of the volume, while nobody changed it.         *)
(***************************************************************************)
Contents(at) ==
    \A i \in DOMAIN at :
        at[i].data \in Seq(Nat) /\ (at[i].path = <<>> => at[i].kind = Dir)

\* All that an answer to readdir shows of each directory.
Shown == [i \in DOMAIN nodes |-> <<".", "..">> \o Listing(nodes[i].path)]

\* A request that is alone has the row's path of its inode, the contents of its
\* file, and the beginning of its listing up to the offset.
AloneOK(r, at, shown) ==
    /\ r.step \in {"remember", "load", "save", "list"} =>
          r.ino \in DOMAIN at /\ r.entry.path = at[r.ino].path
    /\ r.step = "save" => at[r.ino].kind = File /\ r.data = at[r.ino].data
    /\ r.op = "readdir" =>
          \/ r.step = "entry" /\ r.offset = 0 /\ r.seen = <<>>
          \/ /\ r.ino \in DOMAIN at
             /\ r.offset \in 0..Len(shown[r.ino]) /\ r.seen = SubSeq(shown[r.ino], 1, r.offset)
             /\ r.step = "answer" => r.offset = Len(shown[r.ino])

ReadingOK(r, at, shown) ==
    \/ r = Idle
    \/ /\ r.offset \in Nat /\ r.byte \in Nat
       /\ r.step = "save" => r.data \in Seq(Nat)
       /\ r.op = "write" => r.step \in {"entry", "remember", "load", "save"}
       /\ r.op = "readdir" => r.step \in {"entry", "remember", "list", "answer"}
       /\ r.alone /\ r.op \in {"write", "readdir"} => AloneOK(r, at, shown)

Readings ==
    /\ Contents(nodes)
    /\ \A t \in Threads : ReadingOK(request[t], nodes, Shown)

LEMMA PutContents ==
  ASSUME Contents(nodes), NEW p, p # <<>>, NEW i, NEW kind, NEW data \in Seq(Nat),
         NEW after, after = WithNode(i, [path |-> p, kind |-> kind, data |-> data])
  PROVE  Contents(after)
BY DEF Contents, WithNode

LEMMA MoveContents ==
  ASSUME TreeInv, Contents(nodes), NEW p \in Path, NEW q \in Path, CanMove(p, q)
  PROVE  Contents(AfterMove(p, q))
<1> DEFINE after == AfterMove(p, q)
<1>1. \A i \in DOMAIN after :
        /\ i \in DOMAIN nodes /\ after[i].data = nodes[i].data /\ after[i].kind = nodes[i].kind
        /\ after[i].path = IF IsPrefix(p, nodes[i].path) THEN Rebased(p, q, nodes[i].path)
                                                         ELSE nodes[i].path
  BY DEF AfterMove, Rebased, TreeInv, TreeOK, Typed
<1>2. Len(q) \in Nat \ {0}
  BY EmptySeq DEF CanMove, ParentIsDir, Path
<1>3. ASSUME NEW i \in DOMAIN nodes, IsPrefix(p, nodes[i].path)
      PROVE  Rebased(p, q, nodes[i].path) # <<>>
  <2> DEFINE t == nodes[i].path
  <2>1. t \in Path /\ Len(t) \in Nat /\ Len(p) \in Nat /\ Len(p) <= Len(t)
    BY <1>3, PrefixMeans, LenProperties DEF TreeInv, TreeOK, Typed, Path
  <2>2. Len(Rebased(p, q, t)) = Len(q) + (Len(t) - Len(p))
    BY <1>3, <2>1, RebasedIs
  <2> HIDE DEF t
  <2>3. Len(Rebased(p, q, t)) # 0
    BY <1>2, <2>1, <2>2
  <2> QED
    BY <2>3 DEF t
<1> HIDE DEF after
<1>4. Contents(after)
  BY <1>1, <1>3 DEF Contents
<1> QED
  BY <1>4 DEF after

LEMMA ShownIs ==
  ASSUME NEW i \in DOMAIN nodes
  PROVE  \E S : Shown[i] \in Seq(S)
<1> DEFINE p == nodes[i].path
           there == {k \in DOMAIN NameOrder : Exists(Append(p, NameOrder[k]))}
           m == Cardinality(there)
           l == Listing(p)
<1>1. m \in Nat
  <2>1. DOMAIN NameOrder = 1..Len(NameOrder) /\ Len(NameOrder) \in Nat
    BY MountAssumption, LenProperties
  <2>2. IsFiniteSet(1..Len(NameOrder))
    BY <2>1, FS_Interval
  <2> QED
    BY <2>1, <2>2, FS_Subset, FS_CardinalityType
<1>2. l = [j \in 1..m |-> l[j]]
  BY DEF Listing
<1> HIDE DEF p, there, m, l
<1> DEFINE S == {l[j] : j \in 1..m}
<1>3. l \in [1..m -> S]
  BY <1>2
<1>4. l \in Seq(S)
  BY <1>1, <1>3, SeqDef
<1> DEFINE T == S \cup {".", ".."}
<1>5. l \in Seq(T) /\ <<".", "..">> \in Seq(T)
  <2>1. l \in [1..m -> T]
    BY <1>3
  <2>2. l \in Seq(T)
    BY <1>1, <2>1, SeqDef
  <2> QED
    BY <2>2
<1> HIDE DEF T
<1>6. <<".", "..">> \o l \in Seq(T)
  BY <1>5, ConcatProperties
<1> QED
  BY <1>6 DEF Shown, l, p

LEMMA ShownSame == ASSUME nodes' = nodes PROVE Shown' = Shown
BY DEF Shown, Listing, Exists, IdsAt

LEMMA Reads ==
  ASSUME Inv, Readings, NEW t, NEW r, NEW after, Becomes(t, r, after), Contents(after),
         t \in Threads => ReadingOK(r, nodes', Shown')
  PROVE  Readings'
<1>1. nodes' = after
  BY DEF Becomes
<1>2. ASSUME NEW u \in Threads
      PROVE  ReadingOK(request'[u], nodes', Shown')
  <2> DEFINE v == request[u]
  <2>1. ReadingOK(v, nodes, Shown) /\ (v = Idle \/ DOMAIN v = Fields)
    BY DEF Readings, Inv, RequestOK
  <2>2. CASE u = t
    BY <2>2 DEF Becomes
  <2>3. CASE u # t /\ nodes' = nodes
    <3>1. request'[u] = v /\ Shown' = Shown
      BY <1>1, <2>3, ShownSame DEF Becomes
    <3> QED
      BY <2>1, <2>3, <3>1
  <2>4. CASE u # t /\ v.op = None
    <3>1. request'[u] = v
      BY <2>4 DEF Becomes
    <3> QED
      BY <2>1, <2>4, <3>1, MountAssumption DEF ReadingOK
  <2>5. CASE u # t /\ nodes' # nodes /\ v.op # None
    <3> DEFINE s == [v EXCEPT !.alone = FALSE]
    <3>1. request'[u] = s /\ v # Idle
      BY <1>1, <2>5 DEF Becomes, Idle
    <3>2. s.alone = FALSE /\ \A x \in Fields \ {"alone"} : s[x] = v[x]
      BY <2>1, <3>1 DEF Fields
    <3>3. s.offset = v.offset /\ s.byte = v.byte /\ s.step = v.step /\ s.data = v.data /\ s.op = v.op
      BY <3>2 DEF Fields
    <3> HIDE DEF s, v
    <3> QED
      BY <2>1, <3>1, <3>2, <3>3 DEF ReadingOK
  <2> QED
    BY <2>2, <2>3, <2>4, <2>5
<1> QED
  BY <1>1, <1>2 DEF Readings

LEMMA GoesOnReading ==
  ASSUME Inv, Readings, NEW t \in Threads, NEW r, Goes(t, r), ReadingOK(r, nodes, Shown)
  PROVE  Readings'
<1>1. Becomes(t, r, nodes) /\ Contents(nodes) /\ nodes' = nodes
  BY DEF Goes, Becomes, Readings
<1>2. ReadingOK(r, nodes', Shown')
  BY <1>1, ShownSame
<1> QED
  BY <1>1, <1>2, Reads

LEMMA FailsReading ==
  ASSUME Inv, Readings, NEW t \in Threads, Failed(t)
  PROVE  Readings'
BY GoesOnReading DEF Failed, ReadingOK

\* A request of another kind has read nothing that matters here.
LEMMA OtherKind ==
  ASSUME NEW r, NEW s, NEW at, NEW shown, NEW at2, NEW shown2, r # Idle,
         ReadingOK(r, at, shown), s.offset = r.offset, s.byte = r.byte,
         s.op \notin {"write", "readdir"}, s.step # "save"
  PROVE  ReadingOK(s, at2, shown2)
BY DEF ReadingOK

\* What a working thread has read.
LEMMA HasRead ==
  ASSUME Inv, Readings, NEW t \in Threads, NEW r, r = request[t], r.step # "idle"
  PROVE  /\ r # Idle /\ DOMAIN r = Fields /\ ReadingOK(r, nodes, Shown)
         /\ r.step \notin {"entry", "remember", "load", "save", "list", "answer"} =>
                r.op \notin {"write", "readdir"}
<1>1. r # Idle /\ DOMAIN r = Fields /\ ReadingOK(r, nodes, Shown)
  BY Working DEF Readings
<1> QED
  BY <1>1 DEF ReadingOK

LEMMA PathReads == ASSUME Inv, Readings, NEW t \in Threads, ChildPath(t) PROVE Readings'
<1> DEFINE r == request[t]
           p == Append(inode_paths[r.ino], r.name)
           s == [r EXCEPT !.path = p, !.step = IF r.op = "rename" THEN "path2" ELSE "call"]
<1>1. r.step = "path" /\ Goes(t, s)
  BY DEF ChildPath, At
<1>2. r # Idle /\ DOMAIN r = Fields /\ ReadingOK(r, nodes, Shown) /\ r.op \notin {"write", "readdir"}
  BY <1>1, HasRead
<1> HIDE DEF r, p
<1>3. s.offset = r.offset /\ s.byte = r.byte /\ s.op = r.op /\ s.step # "save"
  BY <1>2 DEF Fields
<1> HIDE DEF s
<1>4. ReadingOK(s, nodes, Shown)
  BY <1>2, <1>3, OtherKind
<1> QED
  BY <1>1, <1>4, GoesOnReading

LEMMA Path2Reads == ASSUME Inv, Readings, NEW t \in Threads, SecondPath(t) PROVE Readings'
<1> DEFINE r == request[t]
           p == Append(inode_paths[r.ino2], r.name2)
           s == [r EXCEPT !.step = "call", !.to = p]
<1>1. r.step = "path2" /\ Goes(t, s)
  BY DEF SecondPath, At, Destination
<1>2. r # Idle /\ DOMAIN r = Fields /\ ReadingOK(r, nodes, Shown) /\ r.op \notin {"write", "readdir"}
  BY <1>1, HasRead
<1> HIDE DEF r, p
<1>3. s.offset = r.offset /\ s.byte = r.byte /\ s.op = r.op /\ s.step # "save"
  BY <1>2 DEF Fields
<1> HIDE DEF s
<1>4. ReadingOK(s, nodes, Shown)
  BY <1>2, <1>3, OtherKind
<1> QED
  BY <1>1, <1>4, GoesOnReading

LEMMA ReadPathReads == ASSUME Inv, Readings, NEW t \in Threads, ReadPath(t) PROVE Readings'
<1> DEFINE r == request[t]
           p == OpenPath(r.handle, r.ino)
           s == [r EXCEPT !.path = p, !.step = "range"]
<1>1. r.step = "read" /\ Goes(t, s)
  BY DEF ReadPath, At
<1>2. r # Idle /\ DOMAIN r = Fields /\ ReadingOK(r, nodes, Shown) /\ r.op \notin {"write", "readdir"}
  BY <1>1, HasRead
<1> HIDE DEF r, p
<1>3. s.offset = r.offset /\ s.byte = r.byte /\ s.op = r.op /\ s.step # "save"
  BY <1>2 DEF Fields
<1> HIDE DEF s
<1>4. ReadingOK(s, nodes, Shown)
  BY <1>2, <1>3, OtherKind
<1> QED
  BY <1>1, <1>4, GoesOnReading

LEMMA RangeReads == ASSUME Inv, Readings, NEW t \in Threads, ReadRange(t) PROVE Readings'
<1> DEFINE r == request[t]
           d == nodes[IdAt(r.path)].data
           s == [r EXCEPT !.data = d, !.step = "answer"]
<1>1. r.step = "range" /\ (Goes(t, s) \/ Failed(t))
  BY DEF ReadRange, At
<1>2. r # Idle /\ DOMAIN r = Fields /\ ReadingOK(r, nodes, Shown) /\ r.op \notin {"write", "readdir"}
  BY <1>1, HasRead
<1> HIDE DEF r, d
<1>3. s.offset = r.offset /\ s.byte = r.byte /\ s.op = r.op /\ s.step # "save"
  BY <1>2 DEF Fields
<1> HIDE DEF s
<1>4. ReadingOK(s, nodes, Shown)
  BY <1>2, <1>3, OtherKind
<1> QED
  BY <1>1, <1>4, GoesOnReading, FailsReading

LEMMA TimesReads == ASSUME Inv, Readings, NEW t \in Threads, SetTimes(t) PROVE Readings'
<1> DEFINE r == request[t]
           p == r.entry.path
           e == [id |-> IdAt(p), path |-> p, kind |-> KindAt(p)]
           s == [r EXCEPT !.entry = e, !.op = "getattr", !.step = "remember"]
<1>1. r.step = "times" /\ (Goes(t, s) \/ Failed(t))
  BY DEF SetTimes, At
<1>2. r # Idle /\ DOMAIN r = Fields /\ ReadingOK(r, nodes, Shown)
  BY <1>1, HasRead
<1> HIDE DEF r, e
<1>3. s.offset = r.offset /\ s.byte = r.byte /\ s.op = "getattr" /\ s.step # "save"
  BY <1>2 DEF Fields
<1> HIDE DEF s
<1>4. ReadingOK(s, nodes, Shown)
  BY <1>2, <1>3, OtherKind
<1> QED
  BY <1>1, <1>4, GoesOnReading, FailsReading

LEMMA AnswerReads == ASSUME Inv, Readings, NEW t \in Threads, Answer(t) PROVE Readings'
BY FailsReading DEF Answer, Failed

LEMMA HandleReads == ASSUME Inv, Readings, NEW t \in Threads, AllocateHandle(t) PROVE Readings'
BY FailsReading DEF AllocateHandle, Failed

LEMMA TruncateReads == ASSUME Inv, Readings, NEW t \in Threads, Truncate(t) PROVE Readings'
<1> DEFINE r == request[t]
           p == r.entry.path
           s == [r EXCEPT !.step = "handle"]
<1>1. r.step = "truncate"
  BY DEF Truncate, At
<1>2. r # Idle /\ DOMAIN r = Fields /\ ReadingOK(r, nodes, Shown) /\ r.op \notin {"write", "readdir"}
  BY <1>1, HasRead
<1>3. CASE CanWrite(p)
  <2>1. PICK i \in Written(p) : Becomes(t, s, AfterWrite(i, p, <<>>))
    BY <1>3 DEF Truncate, To
  <2> DEFINE after == AfterWrite(i, p, <<>>)
  <2>2. Contents(after) /\ Becomes(t, s, after)
    <3>1. p # <<>> /\ <<>> \in Seq(Nat)
      BY <1>3 DEF CanWrite, ParentIsDir
    <3> QED
      BY <2>1, <3>1, PutContents DEF AfterWrite, Readings
  <2> HIDE DEF after, r
  <2>3. s.offset = r.offset /\ s.byte = r.byte /\ s.op = r.op /\ s.step # "save"
    BY <1>2 DEF Fields
  <2> HIDE DEF s
  <2>4. ReadingOK(s, nodes', Shown')
    BY <1>2, <2>3, OtherKind
  <2> QED
    BY <2>2, <2>4, Reads
<1>4. CASE ~CanWrite(p)
  BY <1>4, FailsReading DEF Truncate
<1> QED
  BY <1>3, <1>4

LEMMA CallReads == ASSUME Inv, Readings, NEW t \in Threads, Call(t) PROVE Readings'
<1> DEFINE r == request[t]
           p == r.path
           Got(s, e) == s = [r EXCEPT !.entry = e, !.step = "remember"]
<1>1. r.step = "call"
  BY DEF Call, At
<1>2. /\ r # Idle /\ DOMAIN r = Fields /\ ReadingOK(r, nodes, Shown)
      /\ r.op \notin {"write", "readdir"}
      /\ r.op \in Named /\ p \in Path /\ (r.op = "rename" => r.to \in Path)
  BY <1>1, HasRead, Working DEF RequestOK
<1>3. \E s, after : /\ Becomes(t, s, after) /\ Contents(after)
                    /\ s = Idle \/ \E e : Got(s, e)
  <2>1. CASE r.op = "lookup"
    BY <2>1 DEF Call, Failed, Goes, Readings
  <2>2. CASE r.op = "create"
    <3>1. CASE CanWrite(p)
      <4>1. PICK i \in Written(p) :
              Becomes(t, [r EXCEPT !.entry = [id |-> i, path |-> p, kind |-> AfterWrite(i, p, <<>>)[i].kind],
                                   !.step = "remember"], AfterWrite(i, p, <<>>))
        BY <2>2, <3>1 DEF Call
      <4>2. p # <<>> /\ <<>> \in Seq(Nat)
        BY <3>1 DEF CanWrite, ParentIsDir
      <4>3. Contents(AfterWrite(i, p, <<>>))
        BY <4>2, PutContents DEF AfterWrite, Readings
      <4> QED
        BY <4>1, <4>3
    <3>2. CASE ~CanWrite(p)
      BY <2>2, <3>2 DEF Call, Failed, Goes, Readings
    <3> QED
      BY <3>1, <3>2
  <2>3. CASE r.op = "mkdir"
    <3>1. CASE CanMkdir(p)
      <4> DEFINE after(i) == WithNode(i, [path |-> p, kind |-> Dir, data |-> <<>>])
      <4>1. PICK i \in Fresh :
              Becomes(t, [r EXCEPT !.entry = [id |-> i, path |-> p, kind |-> after(i)[i].kind],
                                   !.step = "remember"], after(i))
        BY <2>3, <3>1 DEF Call
      <4>2. p # <<>> /\ <<>> \in Seq(Nat)
        BY <3>1 DEF CanMkdir, ParentIsDir
      <4>3. Contents(after(i))
        BY <4>2, PutContents DEF Readings
      <4> QED
        BY <4>1, <4>3
    <3>2. CASE ~CanMkdir(p)
      BY <2>3, <3>2 DEF Call, Failed, Goes, Readings
    <3> QED
      BY <3>1, <3>2
  <2>4. CASE r.op = "remove"
    <3>1. Contents(AfterRemove(p))
      BY DEF AfterRemove, Contents, Readings
    <3> QED
      BY <2>4, <3>1 DEF Call, Failed, Goes, Readings
  <2>5. CASE r.op = "rename"
    <3>1. CanMove(p, r.to) => Contents(AfterMove(p, r.to))
      BY <1>2, <2>5, MoveContents DEF Readings, Inv
    <3> QED
      BY <2>5, <3>1 DEF Call, Failed, Goes, Readings
  <2> QED
    BY <1>2, <2>1, <2>2, <2>3, <2>4, <2>5 DEF Named
<1>4. PICK s, after : /\ Becomes(t, s, after) /\ Contents(after)
                      /\ s = Idle \/ \E e : Got(s, e)
  BY <1>3
<1> HIDE DEF r
<1>5. ReadingOK(s, nodes', Shown')
  <2>1. CASE s = Idle
    BY <2>1 DEF ReadingOK
  <2>2. CASE \E e : Got(s, e)
    <3>1. s.offset = r.offset /\ s.byte = r.byte /\ s.op = r.op /\ s.step # "save"
      BY <1>2, <2>2 DEF Fields
    <3> QED
      BY <1>2, <3>1, OtherKind
  <2> QED
    BY <1>4, <2>1, <2>2
<1> QED
  BY <1>4, <1>5, Reads

LEMMA PatchedIs ==
  ASSUME NEW data \in Seq(Nat), NEW offset \in Nat, NEW byte \in Nat,
         NEW new, new = Patched(data, offset, byte)
  PROVE  /\ new \in Seq(Nat) /\ Len(new) >= offset + 1 /\ new[offset + 1] = byte
         /\ \A k \in DOMAIN data \ {offset + 1} : k \in DOMAIN new /\ new[k] = data[k]
         /\ \A k \in DOMAIN new \ DOMAIN data : k = offset + 1 \/ new[k] = Zero
<1> DEFINE m == IF Len(data) < offset + 1 THEN offset + 1 ELSE Len(data)
<1>1. Len(data) \in Nat /\ DOMAIN data = 1..Len(data) /\ \A k \in 1..Len(data) : data[k] \in Nat
  BY LenProperties, ElementOfSeq
<1>2. m \in Nat /\ m >= offset + 1 /\ m >= Len(data)
  BY <1>1
<1>3. new = [k \in 1..m |->
                IF k = offset + 1 THEN byte ELSE IF k <= Len(data) THEN data[k] ELSE Zero]
  BY DEF Patched
<1> HIDE DEF m
<1>4. new \in [1..m -> Nat]
  BY <1>1, <1>3 DEF Zero
<1>5. new \in Seq(Nat) /\ Len(new) = m /\ DOMAIN new = 1..m
  BY <1>2, <1>4, SeqDef, LenProperties
<1> QED
  BY <1>1, <1>2, <1>3, <1>5

LEMMA SaveReads == ASSUME Inv, Readings, NEW t \in Threads, Save(t) PROVE Readings'
<1> DEFINE r == request[t]
           p == r.entry.path
           d == Patched(r.data, r.offset, r.byte)
<1>1. r.step = "save"
  BY DEF Save, At
<1>2. d \in Seq(Nat)
  BY <1>1, HasRead, PatchedIs DEF ReadingOK
<1>3. CASE CanWrite(p)
  <2>1. PICK i \in Written(p) : Becomes(t, Idle, AfterWrite(i, p, d))
    BY <1>3 DEF Save
  <2>2. p # <<>>
    BY <1>3 DEF CanWrite, ParentIsDir
  <2> HIDE DEF d, p
  <2>3. Contents(AfterWrite(i, p, d))
    BY <1>2, <2>2, PutContents DEF AfterWrite, Readings
  <2> QED
    BY <2>1, <2>3, Reads DEF ReadingOK
<1>4. CASE ~CanWrite(p)
  BY <1>4, FailsReading DEF Save
<1> QED
  BY <1>3, <1>4

LEMMA OthersReads == ASSUME Inv, Readings, Others PROVE Readings'
<1> DEFINE Paths == UNION {[1..n -> Names] : n \in 1..MaxDepth}
<1>1. Paths \subseteq Path
  BY SeqDef DEF Path
<1>2. Contents(nodes) /\ TreeInv /\ None \notin Threads
  BY MountAssumption DEF Readings, Inv
<1>3. \E after : Contents(after) /\ Becomes(None, Idle, after)
  <2>1. PICK p \in Paths :
          \/ \E i \in Written(p), b \in Bytes : CanWrite(p) /\ Becomes(None, Idle, AfterWrite(i, p, <<b>>))
          \/ CanRemove(p) /\ Becomes(None, Idle, AfterRemove(p))
          \/ \E q \in Paths : CanMove(p, q) /\ Becomes(None, Idle, AfterMove(p, q))
    BY DEF Others
  <2> HIDE DEF Paths
  <2>2. p \in Path
    BY <1>1
  <2>3. CASE \E i \in Written(p), b \in Bytes : CanWrite(p) /\ Becomes(None, Idle, AfterWrite(i, p, <<b>>))
    <3>1. PICK i \in Written(p), b \in Bytes :
            CanWrite(p) /\ Becomes(None, Idle, AfterWrite(i, p, <<b>>))
      BY <2>3
    <3>2. b \in Nat /\ <<b>> \in Seq(Nat)
      BY MountAssumption
    <3>3. p # <<>>
      BY <3>1 DEF CanWrite, ParentIsDir
    <3>4. Contents(AfterWrite(i, p, <<b>>))
      BY <1>2, <3>2, <3>3, PutContents DEF AfterWrite
    <3> QED
      BY <3>1, <3>4
  <2>4. CASE CanRemove(p) /\ Becomes(None, Idle, AfterRemove(p))
    BY <1>2, <2>4 DEF AfterRemove, Contents
  <2>5. CASE \E q \in Paths : CanMove(p, q) /\ Becomes(None, Idle, AfterMove(p, q))
    BY <1>1, <1>2, <2>2, <2>5, MoveContents
  <2> QED
    BY <2>1, <2>3, <2>4, <2>5
<1> QED
  BY <1>2, <1>3, Reads

\* A beginning of s, and what follows it.
LEMMA Onward ==
  ASSUME NEW S, NEW s \in Seq(S), NEW m \in 0..Len(s), NEW n \in m..Len(s)
  PROVE  SubSeq(s, 1, m) \o SubSeq(s, m + 1, n) = SubSeq(s, 1, n)
<1> DEFINE a == SubSeq(s, 1, m)
           b == SubSeq(s, m + 1, n)
           c == SubSeq(s, 1, n)
<1>1. Len(s) \in Nat /\ m \in Nat /\ n \in Nat /\ m <= n /\ n <= Len(s)
      /\ \A k \in 1..Len(s) : s[k] \in S
  BY LenProperties, ElementOfSeq
<1>2. a \in Seq(S) /\ Len(a) = m /\ \A k \in 1..m : a[k] = s[k]
  BY <1>1, SubSeqProperties, Z3
<1>3. b \in Seq(S) /\ Len(b) = n - m /\ \A k \in 1..(n - m) : b[k] = s[m + k]
  BY <1>1, SubSeqProperties, Z3
<1>4. c \in Seq(S) /\ Len(c) = n /\ \A k \in 1..n : c[k] = s[k]
  BY <1>1, SubSeqProperties, Z3
<1> HIDE DEF a, b, c
<1>5. /\ a \o b \in Seq(S) /\ Len(a \o b) = n
      /\ \A k \in 1..n : (a \o b)[k] = IF k <= m THEN a[k] ELSE b[k - m]
  <2>1. /\ a \o b \in Seq(S) /\ Len(a \o b) = Len(a) + Len(b)
        /\ \A k \in 1..(Len(a) + Len(b)) :
              (a \o b)[k] = IF k <= Len(a) THEN a[k] ELSE b[k - Len(a)]
    BY <1>2, <1>3, ConcatProperties
  <2>2. Len(a) = m /\ Len(a) + Len(b) = n
    BY <1>1, <1>2, <1>3
  <2> QED
    BY <2>1, <2>2
<1>6. ASSUME NEW k \in 1..n PROVE (a \o b)[k] = c[k]
  <2>1. CASE k <= m
    BY <1>1, <1>2, <1>4, <1>5, <2>1
  <2>2. CASE ~(k <= m)
    <3>1. k - m \in 1..(n - m) /\ m + (k - m) = k
      BY <1>1, <2>2
    <3> QED
      BY <1>3, <1>4, <1>5, <2>2, <3>1
  <2> QED
    BY <2>1, <2>2
<1>7. a \o b = c
  BY <1>4, <1>5, <1>6, SeqEqual
<1> QED
  BY <1>7 DEF a, b, c

LEMMA EntryReads == ASSUME Inv, Readings, NEW t \in Threads, Entry(t) PROVE Readings'
<1> DEFINE r == request[t]
           e == [id |-> r.ino, path |-> nodes[r.ino].path, kind |-> nodes[r.ino].kind]
           s == [r EXCEPT !.entry = e, !.step = "remember"]
<1>1. r.step = "entry"
  BY DEF Entry, At
<1>2. r # Idle /\ DOMAIN r = Fields /\ ReadingOK(r, nodes, Shown)
  BY <1>1, HasRead
<1>3. CASE r.ino \in DOMAIN nodes
  <2>1. Goes(t, s)
    BY <1>3 DEF Entry
  <2>2. Len(Shown[r.ino]) \in Nat /\ SubSeq(Shown[r.ino], 1, 0) = <<>>
    BY <1>3, ShownIs, LenProperties, SMT
  <2>3. e.path = nodes[r.ino].path
    OBVIOUS
  <2> HIDE DEF r, e
  <2>4. /\ s.offset = r.offset /\ s.byte = r.byte /\ s.op = r.op /\ s.step = "remember"
        /\ s.alone = r.alone /\ s.seen = r.seen /\ s.ino = r.ino /\ s.entry = e
    BY <1>2 DEF Fields
  <2> HIDE DEF s
  <2>5. s.alone /\ s.op \in {"write", "readdir"} => AloneOK(s, nodes, Shown)
    <3> SUFFICES ASSUME s.alone PROVE s.op \in {"write", "readdir"} => AloneOK(s, nodes, Shown)
      OBVIOUS
    <3>1. CASE s.op = "readdir"
      <4>1. AloneOK(r, nodes, Shown)
        BY <1>2, <2>4, <3>1 DEF ReadingOK
      <4>2. /\ r.offset \in 0..Len(Shown[r.ino])
            /\ r.seen = SubSeq(Shown[r.ino], 1, r.offset)
        <5>1. CASE r.offset = 0 /\ r.seen = <<>>
          BY <2>2, <5>1
        <5>2. CASE ~(r.offset = 0 /\ r.seen = <<>>)
          BY <2>4, <3>1, <4>1, <5>2 DEF AloneOK
        <5> QED
          BY <5>1, <5>2
      <4> QED
        BY <1>3, <2>3, <2>4, <3>1, <4>2 DEF AloneOK
    <3>2. CASE s.op # "readdir"
      BY <1>3, <2>3, <2>4, <3>2 DEF AloneOK
    <3> QED
      BY <3>1, <3>2
  <2>6. ReadingOK(s, nodes, Shown)
    BY <1>2, <2>4, <2>5 DEF ReadingOK
  <2> QED
    BY <2>1, <2>6, GoesOnReading
<1>4. CASE r.ino \notin DOMAIN nodes
  BY <1>4, FailsReading DEF Entry
<1> QED
  BY <1>3, <1>4

LEMMA RememberReads == ASSUME Inv, Readings, NEW t \in Threads, Remember(t) PROVE Readings'
<1> DEFINE r == request[t]
<1>1. r.step = "remember"
  BY DEF Remember, At
<1>2. /\ r # Idle /\ DOMAIN r = Fields /\ ReadingOK(r, nodes, Shown)
      /\ r.op \in Entries \cup {"lookup", "create", "mkdir"}
  BY <1>1, HasRead, Working DEF RequestOK
<1>3. \E s : /\ Goes(t, s)
             /\ \/ s = Idle
                \/ /\ r.op \notin {"write", "readdir"}
                   /\ \E step \in {"truncate", "handle", "times"} : s = [r EXCEPT !.step = step]
                \/ r.op = "write" /\ s = [r EXCEPT !.step = "load"]
                \/ r.op = "readdir" /\ s = [r EXCEPT !.step = "list"]
  <2>1. CASE r.op \in {"lookup", "mkdir", "getattr"}
    BY <2>1 DEF Remember
  <2>2. CASE r.op = "open"
    BY <2>2 DEF Remember, Failed, To
  <2>3. CASE r.op = "create"
    BY <2>3 DEF Remember, To
  <2>4. CASE r.op = "write"
    BY <2>4 DEF Remember, To
  <2>5. CASE r.op = "setattr"
    BY <2>5 DEF Remember, To
  <2>6. CASE r.op = "readdir"
    BY <2>6 DEF Remember, To
  <2> QED
    BY <1>2, <2>1, <2>2, <2>3, <2>4, <2>5, <2>6 DEF Entries
<1>4. PICK s : /\ Goes(t, s)
               /\ \/ s = Idle
                  \/ /\ r.op \notin {"write", "readdir"}
                     /\ \E step \in {"truncate", "handle", "times"} : s = [r EXCEPT !.step = step]
                  \/ r.op = "write" /\ s = [r EXCEPT !.step = "load"]
                  \/ r.op = "readdir" /\ s = [r EXCEPT !.step = "list"]
  BY <1>3
<1> HIDE DEF r
<1>5. ReadingOK(s, nodes, Shown)
  <2>1. CASE s = Idle
    BY <2>1 DEF ReadingOK
  <2>2. CASE /\ r.op \notin {"write", "readdir"}
             /\ \E step \in {"truncate", "handle", "times"} : s = [r EXCEPT !.step = step]
    <3>1. s.offset = r.offset /\ s.byte = r.byte /\ s.op = r.op /\ s.step # "save"
      BY <1>2, <2>2 DEF Fields
    <3> QED
      BY <1>2, <2>2, <3>1, OtherKind
  <2>3. CASE \/ r.op = "write" /\ s = [r EXCEPT !.step = "load"]
             \/ r.op = "readdir" /\ s = [r EXCEPT !.step = "list"]
    <3>1. /\ s.offset = r.offset /\ s.byte = r.byte /\ s.op = r.op
          /\ s.alone = r.alone /\ s.seen = r.seen /\ s.ino = r.ino /\ s.entry = r.entry
          /\ \/ r.op = "write" /\ s.step = "load"
             \/ r.op = "readdir" /\ s.step = "list"
      BY <1>2, <2>3 DEF Fields
    <3>2. s.alone /\ s.op \in {"write", "readdir"} => AloneOK(s, nodes, Shown)
      BY <1>1, <1>2, <3>1 DEF ReadingOK, AloneOK
    <3> QED
      BY <1>2, <3>1, <3>2 DEF ReadingOK
  <2> QED
    BY <1>4, <2>1, <2>2, <2>3
<1> QED
  BY <1>4, <1>5, GoesOnReading

LEMMA LoadReads == ASSUME Inv, Readings, NEW t \in Threads, Load(t) PROVE Readings'
<1> DEFINE r == request[t]
           p == r.entry.path
           d == nodes[IdAt(p)].data
           s == [r EXCEPT !.data = d, !.step = "save"]
<1>1. r.step = "load"
  BY DEF Load, At
<1>2. r # Idle /\ DOMAIN r = Fields /\ ReadingOK(r, nodes, Shown) /\ r.op # "readdir"
  BY <1>1, HasRead DEF ReadingOK
<1>3. CASE KindAt(p) = File
  <2>1. Goes(t, s)
    BY <1>3 DEF Load
  <2>2. Exists(p)
    BY <1>3, MountAssumption DEF KindAt
  <2>3. d \in Seq(Nat)
    BY <2>2, Kinds DEF Inv, Readings, Contents, IdsAt
  <2>4. r.alone /\ r.op = "write" =>
            r.ino \in DOMAIN nodes /\ p = nodes[r.ino].path /\ nodes[r.ino].kind = File
            /\ d = nodes[r.ino].data
    <3> SUFFICES ASSUME r.alone, r.op = "write"
                 PROVE  r.ino \in DOMAIN nodes /\ p = nodes[r.ino].path /\ nodes[r.ino].kind = File
                        /\ d = nodes[r.ino].data
      OBVIOUS
    <3>1. r.ino \in DOMAIN nodes /\ p = nodes[r.ino].path
      BY <1>1, <1>2 DEF ReadingOK, AloneOK
    <3>2. r.ino \in IdsAt(p)
      BY <3>1 DEF IdsAt
    <3> QED
      BY <1>3, <3>1, <3>2, Kinds DEF Inv
  <2> HIDE DEF r, d
  <2>5. /\ s.offset = r.offset /\ s.byte = r.byte /\ s.op = r.op /\ s.step = "save"
        /\ s.alone = r.alone /\ s.ino = r.ino /\ s.entry = r.entry /\ s.data = d
    BY <1>2 DEF Fields
  <2> HIDE DEF s
  <2>6. s.alone /\ s.op \in {"write", "readdir"} => AloneOK(s, nodes, Shown)
    BY <1>2, <2>4, <2>5 DEF AloneOK, p
  <2>7. ReadingOK(s, nodes, Shown)
    BY <1>2, <2>3, <2>5, <2>6 DEF ReadingOK
  <2> QED
    BY <2>1, <2>7, GoesOnReading
<1>4. CASE KindAt(p) # File
  BY <1>4, FailsReading DEF Load
<1> QED
  BY <1>3, <1>4

LEMMA ListReads == ASSUME Inv, Readings, NEW t \in Threads, List(t) PROVE Readings'
<1> DEFINE r == request[t]
           p == r.entry.path
           entries == <<".", "..">> \o Listing(p)
           end == IF r.offset + Buffer <= Len(entries) THEN r.offset + Buffer ELSE Len(entries)
           seen == r.seen \o SubSeq(entries, r.offset + 1, end)
           more == [r EXCEPT !.seen = seen, !.offset = end, !.step = "entry"]
           last == [r EXCEPT !.step = "answer"]
<1>1. r.step = "list"
  BY DEF List, At
<1>2. r # Idle /\ DOMAIN r = Fields /\ ReadingOK(r, nodes, Shown) /\ r.op # "write" /\ r.offset \in Nat
  BY <1>1, HasRead DEF ReadingOK
<1>3. CASE KindAt(p) = Dir
  <2>1. \/ end <= r.offset /\ Goes(t, last)
        \/ ~(end <= r.offset) /\ Goes(t, more)
    BY <1>3 DEF List, To, NextOffset
  <2>2. \E S : entries \in Seq(S)
    <3>1. Exists(p)
      BY <1>3, MountAssumption DEF KindAt
    <3>2. IdAt(p) \in DOMAIN nodes /\ nodes[IdAt(p)].path = p
      BY <3>1, Kinds DEF Inv, IdsAt
    <3>3. Shown[IdAt(p)] = entries
      BY <3>2 DEF Shown
    <3> QED
      BY <3>2, <3>3, ShownIs
  <2>3. r.alone /\ r.op = "readdir" =>
            /\ r.ino \in DOMAIN nodes /\ p = nodes[r.ino].path
            /\ Shown[r.ino] = entries
            /\ r.offset \in 0..Len(entries) /\ r.seen = SubSeq(entries, 1, r.offset)
    <3> SUFFICES ASSUME r.alone, r.op = "readdir"
                 PROVE  /\ r.ino \in DOMAIN nodes /\ p = nodes[r.ino].path
                        /\ Shown[r.ino] = entries
                        /\ r.offset \in 0..Len(entries) /\ r.seen = SubSeq(entries, 1, r.offset)
      OBVIOUS
    <3>1. AloneOK(r, nodes, Shown)
      BY <1>2 DEF ReadingOK
    <3>2. r.ino \in DOMAIN nodes /\ p = nodes[r.ino].path
      BY <1>1, <3>1 DEF AloneOK
    <3>3. Shown[r.ino] = entries
      BY <3>2 DEF Shown
    <3> QED
      BY <1>1, <3>1, <3>2, <3>3 DEF AloneOK
  <2> HIDE DEF entries, r
  <2>4. Len(entries) \in Nat /\ Buffer \in Nat \ {0}
    BY <2>2, LenProperties, MountAssumption
  <2>5. CASE end <= r.offset /\ Goes(t, last)
    <3>1. /\ last.offset = r.offset /\ last.byte = r.byte /\ last.op = r.op /\ last.step = "answer"
          /\ last.alone = r.alone /\ last.seen = r.seen /\ last.ino = r.ino
      BY <1>2 DEF Fields
    <3>2. r.offset >= Len(entries)
      BY <1>2, <2>4, <2>5
    <3> HIDE DEF last, p
    <3>3. last.alone /\ last.op \in {"write", "readdir"} => AloneOK(last, nodes, Shown)
      BY <1>2, <2>3, <2>4, <3>1, <3>2 DEF AloneOK
    <3>4. ReadingOK(last, nodes, Shown)
      BY <1>2, <3>1, <3>3 DEF ReadingOK
    <3> QED
      BY <2>5, <3>4, GoesOnReading
  <2>6. CASE ~(end <= r.offset) /\ Goes(t, more)
    <3>1. end \in Nat /\ end > r.offset /\ end <= Len(entries)
      BY <1>2, <2>4, <2>6
    <3> HIDE DEF end
    <3>2. r.alone /\ r.op = "readdir" => seen = SubSeq(entries, 1, end)
      <4> SUFFICES ASSUME r.alone, r.op = "readdir" PROVE seen = SubSeq(entries, 1, end)
        OBVIOUS
      <4>1. r.offset \in 0..Len(entries) /\ r.seen = SubSeq(entries, 1, r.offset)
        BY <2>3
      <4>2. end \in r.offset..Len(entries)
        BY <1>2, <2>4, <3>1
      <4>3. SubSeq(entries, 1, r.offset) \o SubSeq(entries, r.offset + 1, end)
                = SubSeq(entries, 1, end)
        BY <2>2, <4>1, <4>2, Onward
      <4> QED
        BY <4>1, <4>3
    <3> HIDE DEF seen
    <3>3. /\ more.offset = end /\ more.byte = r.byte /\ more.op = r.op /\ more.step = "entry"
          /\ more.alone = r.alone /\ more.seen = seen /\ more.ino = r.ino
      BY <1>2 DEF Fields
    <3> HIDE DEF more, p
    <3>4. more.alone /\ more.op \in {"write", "readdir"} => AloneOK(more, nodes, Shown)
      BY <1>2, <2>3, <2>4, <3>1, <3>2, <3>3 DEF AloneOK
    <3>5. ReadingOK(more, nodes, Shown)
      BY <1>2, <3>1, <3>3, <3>4 DEF ReadingOK
    <3> QED
      BY <2>6, <3>5, GoesOnReading
  <2> QED
    BY <2>1, <2>5, <2>6
<1>4. CASE KindAt(p) # Dir
  BY <1>4, FailsReading DEF List
<1> QED
  BY <1>3, <1>4

LEMMA NewReads ==
  ASSUME Inv, Readings, NEW t \in Threads, NEW s, Goes(t, s), s.offset \in Nat, s.byte \in Nat,
         s.step # "save", s.op = "write" => s.step = "entry",
         s.op = "readdir" => s.step = "entry" /\ s.offset = 0 /\ s.seen = <<>>
  PROVE  Readings'
<1>1. s.alone /\ s.op \in {"write", "readdir"} => AloneOK(s, nodes, Shown)
  BY DEF AloneOK
<1>2. ReadingOK(s, nodes, Shown)
  BY <1>1 DEF ReadingOK
<1> QED
  BY <1>2, GoesOnReading

LEMMA RequestReads ==
  ASSUME Inv, Readings, NEW t \in Threads, NEW op, NEW ino \in known, Request(t, op, ino)
  PROVE  Readings'
<1> DEFINE new(step) == NewRequest(op, ino, step)
           Fresher(s) == /\ s.offset \in Nat /\ s.byte \in Nat /\ s.step # "save"
                         /\ s.op = "write" => s.step = "entry"
                         /\ s.op = "readdir" => s.step = "entry" /\ s.offset = 0 /\ s.seen = <<>>
<1>1. \A step : /\ DOMAIN new(step) = Fields /\ new(step).op = op /\ new(step).step = step
                /\ new(step).offset = 0 /\ new(step).byte = 0 /\ new(step).seen = <<>>
  BY DEF NewRequest, Fields, Zero
<1>2. \/ /\ op \in {"lookup", "create", "mkdir", "remove"}
         /\ \E n \in Names : Goes(t, [new("path") EXCEPT !.name = n])
      \/ /\ op = "rename"
         /\ \E n, m \in Names, j \in known :
               Goes(t, [new("path") EXCEPT !.name = n, !.ino2 = j, !.name2 = m])
      \/ op \in {"getattr", "setattr", "readdir"} /\ Goes(t, new("entry"))
      \/ op = "open" /\ \E trunc \in BOOLEAN : Goes(t, [new("entry") EXCEPT !.trunc = trunc])
      \/ op = "read" /\ \E f \in files : f[2] = ino /\ Goes(t, [new("read") EXCEPT !.handle = f[1]])
      \/ /\ op = "write"
         /\ \E f \in files, b \in Bytes, offset \in 0..1 :
               Goes(t, [new("entry") EXCEPT !.handle = f[1], !.byte = b, !.offset = offset])
  BY DEF Request
<1> HIDE DEF new
<1>3. \E s : Goes(t, s) /\ Fresher(s)
  <2>1. CASE /\ op \in {"lookup", "create", "mkdir", "remove"}
             /\ \E n \in Names : Goes(t, [new("path") EXCEPT !.name = n])
    <3>1. PICK n \in Names : Goes(t, [new("path") EXCEPT !.name = n])
      BY <2>1
    <3>2. Fresher([new("path") EXCEPT !.name = n])
      BY <1>1, <2>1 DEF Fields
    <3> QED
      BY <3>1, <3>2
  <2>2. CASE /\ op = "rename"
             /\ \E n, m \in Names, j \in known :
                   Goes(t, [new("path") EXCEPT !.name = n, !.ino2 = j, !.name2 = m])
    <3>1. PICK n, m \in Names, j \in known :
            Goes(t, [new("path") EXCEPT !.name = n, !.ino2 = j, !.name2 = m])
      BY <2>2
    <3>2. Fresher([new("path") EXCEPT !.name = n, !.ino2 = j, !.name2 = m])
      BY <1>1, <2>2 DEF Fields
    <3> QED
      BY <3>1, <3>2
  <2>3. CASE op \in {"getattr", "setattr", "readdir"} /\ Goes(t, new("entry"))
    BY <1>1, <2>3 DEF Fields
  <2>4. CASE op = "open" /\ \E trunc \in BOOLEAN : Goes(t, [new("entry") EXCEPT !.trunc = trunc])
    <3>1. PICK trunc \in BOOLEAN : Goes(t, [new("entry") EXCEPT !.trunc = trunc])
      BY <2>4
    <3>2. Fresher([new("entry") EXCEPT !.trunc = trunc])
      BY <1>1, <2>4 DEF Fields
    <3> QED
      BY <3>1, <3>2
  <2>5. CASE op = "read" /\ \E f \in files : f[2] = ino /\ Goes(t, [new("read") EXCEPT !.handle = f[1]])
    <3>1. PICK f \in files : Goes(t, [new("read") EXCEPT !.handle = f[1]])
      BY <2>5
    <3>2. Fresher([new("read") EXCEPT !.handle = f[1]])
      BY <1>1, <2>5 DEF Fields
    <3> QED
      BY <3>1, <3>2
  <2>6. CASE /\ op = "write"
             /\ \E f \in files, b \in Bytes, offset \in 0..1 :
                   Goes(t, [new("entry") EXCEPT !.handle = f[1], !.byte = b, !.offset = offset])
    <3>1. PICK f \in files, b \in Bytes, offset \in 0..1 :
            Goes(t, [new("entry") EXCEPT !.handle = f[1], !.byte = b, !.offset = offset])
      BY <2>6
    <3>2. b \in Nat /\ offset \in Nat
      BY MountAssumption
    <3>3. Fresher([new("entry") EXCEPT !.handle = f[1], !.byte = b, !.offset = offset])
      BY <1>1, <2>6, <3>2 DEF Fields
    <3> QED
      BY <3>1, <3>3
  <2> QED
    BY <1>2, <2>1, <2>2, <2>3, <2>4, <2>5, <2>6
<1> QED
  BY <1>3, NewReads

LEMMA UntouchedReads ==
  ASSUME Readings, nodes' = nodes, request' = request
  PROVE  Readings'
BY ShownSame DEF Readings

LEMMA NextReads == ASSUME Inv, Readings, [Next]_vars PROVE Readings'
<1>1. ASSUME NEW t \in Threads, Work(t) PROVE Readings'
  BY <1>1, PathReads, Path2Reads, EntryReads, CallReads, RememberReads, TruncateReads,
     HandleReads, ReadPathReads, RangeReads, LoadReads, SaveReads, TimesReads, ListReads,
     AnswerReads DEF Work
<1>2. ASSUME NEW t \in Threads, NEW op \in ops[t], NEW ino \in known, Request(t, op, ino)
      PROVE  Readings'
  BY <1>2, RequestReads
<1>3. ASSUME NEW f \in files, Release(f) PROVE Readings'
  BY <1>3, UntouchedReads DEF Release
<1>4. CASE UNCHANGED vars
  BY <1>4, UntouchedReads DEF vars
<1> QED
  BY <1>1, <1>2, <1>3, <1>4, OthersReads DEF Next

\* A request that is alone answers from the volume as it is.
THEOREM ReadingInvariance == Spec => [](Inv /\ Readings)
<1>1. Init => Inv /\ Readings
  <2> SUFFICES ASSUME Init PROVE Readings
    BY First
  <2>1. nodes = Tree /\ \A t \in Threads : request[t] = Idle
    BY DEF Init
  <2>2. Contents(Tree)
    <3>1. \A i \in DOMAIN Tree : Tree[i].data \in Seq(Nat)
      BY TreeAssumption
    <3>2. \A i \in DOMAIN Tree : Tree[i].path = <<>> => Tree[i].kind = Dir
      BY MountAssumption, TreeAssumption
    <3> QED
      BY <3>1, <3>2 DEF Contents
  <2> QED
    BY <2>1, <2>2 DEF Readings, ReadingOK
<1>2. Inv /\ Readings /\ [Next]_vars => Inv' /\ Readings'
  BY NextKeeps, NextReads
<1> QED
  BY <1>1, <1>2, PTL DEF Spec

\* A directory that nobody changes while it is read is listed completely, in
\* however many answers, for any directory and any buffer (readdir).
THEOREM ListingTheorem == Spec => []ListingExact
<1>1. Inv /\ Readings => ListingExact
  <2> SUFFICES ASSUME Inv, Readings, NEW t \in Threads, NEW r, r = request[t],
                      r.op = "readdir", r.step = "answer", r.alone
               PROVE  r.seen = <<".", "..">> \o Listing(nodes[r.ino].path)
    BY DEF ListingExact
  <2> DEFINE all == Shown[r.ino]
  <2>1. AloneOK(r, nodes, Shown)
    BY DEF Readings, ReadingOK, Idle
  <2>2. r.ino \in DOMAIN nodes /\ r.seen = SubSeq(all, 1, Len(all))
    BY <2>1 DEF AloneOK
  <2>3. all = <<".", "..">> \o Listing(nodes[r.ino].path)
    BY <2>2 DEF Shown
  <2>4. SubSeq(all, 1, Len(all)) = all
    BY <2>2, ShownIs, SubSeqFull
  <2> QED
    BY <2>2, <2>3, <2>4
<1> QED
  BY <1>1, ReadingInvariance, PTL

\* A request that is alone and has read the file can write it where it is.
LEMMA StillThere ==
  ASSUME Inv, Readings, NEW t \in Threads, NEW r, r = request[t],
         r.op = "write", r.step = "save", r.alone, NEW i, i = r.ino,
         NEW p, p = r.entry.path
  PROVE  /\ i \in DOMAIN nodes /\ nodes[i].path = p /\ nodes[i].kind = File
         /\ r.data = nodes[i].data /\ r.data \in Seq(Nat) /\ r.offset \in Nat /\ r.byte \in Nat
         /\ CanWrite(p) /\ Written(p) = {i}
<1>1. /\ i \in DOMAIN nodes /\ nodes[i].path = p /\ nodes[i].kind = File
      /\ r.data = nodes[i].data /\ r.data \in Seq(Nat) /\ r.offset \in Nat /\ r.byte \in Nat
  <2>1. ReadingOK(r, nodes, Shown) /\ r # Idle
    BY DEF Readings, Idle
  <2> QED
    BY <2>1 DEF ReadingOK, AloneOK
<1>2. p \in Path /\ p # <<>> /\ IdsAt(p) = {i}
  BY <1>1 DEF Inv, TreeInv, TreeOK, Typed, Unique, Readings, Contents, IdsAt, File, Dir
<1>3. KindAt(p) = File
  BY <1>1, <1>2, Kinds DEF Inv
<1>4. KindAt(Front(p)) = Dir
  <2>1. Len(p) \in Nat \ {0} /\ SubSeq(p, 1, Len(p) - 1) = Front(p)
    BY <1>2, FrontOf
  <2>2. Len(p) - 1 \in 0..(Len(nodes[i].path) - 1)
    BY <1>1, <2>1
  <2>3. HasDir(nodes, Front(p))
    BY <1>1, <2>1, <2>2 DEF Inv, TreeInv, TreeOK, Rooted
  <2> QED
    BY <2>3, Kinds DEF Inv
<1> QED
  BY <1>1, <1>2, <1>3, <1>4 DEF CanWrite, ParentIsDir, Written, Exists

\* A write during which nobody else changes the volume changes its own bytes of
\* its own file and nothing else, for files, offsets and bytes of any size, and
\* wherever the file was moved since it was looked up (write).
THEOREM AloneWriteTheorem == Spec => AloneWriteExact
<1> DEFINE Exact(t) ==
             LET r == request[t]
                 old == nodes[r.ino].data
                 new == nodes'[r.ino].data
             IN r.op = "write" /\ r.step = "save" /\ request'[t] = Idle /\ r.alone =>
                   /\ DOMAIN nodes' = DOMAIN nodes
                   /\ \A i \in DOMAIN nodes \ {r.ino} : nodes'[i] = nodes[i]
                   /\ Len(new) >= r.offset + 1 /\ new[r.offset + 1] = r.byte
                   /\ \A k \in DOMAIN old \ {r.offset + 1} : k \in DOMAIN new /\ new[k] = old[k]
                   /\ \A k \in DOMAIN new \ DOMAIN old : k = r.offset + 1 \/ new[k] = Zero
<1>1. ASSUME Inv, Readings, [Next]_vars, NEW t \in Threads PROVE Exact(t)
  <2> DEFINE r == request[t]
             i == r.ino
             p == r.entry.path
             d == Patched(r.data, r.offset, r.byte)
  <2> SUFFICES ASSUME r.op = "write", r.step = "save", request'[t] = Idle, r.alone
               PROVE  /\ DOMAIN nodes' = DOMAIN nodes
                      /\ \A j \in DOMAIN nodes \ {i} : nodes'[j] = nodes[j]
                      /\ Len(nodes'[i].data) >= r.offset + 1
                      /\ nodes'[i].data[r.offset + 1] = r.byte
                      /\ \A k \in DOMAIN nodes[i].data \ {r.offset + 1} :
                            k \in DOMAIN nodes'[i].data /\ nodes'[i].data[k] = nodes[i].data[k]
                      /\ \A k \in DOMAIN nodes'[i].data \ DOMAIN nodes[i].data :
                            k = r.offset + 1 \/ nodes'[i].data[k] = Zero
    OBVIOUS
  <2>1. DOMAIN r = Fields /\ r # Idle
    BY <1>1, Working
  \* Only the thread itself ends its request.
  <2>2. ASSUME NEW u, NEW s, NEW after, Becomes(u, s, after), u # t PROVE FALSE
    <3>1. request'[t] \in Noted(r)
      BY <2>2 DEF Becomes, Noted
    <3>2. request'[t].op = "write"
      BY <2>1, <3>1 DEF Noted, Fields
    <3> QED
      BY <3>2, MountAssumption DEF Idle
  <2>3. request' # request
    BY <2>1
  <2>4. ~Others /\ ~(\E f \in files : Release(f)) /\ ~UNCHANGED vars
    <3>1. ~Others
      BY <2>2, MountAssumption DEF Others
    <3> QED
      BY <2>3, <3>1 DEF Release, vars
  <2>5. Work(t) \/ \E op \in ops[t], ino \in known : Request(t, op, ino)
    <3>1. PICK u \in Threads : Work(u) \/ \E op \in ops[u], ino \in known : Request(u, op, ino)
      BY <1>1, <2>4 DEF Next
    <3>2. u = t
      BY <1>1, <2>2, <3>1, Acts
    <3> QED
      BY <3>1, <3>2
  <2>6. Save(t)
    BY <2>5 DEF Work, Request, At, ChildPath, SecondPath, Entry, Call, Remember, Truncate,
       AllocateHandle, ReadPath, ReadRange, Load, SetTimes, List, Answer
  <2>7. /\ i \in DOMAIN nodes /\ nodes[i].path = p /\ nodes[i].kind = File
        /\ r.data = nodes[i].data /\ r.data \in Seq(Nat) /\ r.offset \in Nat /\ r.byte \in Nat
        /\ CanWrite(p) /\ Written(p) = {i}
    <3>1. r = request[t] /\ i = r.ino /\ p = r.entry.path
      OBVIOUS
    <3>2. r.op = "write" /\ r.step = "save" /\ r.alone
      OBVIOUS
    <3>3. Inv /\ Readings
      BY <1>1
    <3> HIDE DEF r, i, p
    <3> QED
      BY <3>1, <3>2, <3>3, StillThere
  <2>8. nodes' = AfterWrite(i, p, d)
    BY <2>6, <2>7 DEF Save, Becomes
  <2>9. /\ Len(d) >= r.offset + 1 /\ d[r.offset + 1] = r.byte
        /\ \A k \in DOMAIN r.data \ {r.offset + 1} : k \in DOMAIN d /\ d[k] = r.data[k]
        /\ \A k \in DOMAIN d \ DOMAIN r.data : k = r.offset + 1 \/ d[k] = Zero
    <3>1. d = Patched(r.data, r.offset, r.byte)
      OBVIOUS
    <3> HIDE DEF d, i, p
    <3> QED
      BY <2>7, <3>1, PatchedIs
  <2> HIDE DEF d, p, i
  <2>10. /\ DOMAIN nodes' = DOMAIN nodes /\ nodes'[i].data = d
         /\ \A j \in DOMAIN nodes \ {i} : nodes'[j] = nodes[j]
    BY <2>7, <2>8 DEF AfterWrite, WithNode
  <2> QED
    BY <2>7, <2>9, <2>10
<1>2. ASSUME Inv, Readings, [Next]_vars PROVE [\A t \in Threads : Exact(t)]_vars
  BY <1>1, <1>2
<1>3. Spec => [][\A t \in Threads : Exact(t)]_vars
  BY <1>2, ReadingInvariance, PTL DEF Spec
<1> QED
  BY <1>3 DEF AloneWriteExact

=============================================================================
