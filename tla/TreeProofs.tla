----------------------------- MODULE TreeProofs -----------------------------
(***************************************************************************)
(* The stored nodes of a volume form one tree after every guarded call,    *)
(* and what follows for lookups, listings and recursive queries.           *)
(*                                                                         *)
(* IsTreeOf says so of the columns: paths are distinct, every row is in a  *)
(* directory of its own zone, the pointers of a zone spell its path, and   *)
(* no zone lies between a row and its zone.  It is inductive together with *)
(* Good; there is one lemma for each statement and one for each call.      *)
(* Where a call compares paths with LIKE, the lemma assumes PlainPaths: no *)
(* name has a wildcard or a backslash in it.  Else the claims are false.   *)
(***************************************************************************)
EXTENDS VolumeProofs, Query


-----------------------------------------------------------------------------
(* Prefixes.                                                               *)

\* Paths put together in either order.
Assoc(x, y, w) == (x \o y) \o w = x \o (y \o w)

LEMMA Regroup ==
  ASSUME NEW x \in Seq(Names), NEW y \in Seq(Names), NEW w \in Seq(Names)
  PROVE  Assoc(x, y, w)
<1>1. x \o (y \o w) = (x \o y) \o w
  BY PathConcat
<1> QED
  BY <1>1, Zenon DEF Assoc

\* A prefix, name by name.
LEMMA PrefixNames ==
  ASSUME NEW p \in Seq(Names), NEW q \in Seq(Names)
  PROVE  IsPrefix(p, q) <=> Len(p) =< Len(q) /\ \A k \in 1 .. Len(p) : p[k] = q[k]
<1>1. Len(p) \in Nat /\ Len(q) \in Nat
  BY LenProperties
<1>2. SubSeq(p, 1, Len(p)) = p
  BY SubSeqFull
<1>3. CASE Len(p) =< Len(q)
  <2> DEFINE s == SubSeq(q, 1, Len(p))
  <2>1. \A k \in 1 .. Len(p) : q[k] \in Names
    BY <1>1, <1>3, ElementOfSeq
  <2>2. /\ s \in Seq(Names) /\ Len(s) = Len(p)
        /\ \A k \in 1 .. Len(p) : s[k] = q[k]
    <3> DEFINE n == Len(p)
    <3>1. n \in Int /\ n \in Nat /\ \A k \in 1 .. n : q[k] \in Names
      BY <1>1, <2>1
    <3> HIDE DEF n
    <3>2. /\ SubSeq(q, 1, n) \in Seq(Names)
          /\ Len(SubSeq(q, 1, n)) = IF 1 <= n THEN n - 1 + 1 ELSE 0
          /\ \A k \in 1 .. n - 1 + 1 : SubSeq(q, 1, n)[k] = q[1 + k - 1]
      BY <3>1, SubSeqProperties, Z3
    <3>3. \A k \in 1 .. n : SubSeq(q, 1, n)[k] = q[k]
      BY <3>1, <3>2
    <3> QED
      BY <3>1, <3>2, <3>3 DEF n
  <2> HIDE DEF s
  <2>3. (p = s) <=> \A k \in 1 .. Len(p) : p[k] = q[k]
    <3>1. ASSUME \A k \in 1 .. Len(p) : p[k] = q[k] PROVE p = s
      BY <2>2, <3>1, SeqEqual
    <3> QED
      BY <2>2, <3>1
  <2> QED
    BY <1>2, <1>3, <2>3 DEF IsPrefix, s
<1>4. CASE ~(Len(p) =< Len(q))
  BY <1>4 DEF IsPrefix
<1> QED
  BY <1>3, <1>4

LEMMA PrefixSelf ==
  ASSUME NEW p \in Seq(Names)
  PROVE  IsPrefix(p, p)
BY PrefixNames, LenProperties

LEMMA PrefixTrans ==
  ASSUME NEW p \in Seq(Names), NEW q \in Seq(Names), NEW r \in Seq(Names),
         IsPrefix(p, q), IsPrefix(q, r)
  PROVE  IsPrefix(p, r)
<1>1. Len(p) \in Nat /\ Len(q) \in Nat /\ Len(r) \in Nat
  BY LenProperties
<1>2. Len(p) =< Len(q) /\ \A k \in 1 .. Len(p) : p[k] = q[k]
  BY PrefixNames
<1>3. Len(q) =< Len(r) /\ \A k \in 1 .. Len(q) : q[k] = r[k]
  BY PrefixNames
<1>4. Len(p) =< Len(r) /\ \A k \in 1 .. Len(p) : p[k] = r[k]
  BY <1>1, <1>2, <1>3
<1> QED
  BY <1>4, PrefixNames

\* Of two prefixes of a path the shorter is a prefix of the longer.
LEMMA PrefixOfPrefix ==
  ASSUME NEW p \in Seq(Names), NEW q \in Seq(Names), NEW r \in Seq(Names),
         IsPrefix(p, r), IsPrefix(q, r), Len(p) =< Len(q)
  PROVE  IsPrefix(p, q)
<1>1. Len(p) \in Nat /\ Len(q) \in Nat /\ Len(r) \in Nat
  BY LenProperties
<1>2. Len(p) =< Len(r) /\ \A k \in 1 .. Len(p) : p[k] = r[k]
  BY PrefixNames
<1>3. Len(q) =< Len(r) /\ \A k \in 1 .. Len(q) : q[k] = r[k]
  BY PrefixNames
<1>4. \A k \in 1 .. Len(p) : p[k] = q[k]
  BY <1>1, <1>2, <1>3
<1> QED
  BY <1>4, PrefixNames

LEMMA PrefixConcat ==
  ASSUME NEW p \in Seq(Names), NEW q \in Seq(Names)
  PROVE  /\ p \o q \in Seq(Names) /\ Len(p \o q) = Len(p) + Len(q)
         /\ Len(p) \in Nat /\ Len(q) \in Nat
         /\ IsPrefix(p, p \o q)
<1>1. Len(p) \in Nat /\ Len(q) \in Nat
  BY LenProperties
<1>2. /\ p \o q \in Seq(Names) /\ Len(p \o q) = Len(p) + Len(q)
      /\ \A i \in 1 .. Len(p) + Len(q) :
            (p \o q)[i] = IF i <= Len(p) THEN p[i] ELSE q[i - Len(p)]
  BY ConcatProperties
<1>3. Len(p) =< Len(p \o q) /\ \A k \in 1 .. Len(p) : p[k] = (p \o q)[k]
  BY <1>1, <1>2
<1> QED
  BY <1>1, <1>2, <1>3, PrefixNames

LEMMA PrefixSplit ==
  ASSUME NEW p \in Seq(Names), NEW q \in Seq(Names), IsPrefix(p, q)
  PROVE  q = p \o Remainder(p, q) /\ Remainder(p, q) \in Seq(Names)
<1>1. Len(p) \in Nat /\ Len(q) \in Nat /\ Len(p) =< Len(q)
  BY LenProperties DEF IsPrefix
<1> DEFINE m == Len(p)
           n == Len(q)
<1>2. SubSeq(q, 1, m) \o SubSeq(q, m + 1, n) = SubSeq(q, 1, n)
  <2>1. 1 \in 1 .. n + 1 /\ m \in 1 - 1 .. n /\ n \in m .. n
    BY <1>1
  <2> QED
    BY <2>1, ConcatAdjacentSubSeq
<1>3. SubSeq(q, 1, n) = q /\ SubSeq(p, 1, m) = p
  BY SubSeqFull
<1>4. SubSeq(q, 1, m) = p
  BY <1>3 DEF IsPrefix
<1> QED
  BY <1>2, <1>3, <1>4, RemainderOf DEF Remainder

LEMMA SameConcat ==
  ASSUME NEW p \in Seq(Names), NEW q \in Seq(Names), NEW r \in Seq(Names), p \o q = p \o r
  PROVE  q = r
<1>1. \A S : \A s,t,v \in Seq(S) : s \o t = s \o v => t = v
  BY ConcatSimplifications
<1> QED
  BY <1>1, Zenon

LEMMA ConcatRemainder ==
  ASSUME NEW p \in Seq(Names), NEW q \in Seq(Names)
  PROVE  Remainder(p, p \o q) = q
<1> DEFINE r == p \o q
           s == Remainder(p, r)
<1>1. r \in Seq(Names) /\ IsPrefix(p, r)
  BY PrefixConcat
<1>2. r = p \o s /\ s \in Seq(Names)
  <2> HIDE DEF r
  <2> QED
    BY <1>1, PrefixSplit
<1>3. p \o s = p \o q
  BY <1>2
<1> HIDE DEF s, r
<1>4. s = q
  BY <1>2, <1>3, SameConcat
<1> QED
  BY <1>4 DEF s, r

\* A common beginning does not matter to whether one path is below another.
LEMMA PrefixUnder ==
  ASSUME NEW p \in Seq(Names), NEW q \in Seq(Names), NEW r \in Seq(Names)
  PROVE  IsPrefix(p \o q, p \o r) <=> IsPrefix(q, r)
<1> DEFINE a == p \o q
           b == p \o r
<1>1. Len(p) \in Nat /\ Len(q) \in Nat /\ Len(r) \in Nat
  BY LenProperties
<1>2. /\ a \in Seq(Names) /\ Len(a) = Len(p) + Len(q)
      /\ \A i \in 1 .. Len(p) + Len(q) : a[i] = IF i <= Len(p) THEN p[i] ELSE q[i - Len(p)]
  BY ConcatProperties
<1>3. /\ b \in Seq(Names) /\ Len(b) = Len(p) + Len(r)
      /\ \A i \in 1 .. Len(p) + Len(r) : b[i] = IF i <= Len(p) THEN p[i] ELSE r[i - Len(p)]
  BY ConcatProperties
<1> HIDE DEF a, b
<1>4. ASSUME Len(q) =< Len(r), \A k \in 1 .. Len(q) : q[k] = r[k]
      PROVE  Len(a) =< Len(b) /\ \A k \in 1 .. Len(a) : a[k] = b[k]
  <2>1. ASSUME NEW k \in 1 .. Len(a)
        PROVE  a[k] = b[k]
    <3>1. CASE k <= Len(p)
      BY <1>1, <1>2, <1>3, <1>4, <2>1, <3>1
    <3>2. CASE k > Len(p)
      <4>1. k - Len(p) \in 1 .. Len(q)
        BY <1>1, <1>2, <2>1, <3>2
      <4>2. q[k - Len(p)] = r[k - Len(p)]
        BY <1>4, <4>1
      <4> QED
        BY <1>1, <1>2, <1>3, <1>4, <2>1, <3>2, <4>2
    <3> QED
      BY <1>1, <1>2, <2>1, <3>1, <3>2
  <2> QED
    BY <1>1, <1>2, <1>3, <1>4, <2>1
<1>5. ASSUME Len(a) =< Len(b), \A k \in 1 .. Len(a) : a[k] = b[k]
      PROVE  Len(q) =< Len(r) /\ \A k \in 1 .. Len(q) : q[k] = r[k]
  <2>1. ASSUME NEW k \in 1 .. Len(q)
        PROVE  q[k] = r[k]
    <3>1. k + Len(p) \in 1 .. Len(a) /\ k + Len(p) \in 1 .. Len(p) + Len(r)
          /\ (k + Len(p)) - Len(p) = k /\ ~(k + Len(p) <= Len(p))
      BY <1>1, <1>2, <1>3, <1>5, <2>1
    <3>2. a[k + Len(p)] = q[k] /\ b[k + Len(p)] = r[k]
      BY <1>2, <1>3, <3>1
    <3> QED
      BY <1>5, <3>1, <3>2
  <2> QED
    BY <1>1, <1>2, <1>3, <1>5, <2>1
<1>6. IsPrefix(a, b) <=> IsPrefix(q, r)
  BY <1>2, <1>3, <1>4, <1>5, PrefixNames
<1> QED
  BY <1>6 DEF a, b

\* A prefix other than the path itself is one of its parent directory.
LEMMA PrefixFront ==
  ASSUME NEW p \in Seq(Names), NEW q \in Seq(Names), q # <<>>
  PROVE  /\ Front(q) \in Seq(Names) /\ IsPrefix(Front(q), q)
         /\ Len(q) = Len(Front(q)) + 1 /\ Len(Front(q)) \in Nat /\ Len(p) \in Nat
         /\ IsPrefix(p, q) => p = q \/ IsPrefix(p, Front(q))
         /\ IsPrefix(p, Front(q)) => IsPrefix(p, q) /\ Len(p) < Len(q)
<1> DEFINE f == Front(q)
<1>1. f \in Seq(Names) /\ Last(q) \in Names /\ q = Append(f, Last(q))
  BY SplitPath
<1> HIDE DEF f
<1>2. Len(q) = Len(f) + 1 /\ Len(f) \in Nat /\ Len(p) \in Nat /\ \A k \in 1 .. Len(f) : q[k] = f[k]
  BY <1>1, AppendProperties, LenProperties
<1>3. IsPrefix(f, q)
  BY <1>1, <1>2, PrefixNames
<1>4. ASSUME IsPrefix(p, q), p # q PROVE IsPrefix(p, f)
  <2>1. Len(p) =< Len(q)
    BY <1>4 DEF IsPrefix
  <2>2. Len(p) =< Len(f)
    BY <1>2, <1>4, <2>1, EmptyRemainder
  <2> QED
    BY <1>1, <1>3, <1>4, <2>2, PrefixOfPrefix
<1>5. ASSUME IsPrefix(p, f) PROVE IsPrefix(p, q) /\ Len(p) < Len(q)
  <2>1. Len(p) =< Len(f)
    BY <1>5 DEF IsPrefix
  <2> QED
    BY <1>1, <1>2, <1>3, <1>5, <2>1, PrefixTrans
<1> QED
  BY <1>1, <1>2, <1>3, <1>4, <1>5 DEF f


-----------------------------------------------------------------------------
(* The stored nodes as a tree.                                             *)

\* A directory row of zone z at r, or the zone itself.
DirAt(d, z, r) == r = <<>> \/ \E j \in EntriesAt(d, z, r) : d.entries[j].kind = Dir

\* What the unique indexes say of paths.
Distinct(d) ==
    /\ \A y, z \in DOMAIN d.zones : d.zones[y].path = d.zones[z].path => y = z
    /\ \A i, j \in DOMAIN d.entries :
        d.entries[i].zone = d.entries[j].zone /\ d.entries[i].rel = d.entries[j].rel => i = j

\* Each entry is in a directory of its own zone.
Rooted(d) ==
    \A i \in DOMAIN d.entries : DirAt(d, d.entries[i].zone, d.entries[i].dir)

\* A zone's parent pointers lead to the directory that its path says.
Attached(d, y) ==
    LET r == d.zones[y] IN
    /\ r.parent \in DOMAIN d.zones /\ r.dir \in Seq(Names) /\ r.name \in Names
    /\ r.path = d.zones[r.parent].path \o Append(r.dir, r.name)
    /\ DirAt(d, r.parent, r.dir)

AllAttached(d) == \A y \in DOMAIN d.zones : d.zones[y].path # <<>> => Attached(d, y)

\* No zone lies between an entry and its zone, or at the entry.
ClearOf(d, path, top) ==
    \A y \in DOMAIN d.zones :
        IsPrefix(d.zones[y].path, path) => Len(d.zones[y].path) =< Len(top)

Unshadowed(d) ==
    \A i \in DOMAIN d.entries :
        ClearOf(d, AbsolutePath(d, i), d.zones[d.entries[i].zone].path)

\* The root is in no directory.
RootAlone(d) == \A y \in DOMAIN d.zones : d.zones[y].path = <<>> => d.zones[y].parent = None

IsTreeOf(d) ==
    Distinct(d) /\ Rooted(d) /\ AllAttached(d) /\ Unshadowed(d) /\ RootAlone(d)

\* The parts of a good state that the tree consists of.
LEMMA ZoneParts ==
  ASSUME NEW d, Good(d), NEW z \in DOMAIN d.zones
  PROVE  d.zones[z].path \in Seq(Names)
BY DEF Good, GoodZones, IsZoneRow

LEMMA EntryParts ==
  ASSUME NEW d, Good(d), NEW i \in DOMAIN d.entries
  PROVE  LET e == d.entries[i] IN
         /\ e.zone \in DOMAIN d.zones /\ e.rel \in Seq(Names) /\ e.rel # <<>>
         /\ e.dir \in Seq(Names) /\ e.name \in Names /\ e.rel = Append(e.dir, e.name)
         /\ Front(e.rel) = e.dir /\ Last(e.rel) = e.name
         /\ e.kind \in Kinds
<1> DEFINE e == d.entries[i]
<1>1. GoodRow(DOMAIN d.zones, d.objects, e)
  BY DEF Good, GoodEntries
<1> HIDE DEF e
<1>2. /\ e.zone \in DOMAIN d.zones /\ e.rel \in Seq(Names) /\ e.rel # <<>>
      /\ e.dir \in Seq(Names) /\ e.name \in Names /\ e.rel = Append(e.dir, e.name)
      /\ e.kind \in Kinds
  BY <1>1 DEF GoodRow, EntryRows
<1>3. Front(e.rel) = e.dir /\ Last(e.rel) = e.name
  <2> DEFINE a == e.dir
             b == e.name
  <2>1. a \in Seq(Names) /\ b \in Names /\ e.rel = Append(a, b)
    BY <1>2
  <2> HIDE DEF a, b
  <2>2. Front(Append(a, b)) = a /\ Last(Append(a, b)) = b
    BY <2>1, SplitAppend
  <2> QED
    BY <2>1, <2>2 DEF a, b
<1> QED
  BY <1>2, <1>3 DEF e

LEMMA AbsoluteParts ==
  ASSUME NEW d, Good(d), NEW i \in DOMAIN d.entries
  PROVE  LET e == d.entries[i]
             top == d.zones[e.zone].path
             p == AbsolutePath(d, i)
         IN /\ p = top \o e.rel /\ p \in Seq(Names) /\ p # <<>> /\ top \in Seq(Names)
            /\ Front(p) = top \o e.dir /\ Last(p) = e.name
            /\ Len(top) < Len(p) /\ IsPrefix(top, p)
<1> DEFINE e == d.entries[i]
           top == d.zones[e.zone].path
           r == e.rel
<1>1. /\ e.zone \in DOMAIN d.zones /\ r \in Seq(Names) /\ r # <<>>
      /\ Front(r) = e.dir /\ Last(r) = e.name
  BY EntryParts
<1>2. AbsolutePath(d, i) = top \o r
  BY DEF AbsolutePath
<1>3. top \in Seq(Names)
  BY <1>1, ZoneParts
<1> HIDE DEF e, top, r
<1>4. /\ top \o r \in Seq(Names) /\ Front(top \o r) = top \o Front(r) /\ Last(top \o r) = Last(r)
  BY <1>1, <1>3, SplitConcat
<1>5. /\ Len(top \o r) = Len(top) + Len(r) /\ Len(top) \in Nat /\ Len(r) \in Nat
      /\ IsPrefix(top, top \o r)
  BY <1>1, <1>3, PrefixConcat
<1>6. Len(r) # 0
  BY <1>1, EmptySeq
<1>7. Len(top) < Len(top \o r) /\ top \o r # <<>>
  BY <1>5, <1>6, EmptySeq
<1> QED
  BY <1>1, <1>2, <1>3, <1>4, <1>5, <1>7 DEF e, top, r

\* The zone that a lookup finds is the one above that no other lies below.
LEMMA LookupFinds ==
  ASSUME NEW d, Good(d), Distinct(d), NEW p \in Seq(Names), NEW z \in DOMAIN d.zones,
         IsPrefix(d.zones[z].path, p), ClearOf(d, p, d.zones[z].path)
  PROVE  LocateZone(d, p) = z /\ RelativePath(d, p) = Remainder(d.zones[z].path, p)
<1> DEFINE over == ZonesOver(d, p)
           best(v) == \A y \in over : Len(d.zones[y].path) =< Len(d.zones[v].path)
<1>1. z \in over /\ best(z)
  BY DEF ZonesOver, ClearOf
<1>2. ASSUME NEW v \in over, best(v) PROVE v = z
  <2> DEFINE a == d.zones[v].path
             b == d.zones[z].path
  <2>1. v \in DOMAIN d.zones /\ IsPrefix(a, p) /\ IsPrefix(b, p)
    BY DEF ZonesOver
  <2>2. a \in Seq(Names) /\ b \in Seq(Names)
    BY <2>1, ZoneParts
  <2>3. Len(a) =< Len(b) /\ Len(b) =< Len(a)
    BY <1>1, <1>2
  <2> HIDE DEF a, b
  <2>4. Len(a) \in Nat /\ Len(b) \in Nat
    BY <2>2, LenProperties
  <2>5. IsPrefix(a, b) /\ Len(a) >= Len(b)
    BY <2>1, <2>2, <2>3, <2>4, PrefixOfPrefix
  <2>6. a = b
    BY <2>2, <2>5, EmptyRemainder
  <2> QED
    BY <2>1, <2>6 DEF a, b, Distinct
<1>3. LocateZone(d, p) = CHOOSE v \in over : best(v)
  BY Zenon DEF LocateZone
<1> HIDE DEF over, best
<1>4. (CHOOSE v \in over : best(v)) = z
  BY <1>1, <1>2
<1> QED
  BY <1>3, <1>4 DEF RelativePath

\* The lookup of a path finds a zone above it and below no other.
LEMMA LookupIs ==
  ASSUME NEW d, Good(d), NEW p \in Seq(Names), ZonesOver(d, p) # {}
  PROVE  LET z == LocateZone(d, p)
             top == d.zones[z].path
             r == RelativePath(d, p)
         IN /\ z \in DOMAIN d.zones /\ top \in Seq(Names) /\ r \in Seq(Names)
            /\ IsPrefix(top, p) /\ p = top \o r /\ ClearOf(d, p, top)
            /\ r = <<>> => top = p
<1> DEFINE z == LocateZone(d, p)
           top == d.zones[z].path
<1>1. /\ z \in DOMAIN d.zones /\ top \in Seq(Names) /\ IsPrefix(top, p)
      /\ RelativePath(d, p) \in Seq(Names) /\ (RelativePath(d, p) = <<>> => top = p)
  BY LocatedParts
<1>2. p = top \o RelativePath(d, p)
  <2>1. RelativePath(d, p) = Remainder(top, p)
    BY DEF RelativePath
  <2> HIDE DEF top, z
  <2> QED
    BY <1>1, <2>1, PrefixSplit
<1>3. ClearOf(d, p, top)
  BY Located DEF ClearOf, ZonesOver
<1> QED
  BY <1>1, <1>2, <1>3


\* An entry is what a lookup of its path finds.
LEMMA Resolves ==
  ASSUME NEW d, Good(d), IsTreeOf(d), NEW i \in DOMAIN d.entries
  PROVE  LET p == AbsolutePath(d, i)
             e == d.entries[i]
         IN /\ ZonesOver(d, p) # {} /\ LocateZone(d, p) = e.zone /\ RelativePath(d, p) = e.rel
            /\ ~IsZonePath(d, p) /\ EntriesFor(d, p) = {i} /\ KindOf(d, p) = e.kind
<1> DEFINE p == AbsolutePath(d, i)
           e == d.entries[i]
           z == e.zone
           top == d.zones[z].path
<1>1. z \in DOMAIN d.zones /\ e.rel \in Seq(Names)
  BY EntryParts
<1>2. /\ p = top \o e.rel /\ p \in Seq(Names) /\ top \in Seq(Names)
      /\ Len(top) < Len(p) /\ IsPrefix(top, p)
  BY AbsoluteParts
<1>3. ClearOf(d, p, top)
  BY DEF IsTreeOf, Unshadowed
<1>4. z \in ZonesOver(d, p)
  BY <1>1, <1>2 DEF ZonesOver
<1>5. Remainder(top, p) = e.rel
  <2> HIDE DEF p, e, top
  <2> QED
    BY <1>1, <1>2, ConcatRemainder
<1>6. LocateZone(d, p) = z /\ RelativePath(d, p) = e.rel
  <2> HIDE DEF p, e, z
  <2>1. LocateZone(d, p) = z /\ RelativePath(d, p) = Remainder(d.zones[z].path, p)
    BY <1>1, <1>2, <1>3, LookupFinds DEF IsTreeOf
  <2> QED
    BY <1>5, <2>1
<1>7. ~IsZonePath(d, p)
  <2> SUFFICES ASSUME NEW y \in DOMAIN d.zones, d.zones[y].path = p PROVE FALSE
    BY DEF IsZonePath
  <2>1. IsPrefix(d.zones[y].path, p)
    BY <1>2, PrefixSelf
  <2>2. Len(p) =< Len(top)
    BY <1>3, <2>1 DEF ClearOf
  <2> HIDE DEF top, p
  <2>3. Len(top) \in Nat /\ Len(p) \in Nat
    BY <1>2, LenProperties
  <2> QED
    BY <1>2, <2>2, <2>3
<1>8. EntriesFor(d, p) = {i}
  <2>1. EntriesFor(d, p) = EntriesAt(d, z, e.rel)
    BY <1>5, <1>6 DEF EntriesFor
  <2>2. EntriesAt(d, z, e.rel) = {i}
    BY DEF EntriesAt, IsTreeOf, Distinct
  <2> QED
    BY <2>1, <2>2
<1> HIDE DEF p
<1>9. KindOf(d, p) = e.kind
  <2>1. (CHOOSE j \in {i} : TRUE) = i
    OBVIOUS
  <2>2. ZonesOver(d, p) # {} /\ EntriesFor(d, p) # {}
    BY <1>4, <1>8
  <2> QED
    BY <1>7, <1>8, <2>1, <2>2 DEF KindOf
<1> QED
  BY <1>4, <1>6, <1>7, <1>8, <1>9 DEF p

\* So is a zone.
LEMMA ZoneResolves ==
  ASSUME NEW d, Good(d), Distinct(d), NEW z \in DOMAIN d.zones
  PROVE  LET p == d.zones[z].path
         IN /\ p \in Seq(Names) /\ ZonesOver(d, p) # {}
            /\ LocateZone(d, p) = z /\ RelativePath(d, p) = <<>>
            /\ IsZonePath(d, p) /\ KindOf(d, p) = Dir
<1> DEFINE p == d.zones[z].path
<1>1. p \in Seq(Names)
  BY ZoneParts
<1>2. IsPrefix(p, p)
  BY <1>1, PrefixSelf
<1>3. z \in ZonesOver(d, p) /\ IsZonePath(d, p)
  BY <1>2 DEF ZonesOver, IsZonePath
<1>4. ClearOf(d, p, d.zones[z].path)
  BY DEF ClearOf, IsPrefix
<1>5. LocateZone(d, p) = z /\ RelativePath(d, p) = Remainder(d.zones[z].path, p)
  BY <1>1, <1>2, <1>4, LookupFinds
<1>6. Remainder(p, p) = <<>>
  BY <1>1, RemainderOf, LenProperties
<1>7. KindOf(d, p) = Dir
  BY <1>3 DEF KindOf
<1> QED
  BY <1>1, <1>3, <1>5, <1>6, <1>7

\* Where a directory is: at the zone, or at a row of the zone, that a lookup
\* of its path finds.
LEMMA DirLocated ==
  ASSUME NEW d, Good(d), NEW p \in Seq(Names), KindOf(d, p) = Dir
  PROVE  /\ ZonesOver(d, p) # {}
         /\ DirAt(d, LocateZone(d, p), RelativePath(d, p))
<1>1. ZonesOver(d, p) # {}
  BY DirIsOver, NoneAssumption DEF Kinds
<1> DEFINE z == LocateZone(d, p)
           top == d.zones[z].path
           r == RelativePath(d, p)
<1>2. /\ z \in DOMAIN d.zones /\ top \in Seq(Names)
      /\ IsPrefix(top, p) /\ ClearOf(d, p, top) /\ r = Remainder(top, p)
  BY <1>1, LookupIs DEF RelativePath
<1>3. CASE IsZonePath(d, p)
  <2>1. PICK y \in DOMAIN d.zones : d.zones[y].path = p
    BY <1>3 DEF IsZonePath
  <2>2. Len(p) =< Len(top)
    BY <1>2, <2>1, PrefixSelf DEF ClearOf
  <2> HIDE DEF top, z
  <2>3. Remainder(top, p) = <<>>
    BY <1>2, <2>2, RemainderOf, LenProperties
  <2> QED
    BY <1>1, <1>2, <2>3 DEF DirAt, z
<1>4. CASE ~IsZonePath(d, p)
  <2> DEFINE found == EntriesFor(d, p)
             j == CHOOSE i \in found : TRUE
  <2>1. found = EntriesAt(d, z, r)
    BY <1>2 DEF EntriesFor
  <2>2. found # {} /\ d.entries[j].kind = Dir
    BY <1>1, <1>4, NoneAssumption DEF KindOf, Kinds
  <2>3. j \in found
    BY <2>2
  <2> HIDE DEF found, j
  <2> QED
    BY <1>1, <2>1, <2>2, <2>3 DEF DirAt
<1> QED
  BY <1>3, <1>4

\* Conversely, each such place is a directory.
LEMMA DirAtKind ==
  ASSUME NEW d, Good(d), IsTreeOf(d), NEW z \in DOMAIN d.zones, NEW r \in Seq(Names),
         DirAt(d, z, r)
  PROVE  LET p == d.zones[z].path \o r
         IN /\ p \in Seq(Names) /\ KindOf(d, p) = Dir
            /\ LocateZone(d, p) = z /\ RelativePath(d, p) = r
<1> DEFINE top == d.zones[z].path
           p == top \o r
<1>1. top \in Seq(Names)
  BY ZoneParts
<1>2. p \in Seq(Names)
  BY <1>1, PrefixConcat
<1>3. CASE r = <<>>
  <2>1. p = top
    BY <1>1, <1>3, ConcatEmptySeq
  <2>2. KindOf(d, top) = Dir /\ LocateZone(d, top) = z /\ RelativePath(d, top) = <<>>
    BY ZoneResolves DEF IsTreeOf
  <2> QED
    BY <1>2, <1>3, <2>1, <2>2
<1>4. CASE r # <<>>
  <2>1. PICK j \in EntriesAt(d, z, r) : d.entries[j].kind = Dir
    BY <1>4 DEF DirAt
  <2>2. j \in DOMAIN d.entries /\ d.entries[j].zone = z /\ d.entries[j].rel = r
    BY DEF EntriesAt
  <2>3. AbsolutePath(d, j) = p
    BY <2>2 DEF AbsolutePath
  <2> HIDE DEF p
  <2>4. KindOf(d, p) = Dir /\ LocateZone(d, p) = z /\ RelativePath(d, p) = r
    BY <2>1, <2>2, <2>3, Resolves
  <2> QED
    BY <1>2, <2>4 DEF p
<1> QED
  BY <1>3, <1>4

IsNode(d, p) == IsZonePath(d, p) \/ \E i \in DOMAIN d.entries : AbsolutePath(d, i) = p

\* A path that a lookup finds is one of a node.
LEMMA FoundIsNode ==
  ASSUME NEW d, Good(d), NEW p \in Seq(Names), KindOf(d, p) # None
  PROVE  IsNode(d, p)
<1>1. ZonesOver(d, p) # {}
  BY DirIsOver
<1> DEFINE z == LocateZone(d, p)
           top == d.zones[z].path
           r == RelativePath(d, p)
<1>2. z \in DOMAIN d.zones /\ p = top \o r /\ r = Remainder(top, p)
  BY <1>1, LookupIs DEF RelativePath
<1>3. CASE ~IsZonePath(d, p)
  <2>1. EntriesFor(d, p) # {}
    BY <1>1, <1>3 DEF KindOf
  <2>2. EntriesFor(d, p) = EntriesAt(d, z, r)
    BY <1>2 DEF EntriesFor
  <2>3. PICK j \in DOMAIN d.entries : d.entries[j].zone = z /\ d.entries[j].rel = r
    BY <2>1, <2>2 DEF EntriesAt
  <2>4. AbsolutePath(d, j) = p
    BY <1>2, <2>3 DEF AbsolutePath
  <2> QED
    BY <2>4 DEF IsNode
<1> QED
  BY <1>3 DEF IsNode

LEMMA NodeIsFound ==
  ASSUME NEW d, Good(d), IsTreeOf(d), NEW p, IsNode(d, p)
  PROVE  KindOf(d, p) \in Kinds /\ p \in Seq(Names)
<1>1. CASE IsZonePath(d, p)
  <2>1. PICK y \in DOMAIN d.zones : d.zones[y].path = p
    BY <1>1 DEF IsZonePath
  <2>2. KindOf(d, p) = Dir /\ p \in Seq(Names)
    BY <2>1, ZoneResolves DEF IsTreeOf
  <2> QED
    BY <2>2 DEF Kinds
<1>2. CASE ~IsZonePath(d, p)
  <2>1. PICK i \in DOMAIN d.entries : AbsolutePath(d, i) = p
    BY <1>2 DEF IsNode
  <2>2. KindOf(d, p) = d.entries[i].kind
    BY <2>1, Resolves
  <2>3. d.entries[i].kind \in Kinds
    BY EntryParts
  <2>4. p \in Seq(Names)
    BY <2>1, AbsoluteParts
  <2> QED
    BY <2>2, <2>3, <2>4
<1> QED
  BY <1>1, <1>2

\* A node that has a parent path is in a directory.
LEMMA ParentOfNode ==
  ASSUME NEW d, Good(d), IsTreeOf(d), NEW p, IsNode(d, p), p # <<>>
  PROVE  Front(p) \in Seq(Names) /\ KindOf(d, Front(p)) = Dir
<1>1. CASE IsZonePath(d, p)
  <2>1. PICK y \in DOMAIN d.zones : d.zones[y].path = p
    BY <1>1 DEF IsZonePath
  <2> DEFINE u == d.zones[y].parent
             r == d.zones[y].dir
             n == d.zones[y].name
             top == d.zones[u].path
  <2>2. /\ u \in DOMAIN d.zones /\ r \in Seq(Names) /\ n \in Names
        /\ p = top \o Append(r, n) /\ DirAt(d, u, r)
    BY <2>1 DEF IsTreeOf, AllAttached, Attached
  <2>3. top \in Seq(Names)
    BY <2>2, ZoneParts
  <2>4. KindOf(d, top \o r) = Dir /\ top \o r \in Seq(Names)
    BY <2>2, DirAtKind
  <2> HIDE DEF top, r, n, u
  <2>5. Append(r, n) \in Seq(Names) /\ Append(r, n) # <<>> /\ Front(Append(r, n)) = r
    BY <2>2, AppendProperties, SplitAppend
  <2> DEFINE t == Append(r, n)
  <2>6. t \in Seq(Names) /\ t # <<>> /\ Front(t) = r /\ p = top \o t
    BY <2>2, <2>5
  <2> HIDE DEF t
  <2>7. Front(p) = top \o r
    BY <2>3, <2>6, SplitConcat
  <2> QED
    BY <2>4, <2>7
<1>2. CASE ~IsZonePath(d, p)
  <2>1. PICK i \in DOMAIN d.entries : AbsolutePath(d, i) = p
    BY <1>2 DEF IsNode
  <2> DEFINE e == d.entries[i]
             top == d.zones[e.zone].path
  <2>2. Front(p) = top \o e.dir
    BY <2>1, AbsoluteParts
  <2>3. e.zone \in DOMAIN d.zones /\ e.dir \in Seq(Names)
    BY EntryParts
  <2>4. DirAt(d, e.zone, e.dir)
    BY DEF IsTreeOf, Rooted
  <2>5. KindOf(d, top \o e.dir) = Dir /\ top \o e.dir \in Seq(Names)
    BY <2>3, <2>4, DirAtKind
  <2> QED
    BY <2>2, <2>5
<1> QED
  BY <1>1, <1>2

\* So everything above a node is a directory.
LEMMA AboveNode ==
  ASSUME NEW d, Good(d), IsTreeOf(d), NEW p, IsNode(d, p),
         NEW q \in Seq(Names), IsPrefix(q, p), q # p
  PROVE  KindOf(d, q) = Dir
<1> SUFFICES ASSUME KindOf(d, q) # Dir PROVE FALSE
  OBVIOUS
<1> DEFINE Bad(w) == IsNode(d, w) /\ IsPrefix(q, w) /\ q # w
           T == {n \in Nat : \E w \in Seq(Names) : Bad(w) /\ n = Len(w)}
<1>1. p \in Seq(Names)
  BY NodeIsFound
<1>2. Len(p) \in T
  BY <1>1, LenProperties
<1>3. PICK n \in T : \A m \in T : n =< m
  <2>1. T \in SUBSET Nat /\ T # {}
    BY <1>2
  <2> HIDE DEF T
  <2> QED
    BY <2>1, LeastNumber
<1>4. PICK w \in Seq(Names) : Bad(w) /\ n = Len(w)
  OBVIOUS
<1>5. w # <<>>
  <2>1. Len(q) =< Len(w)
    BY <1>4 DEF IsPrefix
  <2> QED
    BY <1>4, <2>1, EmptySeq
<1> DEFINE f == Front(w)
<1>6. /\ f \in Seq(Names) /\ Len(w) = Len(f) + 1 /\ Len(f) \in Nat
      /\ (q = w \/ IsPrefix(q, f))
  BY <1>4, <1>5, PrefixFront
<1>7. KindOf(d, f) = Dir
  BY <1>4, <1>5, ParentOfNode
<1> HIDE DEF f
<1>8. IsNode(d, f)
  BY <1>6, <1>7, FoundIsNode, NoneAssumption DEF Kinds
<1>9. Bad(f)
  BY <1>4, <1>6, <1>7, <1>8
<1>10. Len(f) \in T
  BY <1>6, <1>9
<1> QED
  BY <1>3, <1>4, <1>6, <1>10


-----------------------------------------------------------------------------
(* Steps between trees.                                                    *)

\* Two tables of entries with the same nodes at the same places.
SameRows(es, fs) ==
    /\ DOMAIN fs = DOMAIN es
    /\ \A i \in DOMAIN es : /\ fs[i].zone = es[i].zone /\ fs[i].rel = es[i].rel
                            /\ fs[i].dir = es[i].dir /\ fs[i].kind = es[i].kind

LEMMA SameTree ==
  ASSUME NEW d, Good(d), IsTreeOf(d), NEW c,
         SamePlaces(d.zones, c.zones), SameRows(d.entries, c.entries)
  PROVE  IsTreeOf(c)
<1>1. \A z, r : DirAt(d, z, r) => DirAt(c, z, r)
  BY DEF DirAt, EntriesAt, SameRows
<1>2. Distinct(c)
  BY DEF IsTreeOf, Distinct, SamePlaces, SameRows
<1>3. Rooted(c)
  BY <1>1 DEF IsTreeOf, Rooted, SameRows
<1>4. AllAttached(c)
  <2>1. ASSUME NEW y \in DOMAIN c.zones, c.zones[y].path # <<>>
        PROVE  Attached(c, y)
    <3>1. y \in DOMAIN d.zones /\ Attached(d, y)
      BY <2>1 DEF IsTreeOf, AllAttached, SamePlaces
    <3> QED
      BY <1>1, <3>1 DEF Attached, SamePlaces
  <2> QED
    BY <2>1 DEF AllAttached
<1>5. Unshadowed(c)
  <2>1. \A i \in DOMAIN c.entries :
          /\ i \in DOMAIN d.entries /\ AbsolutePath(c, i) = AbsolutePath(d, i)
          /\ c.zones[c.entries[i].zone].path = d.zones[d.entries[i].zone].path
    BY EntryParts DEF AbsolutePath, SamePlaces, SameRows
  <2>2. \A path, top : ClearOf(d, path, top) => ClearOf(c, path, top)
    BY DEF ClearOf, SamePlaces
  <2> QED
    BY <2>1, <2>2 DEF IsTreeOf, Unshadowed
<1>20. RootAlone(c)
  BY DEF IsTreeOf, RootAlone, SamePlaces
<1> QED
  BY <1>2, <1>3, <1>4, <1>5, <1>20 DEF IsTreeOf

\* Rows stored at new places, in zones that stay where they are.
Placed(d, c, r) ==
    /\ r.zone \in DOMAIN d.zones
    /\ DirAt(c, r.zone, r.dir)
    /\ ClearOf(d, d.zones[r.zone].path \o r.rel, d.zones[r.zone].path)

\* The table after the rows are stored in another.
Holds(fs, rows, es) ==
    /\ DOMAIN fs = DOMAIN rows \cup DOMAIN es
    /\ \A i \in DOMAIN rows : fs[i] = rows[i]
    /\ \A i \in DOMAIN es \ DOMAIN rows : fs[i] = es[i]

LEMMA StoreHolds ==
  ASSUME NEW rows, NEW es, NEW fs, fs = Store(rows, es)
  PROVE  Holds(fs, rows, es)
BY DEF Store, Holds

LEMMA StoreTree ==
  ASSUME NEW d, Good(d), IsTreeOf(d), NEW c, NEW rows,
         SamePlaces(d.zones, c.zones), Holds(c.entries, rows, d.entries), Distinct(c),
         \A i \in DOMAIN rows : Placed(d, c, rows[i]),
         \A i \in DOMAIN d.entries \ DOMAIN rows : DirAt(c, d.entries[i].zone, d.entries[i].dir),
         \A y \in DOMAIN d.zones : d.zones[y].path # <<>> =>
            DirAt(c, d.zones[y].parent, d.zones[y].dir)
  PROVE  IsTreeOf(c)
<1>1. /\ DOMAIN c.entries = DOMAIN rows \cup DOMAIN d.entries
      /\ \A i \in DOMAIN rows : c.entries[i] = rows[i]
      /\ \A i \in DOMAIN d.entries \ DOMAIN rows : c.entries[i] = d.entries[i]
  BY DEF Holds
<1>2. Rooted(c)
  BY <1>1 DEF Rooted, Placed
<1>3. AllAttached(c)
  <2>1. ASSUME NEW y \in DOMAIN c.zones, c.zones[y].path # <<>>
        PROVE  Attached(c, y)
    <3>1. y \in DOMAIN d.zones /\ Attached(d, y) /\ DirAt(c, d.zones[y].parent, d.zones[y].dir)
      BY <2>1 DEF IsTreeOf, AllAttached, SamePlaces
    <3> QED
      BY <3>1 DEF Attached, SamePlaces
  <2> QED
    BY <2>1 DEF AllAttached
<1>4. \A path, top : ClearOf(d, path, top) => ClearOf(c, path, top)
  BY DEF ClearOf, SamePlaces
<1>5. ASSUME NEW i \in DOMAIN c.entries
      PROVE  ClearOf(c, AbsolutePath(c, i), c.zones[c.entries[i].zone].path)
  <2>1. CASE i \in DOMAIN rows
    <3>1. Placed(d, c, rows[i]) /\ c.entries[i] = rows[i]
      BY <1>1, <2>1
    <3>2. c.zones[rows[i].zone].path = d.zones[rows[i].zone].path
      BY <3>1 DEF Placed, SamePlaces
    <3> QED
      BY <1>4, <3>1, <3>2 DEF Placed, AbsolutePath
  <2>2. CASE i \in DOMAIN d.entries \ DOMAIN rows
    <3>1. c.entries[i] = d.entries[i] /\ d.entries[i].zone \in DOMAIN d.zones
      BY <1>1, <2>2, EntryParts
    <3>2. c.zones[d.entries[i].zone].path = d.zones[d.entries[i].zone].path
      BY <3>1 DEF SamePlaces
    <3>3. ClearOf(d, AbsolutePath(d, i), d.zones[d.entries[i].zone].path)
      BY <2>2 DEF IsTreeOf, Unshadowed
    <3> QED
      BY <1>4, <3>1, <3>2, <3>3 DEF AbsolutePath
  <2> QED
    BY <1>1, <2>1, <2>2
<1>20. RootAlone(c)
  BY DEF IsTreeOf, RootAlone, SamePlaces
<1> QED
  BY <1>2, <1>3, <1>5, <1>20 DEF IsTreeOf, Unshadowed

\* Directories stay where rows are only added.
LEMMA GrownDirs ==
  ASSUME NEW d, NEW c, NEW rows, Holds(c.entries, rows, d.entries),
         DOMAIN rows \cap DOMAIN d.entries = {},
         NEW z, NEW r, DirAt(d, z, r)
  PROVE  DirAt(c, z, r)
<1>1. DOMAIN d.entries \subseteq DOMAIN c.entries
      /\ \A i \in DOMAIN d.entries : c.entries[i] = d.entries[i]
  BY DEF Holds
<1> QED
  BY <1>1 DEF DirAt, EntriesAt

LEMMA InsertTree ==
  ASSUME NEW d, Good(d), IsTreeOf(d), NEW rows, NEW c,
         SamePlaces(d.zones, c.zones), Holds(c.entries, rows, d.entries), Distinct(c),
         DOMAIN rows \cap DOMAIN d.entries = {},
         \A i \in DOMAIN rows : Placed(d, c, rows[i])
  PROVE  IsTreeOf(c)
<1>1. \A z, r : DirAt(d, z, r) => DirAt(c, z, r)
  BY GrownDirs
<1>2. \A i \in DOMAIN d.entries \ DOMAIN rows : DirAt(c, d.entries[i].zone, d.entries[i].dir)
  BY <1>1 DEF IsTreeOf, Rooted
<1>3. \A y \in DOMAIN d.zones : d.zones[y].path # <<>> =>
            DirAt(c, d.zones[y].parent, d.zones[y].dir)
  BY <1>1 DEF IsTreeOf, AllAttached, Attached
<1> QED
  BY <1>2, <1>3, StoreTree

\* A part of a tree that has the directory of each node it has.
Within(c, d) ==
    /\ DOMAIN c.zones \subseteq DOMAIN d.zones
    /\ \A z \in DOMAIN c.zones :
         /\ c.zones[z].path = d.zones[z].path /\ c.zones[z].parent = d.zones[z].parent
         /\ c.zones[z].dir = d.zones[z].dir /\ c.zones[z].name = d.zones[z].name
    /\ DOMAIN c.entries \subseteq DOMAIN d.entries
    /\ \A i \in DOMAIN c.entries : c.entries[i] = d.entries[i]

LEMMA CutTree ==
  ASSUME NEW d, Good(d), IsTreeOf(d), NEW c, Good(c), Within(c, d),
         \A i \in DOMAIN c.entries : DirAt(c, c.entries[i].zone, c.entries[i].dir),
         \A y \in DOMAIN c.zones : c.zones[y].path # <<>> =>
            c.zones[y].parent \in DOMAIN c.zones /\ DirAt(c, c.zones[y].parent, c.zones[y].dir)
  PROVE  IsTreeOf(c)
<1>1. Distinct(c)
  BY DEF IsTreeOf, Distinct, Within
<1>2. Rooted(c)
  BY DEF Rooted
<1>3. AllAttached(c)
  <2>1. ASSUME NEW y \in DOMAIN c.zones, c.zones[y].path # <<>>
        PROVE  Attached(c, y)
    <3>1. y \in DOMAIN d.zones /\ Attached(d, y)
      BY <2>1 DEF IsTreeOf, AllAttached, Within
    <3>2. c.zones[y].parent \in DOMAIN c.zones /\ DirAt(c, c.zones[y].parent, c.zones[y].dir)
      BY <2>1
    <3>3. /\ c.zones[y].path = d.zones[y].path /\ c.zones[y].parent = d.zones[y].parent
          /\ c.zones[y].dir = d.zones[y].dir /\ c.zones[y].name = d.zones[y].name
          /\ c.zones[c.zones[y].parent].path = d.zones[c.zones[y].parent].path
      BY <2>1, <3>2 DEF Within
    <3> QED
      BY <3>1, <3>2, <3>3 DEF Attached
  <2> QED
    BY <2>1 DEF AllAttached
<1>4. ASSUME NEW i \in DOMAIN c.entries
      PROVE  ClearOf(c, AbsolutePath(c, i), c.zones[c.entries[i].zone].path)
  <2>1. c.entries[i].zone \in DOMAIN c.zones
    BY EntryParts
  <2>2. /\ i \in DOMAIN d.entries /\ AbsolutePath(c, i) = AbsolutePath(d, i)
        /\ c.zones[c.entries[i].zone].path = d.zones[d.entries[i].zone].path
    BY <2>1 DEF Within, AbsolutePath
  <2>3. ClearOf(d, AbsolutePath(d, i), d.zones[d.entries[i].zone].path)
    BY <2>2 DEF IsTreeOf, Unshadowed
  <2> QED
    BY <2>2, <2>3 DEF ClearOf, Within
<1>20. RootAlone(c)
  BY DEF IsTreeOf, RootAlone, Within
<1> QED
  BY <1>1, <1>2, <1>3, <1>4, <1>20 DEF IsTreeOf, Unshadowed

\* The place that a new node at p gets, in the directory that is to hold it.
LEMMA NewPlace ==
  ASSUME NEW d, Good(d), NEW p \in Seq(Names), p # <<>>, ZonesOver(d, Front(p)) # {}
  PROVE  LET z == LocateZone(d, Front(p))
             r == RelativePath(d, Front(p))
         IN /\ z \in DOMAIN d.zones /\ d.zones[z].path \in Seq(Names) /\ r \in Seq(Names)
            /\ Front(p) \in Seq(Names) /\ Last(p) \in Names
            /\ Front(p) = d.zones[z].path \o r
            /\ p = d.zones[z].path \o Append(r, Last(p)) /\ Append(r, Last(p)) \in Seq(Names)
            /\ ClearOf(d, Front(p), d.zones[z].path)
            /\ DOMAIN d.zones # {}
<1> DEFINE f == Front(p)
           z == LocateZone(d, f)
           r == RelativePath(d, f)
           top == d.zones[z].path
<1>2. f \in Seq(Names) /\ Last(p) \in Names /\ p = Append(f, Last(p))
  BY SplitPath
<1>3. ZonesOver(d, f) # {}
  OBVIOUS
<1>4. /\ z \in DOMAIN d.zones /\ top \in Seq(Names) /\ r \in Seq(Names)
      /\ f = top \o r /\ ClearOf(d, f, top)
  <2> HIDE DEF f
  <2> QED
    BY <1>2, <1>3, LookupIs DEF z, r, top
<1>5. Append(r, Last(p)) \in Seq(Names) /\ p = top \o Append(r, Last(p))
  <2> DEFINE n == Last(p)
  <2>0. n \in Names /\ p = Append(f, n)
    BY <1>2
  <2> HIDE DEF f, z, r, top, n
  <2>1. <<n>> \in Seq(Names) /\ Append(r, n) = r \o <<n>> /\ Append(f, n) = f \o <<n>>
        /\ Append(r, n) \in Seq(Names)
    BY <1>2, <1>4, <2>0, AppendIsConcat, AppendProperties
  <2> DEFINE u == <<n>>
  <2>2. u \in Seq(Names) /\ Append(r, n) = r \o u /\ Append(f, n) = f \o u
    BY <2>1
  <2> HIDE DEF u
  <2>3. (top \o r) \o u = top \o (r \o u)
    <3>1. Assoc(top, r, u)
      BY <1>4, <2>2, Regroup
    <3> QED
      BY <3>1 DEF Assoc
  <2> QED
    BY <1>2, <1>4, <2>0, <2>1, <2>2, <2>3 DEF n
<1> QED
  BY <1>2, <1>4, <1>5

LEMMA ParentPlace ==
  ASSUME NEW d, Good(d), NEW p \in Seq(Names), ParentIsDir(d, p)
  PROVE  DirAt(d, LocateZone(d, Front(p)), RelativePath(d, Front(p)))
<1>1. p # <<>> /\ KindOf(d, Front(p)) = Dir
  BY DEF ParentIsDir
<1>2. Front(p) \in Seq(Names)
  BY <1>1, SplitPath
<1> QED
  BY <1>1, <1>2, DirLocated

\* Nothing lies below a path at which nothing is.
LEMMA NothingBelow ==
  ASSUME NEW d, Good(d), IsTreeOf(d), NEW p \in Seq(Names), KindOf(d, p) = None
  PROVE  /\ \A y \in DOMAIN d.zones : ~IsPrefix(p, d.zones[y].path)
         /\ \A i \in DOMAIN d.entries : ~IsPrefix(p, AbsolutePath(d, i))
<1>1. ASSUME NEW w, IsNode(d, w), IsPrefix(p, w) PROVE FALSE
  <2>1. CASE w = p
    BY <1>1, <2>1, NodeIsFound, NoneAssumption
  <2>2. CASE w # p
    <3>1. KindOf(d, p) = Dir
      BY <1>1, <2>2, AboveNode
    <3> QED
      BY <3>1, NoneAssumption DEF Kinds
  <2> QED
    BY <2>1, <2>2
<1> QED
  BY <1>1 DEF IsNode, IsZonePath

\* So no zone comes between a new node, or what comes with it, and the zone
\* of its directory.
LEMMA FreshPlace ==
  ASSUME NEW d, Good(d), IsTreeOf(d), NEW p \in Seq(Names),
         p # <<>>, ZonesOver(d, Front(p)) # {}, KindOf(d, p) = None,
         NEW t \in Seq(Names)
  PROVE  ClearOf(d, p \o t, d.zones[LocateZone(d, Front(p))].path)
<1> DEFINE top == d.zones[LocateZone(d, Front(p))].path
<1>1. /\ ClearOf(d, Front(p), top) /\ top \in Seq(Names)
      /\ Front(p) \in Seq(Names) /\ p # <<>>
  BY NewPlace
<1>2. ASSUME NEW y \in DOMAIN d.zones, IsPrefix(d.zones[y].path, p \o t)
      PROVE  Len(d.zones[y].path) =< Len(top)
  <2> DEFINE q == d.zones[y].path
             w == p \o t
  <2>1. q \in Seq(Names)
    BY ZoneParts
  <2>2. ~IsPrefix(p, q)
    BY NothingBelow
  <2>3. w \in Seq(Names) /\ IsPrefix(p, w)
    BY PrefixConcat
  <2>4. IsPrefix(q, w)
    BY <1>2
  <2> HIDE DEF w, q
  <2>5. Len(p) \in Nat /\ Len(q) \in Nat
    BY <2>1, LenProperties
  <2>6. Len(q) < Len(p)
    BY <2>1, <2>2, <2>3, <2>4, <2>5, PrefixOfPrefix
  <2>7. IsPrefix(q, p)
    BY <2>1, <2>3, <2>4, <2>5, <2>6, PrefixOfPrefix
  <2>8. IsPrefix(q, Front(p))
    BY <1>1, <2>1, <2>5, <2>6, <2>7, PrefixFront
  <2> QED
    BY <1>1, <2>8 DEF q, ClearOf
<1> QED
  BY <1>2 DEF ClearOf


\* A new row is in place.
LEMMA EntryRowIs ==
  ASSUME NEW d, NEW p, NEW kind, NEW body
  PROVE  LET r == EntryRow(d, p, kind, body) IN
         /\ r.zone = LocateZone(d, Front(p)) /\ r.dir = RelativePath(d, Front(p))
         /\ r.rel = Append(RelativePath(d, Front(p)), Last(p)) /\ r.kind = kind
         /\ r.body = body /\ r.obj = None
<1> DEFINE z == LocateZone(d, Front(p))
           dir == RelativePath(d, Front(p))
           size == IF kind = File THEN Size[body] ELSE 0
           r == [zone |-> z, rel |-> Append(dir, Last(p)), dir |-> dir, name |-> Last(p),
                 kind |-> kind, body |-> body, obj |-> None, size |-> size, gen |-> 1]
<1>1. EntryRow(d, p, kind, body) = r
  BY Zenon DEF EntryRow
<1> QED
  BY <1>1

LEMMA EntryRowPlaced ==
  ASSUME NEW d, Good(d), IsTreeOf(d), NEW p \in Seq(Names), p # <<>>, ZonesOver(d, Front(p)) # {},
         KindOf(d, p) = None, NEW kind, NEW body, NEW c,
         DirAt(c, LocateZone(d, Front(p)), RelativePath(d, Front(p)))
  PROVE  Placed(d, c, EntryRow(d, p, kind, body))
<1> DEFINE r == EntryRow(d, p, kind, body)
           z == LocateZone(d, Front(p))
           dir == RelativePath(d, Front(p))
           top == d.zones[z].path
<1>1. r.zone = z /\ r.dir = dir /\ r.rel = Append(dir, Last(p))
  BY EntryRowIs
<1>2. z \in DOMAIN d.zones /\ p = top \o Append(dir, Last(p))
  BY NewPlace
<1>3. ClearOf(d, p \o <<>>, top) /\ p \o <<>> = p
  BY FreshPlace, EmptySeq, ConcatEmptySeq
<1> HIDE DEF r, z, dir
<1> QED
  BY <1>1, <1>2, <1>3 DEF Placed, r, z, dir

\* What every commit has checked.
LEMMA CommitDistinct ==
  ASSUME NEW c, Commit(c)
  PROVE  Distinct(c)
BY DEF Commit, UniqueEntries, UniqueZones, Distinct

LEMMA CommitTree ==
  ASSUME NEW c, IsTreeOf(c), Commit(c)
  PROVE  IsTreeOf(db)'
<1> DEFINE e == db'
<1>1. e.zones = c.zones /\ e.entries = c.entries
  BY DEF Commit, db
<1> HIDE DEF e
<1>2. \A z, r : DirAt(e, z, r) <=> DirAt(c, z, r)
  BY <1>1 DEF DirAt, EntriesAt
<1>3. \A i \in DOMAIN c.entries : AbsolutePath(e, i) = AbsolutePath(c, i)
  BY <1>1 DEF AbsolutePath
<1>4. Distinct(e) /\ Rooted(e)
  BY <1>1, <1>2 DEF IsTreeOf, Distinct, Rooted
<1>5. AllAttached(e)
  BY <1>1, <1>2 DEF IsTreeOf, AllAttached, Attached
<1>6. Unshadowed(e)
  BY <1>1, <1>3 DEF IsTreeOf, Unshadowed, ClearOf
<1>7. IsTreeOf(db)' <=> IsTreeOf(e)
  BY DEF e
<1>20. RootAlone(e)
  BY <1>1 DEF IsTreeOf, RootAlone
<1> QED
  BY <1>4, <1>5, <1>6, <1>7, <1>20 DEF IsTreeOf

LEMMA OneInserted ==
  ASSUME NEW d, Good(d), IsTreeOf(d), NEW p \in Seq(Names), ParentIsDir(d, p), KindOf(d, p) = None,
         NEW kind, NEW body, NEW i \in FreshNodes(d), NEW c, Distinct(c),
         c = InsertEntries(d, OneRow(i, EntryRow(d, p, kind, body)))
  PROVE  IsTreeOf(c)
<1> DEFINE r == EntryRow(d, p, kind, body)
           rows == OneRow(i, r)
           z == LocateZone(d, Front(p))
           dir == RelativePath(d, Front(p))
<1>1. p # <<>> /\ ZonesOver(d, Front(p)) # {}
  BY ParentParts
<1>2. DOMAIN rows = {i} /\ rows[i] = r
  BY OneRowParts
<1> HIDE DEF rows, r
<1>3. Holds(c.entries, rows, d.entries) /\ SamePlaces(d.zones, c.zones)
  BY InsertLeaves, StoreHolds DEF rows, r
<1>4. DOMAIN rows \cap DOMAIN d.entries = {}
  BY <1>2 DEF FreshNodes
<1>5. DirAt(c, z, dir)
  <2>1. DirAt(d, z, dir)
    BY ParentPlace
  <2> QED
    BY <1>3, <1>4, <2>1, GrownDirs
<1>6. Placed(d, c, r)
  BY <1>1, <1>5, EntryRowPlaced DEF r
<1> QED
  BY <1>2, <1>3, <1>4, <1>6, InsertTree

TreeNext == IsTreeOf(db)'

LEMMA mkdirTree ==
  ASSUME Good(db), IsTreeOf(db), NEW p \in Paths, mkdir(p)
  PROVE  TreeNext
<1>1. PICK i \in FreshNodes(db) : Commit(InsertEntries(db, OneRow(i, EntryRow(db, p, Dir, None))))
  BY DEF mkdir
<1> DEFINE c == InsertEntries(db, OneRow(i, EntryRow(db, p, Dir, None)))
<1>2. p \in Seq(Names) /\ KindOf(db, p) = None /\ ParentIsDir(db, p)
  BY PathParts DEF mkdir
<1>3. p # <<>> /\ ZonesOver(db, Front(p)) # {}
  BY <1>2, ParentParts
<1>4. GoodRow(DOMAIN db.zones, db.objects, EntryRow(db, p, Dir, None))
  BY <1>2, <1>3, DirRowGood
<1>5. Good(c)
  BY <1>4, OneRowGood
<1>6. Distinct(c)
  BY <1>1, CommitDistinct
<1>7. IsTreeOf(c)
  BY <1>2, <1>6, OneInserted
<1> HIDE DEF c
<1> QED
  BY <1>1, <1>5, <1>7, CommitTree DEF TreeNext, c

\* Where nothing is there is no zone either, so the zone of a path is that
\* of the path above it.
LEMMA LookupAbove ==
  ASSUME NEW d, Good(d), NEW p \in Seq(Names), p # <<>>, ~IsZonePath(d, p),
         ZonesOver(d, Front(p)) # {}
  PROVE  /\ LocateZone(d, p) = LocateZone(d, Front(p))
         /\ RelativePath(d, p) = Append(RelativePath(d, Front(p)), Last(p))
         /\ ZonesOver(d, p) # {}
<1>1. ZonesOver(d, p) = ZonesOver(d, Front(p))
  <2>1. ASSUME NEW z \in DOMAIN d.zones
        PROVE  IsPrefix(d.zones[z].path, p) <=> IsPrefix(d.zones[z].path, Front(p))
    <3>1. d.zones[z].path \in Seq(Names) /\ d.zones[z].path # p
      BY ZoneParts DEF IsZonePath
    <3> QED
      BY <3>1, PrefixFront
  <2> QED
    BY <2>1 DEF ZonesOver
<1>2. LocateZone(d, p) = LocateZone(d, Front(p))
  BY <1>1, Zenon DEF LocateZone
<1> DEFINE z == LocateZone(d, p)
           top == d.zones[z].path
           a == RelativePath(d, p)
           b == Append(RelativePath(d, Front(p)), Last(p))
<1>3. top \in Seq(Names) /\ a \in Seq(Names) /\ p = top \o a
  BY <1>1, LookupIs
<1>4. b \in Seq(Names) /\ p = top \o b
  BY <1>2, NewPlace
<1> HIDE DEF top, a, b
<1>5. a = b
  BY <1>3, <1>4, SameConcat
<1> QED
  BY <1>1, <1>2, <1>5 DEF a, b

\* New directories, each below a directory or below another new one.
LEMMA DirRowsTree ==
  ASSUME Good(db), IsTreeOf(db), NEW P \in SUBSET Seq(Names), NEW f \in Injection(P, FreshNodes(db)),
         \A q \in P : KindOf(db, q) = None /\ q # <<>> /\ ZonesOver(db, Front(q)) # {},
         \A q \in P : Front(q) \in P \/ KindOf(db, Front(q)) = Dir,
         Commit(InsertEntries(db, DirRows(db, P, f)))
  PROVE  TreeNext
<1> DEFINE rows == DirRows(db, P, f)
           c == InsertEntries(db, rows)
<1>1. Good(c)
  BY DirRowsGood
<1>2. \A q \in P : f[q] \in DOMAIN rows /\ rows[f[q]] = EntryRow(db, q, Dir, None)
  <2>1. \A q, r \in P : f[q] = f[r] => q = r
    <3>1. IsInjective(f) /\ f \in [P -> FreshNodes(db)]
      BY DEF Injection
    <3> QED
      BY <3>1 DEF IsInjective
  <2>2. \A q \in P : (CHOOSE r \in P : f[r] = f[q]) = q
    BY <2>1
  <2> QED
    BY <2>2 DEF DirRows
<1>3. \A i \in DOMAIN rows : \E q \in P : rows[i] = EntryRow(db, q, Dir, None)
  BY <1>2 DEF DirRows
<1>4. DOMAIN rows \cap DOMAIN db.entries = {}
  BY DEF DirRows, Injection, FreshNodes
<1> HIDE DEF rows
<1>5. Holds(c.entries, rows, db.entries) /\ SamePlaces(db.zones, c.zones)
  BY InsertLeaves, StoreHolds
<1>6. Distinct(c)
  BY CommitDistinct DEF rows
<1>7. Commit(c)
  BY DEF rows
<1> HIDE DEF c
<1>8. ASSUME NEW q \in P
      PROVE  DirAt(c, LocateZone(db, Front(q)), RelativePath(db, Front(q)))
  <2> DEFINE g == Front(q)
             z == LocateZone(db, g)
             r == RelativePath(db, g)
  <2>1. g \in Seq(Names)
    BY SplitPath
  <2>2. CASE KindOf(db, g) = Dir
    <3>1. DirAt(db, z, r)
      BY <2>1, <2>2, DirLocated
    <3> QED
      BY <1>4, <1>5, <3>1, GrownDirs
  <2>3. CASE g \in P
    <3>1. g # <<>> /\ KindOf(db, g) = None /\ ZonesOver(db, Front(g)) # {}
      BY <2>3
    <3>2. ~IsZonePath(db, g)
      BY <3>1, NoneAssumption DEF KindOf, ZonesOver, Kinds
    <3>3. z = LocateZone(db, Front(g)) /\ r = Append(RelativePath(db, Front(g)), Last(g))
      BY <2>1, <3>1, <3>2, LookupAbove
    <3> DEFINE j == f[g]
               e == EntryRow(db, g, Dir, None)
    <3>4. e.zone = z /\ e.rel = r /\ e.kind = Dir
      BY <3>3, EntryRowIs
    <3>5. j \in DOMAIN rows /\ rows[j] = e
      BY <1>2, <2>3
    <3>6. j \in DOMAIN c.entries /\ c.entries[j] = e
      BY <1>5, <3>5 DEF Holds
    <3> HIDE DEF e, j
    <3>7. j \in EntriesAt(c, z, r) /\ c.entries[j].kind = Dir
      BY <3>4, <3>6 DEF EntriesAt
    <3> QED
      BY <3>7 DEF DirAt
  <2> QED
    BY <2>2, <2>3
<1>9. \A i \in DOMAIN rows : Placed(db, c, rows[i])
  <2>1. ASSUME NEW q \in P
        PROVE  Placed(db, c, EntryRow(db, q, Dir, None))
    BY <1>8, EntryRowPlaced
  <2> QED
    BY <1>3, <2>1
<1>10. IsTreeOf(c)
  BY <1>4, <1>5, <1>6, <1>9, InsertTree
<1> QED
  BY <1>1, <1>7, <1>10, CommitTree DEF TreeNext

LEMMA mkdir_manyTree ==
  ASSUME Good(db), IsTreeOf(db), NEW P \in Batches, mkdir_many(P), \A p \in P : KindOf(db, p) = None
  PROVE  TreeNext
<1>1. PICK f \in Injection(P, FreshNodes(db)) : Commit(InsertEntries(db, DirRows(db, P, f)))
  BY DEF mkdir_many
<1>2. P \in SUBSET Seq(Names)
  BY BatchesAssumption, PathsAssumption
<1>3. \A q \in P : q # <<>> /\ ZonesOver(db, Front(q)) # {} /\ KindOf(db, Front(q)) = Dir
  BY ParentParts DEF mkdir_many, ParentIsDir
<1> QED
  BY <1>1, <1>2, <1>3, DirRowsTree

LEMMA PrefixesClosed ==
  ASSUME NEW p \in Seq(Names), NEW q \in Prefixes(p)
  PROVE  q \in Seq(Names) /\ (q # <<>> => Front(q) \in Prefixes(p))
<1>1. PICK l \in 0 .. Len(p) : q = SubSeq(p, 1, l)
  BY DEF Prefixes
<1>2. l \in Nat /\ l =< Len(p) /\ Len(p) \in Nat
  BY <1>1, LenProperties
<1>3. \A k \in 1 .. l : p[k] \in Names
  BY <1>2, ElementOfSeq
<1>4. q \in Seq(Names) /\ Len(q) = l /\ \A k \in 1 .. l : q[k] = p[k]
  BY <1>1, <1>2, <1>3, SubSeqProperties, Z3
<1>5. ASSUME q # <<>> PROVE Front(q) \in Prefixes(p)
  <2>1. Len(q) = Len(Front(q)) + 1 /\ Front(q) \in Seq(Names) /\ IsPrefix(Front(q), q)
        /\ Len(Front(q)) \in Nat
    BY <1>4, <1>5, PrefixFront
  <2> DEFINE g == Front(q)
             m == Len(g)
  <2>2. m \in 0 .. Len(p) /\ \A k \in 1 .. m : g[k] = p[k]
    <3>1. \A k \in 1 .. m : g[k] = q[k]
      BY <1>4, <2>1, PrefixNames
    <3> QED
      BY <1>2, <1>4, <2>1, <3>1
  <2>3. \A k \in 1 .. m : p[k] \in Names
    BY <1>2, <2>2, ElementOfSeq
  <2> HIDE DEF g
  <2>4. SubSeq(p, 1, m) \in Seq(Names) /\ Len(SubSeq(p, 1, m)) = m
        /\ \A k \in 1 .. m : SubSeq(p, 1, m)[k] = p[k]
    <3> DEFINE n == m
    <3>1. n \in Nat /\ n \in Int /\ \A k \in 1 .. n : p[k] \in Names
      BY <2>2, <2>3
    <3> HIDE DEF n
    <3>2. SubSeq(p, 1, n) \in Seq(Names) /\ Len(SubSeq(p, 1, n)) = (IF 1 <= n THEN n - 1 + 1 ELSE 0)
          /\ \A k \in 1 .. n - 1 + 1 : SubSeq(p, 1, n)[k] = p[1 + k - 1]
      BY <3>1, SubSeqProperties, Z3
    <3>3. Len(SubSeq(p, 1, n)) = n /\ \A k \in 1 .. n : SubSeq(p, 1, n)[k] = p[k]
      BY <3>1, <3>2
    <3> QED
      BY <3>2, <3>3 DEF n
  <2>5. g = SubSeq(p, 1, m)
    BY <2>1, <2>2, <2>4, SeqEqual DEF g
  <2> QED
    BY <2>2, <2>5 DEF Prefixes, g
<1> QED
  BY <1>4, <1>5

LEMMA mkdir_parentsTree ==
  ASSUME Good(db), IsTreeOf(db), NEW P \in Batches, mkdir_parents(P)
  PROVE  TreeNext
<1> DEFINE prefixes == UNION {Prefixes(p) : p \in P}
           missing == {q \in prefixes : KindOf(db, q) = None}
<1>1. DOMAIN db.zones # {}
  BY DEF mkdir_parents, db
<1>2. PICK f \in Injection(missing, FreshNodes(db)) :
        Commit(InsertEntries(db, DirRows(db, missing, f)))
  BY Zenon DEF mkdir_parents
<1>3. \A q \in prefixes : q \in Seq(Names) /\ (q # <<>> => Front(q) \in prefixes)
  <2>1. \A p \in P : p \in Seq(Names)
    BY BatchesAssumption, PathsAssumption
  <2> QED
    BY <2>1, PrefixesClosed
<1>4. \A q \in prefixes : KindOf(db, q) \in {None, Dir}
  BY Zenon DEF mkdir_parents
<1>5. ASSUME NEW q \in missing
      PROVE  /\ q \in Seq(Names) /\ KindOf(db, q) = None
             /\ q # <<>> /\ ZonesOver(db, Front(q)) # {}
             /\ Front(q) \in missing \/ KindOf(db, Front(q)) = Dir
  <2>1. q \in Seq(Names) /\ KindOf(db, q) = None /\ q \in prefixes
    BY <1>3
  <2>2. KindOf(db, <<>>) = Dir /\ Dir # None
    BY <1>1, RootIsOver, EmptySeq, NoneAssumption DEF Kinds
  <2>3. q # <<>>
    BY <2>1, <2>2
  <2>4. ZonesOver(db, Front(q)) # {}
    BY <1>1, <2>1, <2>3, SplitPath, RootIsOver
  <2> QED
    BY <1>3, <1>4, <2>1, <2>3, <2>4
<1> HIDE DEF missing
<1>6. missing \in SUBSET Seq(Names)
  BY <1>5
<1>7. \A q \in missing : KindOf(db, q) = None /\ q # <<>> /\ ZonesOver(db, Front(q)) # {}
  BY <1>5
<1>8. \A q \in missing : Front(q) \in missing \/ KindOf(db, Front(q)) = Dir
  BY <1>5
<1> QED
  BY <1>2, <1>6, <1>7, <1>8, DirRowsTree


\* The row that a write leaves: of a file that was at the path, or new.
Written(d, p, body, i, c) ==
    LET z == LocateZone(d, Front(p))
        dir == RelativePath(d, Front(p))
        e == c.entries[i]
    IN /\ SamePlaces(d.zones, c.zones)
       /\ DOMAIN c.entries = DOMAIN d.entries \cup {i}
       /\ \A k \in DOMAIN d.entries \ {i} : c.entries[k] = d.entries[k]
       /\ e.zone = z /\ e.rel = Append(dir, Last(p)) /\ e.dir = dir
       /\ e.kind = File /\ e.body = body /\ e.obj = None
       /\ i \in DOMAIN d.entries => /\ d.entries[i].kind = File
                                    /\ d.entries[i].zone = z /\ d.entries[i].rel = e.rel
       /\ i \notin DOMAIN d.entries => i \in FreshNodes(d) /\ EntriesAt(d, z, e.rel) = {}

LEMMA SameRelParts ==
  ASSUME NEW d, Good(d), NEW i \in DOMAIN d.entries, NEW s \in Seq(Names), NEW e \in Names,
         d.entries[i].rel = Append(s, e)
  PROVE  d.entries[i].dir = s
<1>1. /\ d.entries[i].dir \in Seq(Names) /\ d.entries[i].name \in Names
      /\ d.entries[i].rel = Append(d.entries[i].dir, d.entries[i].name)
  BY EntryParts
<1> DEFINE t == d.entries[i].dir
           n == d.entries[i].name
<1>2. t \in Seq(Names) /\ n \in Names /\ Append(s, e) = Append(t, n)
  BY <1>1
<1> HIDE DEF t, n
<1>3. s = t
  BY <1>2, SameAppend, Zenon
<1> QED
  BY <1>3 DEF t

LEMMA WriteInlineIs ==
  ASSUME NEW d, Good(d), NEW p \in Seq(Names), ParentIsDir(d, p),
         NEW body \in Data, NEW i \in UpsertIds(d, p), NEW c, c = WriteInline(d, p, body, i)
  PROVE  Written(d, p, body, i, c)
<1> DEFINE z == LocateZone(d, Front(p))
           dir == RelativePath(d, Front(p))
           rel == Append(dir, Last(p))
           old == EntriesAt(d, z, rel)
<1>1. i \in IF old = {} THEN FreshNodes(d) ELSE {k \in old : d.entries[k].kind = File}
  <2> DEFINE row == EntryRow(d, p, Dir, None)
             ids(s) == IF s = {} THEN FreshNodes(d) ELSE {k \in s : d.entries[k].kind = File}
  <2>1. row.zone = z /\ row.rel = rel
    BY EntryRowIs
  <2>2. UpsertIds(d, p) = ids(EntriesAt(d, row.zone, row.rel))
    BY Zenon DEF UpsertIds
  <2> HIDE DEF row, z, rel
  <2> QED
    BY <2>1, <2>2
<1>2. p # <<>> /\ ZonesOver(d, Front(p)) # {}
  BY ParentParts
<1>3. dir \in Seq(Names) /\ Last(p) \in Names
  BY <1>2, NewPlace
<1>4. CASE i \in DOMAIN d.entries
  <2> DEFINE e == d.entries[i]
             r == [e EXCEPT !.body = body, !.obj = None, !.size = Size[body],
                            !.gen = Bump(e.gen)]
             one == OneRow(i, r)
  <2>1. c = UpdateEntries(d, one)
    BY <1>4, Zenon DEF WriteInline
  <2>2. i \in old /\ e.kind = File
    BY <1>1, <1>4 DEF FreshNodes
  <2>3. e.zone = z /\ e.rel = rel /\ e \in EntryRows
    BY <1>4, <2>2 DEF EntriesAt, Good, GoodEntries, GoodRow
  <2>4. e.dir = dir
    BY <1>3, <1>4, <2>3, SameRelParts
  <2>5. DOMAIN one = {i} /\ one[i] = r
    BY OneRowParts
  <2>6. /\ r.zone = z /\ r.rel = rel /\ r.dir = dir /\ r.kind = File
        /\ r.body = body /\ r.obj = None
    BY <2>2, <2>3, <2>4 DEF EntryRows
  <2> HIDE DEF e, r, one, z, rel, dir
  <2>7. c.entries = Store(one, d.entries) /\ SamePlaces(d.zones, c.zones)
    BY <2>1, UpdateLeaves
  <2>8. /\ DOMAIN c.entries = DOMAIN d.entries \cup {i} /\ c.entries[i] = r
        /\ \A k \in DOMAIN d.entries \ {i} : c.entries[k] = d.entries[k]
    BY <2>5, <2>7 DEF Store
  <2> QED
    BY <1>4, <2>2, <2>3, <2>6, <2>7, <2>8 DEF Written, e, z, rel, dir
<1>5. CASE i \notin DOMAIN d.entries
  <2> DEFINE r == EntryRow(d, p, File, body)
             one == OneRow(i, r)
  <2>1. c = InsertEntries(d, one)
    BY <1>5, Zenon DEF WriteInline
  <2>2. i \in FreshNodes(d) /\ old = {}
    BY <1>1, <1>5 DEF EntriesAt
  <2>3. DOMAIN one = {i} /\ one[i] = r
    BY OneRowParts
  <2>4. /\ r.zone = z /\ r.rel = rel /\ r.dir = dir /\ r.kind = File
        /\ r.body = body /\ r.obj = None
    BY EntryRowIs
  <2> HIDE DEF r, one, old, z, rel, dir
  <2>5. c.entries = Store(one, d.entries) /\ SamePlaces(d.zones, c.zones)
    BY <2>1, InsertLeaves
  <2>6. /\ DOMAIN c.entries = DOMAIN d.entries \cup {i} /\ c.entries[i] = r
        /\ \A k \in DOMAIN d.entries \ {i} : c.entries[k] = d.entries[k]
    BY <2>3, <2>5 DEF Store
  <2> QED
    BY <1>5, <2>2, <2>4, <2>5, <2>6 DEF Written, old, z, rel, dir
<1> QED
  BY <1>4, <1>5

\* Writing to what is no directory keeps the tree.
LEMMA WrittenTree ==
  ASSUME NEW d, Good(d), IsTreeOf(d), NEW p \in Seq(Names), ParentIsDir(d, p), KindOf(d, p) # Dir,
         NEW body, NEW i, NEW c, Written(d, p, body, i, c), Distinct(c)
  PROVE  IsTreeOf(c)
<1> DEFINE z == LocateZone(d, Front(p))
           dir == RelativePath(d, Front(p))
           rel == Append(dir, Last(p))
<1>0. p # <<>> /\ ZonesOver(d, Front(p)) # {}
  BY ParentParts
<1>1. CASE i \in DOMAIN d.entries
  <2>1. d.entries[i].dir = dir
    <3>1. dir \in Seq(Names) /\ Last(p) \in Names
      BY <1>0, NewPlace
    <3>2. d.entries[i].rel = Append(dir, Last(p))
      BY <1>1 DEF Written
    <3> QED
      BY <1>1, <3>1, <3>2, SameRelParts
  <2>2. SameRows(d.entries, c.entries)
    BY <1>1, <2>1 DEF Written, SameRows
  <2> QED
    BY <2>2, SameTree DEF Written
<1>2. CASE i \notin DOMAIN d.entries
  <2>1. EntriesAt(d, z, rel) = {} /\ i \in FreshNodes(d)
    BY <1>2 DEF Written
  <2>2. ~IsZonePath(d, p)
    <3>1. ASSUME IsZonePath(d, p) PROVE KindOf(d, p) = Dir
      <4>1. PICK y \in DOMAIN d.zones : d.zones[y].path = p
        BY <3>1 DEF IsZonePath
      <4>2. y \in ZonesOver(d, p)
        BY <4>1, PrefixSelf DEF ZonesOver
      <4> QED
        BY <3>1, <4>2 DEF KindOf
    <3> QED
      BY <3>1
  <2>3. LocateZone(d, p) = z /\ RelativePath(d, p) = rel /\ ZonesOver(d, p) # {}
    BY <1>0, <2>2, LookupAbove
  <2>4. KindOf(d, p) = None
    <3>1. EntriesFor(d, p) = EntriesAt(d, z, rel)
      BY <2>3 DEF EntriesFor, RelativePath
    <3> QED
      BY <2>1, <2>2, <2>3, <3>1 DEF KindOf
  <2> DEFINE rows == OneRow(i, c.entries[i])
  <2>5. DOMAIN rows = {i} /\ rows[i] = c.entries[i]
    BY OneRowParts
  <2> HIDE DEF rows
  <2>6. Holds(c.entries, rows, d.entries)
    BY <2>5 DEF Written, Holds
  <2>7. DOMAIN rows \cap DOMAIN d.entries = {}
    BY <1>2, <2>5
  <2>8. DirAt(c, z, dir)
    <3>1. DirAt(d, z, dir)
      BY ParentPlace
    <3> QED
      BY <2>6, <2>7, <3>1, GrownDirs
  <2>9. Placed(d, c, c.entries[i])
    <3> DEFINE r == EntryRow(d, p, File, body)
    <3>1. r.zone = z /\ r.rel = rel /\ r.dir = dir
      BY EntryRowIs
    <3>2. Placed(d, c, r)
      BY <1>0, <2>4, <2>8, EntryRowPlaced
    <3> HIDE DEF r, z, dir, rel
    <3> QED
      BY <3>1, <3>2 DEF Written, Placed, z, dir, rel
  <2> QED
    BY <2>5, <2>6, <2>7, <2>9, InsertTree DEF Written
<1> QED
  BY <1>1, <1>2


\* The same tree, in two states.
Same(d, c) == SamePlaces(d.zones, c.zones) /\ SameRows(d.entries, c.entries)

LEMMA SameThen ==
  ASSUME NEW a, NEW b, NEW c, Same(a, b), Same(b, c)
  PROVE  Same(a, c)
BY DEF Same, SamePlaces, SameRows

LEMMA SameDistinct ==
  ASSUME NEW d, NEW c, Same(d, c), Distinct(c)
  PROVE  Distinct(d)
BY DEF Same, SamePlaces, SameRows, Distinct

LEMMA EqualsSame ==
  ASSUME NEW d, NEW c, d.zones = c.zones, d.entries = c.entries
  PROVE  Same(d, c)
BY DEF Same, SamePlaces, SameRows

LEMMA BlockizedSame ==
  ASSUME NEW d, Good(d), NEW z, NEW f, NEW c, Blockized(d, z, f, c)
  PROVE  Same(d, c)
<1>1. ASSUME NEW i \in DOMAIN d.entries
      PROVE  /\ c.entries[i].zone = d.entries[i].zone /\ c.entries[i].rel = d.entries[i].rel
             /\ c.entries[i].dir = d.entries[i].dir /\ c.entries[i].kind = d.entries[i].kind
  <2>1. CASE i \in Unblocked(d, z)
    <3>1. c.entries[i] = [d.entries[i] EXCEPT !.obj = f[i], !.body = EmptyText]
      BY <2>1 DEF Blockized
    <3>2. d.entries[i] \in EntryRows
      BY DEF Good, GoodEntries, GoodRow
    <3> QED
      BY <3>1, <3>2 DEF EntryRows
  <2>2. CASE i \notin Unblocked(d, z)
    BY <2>2 DEF Blockized
  <2> QED
    BY <2>1, <2>2
<1> QED
  BY <1>1 DEF Same, SameRows, Blockized

LEMMA SameStep ==
  ASSUME NEW d, Good(d), IsTreeOf(d), NEW c, Same(d, c), Commit(c)
  PROVE  TreeNext
<1> DEFINE e == db'
<1>1. e.zones = c.zones /\ e.entries = c.entries
  BY DEF Commit, db
<1> HIDE DEF e
<1>2. SamePlaces(d.zones, e.zones) /\ SameRows(d.entries, e.entries)
  BY <1>1 DEF Same
<1>3. IsTreeOf(e)
  BY <1>2, SameTree
<1>4. TreeNext <=> IsTreeOf(e)
  BY DEF e, TreeNext
<1> QED
  BY <1>3, <1>4

LEMMA write_fileTree ==
  ASSUME Good(db), IsTreeOf(db), NEW p \in Paths, NEW body \in Data, KindOf(db, p) # Dir,
         write_file(p, body)
  PROVE  TreeNext
<1>1. PICK i \in UpsertIds(db, p) :
        LET written == WriteInline(db, p, body, i)
            z == LocateZone(written, p)
        IN \E f \in Mappings(written, z) : Commit(Reclaim(Blockize(written, z, f, None)))
  BY Zenon DEF write_file
<1> DEFINE written == WriteInline(db, p, body, i)
           z == LocateZone(written, p)
<1>2. PICK f \in Mappings(written, z) : Commit(Reclaim(Blockize(written, z, f, None)))
  BY <1>1, Zenon
<1> DEFINE stored == Blockize(written, z, f, None)
           c == Reclaim(stored)
<1>3. p \in Seq(Names) /\ ParentIsDir(db, p)
  BY PathParts DEF write_file
<1>4. Good(written)
  BY <1>3, WriteInlineGood
<1>5. Written(db, p, body, i, written)
  BY <1>3, WriteInlineIs
<1> HIDE DEF written, z
<1>6. Good(stored)
  BY <1>4, BlockizeGood
<1>7. Same(written, stored)
  <2>1. None \in written.segments \cup {None}
    OBVIOUS
  <2>2. Blockized(written, z, f, stored)
    BY <1>4, <2>1, BlockizeLeaves
  <2> HIDE DEF stored
  <2> QED
    BY <1>4, <2>2, BlockizedSame
<1>8. Commit(c)
  BY <1>2
<1> HIDE DEF stored
<1>9. Good(c) /\ Same(stored, c)
  BY <1>6, ReclaimGood, ReclaimLeaves, EqualsSame
<1> HIDE DEF c
<1>10. Same(written, c)
  BY <1>7, <1>9, SameThen
<1>11. Distinct(written)
  BY <1>8, <1>10, CommitDistinct, SameDistinct
<1>12. IsTreeOf(written)
  BY <1>3, <1>5, <1>11, WrittenTree
<1> QED
  BY <1>4, <1>8, <1>9, <1>10, <1>12, SameStep

LEMMA import_textTree ==
  ASSUME Good(db), IsTreeOf(db), NEW p \in Paths, NEW body \in Text, KindOf(db, p) # Dir,
         import_text(p, body)
  PROVE  TreeNext
<1>1. PICK s \in FreshSegments(db), o \in FreshObjects(db), i \in UpsertIds(db, p) :
        LET stored == [db EXCEPT !.segments = segments \cup {s},
                                 !.objects = Store(OneRow(o, [data |-> body, segment |-> s]), objects)]
            written == WriteInline(stored, p, EmptyText, i)
        IN Commit(UpdateEntries(written, OneRow(i, [written.entries[i] EXCEPT
                                                 !.obj = o, !.size = Size[body]])))
  BY Zenon DEF import_text
<1> DEFINE b == [db EXCEPT !.segments = db.segments \cup {s}]
           x == [data |-> body, segment |-> s]
           made == OneRow(o, x)
           stored == [b EXCEPT !.objects = Store(made, b.objects)]
           written == WriteInline(stored, p, EmptyText, i)
           e == written.entries[i]
           r == [e EXCEPT !.obj = o, !.size = Size[body]]
           one == OneRow(i, r)
           c == UpdateEntries(written, one)
<1>2. s \in SegmentId /\ o \in ObjectId /\ o \notin DOMAIN db.objects
  BY DEF FreshSegments, FreshObjects
<1>3. Good(b) /\ b.segments = db.segments \cup {s} /\ b.objects = db.objects
      /\ b.entries = db.entries /\ b.zones = db.zones
  BY <1>2, SegmentsGood, WithSegments DEF Good
<1>4. Commit(c)
  BY <1>1, <1>3, Zenon DEF db
<1>5. /\ DOMAIN made = {o} /\ made[o] = x
      /\ x \in ObjectRows /\ x.segment \in b.segments
  BY <1>2, <1>3, OneRowParts DEF ObjectRows
<1> HIDE DEF x, made
<1>6. Good(stored)
  <2>1. DOMAIN made \subseteq FreshObjects(b)
    BY <1>2, <1>3, <1>5 DEF FreshObjects
  <2> HIDE DEF b
  <2> QED
    BY <1>3, <1>5, <2>1, MadeGood
<1> HIDE DEF b
<1>7. stored.zones = db.zones /\ stored.entries = db.entries
  BY <1>3, WithObjects DEF Good
<1> HIDE DEF stored
<1>8. Same(db, stored) /\ IsTreeOf(stored)
  BY <1>7, EqualsSame, SameTree DEF Same
<1>9. ParentIsDir(stored, p) /\ i \in UpsertIds(stored, p) /\ KindOf(stored, p) # Dir
  BY <1>7, SameLookups DEF import_text
<1>10. EmptyText \in Data /\ p \in Seq(Names)
  BY ContentAssumption, PathParts DEF Data
<1>11. /\ Good(written) /\ i \in DOMAIN written.entries
       /\ Written(stored, p, EmptyText, i, written)
  BY <1>6, <1>9, <1>10, WriteInlineGood, WriteInlineIs
<1> HIDE DEF written
<1>13. r.zone = e.zone /\ r.rel = e.rel /\ r.dir = e.dir /\ r.kind = e.kind
  <2>1. e \in EntryRows
    BY <1>11 DEF Good, GoodEntries, GoodRow
  <2> HIDE DEF e
  <2> QED
    BY <2>1 DEF EntryRows
<1>14. DOMAIN one = {i} /\ one[i] = r
  BY OneRowParts
<1> HIDE DEF r, one
<1>15. c.entries = Store(one, written.entries) /\ SamePlaces(written.zones, c.zones)
  BY <1>11, UpdateLeaves
<1> HIDE DEF c
<1>16. SameRows(written.entries, c.entries)
  BY <1>11, <1>13, <1>14, <1>15 DEF Store, SameRows
<1>17. Same(written, c) /\ Distinct(written)
  BY <1>4, <1>15, <1>16, CommitDistinct, SameDistinct DEF Same
<1>18. IsTreeOf(written)
  BY <1>6, <1>8, <1>9, <1>10, <1>11, <1>17, WrittenTree
<1> QED
  BY <1>4, <1>11, <1>17, <1>18, SameStep


\* A zone for p with id n, besides the zones there were.
Attaches(d, p, n, c) ==
    LET r == c.zones[n] IN
    /\ DOMAIN c.zones = DOMAIN d.zones \cup {n}
    /\ \A y \in DOMAIN d.zones :
         /\ c.zones[y].path = d.zones[y].path /\ c.zones[y].parent = d.zones[y].parent
         /\ c.zones[y].dir = d.zones[y].dir /\ c.zones[y].name = d.zones[y].name
    /\ r.path = p /\ r.parent = LocateZone(d, Front(p))
    /\ r.dir = RelativePath(d, Front(p)) /\ r.name = Last(p)

\* A new zone at a free place, filled with rows that have their directories.
LEMMA AttachTree ==
  ASSUME NEW d, Good(d), IsTreeOf(d), NEW p \in Seq(Names), ParentIsDir(d, p), KindOf(d, p) = None,
         NEW n \in FreshNodes(d), NEW rows, NEW c, Distinct(c), Attaches(d, p, n, c),
         Holds(c.entries, rows, d.entries), DOMAIN rows \cap DOMAIN d.entries = {},
         \A i \in DOMAIN rows : /\ rows[i].zone = n /\ rows[i].rel \in Seq(Names)
                                /\ DirAt(c, n, rows[i].dir)
  PROVE  IsTreeOf(c)
<1>1. /\ DOMAIN c.entries = DOMAIN rows \cup DOMAIN d.entries
      /\ \A i \in DOMAIN rows : c.entries[i] = rows[i]
      /\ \A i \in DOMAIN d.entries : c.entries[i] = d.entries[i]
  BY DEF Holds
<1>2. n \notin DOMAIN d.zones /\ n \in DOMAIN c.zones
  BY DEF FreshNodes, Attaches
<1>3. \A i \in DOMAIN d.entries : d.entries[i].zone \in DOMAIN d.zones
  BY EntryParts
<1>4. \A z, r : DirAt(d, z, r) => DirAt(c, z, r)
  BY GrownDirs
<1>5. Rooted(c)
  BY <1>1, <1>4 DEF Rooted, IsTreeOf
<1>6. AllAttached(c)
  <2>1. ASSUME NEW y \in DOMAIN d.zones, d.zones[y].path # <<>>
        PROVE  Attached(c, y)
    <3>1. Attached(d, y)
      BY <2>1 DEF IsTreeOf, AllAttached
    <3> QED
      BY <1>4, <2>1, <3>1 DEF Attached, Attaches
  <2>2. Attached(c, n)
    <3>1. p # <<>> /\ ZonesOver(d, Front(p)) # {}
      BY ParentParts
    <3> DEFINE z == LocateZone(d, Front(p))
               r == RelativePath(d, Front(p))
    <3>2. /\ z \in DOMAIN d.zones /\ r \in Seq(Names) /\ Last(p) \in Names
          /\ p = d.zones[z].path \o Append(r, Last(p))
      BY <3>1, NewPlace, ZenonT(30)
    <3>3. DirAt(c, z, r)
      BY <1>4, ParentPlace
    <3>4. c.zones[n].path = p /\ c.zones[n].parent = z /\ c.zones[n].dir = r /\ c.zones[n].name = Last(p)
          /\ z \in DOMAIN c.zones /\ c.zones[z].path = d.zones[z].path
      BY <3>2 DEF Attaches
    <3> HIDE DEF z, r
    <3> QED
      BY <3>2, <3>3, <3>4 DEF Attached
  <2> QED
    BY <2>1, <2>2 DEF AllAttached, Attaches
<1>7. Unshadowed(c)
  <2>1. ASSUME NEW i \in DOMAIN d.entries
        PROVE  ClearOf(c, AbsolutePath(c, i), c.zones[c.entries[i].zone].path)
    <3>1. c.entries[i] = d.entries[i] /\ d.entries[i].zone \in DOMAIN d.zones
      BY <1>1, <1>3
    <3>2. c.zones[d.entries[i].zone].path = d.zones[d.entries[i].zone].path
      BY <3>1 DEF Attaches
    <3>3. AbsolutePath(c, i) = AbsolutePath(d, i)
      BY <3>1, <3>2 DEF AbsolutePath
    <3>4. ClearOf(d, AbsolutePath(d, i), d.zones[d.entries[i].zone].path)
      BY DEF IsTreeOf, Unshadowed
    <3>5. ~IsPrefix(p, AbsolutePath(d, i))
      BY NothingBelow
    <3> QED
      BY <3>1, <3>2, <3>3, <3>4, <3>5 DEF ClearOf, Attaches
  <2>2. ASSUME NEW i \in DOMAIN rows
        PROVE  ClearOf(c, AbsolutePath(c, i), c.zones[c.entries[i].zone].path)
    <3> DEFINE t == rows[i].rel
               w == p \o t
    <3>1. AbsolutePath(c, i) = w /\ c.zones[c.entries[i].zone].path = p /\ t \in Seq(Names)
      BY <1>1 DEF AbsolutePath, Attaches
    <3>2. w \in Seq(Names) /\ IsPrefix(p, w) /\ Len(p) \in Nat
      BY <3>1, PrefixConcat
    <3> HIDE DEF w, t
    <3>3. ASSUME NEW y \in DOMAIN d.zones, IsPrefix(d.zones[y].path, w)
          PROVE  Len(d.zones[y].path) =< Len(p)
      <4>1. d.zones[y].path \in Seq(Names) /\ Len(d.zones[y].path) \in Nat
        BY ZoneParts, LenProperties
      <4>2. ~IsPrefix(p, d.zones[y].path)
        BY NothingBelow
      <4> QED
        BY <3>2, <3>3, <4>1, <4>2, PrefixOfPrefix
    <3> QED
      BY <3>1, <3>2, <3>3 DEF ClearOf, Attaches
  <2> QED
    BY <1>1, <2>1, <2>2 DEF Unshadowed
<1>20. RootAlone(c)
  BY DEF IsTreeOf, RootAlone, Attaches, ParentIsDir
<1> QED
  BY <1>5, <1>6, <1>7, <1>20 DEF IsTreeOf

WithZone(d, p, n) == [d EXCEPT !.zones = Store(OneRow(n, ZoneRow(d, p)), d.zones)]

LEMMA AttachIs ==
  ASSUME NEW d, Good(d), NEW p \in Seq(Names), ParentIsDir(d, p), NEW n \in FreshNodes(d),
         NEW made, made = WithZone(d, p, n),
         NEW rows, NEW c, c = InsertEntries(made, rows)
  PROVE  /\ Good(made) /\ Attaches(d, p, n, c) /\ Holds(c.entries, rows, d.entries)
         /\ made.entries = d.entries /\ DOMAIN made.zones = DOMAIN d.zones \cup {n}
<1> DEFINE r == ZoneRow(d, p)
           one == OneRow(n, r)
<1>1. p # <<>> /\ ZonesOver(d, Front(p)) # {}
  BY ParentParts
<1>2. DOMAIN d.zones # {} /\ IsNewZone(r)
  BY <1>1, ZoneRowGood DEF ZonesOver, IsNewZone
<1>3. /\ r.path = p /\ r.parent = LocateZone(d, Front(p))
      /\ r.dir = RelativePath(d, Front(p)) /\ r.name = Last(p)
  BY DEF ZoneRow
<1>4. DOMAIN one = {n} /\ one[n] = r
  BY OneRowParts
<1> HIDE DEF r
<1>5. Good(made) /\ made.entries = d.entries /\ DOMAIN made.zones = DOMAIN d.zones \cup {n}
  <2> DEFINE m == [d EXCEPT !.zones = Store(OneRow(n, ZoneRow(d, p)), d.zones)]
  <2>1. IsNewZone(ZoneRow(d, p))
    BY <1>2 DEF r
  <2>4. DOMAIN d.zones # {}
    BY <1>2
  <2>2. /\ Good(m) /\ DOMAIN m.zones = DOMAIN d.zones \cup {n}
        /\ m.entries = d.entries /\ m.objects = d.objects
    BY <2>1, <2>4, AttachGood, ZenonT(60)
  <2>3. made = m
    BY DEF WithZone
  <2> HIDE DEF m
  <2> QED
    BY <2>2, <2>3
<1> HIDE DEF one
<1>6. made.zones = Store(one, d.zones)
  BY WithZones DEF Good, one, r, WithZone
<1>7. n \notin DOMAIN d.zones
  BY DEF FreshNodes
<1>8. made.zones[n] = r /\ \A y \in DOMAIN d.zones : made.zones[y] = d.zones[y]
  BY <1>4, <1>6, <1>7 DEF Store
<1>9. SamePlaces(made.zones, c.zones) /\ c.entries = Store(rows, made.entries)
  BY <1>5, InsertLeaves
<1>10. Attaches(d, p, n, c)
  BY <1>3, <1>5, <1>8, <1>9 DEF Attaches, SamePlaces
<1> QED
  BY <1>5, <1>9, <1>10, StoreHolds

\* A staged tree is complete: every node but the root has its directory.
LEMMA ImportZoneTree ==
  ASSUME NEW d, Good(d), IsTreeOf(d), NEW p \in Seq(Names), ParentIsDir(d, p), KindOf(d, p) = None,
         NEW staged \in Trees, StagedWell(staged), NEW z \in FreshNodes(d),
         NEW f \in Injection(DOMAIN staged \ {<<>>}, FreshNodes(d) \ {z}),
         NEW c, c = ImportZone(d, p, staged, z, f), Distinct(c)
  PROVE  IsTreeOf(c)
<1> DEFINE made == [d EXCEPT !.zones = Store(OneRow(z, ZoneRow(d, p)), d.zones)]
           below == DOMAIN staged \ {<<>>}
           row(r) == [zone |-> z, rel |-> r, dir |-> Front(r), name |-> Last(r),
                      kind |-> staged[r].kind, body |-> staged[r].body, obj |-> None,
                      size |-> IF staged[r].kind = File THEN Size[staged[r].body] ELSE 0,
                      gen |-> 1]
           rows == [i \in {f[r] : r \in below} |-> row(CHOOSE r \in below : f[r] = i)]
<1>1. c = InsertEntries(made, rows)
  BY Zenon DEF ImportZone
<1>2. \A r : row(r).zone = z /\ row(r).rel = r /\ row(r).dir = Front(r) /\ row(r).kind = staged[r].kind
  OBVIOUS
<1> HIDE DEF row
<1>3. /\ \A r \in below : f[r] \in FreshNodes(d) \ {z}
      /\ \A r, q \in below : f[r] = f[q] => r = q
  BY DEF Injection, IsInjective
<1>4. \A r \in below : f[r] \in DOMAIN rows /\ rows[f[r]] = row(r)
  <2>1. \A r \in below : (CHOOSE q \in below : f[q] = f[r]) = r
    BY <1>3
  <2> HIDE DEF below
  <2> QED
    BY <2>1
<1>5. DOMAIN rows = {f[r] : r \in below}
  OBVIOUS
<1> HIDE DEF rows
<1>6. Attaches(d, p, z, c) /\ Holds(c.entries, rows, d.entries)
  <2>1. made = WithZone(d, p, z)
    BY DEF WithZone
  <2> HIDE DEF made
  <2> QED
    BY <1>1, <2>1, AttachIs
<1>7. DOMAIN rows \cap DOMAIN d.entries = {}
  BY <1>3, <1>5 DEF FreshNodes
<1>8. \A r \in below : r \in Seq(Names) /\ (Front(r) # <<>> => Front(r) \in below /\ staged[Front(r)].kind = Dir)
  BY TreesAssumption DEF StagedWell
<1>9. \A r \in below : f[r] \in DOMAIN c.entries /\ c.entries[f[r]] = row(r)
  BY <1>4, <1>6 DEF Holds
<1>10. ASSUME NEW r \in below PROVE DirAt(c, z, Front(r))
  <2>1. CASE Front(r) = <<>>
    BY <2>1 DEF DirAt
  <2>2. CASE Front(r) # <<>>
    <3> DEFINE q == Front(r)
    <3>1. q \in below /\ staged[q].kind = Dir
      BY <1>8, <2>2
    <3> HIDE DEF q
    <3>2. f[q] \in EntriesAt(c, z, q) /\ c.entries[f[q]].kind = Dir
      BY <1>2, <1>9, <3>1 DEF EntriesAt
    <3>3. DirAt(c, z, q)
      BY <3>2 DEF DirAt
    <3> QED
      BY <3>3 DEF q
  <2> QED
    BY <2>1, <2>2
<1>11. \A i \in DOMAIN rows : /\ rows[i].zone = z /\ rows[i].rel \in Seq(Names)
                               /\ DirAt(c, z, rows[i].dir)
  BY <1>2, <1>4, <1>5, <1>8, <1>10
<1> QED
  BY <1>6, <1>7, <1>11, AttachTree


LEMMA BlockizeSegmentSame ==
  ASSUME NEW d, Good(d), NEW z, NEW f \in Mappings(d, z), NEW s \in SegmentId,
         NEW c, c = BlockizeSegment(d, z, f, s)
  PROVE  Same(d, c)
<1> DEFINE b == [d EXCEPT !.segments = d.segments \cup {s}]
           a == [d EXCEPT !.staging = d.staging \cup {s}]
<1>1. IsDb(d)
  BY DEF Good
<1>2. CASE Unblocked(d, z) = {}
  <2>1. c = a
    BY <1>2, Zenon DEF BlockizeSegment
  <2>2. a.entries = d.entries /\ a.zones = d.zones
    BY <1>1, WithStaging
  <2> HIDE DEF a
  <2> QED
    BY <2>1, <2>2, EqualsSame
<1>3. CASE Unblocked(d, z) # {}
  <2>1. c = Blockize(b, z, f, s)
    BY <1>3, Zenon DEF BlockizeSegment
  <2>2. Good(b)
    BY SegmentsGood
  <2>3. /\ b.entries = d.entries /\ b.zones = d.zones /\ b.objects = d.objects
        /\ b.segments = d.segments \cup {s}
    BY <1>1, WithSegments
  <2> HIDE DEF b
  <2>4. f \in Mappings(b, z)
    <3>1. Unblocked(b, z) = Unblocked(d, z)
      BY <2>3, Zenon DEF Unblocked
    <3>2. FreshObjects(b) = FreshObjects(d)
      BY <2>3, Zenon DEF FreshObjects
    <3> QED
      BY <3>1, <3>2 DEF Mappings
  <2>5. Blockized(b, z, f, c)
    BY <2>1, <2>2, <2>3, <2>4, BlockizeLeaves
  <2>6. Same(b, c) /\ Same(d, b)
    BY <2>2, <2>3, <2>5, BlockizedSame, EqualsSame
  <2> QED
    BY <2>6, SameThen
<1> QED
  BY <1>2, <1>3

LEMMA importTree ==
  ASSUME Good(db), IsTreeOf(db), NEW p \in Paths, NEW staged \in Trees, import(p, staged)
  PROVE  TreeNext
<1>1. PICK s \in FreshSegments(db), n \in FreshNodes(db) :
        \E f \in Injection(DOMAIN staged \ {<<>>}, FreshNodes(db) \ {n}) :
            LET root == staged[<<>>]
                inserted ==
                  IF root.kind = Dir THEN ImportZone(db, p, staged, n, f)
                  ELSE InsertEntries(db, OneRow(n, EntryRow(db, p, root.kind, root.body)))
                z == LocateZone(inserted, p)
            IN \E g \in Mappings(inserted, z) : Commit(BlockizeSegment(inserted, z, g, s))
  BY Zenon DEF import
<1>2. PICK f \in Injection(DOMAIN staged \ {<<>>}, FreshNodes(db) \ {n}) :
            LET root == staged[<<>>]
                inserted ==
                  IF root.kind = Dir THEN ImportZone(db, p, staged, n, f)
                  ELSE InsertEntries(db, OneRow(n, EntryRow(db, p, root.kind, root.body)))
                z == LocateZone(inserted, p)
            IN \E g \in Mappings(inserted, z) : Commit(BlockizeSegment(inserted, z, g, s))
  BY <1>1, Zenon
<1> DEFINE k == staged[<<>>].kind
           b == staged[<<>>].body
           inserted == IF k = Dir THEN ImportZone(db, p, staged, n, f)
                       ELSE InsertEntries(db, OneRow(n, EntryRow(db, p, k, b)))
           z == LocateZone(inserted, p)
<1>3. PICK g \in Mappings(inserted, z) : Commit(BlockizeSegment(inserted, z, g, s))
  BY <1>2, Zenon
<1>4. /\ p \in Seq(Names) /\ ParentIsDir(db, p) /\ KindOf(db, p) = None /\ StagedWell(staged)
      /\ p # <<>> /\ ZonesOver(db, Front(p)) # {}
  BY PathParts, ParentParts DEF import
<1>5. k \in Kinds /\ b \in Data \cup {None} /\ (k = File => b \in Data)
  BY <1>4, TreesAssumption DEF StagedWell
<1>6. DOMAIN db.zones # {}
  BY <1>4 DEF ZonesOver
<1> HIDE DEF k, b
<1>7. Good(inserted)
  <2>1. CASE k = Dir
    BY <1>4, <1>6, <2>1, ImportZoneGood
  <2>2. CASE k # Dir
    <3>1. GoodRow(DOMAIN db.zones, db.objects, EntryRow(db, p, k, b))
      BY <1>4, <1>5, EntryRowGood
    <3> QED
      BY <2>2, <3>1, OneRowGood
  <2> QED
    BY <2>1, <2>2
<1> DEFINE c == BlockizeSegment(inserted, z, g, s)
<1>8. Commit(c)
  BY <1>3
<1> HIDE DEF inserted, z
<1>9. s \in SegmentId
  BY DEF FreshSegments
<1>10. Same(inserted, c)
  BY <1>7, <1>9, BlockizeSegmentSame
<1> HIDE DEF c
<1>11. Distinct(inserted)
  BY <1>8, <1>10, CommitDistinct, SameDistinct
<1>12. IsTreeOf(inserted)
  <2>1. CASE k = Dir
    <3>1. inserted = ImportZone(db, p, staged, n, f)
      BY <2>1 DEF inserted
    <3> QED
      BY <1>4, <1>11, <3>1, ImportZoneTree
  <2>2. CASE k # Dir
    <3>1. inserted = InsertEntries(db, OneRow(n, EntryRow(db, p, k, b)))
      BY <2>2 DEF inserted
    <3> QED
      BY <1>4, <1>11, <3>1, OneInserted
  <2> QED
    BY <2>1, <2>2
<1> QED
  BY <1>7, <1>8, <1>10, <1>12, SameStep

\* A volume with nothing but its root, or with nothing.
LEMMA EmptyTree ==
  ASSUME NEW c, Commit(c), DOMAIN c.entries = {},
         \A z \in DOMAIN c.zones : c.zones[z].path = <<>> /\ c.zones[z].parent = None
  PROVE  TreeNext
<1> DEFINE e == db'
<1>1. e.zones = c.zones /\ e.entries = c.entries
  BY DEF Commit, db
<1> HIDE DEF e
<1>2. Distinct(c)
  BY CommitDistinct
<1>3. IsTreeOf(e)
  BY <1>1, <1>2 DEF IsTreeOf, Distinct, Rooted, AllAttached, Unshadowed, RootAlone
<1>4. TreeNext <=> IsTreeOf(e)
  BY DEF e, TreeNext
<1> QED
  BY <1>3, <1>4

LEMMA create_volumeTree ==
  ASSUME Good(db), IsTreeOf(db), create_volume
  PROVE  TreeNext
<1>1. PICK z \in FreshNodes(db) : Commit([db EXCEPT !.zones = OneRow(z, RootRow)])
  BY DEF create_volume
<1> DEFINE zs == OneRow(z, RootRow)
           c == [db EXCEPT !.zones = zs]
<1>2. DOMAIN zs = {z} /\ zs[z].path = <<>> /\ zs[z].parent = None
  <2>1. RootRow.path = <<>> /\ RootRow.parent = None
    BY DEF RootRow
  <2> HIDE DEF zs
  <2>2. DOMAIN zs = {z} /\ zs[z] = RootRow
    BY OneRowParts DEF zs
  <2> QED
    BY <2>1, <2>2
<1>3. DOMAIN db.entries = {}
  <2>1. DOMAIN NoRows = {} /\ db.zones = NoRows
    BY DEF create_volume, NoRows, db
  <2> QED
    BY <2>1, EntryParts
<1>4. Commit(c)
  BY <1>1
<1> HIDE DEF zs
<1>5. c.entries = db.entries /\ c.zones = zs
  BY WithZones DEF Good
<1> HIDE DEF c
<1> QED
  BY <1>2, <1>3, <1>4, <1>5, EmptyTree

LEMMA remove_volumeTree ==
  ASSUME Good(db), IsTreeOf(db), remove_volume
  PROVE  TreeNext
<1> DEFINE cut == DeleteEntries(db, DOMAIN db.entries)
           emptied == Reclaim(cut)
           c == [emptied EXCEPT !.zones = NoRows, !.objects = NoRows, !.segments = {}]
<1>1. Commit(c)
  BY Zenon DEF remove_volume, db
<1>2. Good(cut) /\ cut.entries = [i \in DOMAIN db.entries \ DOMAIN db.entries |-> db.entries[i]]
  BY DeleteGood
<1> HIDE DEF cut
<1>3. Good(emptied) /\ emptied.entries = cut.entries
  BY <1>2, ReclaimGood
<1> HIDE DEF emptied
<1>4. c.entries = emptied.entries /\ c.zones = NoRows
  BY <1>3 DEF Good, IsDb
<1> HIDE DEF c
<1>5. DOMAIN c.entries = {} /\ DOMAIN c.zones = {}
  BY <1>2, <1>3, <1>4 DEF NoRows
<1> QED
  BY <1>1, <1>5, EmptyTree

LEMMA set_timesTree ==
  ASSUME Good(db), IsTreeOf(db), NEW p \in Paths, set_times(p)
  PROVE  TreeNext
<1>1. CASE RelativePath(db, p) = <<>>
  <2> DEFINE z == LocateZone(db, p)
             g == Bump(db.zones[z].gen)
             r == [db.zones[z] EXCEPT !.gen = g]
             zs == [db.zones EXCEPT ![z] = r]
             c == [db EXCEPT !.zones = zs]
  <2>1. Commit(c)
    BY <1>1, Zenon DEF set_times, db
  <2>2. SamePlaces(db.zones, zs)
    <3> HIDE DEF z, g
    <3>1. z \in DOMAIN db.zones => IsZoneRow(db.zones[z])
      BY DEF Good, GoodZones
    <3>2. z \in DOMAIN db.zones =>
            /\ r.path = db.zones[z].path /\ r.parent = db.zones[z].parent
            /\ r.dir = db.zones[z].dir /\ r.name = db.zones[z].name
      BY <3>1 DEF IsZoneRow, ZoneColumns
    <3> HIDE DEF r
    <3>3. DOMAIN zs = DOMAIN db.zones
          /\ \A y \in DOMAIN db.zones : zs[y] = IF y = z THEN r ELSE db.zones[y]
      OBVIOUS
    <3> HIDE DEF zs
    <3> QED
      BY <3>2, <3>3 DEF SamePlaces
  <2> HIDE DEF zs
  <2>3. c.entries = db.entries /\ c.zones = zs
    BY WithZones DEF Good
  <2> HIDE DEF c
  <2> QED
    BY <2>1, <2>2, <2>3, SameStep DEF Same, SameRows
<1>2. CASE RelativePath(db, p) # <<>>
  <2> DEFINE S == EntriesFor(db, p)
             row(i) == [db.entries[i] EXCEPT !.gen = Bump(db.entries[i].gen)]
             rows == [i \in S |-> row(i)]
             c == UpdateEntries(db, rows)
  <2>1. Commit(UpdateEntries(db, [i \in S |-> [entries[i] EXCEPT !.gen = Bump(@)]]))
    BY <1>2, Zenon DEF set_times
  <2>2. Commit(c)
    BY <2>1, Zenon DEF db
  <2>3. S \subseteq DOMAIN db.entries
    BY DEF EntriesFor, EntriesAt
  <2> HIDE DEF S
  <2>4. ASSUME NEW i \in S
        PROVE  /\ row(i).zone = db.entries[i].zone /\ row(i).rel = db.entries[i].rel
               /\ row(i).dir = db.entries[i].dir /\ row(i).kind = db.entries[i].kind
    <3> DEFINE e == db.entries[i]
               g == Bump(e.gen)
    <3>1. e \in EntryRows
      BY <2>3 DEF Good, GoodEntries, GoodRow
    <3>2. row(i) = [e EXCEPT !.gen = g]
      OBVIOUS
    <3> HIDE DEF e, g, row
    <3>3. row(i).zone = e.zone /\ row(i).rel = e.rel /\ row(i).dir = e.dir /\ row(i).kind = e.kind
      BY <3>1, <3>2 DEF EntryRows
    <3> QED
      BY <3>3 DEF e
  <2>5. DOMAIN rows = S /\ \A i \in S : rows[i] = row(i)
    OBVIOUS
  <2> HIDE DEF rows, row
  <2>6. c.entries = Store(rows, db.entries) /\ SamePlaces(db.zones, c.zones)
    BY UpdateLeaves
  <2> HIDE DEF c
  <2>7. SameRows(db.entries, c.entries)
    BY <2>3, <2>4, <2>5, <2>6 DEF Store, SameRows
  <2> QED
    BY <2>2, <2>6, <2>7, SameStep DEF Same
<1> QED
  BY <1>1, <1>2


LEMMA CopyZoneTree ==
  ASSUME Good(db), IsTreeOf(db), NEW src \in Seq(Names), NEW dst \in Seq(Names),
         ParentIsDir(db, dst), KindOf(db, dst) = None, CopyZone(src, dst)
  PROVE  TreeNext
<1> DEFINE z == LocateZone(db, src)
           old == EntriesOf(db, {z})
<1>1. PICK n \in FreshNodes(db) : \E f \in Injection(old, FreshNodes(db) \ {n}) :
            LET made == [db EXCEPT !.zones = Store(OneRow(n, ZoneRow(db, dst)), zones)]
            IN Commit(InsertEntries(made, [k \in {f[i] : i \in old} |->
                    [entries[CHOOSE i \in old : f[i] = k] EXCEPT !.zone = n, !.gen = 1]]))
  BY Zenon DEF CopyZone
<1>2. PICK f \in Injection(old, FreshNodes(db) \ {n}) :
            LET made == [db EXCEPT !.zones = Store(OneRow(n, ZoneRow(db, dst)), zones)]
            IN Commit(InsertEntries(made, [k \in {f[i] : i \in old} |->
                    [entries[CHOOSE i \in old : f[i] = k] EXCEPT !.zone = n, !.gen = 1]]))
  BY <1>1, Zenon
<1> DEFINE made == [db EXCEPT !.zones = Store(OneRow(n, ZoneRow(db, dst)), db.zones)]
           row(i) == [db.entries[i] EXCEPT !.zone = n, !.gen = 1]
           rows == [k \in {f[i] : i \in old} |-> row(CHOOSE i \in old : f[i] = k)]
           c == InsertEntries(made, rows)
<1>3. Commit(c)
  BY <1>2 DEF db
<1>4. /\ Good(made) /\ Attaches(db, dst, n, c) /\ Holds(c.entries, rows, db.entries)
      /\ made.entries = db.entries /\ DOMAIN made.zones = DOMAIN db.zones \cup {n}
  <2>1. c = InsertEntries(made, rows)
    OBVIOUS
  <2> HIDE DEF rows, c
  <2>2. made = WithZone(db, dst, n)
    BY DEF WithZone
  <2> HIDE DEF made
  <2> QED
    BY <2>1, <2>2, AttachIs
<1>5. old \subseteq DOMAIN db.entries /\ \A i \in old : db.entries[i].zone = z
  BY DEF EntriesOf
<1>6. \A i \in DOMAIN db.entries : db.entries[i].zone = z => i \in old
  BY DEF EntriesOf
<1>7. ASSUME NEW i \in old
      PROVE  /\ row(i).zone = n /\ row(i).rel = db.entries[i].rel
             /\ row(i).dir = db.entries[i].dir /\ row(i).kind = db.entries[i].kind
  <2> DEFINE e == db.entries[i]
  <2>1. e \in EntryRows
    BY <1>5 DEF Good, GoodEntries, GoodRow
  <2>2. row(i) = [e EXCEPT !.zone = n, !.gen = 1]
    OBVIOUS
  <2> HIDE DEF e, row
  <2>3. row(i).zone = n /\ row(i).rel = e.rel /\ row(i).dir = e.dir /\ row(i).kind = e.kind
    BY <2>1, <2>2 DEF EntryRows
  <2> QED
    BY <2>3 DEF e
<1> HIDE DEF row
<1>8. /\ \A i \in old : f[i] \in FreshNodes(db) \ {n}
      /\ \A i, j \in old : f[i] = f[j] => i = j
  BY DEF Injection, IsInjective
<1>9. \A i \in old : f[i] \in DOMAIN rows /\ rows[f[i]] = row(i)
  <2>1. \A i \in old : (CHOOSE j \in old : f[j] = f[i]) = i
    BY <1>8
  <2> HIDE DEF old
  <2> QED
    BY <2>1
<1>10. DOMAIN rows = {f[i] : i \in old}
  OBVIOUS
<1> HIDE DEF rows, c, made, old
<1>11. DOMAIN rows \cap DOMAIN db.entries = {}
  BY <1>8, <1>10 DEF FreshNodes
<1>12. \A i \in old : f[i] \in DOMAIN c.entries /\ c.entries[f[i]] = row(i)
  BY <1>4, <1>9 DEF Holds
<1>13. ASSUME NEW i \in old PROVE DirAt(c, n, db.entries[i].dir)
  <2> DEFINE r == db.entries[i].dir
  <2>1. DirAt(db, z, r)
    BY <1>5 DEF IsTreeOf, Rooted
  <2>2. CASE r = <<>>
    BY <2>2 DEF DirAt
  <2>3. CASE r # <<>>
    <3> HIDE DEF r
    <3>1. PICK j \in DOMAIN db.entries : db.entries[j].zone = z /\ db.entries[j].rel = r
                                         /\ db.entries[j].kind = Dir
      BY <2>1, <2>3 DEF DirAt, EntriesAt
    <3>2. j \in old
      BY <1>6, <3>1
    <3>3. f[j] \in EntriesAt(c, n, r) /\ c.entries[f[j]].kind = Dir
      BY <1>7, <1>12, <3>1, <3>2 DEF EntriesAt
    <3> QED
      BY <3>3 DEF DirAt, r
  <2> QED
    BY <2>2, <2>3
<1>14. \A i \in old : db.entries[i].rel \in Seq(Names)
  BY <1>5, EntryParts
<1>15. \A k \in DOMAIN rows : /\ rows[k].zone = n /\ rows[k].rel \in Seq(Names)
                              /\ DirAt(c, n, rows[k].dir)
  BY <1>7, <1>9, <1>10, <1>13, <1>14
<1>16. Distinct(c)
  BY <1>3, CommitDistinct
<1>17. IsTreeOf(c)
  BY <1>4, <1>11, <1>15, <1>16, AttachTree
<1> QED
  BY <1>3, <1>17, CommitTree DEF TreeNext


\* Without wildcards and escapes in paths, a pattern matches what lies below its path.
LEMMA LikePrefix ==
  ASSUME PlainPaths, NEW p \in Seq(Names), p # <<>>, NEW q \in Seq(Names)
  PROVE  /\ LikeBelow(p, q) <=> IsPrefix(p, q) /\ p # q
         /\ LikeWithin(p, q) <=> IsPrefix(p, q)
<1>1. LikeBelow(p, q) <=> IsPrefix(p, q) /\ p # q
  BY DEF LikeBelow, IsStrictPrefix, PlainPaths
<1>2. p = q => IsPrefix(p, q)
  BY PrefixSelf
<1> QED
  BY <1>1, <1>2 DEF LikeWithin

\* The row r is e in its new place below the directory that is to hold p.
Rebased(d, p, source, e, r) ==
    /\ r.zone = LocateZone(d, Front(p))
    /\ r.rel = Append(RelativePath(d, Front(p)), Last(p)) \o Remainder(source, e.rel)
    /\ r.dir = Front(r.rel) /\ r.kind = e.kind

LEMMA RebaseIs ==
  ASSUME NEW d, NEW p, NEW source, NEW e \in EntryRows, NEW g
  PROVE  Rebased(d, p, source, e, [Rebase(d, p, source, e) EXCEPT !.gen = g])
<1> DEFINE z == LocateZone(d, Front(p))
           rel == Append(RelativePath(d, Front(p)), Last(p)) \o Remainder(source, e.rel)
           name == IF e.rel = source THEN Last(p) ELSE e.name
           dir == Front(rel)
           r == [e EXCEPT !.zone = z, !.rel = rel, !.dir = dir, !.name = name]
           c == [r EXCEPT !.gen = g]
<1>1. Rebase(d, p, source, e) = r
  BY Zenon DEF Rebase
<1> HIDE DEF z, rel, name, dir
<1>2. DOMAIN e = DOMAIN r /\ r.zone = z /\ r.rel = rel /\ r.dir = dir /\ r.kind = e.kind
      /\ {"zone", "rel", "dir", "kind", "gen"} \subseteq DOMAIN r
  BY DEF EntryRows
<1> HIDE DEF r
<1>3. c.zone = z /\ c.rel = rel /\ c.dir = dir /\ c.kind = e.kind
  BY <1>2
<1> HIDE DEF c
<1>4. Rebased(d, p, source, e, c)
  BY <1>3 DEF Rebased, z, rel, dir
<1> QED
  BY <1>1, <1>4 DEF c

LEMMA RemainderFront ==
  ASSUME NEW source \in Seq(Names), NEW rel \in Seq(Names), IsPrefix(source, rel), rel # source
  PROVE  LET rest == Remainder(source, rel)
         IN /\ rel # <<>> /\ Front(rel) \in Seq(Names) /\ IsPrefix(source, Front(rel))
            /\ rest \in Seq(Names) /\ rest # <<>>
            /\ Front(rest) = Remainder(source, Front(rel))
<1> DEFINE rest == Remainder(source, rel)
<1>1. rel = source \o rest /\ rest \in Seq(Names)
  BY PrefixSplit
<1>2. rest # <<>>
  BY <1>1, ConcatEmptySeq
<1> HIDE DEF rest
<1>3. Front(rel) = source \o Front(rest) /\ Front(rest) \in Seq(Names)
  BY <1>1, <1>2, SplitConcat, SplitPath
<1>4. rel # <<>>
  BY <1>1, <1>2, ConcatEqualIffEmpty
<1>5. Front(rel) \in Seq(Names) /\ IsPrefix(source, Front(rel))
  BY <1>3, PrefixConcat
<1>6. Remainder(source, Front(rel)) = Front(rest)
  BY <1>3, ConcatRemainder
<1> QED
  BY <1>1, <1>2, <1>4, <1>5, <1>6 DEF rest

\* Where a row goes, and where its directory does.
Lands(d, p, source, rel) ==
    LET dir == RelativePath(d, Front(p))
        top == Append(dir, Last(p))
        new == top \o Remainder(source, rel)
    IN /\ new \in Seq(Names)
       /\ d.zones[LocateZone(d, Front(p))].path \o new = p \o Remainder(source, rel)
       /\ rel = source => Front(new) = dir
       /\ rel # source => Front(new) = top \o Remainder(source, Front(rel))

LEMMA RebasePlace ==
  ASSUME NEW d, Good(d), NEW p \in Seq(Names), p # <<>>, ZonesOver(d, Front(p)) # {},
         NEW source \in Seq(Names), NEW rel \in Seq(Names), IsPrefix(source, rel)
  PROVE  Lands(d, p, source, rel)
<1> DEFINE z == LocateZone(d, Front(p))
           dir == RelativePath(d, Front(p))
           top == Append(dir, Last(p))
           t == d.zones[z].path
           rest == Remainder(source, rel)
           new == top \o rest
<1>1. /\ t \in Seq(Names) /\ dir \in Seq(Names) /\ Last(p) \in Names
      /\ p = t \o top /\ top \in Seq(Names)
  BY NewPlace, ZenonT(30)
<1>2. rest \in Seq(Names)
  BY RemainderOf
<1>3. Front(top) = dir
  BY <1>1, SplitAppend
<1> HIDE DEF z, dir, top, t, rest
<1>4. new \in Seq(Names)
  BY <1>1, <1>2, PrefixConcat
<1>5. t \o new = p \o rest
  <2>1. t \o (top \o rest) = (t \o top) \o rest
    <3>1. Assoc(t, top, rest)
      BY <1>1, <1>2, Regroup
    <3> QED
      BY <3>1 DEF Assoc
  <2> QED
    BY <1>1, <2>1
<1>6. rel = source => Front(new) = dir
  <2>1. rel = source => rest = <<>>
    BY RemainderOf, LenProperties DEF rest
  <2>2. rest = <<>> => new = top
    BY <1>1, ConcatEmptySeq
  <2> QED
    BY <1>3, <2>1, <2>2
<1>7. rel # source => Front(new) = top \o Remainder(source, Front(rel))
  <2>1. rel # source => rest # <<>> /\ Front(rest) = Remainder(source, Front(rel))
    BY RemainderFront DEF rest
  <2>2. rest # <<>> => Front(new) = top \o Front(rest)
    BY <1>1, <1>2, SplitConcat
  <2> QED
    BY <2>1, <2>2
<1> QED
  BY <1>4, <1>5, <1>6, <1>7 DEF Lands, new, t, z, dir, top, rest


\* The rows of old are those of a subtree, with the directories in it, and c
\* has each of them rebased under the id that ids says.
Rebases(d, p, source, z, old, ids, c) ==
    /\ old \subseteq DOMAIN d.entries
    /\ \A i \in old : /\ d.entries[i].zone = z /\ IsPrefix(source, d.entries[i].rel)
                      /\ ids[i] \in DOMAIN c.entries
                      /\ Rebased(d, p, source, d.entries[i], c.entries[ids[i]])
    /\ \A i \in old : \A j \in DOMAIN d.entries :
         d.entries[i].rel # source /\ d.entries[j].zone = z /\ d.entries[j].rel = d.entries[i].dir
            => j \in old

\* A subtree keeps its shape at a free place.
LEMMA RebasedPlaced ==
  ASSUME NEW d, Good(d), IsTreeOf(d), NEW p \in Seq(Names), p # <<>>, ZonesOver(d, Front(p)) # {},
         KindOf(d, p) = None, NEW source \in Seq(Names), source # <<>>,
         NEW z, NEW old, NEW ids, NEW c, Rebases(d, p, source, z, old, ids, c),
         DirAt(c, LocateZone(d, Front(p)), RelativePath(d, Front(p))),
         NEW i \in old
  PROVE  Placed(d, c, c.entries[ids[i]])
<1> DEFINE u == LocateZone(d, Front(p))
           dir == RelativePath(d, Front(p))
           top == Append(dir, Last(p))
           e == d.entries[i]
           r == c.entries[ids[i]]
           t == d.zones[u].path
           rest == Remainder(source, e.rel)
           new == top \o rest
<1>1. /\ i \in DOMAIN d.entries /\ e.zone = z /\ IsPrefix(source, e.rel)
      /\ Rebased(d, p, source, e, r)
  BY DEF Rebases
<1>2. e.rel \in Seq(Names) /\ Front(e.rel) = e.dir
  BY <1>1, EntryParts
<1>3. /\ new \in Seq(Names) /\ t \o new = p \o rest
      /\ e.rel = source => Front(new) = dir
      /\ e.rel # source => Front(new) = top \o Remainder(source, e.dir)
  <2>1. e.rel \in Seq(Names) /\ IsPrefix(source, e.rel)
    BY <1>1, <1>2
  <2>2. /\ new \in Seq(Names) /\ t \o new = p \o rest
        /\ e.rel = source => Front(new) = dir
        /\ e.rel # source => Front(new) = top \o Remainder(source, Front(e.rel))
    <3>1. Lands(d, p, source, e.rel)
      BY <2>1, RebasePlace
    <3> QED
      BY <3>1 DEF Lands
  <2> HIDE DEF new, rest, e, u, t, top, dir
  <2> QED
    BY <1>2, <2>2
<1>4. r.zone = u /\ r.rel = new /\ r.dir = Front(new) /\ r.kind = e.kind
  BY <1>1 DEF Rebased
<1>5. rest \in Seq(Names)
  BY <1>2, RemainderOf
<1>6. ClearOf(d, p \o rest, t)
  BY <1>5, FreshPlace
<1>7. u \in DOMAIN d.zones
  <2>1. Front(p) \in Seq(Names)
    BY SplitPath
  <2> QED
    BY <2>1, LocatedParts
<1>8. DirAt(c, u, Front(new))
  <2>1. CASE e.rel = source
    BY <1>3, <2>1
  <2>2. CASE e.rel # source
    <3>1. IsPrefix(source, e.dir) /\ e.dir \in Seq(Names)
      BY <1>1, <1>2, <2>2, RemainderFront
    <3>2. e.dir # <<>>
      BY <3>1, EmptyRemainder, LenProperties
    <3>3. DirAt(d, z, e.dir)
      BY <1>1 DEF IsTreeOf, Rooted
    <3>4. PICK j \in DOMAIN d.entries : /\ d.entries[j].zone = z /\ d.entries[j].rel = e.dir
                                        /\ d.entries[j].kind = Dir
      BY <3>2, <3>3 DEF DirAt, EntriesAt
    <3>5. j \in old
      BY <2>2, <3>4 DEF Rebases
    <3>6. /\ ids[j] \in DOMAIN c.entries /\ c.entries[ids[j]].zone = u
          /\ c.entries[ids[j]].rel = top \o Remainder(source, e.dir)
          /\ c.entries[ids[j]].kind = Dir
      BY <3>4, <3>5 DEF Rebases, Rebased
    <3>7. ids[j] \in EntriesAt(c, u, Front(new))
      BY <1>3, <2>2, <3>6 DEF EntriesAt
    <3> QED
      BY <3>6, <3>7 DEF DirAt
  <2> QED
    BY <2>1, <2>2
<1> HIDE DEF r, new
<1> QED
  BY <1>3, <1>4, <1>6, <1>7, <1>8 DEF Placed, r, u, t

LEMMA CopyEntryTree ==
  ASSUME PlainPaths, Good(db), IsTreeOf(db), NEW src \in Seq(Names), NEW dst \in Seq(Names),
         NEW recursive \in BOOLEAN, RelativePath(db, src) # <<>>,
         ParentIsDir(db, dst), KindOf(db, dst) = None, CopyEntry(src, dst, recursive)
  PROVE  TreeNext
<1> DEFINE source == RelativePath(db, src)
           z == LocateZone(db, src)
           old == {i \in EntriesOf(db, {LocateZone(db, src)}) :
                     \/ entries[i].rel = source
                     \/ recursive /\ LikeBelow(source, entries[i].rel)}
<1>1. PICK f \in Injection(old, FreshNodes(db)) :
        Commit(InsertEntries(db, [k \in {f[i] : i \in old} |->
             [Rebase(db, dst, source, entries[CHOOSE i \in old : f[i] = k]) EXCEPT !.gen = 1]]))
  BY Zenon DEF CopyEntry
<1> DEFINE row(i) == [Rebase(db, dst, source, entries[i]) EXCEPT !.gen = 1]
           rows == [k \in {f[i] : i \in old} |-> row(CHOOSE i \in old : f[i] = k)]
           c == InsertEntries(db, rows)
<1>2. Commit(c) /\ db.entries = entries
  BY <1>1 DEF db
<1>3. dst # <<>> /\ ZonesOver(db, Front(dst)) # {}
  BY ParentParts
<1>4. source \in Seq(Names) /\ source # <<>>
  <2>1. KindOf(db, src) # None
    BY DEF CopyEntry
  <2>2. ZonesOver(db, src) # {}
    BY <2>1, DirIsOver
  <2> QED
    BY <2>2, LocatedParts
<1> HIDE DEF source
<1>5. \A i \in old : /\ i \in DOMAIN db.entries /\ db.entries[i].zone = z
                     /\ db.entries[i].rel \in Seq(Names) /\ Front(db.entries[i].rel) = db.entries[i].dir
  BY <1>2, EntryParts DEF EntriesOf
<1>6. \A i \in old : IsPrefix(source, db.entries[i].rel)
  BY <1>2, <1>4, <1>5, LikePrefix, PrefixSelf
<1>7. \A i \in old : Rebased(db, dst, source, db.entries[i], row(i))
  <2>1. ASSUME NEW i \in old
        PROVE  Rebased(db, dst, source, db.entries[i], row(i))
    <3>1. db.entries[i] \in EntryRows
      BY <1>5 DEF Good, GoodEntries, GoodRow
    <3> QED
      BY <1>2, <3>1, RebaseIs
  <2> QED
    BY <2>1
<1>8. ASSUME NEW i \in old, NEW j \in DOMAIN db.entries, db.entries[i].rel # source,
             db.entries[j].zone = z, db.entries[j].rel = db.entries[i].dir
      PROVE  j \in old
  <2>1. recursive
    BY <1>2, <1>8
  <2>2. IsPrefix(source, db.entries[j].rel) /\ db.entries[j].rel \in Seq(Names)
    <3>1. IsPrefix(source, db.entries[i].rel) /\ db.entries[i].rel \in Seq(Names)
          /\ Front(db.entries[i].rel) = db.entries[j].rel
      BY <1>5, <1>6, <1>8
    <3> QED
      BY <1>4, <1>8, <3>1, RemainderFront
  <2>3. db.entries[j].rel = source \/ LikeBelow(source, db.entries[j].rel)
    BY <1>4, <2>2, LikePrefix
  <2> QED
    BY <1>2, <1>8, <2>1, <2>3 DEF EntriesOf
<1> HIDE DEF row
<1>9. /\ \A i \in old : f[i] \in FreshNodes(db)
      /\ \A i, j \in old : f[i] = f[j] => i = j
  BY DEF Injection, IsInjective
<1>10. \A i \in old : f[i] \in DOMAIN rows /\ rows[f[i]] = row(i)
  <2>1. \A i \in old : (CHOOSE j \in old : f[j] = f[i]) = i
    BY <1>9
  <2> HIDE DEF old
  <2> QED
    BY <2>1
<1>11. DOMAIN rows = {f[i] : i \in old}
  OBVIOUS
<1> HIDE DEF rows, old
<1>12. Holds(c.entries, rows, db.entries) /\ SamePlaces(db.zones, c.zones)
  BY InsertLeaves, StoreHolds
<1> HIDE DEF c
<1>13. DOMAIN rows \cap DOMAIN db.entries = {}
  BY <1>9, <1>11 DEF FreshNodes
<1>14. Rebases(db, dst, source, z, old, f, c)
  <2>1. \A i \in old : f[i] \in DOMAIN c.entries /\ c.entries[f[i]] = row(i)
    BY <1>10, <1>12 DEF Holds
  <2> QED
    BY <1>5, <1>6, <1>7, <1>8, <2>1 DEF Rebases
<1>15. DirAt(c, LocateZone(db, Front(dst)), RelativePath(db, Front(dst)))
  BY <1>12, <1>13, ParentPlace, GrownDirs
<1>16. ASSUME NEW k \in DOMAIN rows PROVE Placed(db, c, rows[k])
  <2>1. PICK i \in old : k = f[i]
    BY <1>11
  <2>2. Placed(db, c, c.entries[f[i]])
    BY <1>3, <1>4, <1>14, <1>15, RebasedPlaced
  <2> QED
    BY <1>12, <2>1, <2>2 DEF Holds
<1>17. IsTreeOf(c)
  BY <1>2, <1>12, <1>13, <1>16, CommitDistinct, InsertTree
<1> QED
  BY <1>2, <1>17, CommitTree DEF TreeNext

LEMMA copyTree ==
  ASSUME PlainPaths, Good(db), IsTreeOf(db), NEW src \in Paths, NEW dst \in Paths,
         NEW recursive \in BOOLEAN, copy(src, dst, recursive)
  PROVE  TreeNext
<1>1. src \in Seq(Names) /\ dst \in Seq(Names) /\ ParentIsDir(db, dst) /\ KindOf(db, dst) = None
  BY PathParts DEF copy, CanPlace
<1>2. CASE RelativePath(db, src) = <<>>
  <2>1. CopyZone(src, dst)
    BY <1>2 DEF copy
  <2> QED
    BY <1>1, <2>1, CopyZoneTree
<1>3. CASE RelativePath(db, src) # <<>>
  <2>1. CopyEntry(src, dst, recursive)
    BY <1>3 DEF copy
  <2> QED
    BY <1>1, <1>3, <2>1, CopyEntryTree
<1> QED
  BY <1>2, <1>3


\* The zones and the entries that a removal takes.
GoneZones(d, p, recursive) ==
    IF RelativePath(d, p) = <<>> THEN ZonesLike(d, p) \cup {LocateZone(d, p)}
    ELSE IF recursive THEN ZonesLike(d, p) ELSE {}

GoneEntries(d, p, recursive) ==
    {i \in DOMAIN d.entries :
        \/ d.entries[i].zone \in GoneZones(d, p, recursive)
        \/ /\ d.entries[i].zone = LocateZone(d, p)
           /\ \/ d.entries[i].rel = RelativePath(d, p)
              \/ recursive /\ LikeBelow(RelativePath(d, p), d.entries[i].rel)}

\* What is left of d without the zones of Z and the entries of S.
Without(d, Z, S, c) ==
    /\ Within(c, d)
    /\ DOMAIN c.zones = DOMAIN d.zones \ Z
    /\ DOMAIN c.entries = DOMAIN d.entries \ S

LEMMA DeletedZones ==
  ASSUME NEW d, Good(d), NEW Z, NEW c, c = DeleteZones(d, Z)
  PROVE  /\ c.entries = d.entries /\ DOMAIN c.zones = DOMAIN d.zones \ Z
         /\ \A z \in DOMAIN c.zones : c.zones[z] = d.zones[z]
<1> DEFINE zs == [z \in DOMAIN d.zones \ Z |-> d.zones[z]]
<1>1. DOMAIN zs = DOMAIN d.zones \ Z /\ \A z \in DOMAIN zs : zs[z] = d.zones[z]
  OBVIOUS
<1> HIDE DEF zs
<1>2. c = [d EXCEPT !.zones = zs]
  BY DEF DeleteZones, zs
<1>3. c.entries = d.entries /\ c.zones = zs
  BY <1>2, WithZones DEF Good
<1> QED
  BY <1>1, <1>3

LEMMA RemovedIs ==
  ASSUME NEW d, Good(d), NEW p \in Seq(Names), NEW recursive \in BOOLEAN,
         CanRemove(d, p, recursive), NEW c, c = Removed(d, p, recursive)
  PROVE  Good(c) /\ Without(d, GoneZones(d, p, recursive), GoneEntries(d, p, recursive), c)
<1> DEFINE rel == RelativePath(d, p)
           here == LocateZone(d, p)
           gone == IF rel = <<>> THEN ZonesLike(d, p) \cup {here}
                   ELSE IF recursive THEN ZonesLike(d, p) ELSE {}
           emptied == DeleteEntries(d, EntriesOf(d, gone))
           cut == DeleteZones(emptied, gone)
           own == {i \in EntriesOf(cut, {here} \ gone) :
                     \/ cut.entries[i].rel = rel
                     \/ recursive /\ LikeBelow(rel, cut.entries[i].rel)}
           left == DeleteEntries(cut, own)
<1>1. c = Reclaim(left)
  BY Zenon DEF Removed
<1>2. p # <<>> /\ ZonesOver(d, p) # {}
  BY DirIsOver DEF CanRemove
<1>3. rel = <<>> => d.zones[here].path = p
  BY <1>2, LocatedParts
<1>13. gone = GoneZones(d, p, recursive)
  BY DEF GoneZones
<1> HIDE DEF rel, here
<1>4. \A z \in DOMAIN d.zones \cap gone : d.zones[z].path # <<>>
  <2>1. ~ LikeBelow(p, <<>>)
    <3>1. <<>> \in Seq(Names) /\ ~ (Len(p) < Len(<<>>))
      BY EmptySeq, LenProperties
    <3> QED
      BY <3>1, BelowIsLonger
  <2>2. \A z \in ZonesLike(d, p) : d.zones[z].path # <<>>
    BY <2>1 DEF ZonesLike
  <2> QED
    BY <1>2, <1>3, <2>2
<1> HIDE DEF gone
<1>5. EntriesOf(d, gone) \subseteq DOMAIN d.entries
  BY DEF EntriesOf
<1>6. Good(emptied) /\ SamePaths(d.zones, emptied.zones) /\ SamePlaces(d.zones, emptied.zones)
      /\ emptied.entries = [i \in DOMAIN d.entries \ EntriesOf(d, gone) |-> d.entries[i]]
  BY <1>5, DeleteGood, DeleteLeaves
<1> HIDE DEF emptied
<1>7. Good(cut)
  <2>1. \A i \in DOMAIN emptied.entries : emptied.entries[i].zone \notin gone
    BY <1>6 DEF EntriesOf
  <2>2. \A z \in DOMAIN emptied.zones \cap gone : emptied.zones[z].path # <<>>
    BY <1>4, <1>6 DEF SamePaths
  <2> QED
    BY <1>6, <2>1, <2>2, DeleteZonesGood
<1>8. /\ cut.entries = emptied.entries /\ DOMAIN cut.zones = DOMAIN emptied.zones \ gone
      /\ \A z \in DOMAIN cut.zones : cut.zones[z] = emptied.zones[z]
  <2>1. cut = DeleteZones(emptied, gone)
    OBVIOUS
  <2> HIDE DEF cut
  <2> QED
    BY <1>6, <2>1, DeletedZones
<1> HIDE DEF cut
<1>9. own = {i \in DOMAIN cut.entries : /\ cut.entries[i].zone \in {here} \ gone
                                        /\ \/ cut.entries[i].rel = rel
                                           \/ recursive /\ LikeBelow(rel, cut.entries[i].rel)}
  BY DEF EntriesOf
<1> HIDE DEF own
<1>10. Good(left) /\ SamePlaces(cut.zones, left.zones)
       /\ left.entries = [i \in DOMAIN cut.entries \ own |-> cut.entries[i]]
  BY <1>7, <1>9, DeleteGood, DeleteLeaves
<1> HIDE DEF left
<1>11. Good(c) /\ c.entries = left.entries /\ c.zones = left.zones
  BY <1>1, <1>10, ReclaimGood, ReclaimLeaves
<1>12. DOMAIN c.zones = DOMAIN d.zones \ gone
       /\ \A z \in DOMAIN c.zones :
            /\ c.zones[z].path = d.zones[z].path /\ c.zones[z].parent = d.zones[z].parent
            /\ c.zones[z].dir = d.zones[z].dir /\ c.zones[z].name = d.zones[z].name
  BY <1>6, <1>8, <1>10, <1>11 DEF SamePlaces
<1>14. /\ DOMAIN c.entries = DOMAIN cut.entries \ own
       /\ DOMAIN cut.entries = DOMAIN d.entries \ EntriesOf(d, gone)
       /\ \A i \in DOMAIN cut.entries : cut.entries[i] = d.entries[i]
       /\ \A i \in DOMAIN c.entries : c.entries[i] = d.entries[i]
  BY <1>6, <1>8, <1>10, <1>11
<1>15. DOMAIN c.entries = DOMAIN d.entries \ GoneEntries(d, p, recursive)
  BY <1>9, <1>13, <1>14 DEF EntriesOf, GoneEntries, rel, here
<1> QED
  BY <1>11, <1>12, <1>13, <1>14, <1>15 DEF Without, Within

\* A removal takes a whole subtree, or a node with nothing below it.
LEMMA RemovedTree ==
  ASSUME PlainPaths, NEW d, Good(d), IsTreeOf(d), NEW p \in Seq(Names), NEW recursive \in BOOLEAN,
         CanRemove(d, p, recursive), NEW c, c = Removed(d, p, recursive)
  PROVE  Good(c) /\ IsTreeOf(c)
<1> DEFINE rel == RelativePath(d, p)
           here == LocateZone(d, p)
           top == d.zones[here].path
           gone == GoneZones(d, p, recursive)
           own == GoneEntries(d, p, recursive)
<1>1. Good(c) /\ Without(d, gone, own, c)
  BY RemovedIs
<1>2. p # <<>> /\ ZonesOver(d, p) # {}
  BY DirIsOver DEF CanRemove
<1>3. /\ here \in DOMAIN d.zones /\ top \in Seq(Names) /\ rel \in Seq(Names)
      /\ p = top \o rel /\ (rel = <<>> => top = p)
  BY <1>2, LookupIs
<1>4. ~recursive /\ KindOf(d, p) = Dir => ChildEntries(d, p) = {} /\ ChildZones(d, p) = {}
  BY DEF CanRemove
\* The zones below a zone that goes, go.
<1>5. ASSUME NEW y \in DOMAIN d.zones, IsPrefix(p, d.zones[y].path), p # d.zones[y].path,
             rel = <<>> \/ recursive
      PROVE  y \in gone
  <2>1. d.zones[y].path \in Seq(Names)
    BY ZoneParts
  <2> QED
    BY <1>2, <1>5, <2>1, LikePrefix DEF GoneZones, ZonesLike
<1>6. ASSUME NEW y \in gone
      PROVE  y \in DOMAIN d.zones /\ IsPrefix(p, d.zones[y].path) /\ (rel = <<>> \/ recursive)
  <2>1. CASE y \in ZonesLike(d, p) /\ (rel = <<>> \/ recursive)
    <3>1. y \in DOMAIN d.zones /\ d.zones[y].path \in Seq(Names)
      BY <2>1, ZoneParts DEF ZonesLike
    <3> QED
      BY <1>2, <2>1, <3>1, LikePrefix DEF ZonesLike
  <2>2. CASE y = here /\ rel = <<>>
    BY <1>3, <2>2, PrefixSelf
  <2> QED
    BY <2>1, <2>2 DEF GoneZones
\* A row that goes takes what it is the directory of.
<1>7. ASSUME NEW j \in own, d.entries[j].kind = Dir, d.entries[j].zone \notin gone
      PROVE  /\ j \in DOMAIN d.entries /\ d.entries[j].zone = here /\ rel # <<>>
             /\ IsPrefix(rel, d.entries[j].rel) /\ d.entries[j].rel \in Seq(Names)
             /\ ~recursive => d.entries[j].rel = rel /\ ChildEntries(d, p) = {} /\ ChildZones(d, p) = {}
  <2>1. /\ j \in DOMAIN d.entries /\ d.entries[j].zone = here
        /\ \/ d.entries[j].rel = rel
           \/ recursive /\ LikeBelow(rel, d.entries[j].rel)
    BY <1>7 DEF GoneEntries
  <2>2. d.entries[j].rel \in Seq(Names)
    BY <2>1, EntryParts
  <2>3. rel # <<>>
    BY <1>7, <2>1 DEF GoneZones
  <2>4. IsPrefix(rel, d.entries[j].rel)
    BY <1>3, <2>1, <2>2, <2>3, LikePrefix, PrefixSelf
  <2>5. d.entries[j].rel = rel => KindOf(d, p) = Dir
    <3>1. AbsolutePath(d, j) = top \o d.entries[j].rel
      BY <2>1 DEF AbsolutePath
    <3>2. KindOf(d, AbsolutePath(d, j)) = Dir
      BY <1>7, <2>1, Resolves
    <3> QED
      BY <1>3, <3>1, <3>2
  <2> QED
    BY <1>4, <2>1, <2>2, <2>3, <2>4, <2>5
<1> HIDE DEF gone, own
<1>8. ASSUME NEW i \in DOMAIN c.entries
      PROVE  DirAt(c, c.entries[i].zone, c.entries[i].dir)
  <2> DEFINE e == d.entries[i]
  <2>1. i \in DOMAIN d.entries /\ i \notin own /\ c.entries[i] = e
    BY <1>1 DEF Without, Within
  <2>2. e.zone \notin gone
    BY <2>1 DEF own, gone, GoneEntries
  <2>3. CASE e.dir = <<>>
    BY <2>1, <2>3 DEF DirAt
  <2>4. CASE e.dir # <<>>
    <3>1. DirAt(d, e.zone, e.dir)
      BY <2>1 DEF IsTreeOf, Rooted
    <3>2. PICK j \in DOMAIN d.entries : /\ d.entries[j].zone = e.zone /\ d.entries[j].rel = e.dir
                                        /\ d.entries[j].kind = Dir
      BY <2>4, <3>1 DEF DirAt, EntriesAt
    <3>3. j \notin own
      <4>1. SUFFICES ASSUME j \in own PROVE FALSE
        OBVIOUS
      <4>2. /\ e.zone = here /\ rel # <<>> /\ IsPrefix(rel, e.dir) /\ e.dir \in Seq(Names)
            /\ ~recursive => e.dir = rel /\ ChildEntries(d, p) = {}
        BY <1>7, <2>2, <3>2, <4>1
      <4>3. CASE ~recursive
        <5>1. i \in ChildEntries(d, p)
          BY <2>1, <4>2, <4>3 DEF ChildEntries, RelativePath
        <5> QED
          BY <4>2, <4>3, <5>1
      <4>4. CASE recursive
        <5>1. e.rel \in Seq(Names) /\ Front(e.rel) = e.dir /\ e.rel # <<>>
          BY <2>1, EntryParts
        <5>2. IsPrefix(rel, e.rel) /\ rel # e.rel
          BY <1>3, <4>2, <5>1, PrefixFront
        <5>3. LikeBelow(rel, e.rel)
          BY <1>3, <4>2, <5>1, <5>2, LikePrefix
        <5>4. i \in own
          BY <2>1, <4>2, <4>4, <5>3 DEF own, GoneEntries
        <5> QED
          BY <2>1, <5>4
      <4> QED
        BY <4>3, <4>4
    <3>4. j \in DOMAIN c.entries /\ c.entries[j] = d.entries[j]
      BY <1>1, <3>3 DEF Without, Within
    <3>5. j \in EntriesAt(c, e.zone, e.dir)
      BY <3>2, <3>4 DEF EntriesAt
    <3> QED
      BY <2>1, <3>2, <3>4, <3>5 DEF DirAt
  <2> QED
    BY <2>3, <2>4
<1>9. ASSUME NEW y \in DOMAIN c.zones, c.zones[y].path # <<>>
      PROVE  c.zones[y].parent \in DOMAIN c.zones /\ DirAt(c, c.zones[y].parent, c.zones[y].dir)
  <2> DEFINE u == d.zones[y].parent
             r == d.zones[y].dir
             n == d.zones[y].name
             q == d.zones[y].path
             t == d.zones[u].path
  <2>1. y \in DOMAIN d.zones /\ y \notin gone /\ c.zones[y].parent = u /\ c.zones[y].dir = r
        /\ c.zones[y].path = q
    BY <1>1 DEF Without, Within
  <2>2. Attached(d, y)
    BY <1>9, <2>1 DEF IsTreeOf, AllAttached
  <2>3. /\ u \in DOMAIN d.zones /\ r \in Seq(Names) /\ n \in Names /\ q = t \o Append(r, n)
        /\ DirAt(d, u, r)
    BY <2>2 DEF Attached
  <2>4. t \in Seq(Names) /\ q \in Seq(Names) /\ Append(r, n) \in Seq(Names) /\ Append(r, n) # <<>>
    <3>1. t \in Seq(Names) /\ q \in Seq(Names)
      BY <2>1, <2>3, ZoneParts
    <3>2. r \in Seq(Names) /\ n \in Names
      BY <2>3
    <3> HIDE DEF r, n, t, q
    <3>3. Append(r, n) \in Seq(Names) /\ Append(r, n) # <<>>
      BY <3>2, AppendProperties
    <3> QED
      BY <3>1, <3>3
  <2>5. Front(q) = t \o r /\ q # <<>>
    <3>1. Front(t \o Append(r, n)) = t \o Front(Append(r, n))
      BY <2>4, SplitConcat
    <3>2. Front(Append(r, n)) = r
      BY <2>3, SplitAppend
    <3> QED
      BY <1>9, <2>1, <2>3, <3>1, <3>2
  <2>6. IsPrefix(t, Front(q))
    BY <2>3, <2>4, <2>5, PrefixConcat
  <2> HIDE DEF u, r, n, q, t
  \* Nothing that goes lies at or above the directory of a zone that stays.
  <2>7. ~((rel = <<>> \/ recursive) /\ IsPrefix(p, Front(q)))
    <3>1. SUFFICES ASSUME rel = <<>> \/ recursive, IsPrefix(p, Front(q)) PROVE FALSE
      OBVIOUS
    <3>2. IsPrefix(p, q) /\ p # q
      <4>1. q \in Seq(Names) /\ q # <<>>
        BY <2>4, <2>5
      <4>2. IsPrefix(p, q) /\ Len(p) < Len(q) /\ Len(p) \in Nat
        BY <3>1, <4>1, PrefixFront
      <4> QED
        BY <4>2
    <3> QED
      BY <1>5, <2>1, <3>1, <3>2 DEF q
  <2>8. u \notin gone
    <3>1. SUFFICES ASSUME u \in gone PROVE FALSE
      OBVIOUS
    <3>2. IsPrefix(p, t) /\ (rel = <<>> \/ recursive)
      BY <1>6, <3>1 DEF t
    <3>3. Front(q) \in Seq(Names)
      BY <2>4, <2>5, SplitPath
    <3>4. IsPrefix(p, Front(q))
      BY <2>4, <2>6, <3>2, <3>3, PrefixTrans
    <3> QED
      BY <2>7, <3>2, <3>4
  <2>9. DirAt(c, u, r)
    <3>1. CASE r = <<>>
      BY <3>1 DEF DirAt
    <3>2. CASE r # <<>>
      <4>1. PICK j \in DOMAIN d.entries : /\ d.entries[j].zone = u /\ d.entries[j].rel = r
                                          /\ d.entries[j].kind = Dir
        BY <2>3, <3>2 DEF DirAt, EntriesAt
      <4>2. j \notin own
        <5>1. SUFFICES ASSUME j \in own PROVE FALSE
          OBVIOUS
        <5>2. /\ u = here /\ rel # <<>> /\ IsPrefix(rel, r)
              /\ ~recursive => r = rel /\ ChildZones(d, p) = {}
          BY <1>7, <2>8, <4>1, <5>1
        <5>3. CASE ~recursive
          <6>1. y \in ChildZones(d, p)
            BY <2>1, <5>2, <5>3 DEF ChildZones, RelativePath, u, r
          <6> QED
            BY <5>2, <5>3, <6>1
        <5>4. CASE recursive
          <6>1. t = top
            BY <5>2 DEF t
          <6>2. IsPrefix(p, Front(q))
            <7> HIDE DEF rel, top
            <7>1. IsPrefix(top \o rel, top \o r)
              BY <1>3, <2>3, <5>2, PrefixUnder
            <7> QED
              BY <1>3, <2>5, <6>1, <7>1
          <6> QED
            BY <2>7, <5>4, <6>2
        <5> QED
          BY <5>3, <5>4
      <4>3. j \in DOMAIN c.entries /\ c.entries[j] = d.entries[j]
        BY <1>1, <4>2 DEF Without, Within
      <4>4. j \in EntriesAt(c, u, r)
        BY <4>1, <4>3 DEF EntriesAt
      <4> QED
        BY <4>1, <4>3, <4>4 DEF DirAt
    <3> QED
      BY <3>1, <3>2
  <2> QED
    BY <1>1, <2>1, <2>3, <2>8, <2>9 DEF Without
<1> QED
  BY <1>1, <1>8, <1>9, CutTree DEF Without


LEMMA removeTree ==
  ASSUME PlainPaths, Good(db), IsTreeOf(db), NEW p \in Paths, NEW recursive \in BOOLEAN,
         remove(p, recursive)
  PROVE  TreeNext
<1> DEFINE c == Removed(db, p, recursive)
<1>1. CanRemove(db, p, recursive) /\ Commit(c) /\ p \in Seq(Names)
  BY PathParts DEF remove
<1>2. IsTreeOf(c)
  BY <1>1, RemovedTree
<1> HIDE DEF c
<1> QED
  BY <1>1, <1>2, CommitTree DEF TreeNext

LEMMA RemoveRoundTree ==
  ASSUME PlainPaths, NEW d, Good(d), IsTreeOf(d), NEW p \in Seq(Names),
         NEW recursive \in BOOLEAN, NEW force \in BOOLEAN,
         NEW c \in RemoveRound(d, p, recursive, force)
  PROVE  Good(c) /\ IsTreeOf(c)
<1>1. CASE c = d
  BY <1>1
<1>2. CASE c # d
  <2>1. CanRemove(d, p, recursive) /\ c = Removed(d, p, recursive)
    BY <1>2 DEF RemoveRound
  <2> QED
    BY <2>1, RemovedTree
<1> QED
  BY <1>1, <1>2

\* The rows that the single statement of remove_many takes are those at the
\* paths it was given; nothing hangs on them.
LEMMA RemoveExactTree ==
  ASSUME Good(db), IsTreeOf(db), NEW P \in SUBSET Seq(Names), NEW recursive \in BOOLEAN,
         NEW force \in BOOLEAN, \A p \in P : ~IsZonePath(db, p),
         \A p \in P : KindOf(db, p) = Dir => Bare(p), RemoveExact(P, recursive, force)
  PROVE  TreeNext
<1> DEFINE gone == Exact(db, P, recursive)
           cut == DeleteEntries(db, gone)
           c == Reclaim(cut)
<1>1. Commit(c) /\ DOMAIN db.zones # {}
  BY DEF RemoveExact, db
<1>2. gone \subseteq DOMAIN db.entries
  BY DEF Exact
<1>3. ASSUME NEW j \in gone, db.entries[j].kind = Dir,
             NEW z, NEW r, db.entries[j].zone = z, db.entries[j].rel = r
      PROVE  /\ \A i \in DOMAIN db.entries : ~(db.entries[i].zone = z /\ db.entries[i].dir = r)
             /\ \A y \in DOMAIN db.zones : ~(db.zones[y].parent = z /\ db.zones[y].dir = r)
  <2>1. PICK p \in P : /\ z = LocateZone(db, Front(p))
                       /\ r = Append(RelativePath(db, Front(p)), Last(p))
    BY <1>3 DEF Exact
  <2>2. p # <<>>
    BY <1>1 DEF Good, GoodZones, IsZonePath
  <2>3. ZonesOver(db, Front(p)) # {}
    BY <1>1, <2>2, SplitPath, RootIsOver
  <2>4. p = db.zones[z].path \o r
    BY <2>1, <2>2, <2>3, NewPlace
  <2>5. AbsolutePath(db, j) = p
    BY <1>3, <2>4 DEF AbsolutePath
  <2>6. LocateZone(db, p) = z /\ RelativePath(db, p) = r /\ KindOf(db, p) = Dir
    BY <1>2, <1>3, <2>5, Resolves
  <2>7. ChildEntries(db, p) = {} /\ ChildZones(db, p) = {}
    BY <2>6 DEF Bare
  <2> QED
    BY <2>6, <2>7 DEF ChildEntries, ChildZones, RelativePath
<1> HIDE DEF gone
<1>4. /\ Good(cut) /\ SamePlaces(db.zones, cut.zones)
      /\ cut.entries = [i \in DOMAIN db.entries \ gone |-> db.entries[i]]
  BY <1>2, DeleteGood, DeleteLeaves
<1> HIDE DEF cut
<1>5. Good(c) /\ c.entries = cut.entries /\ c.zones = cut.zones
  BY <1>4, ReclaimGood, ReclaimLeaves
<1> HIDE DEF c
<1>6. /\ DOMAIN c.zones = DOMAIN db.zones
      /\ \A z \in DOMAIN c.zones :
            /\ c.zones[z].path = db.zones[z].path /\ c.zones[z].parent = db.zones[z].parent
            /\ c.zones[z].dir = db.zones[z].dir /\ c.zones[z].name = db.zones[z].name
      /\ DOMAIN c.entries = DOMAIN db.entries \ gone
      /\ \A i \in DOMAIN c.entries : c.entries[i] = db.entries[i]
  BY <1>4, <1>5 DEF SamePlaces
<1>7. Within(c, db)
  BY <1>6 DEF Within
<1>8. ASSUME NEW z, NEW r, DirAt(db, z, r),
             \/ \E i \in DOMAIN db.entries : db.entries[i].zone = z /\ db.entries[i].dir = r
             \/ \E y \in DOMAIN db.zones : db.zones[y].parent = z /\ db.zones[y].dir = r
      PROVE  DirAt(c, z, r)
  <2>1. CASE r = <<>>
    BY <2>1 DEF DirAt
  <2>2. CASE r # <<>>
    <3>1. PICK j \in DOMAIN db.entries : /\ db.entries[j].zone = z /\ db.entries[j].rel = r
                                         /\ db.entries[j].kind = Dir
      BY <1>8, <2>2 DEF DirAt, EntriesAt
    <3>2. j \notin gone
      BY <1>3, <1>8, <3>1
    <3>3. j \in DOMAIN c.entries /\ c.entries[j] = db.entries[j]
      BY <1>6, <3>2
    <3>4. j \in EntriesAt(c, z, r)
      BY <3>1, <3>3 DEF EntriesAt
    <3> QED
      BY <3>1, <3>3, <3>4 DEF DirAt
  <2> QED
    BY <2>1, <2>2
<1>9. ASSUME NEW i \in DOMAIN c.entries
      PROVE  DirAt(c, c.entries[i].zone, c.entries[i].dir)
  <2>1. i \in DOMAIN db.entries /\ c.entries[i] = db.entries[i]
    BY <1>6
  <2>2. DirAt(db, db.entries[i].zone, db.entries[i].dir)
    BY <2>1 DEF IsTreeOf, Rooted
  <2> QED
    BY <1>8, <2>1, <2>2
<1>10. ASSUME NEW y \in DOMAIN c.zones, c.zones[y].path # <<>>
       PROVE  c.zones[y].parent \in DOMAIN c.zones /\ DirAt(c, c.zones[y].parent, c.zones[y].dir)
  <2>1. y \in DOMAIN db.zones /\ Attached(db, y)
    BY <1>6, <1>10 DEF IsTreeOf, AllAttached
  <2>2. db.zones[y].parent \in DOMAIN db.zones /\ DirAt(db, db.zones[y].parent, db.zones[y].dir)
    BY <2>1 DEF Attached
  <2> QED
    BY <1>6, <1>8, <2>1, <2>2
<1>11. IsTreeOf(c)
  BY <1>5, <1>7, <1>9, <1>10, CutTree
<1> QED
  BY <1>1, <1>11, CommitTree DEF TreeNext

LEMMA remove_manyTree ==
  ASSUME PlainPaths, Good(db), IsTreeOf(db), NEW P \in Batches, NEW recursive \in BOOLEAN,
         NEW force \in BOOLEAN, \A p \in P : KindOf(db, p) = Dir => Bare(p),
         remove_many(P, recursive, force)
  PROVE  TreeNext
<1>1. P \in SUBSET Seq(Names)
  BY BatchesAssumption, PathsAssumption
<1>2. CASE \E p \in P : IsZonePath(db, p)
  <2>1. PICK p \in P, q \in P : RemoveEach(p, q, recursive, force)
    BY <1>2 DEF remove_many
  <2>2. PICK d \in RemoveRound(db, p, recursive, force) :
          \E e \in RemoveRound(d, q, recursive, force) : Commit(e)
    BY <2>1 DEF RemoveEach
  <2>3. PICK e \in RemoveRound(d, q, recursive, force) : Commit(e)
    BY <2>2
  <2>4. p \in Seq(Names) /\ q \in Seq(Names)
    BY <1>1
  <2>5. Good(d) /\ IsTreeOf(d)
    BY <2>4, RemoveRoundTree
  <2>6. IsTreeOf(e)
    BY <2>4, <2>5, RemoveRoundTree
  <2> QED
    BY <2>3, <2>6, CommitTree DEF TreeNext
<1>3. CASE ~ \E p \in P : IsZonePath(db, p)
  <2>1. RemoveExact(P, recursive, force)
    BY <1>3 DEF remove_many
  <2> QED
    BY <1>1, <1>3, <2>1, RemoveExactTree
<1> QED
  BY <1>2, <1>3


LEMMA DeletedEntries ==
  ASSUME NEW d, Good(d), NEW S, S \subseteq DOMAIN d.entries, NEW c, c = DeleteEntries(d, S)
  PROVE  /\ Good(c) /\ SamePlaces(d.zones, c.zones) /\ DOMAIN c.entries = DOMAIN d.entries \ S
         /\ \A i \in DOMAIN c.entries : c.entries[i] = d.entries[i]
<1>1. Good(c)
  BY DeleteGood
<1>2. SamePlaces(d.zones, c.zones)
  BY DeleteLeaves
<1>3. c.entries = [i \in DOMAIN d.entries \ S |-> d.entries[i]]
  BY DeleteLeaves
<1> QED
  BY <1>1, <1>2, <1>3

\* What is deleted to make place for a node that moves is no directory.
LEMMA ClearedTree ==
  ASSUME NEW d, Good(d), IsTreeOf(d), NEW p \in Seq(Names), ParentIsDir(d, p),
         KindOf(d, p) # None, KindOf(d, p) # Dir,
         NEW c, c = DeleteEntries(d, EntriesFor(d, p))
  PROVE  /\ Good(c) /\ IsTreeOf(c) /\ SamePlaces(d.zones, c.zones)
         /\ KindOf(c, p) = None /\ ParentIsDir(c, p)
<1> DEFINE S == EntriesFor(d, p)
<1>1. ZonesOver(d, p) # {}
  BY DirIsOver
<1>2. S \subseteq DOMAIN d.entries
  BY DEF EntriesFor, EntriesAt
<1>3. ASSUME NEW j \in S PROVE d.entries[j].kind # Dir
  <2>1. AbsolutePath(d, j) = p
    <3>1. p = d.zones[LocateZone(d, p)].path \o RelativePath(d, p)
      BY <1>1, LookupIs
    <3> QED
      BY <3>1 DEF AbsolutePath, EntriesFor, EntriesAt, RelativePath
  <2> QED
    BY <1>2, <2>1, Resolves
<1>4. /\ Good(c) /\ SamePlaces(d.zones, c.zones) /\ DOMAIN c.entries = DOMAIN d.entries \ S
      /\ \A i \in DOMAIN c.entries : c.entries[i] = d.entries[i]
  <2>1. c = DeleteEntries(d, S)
    OBVIOUS
  <2> HIDE DEF S
  <2> QED
    BY <1>2, <2>1, DeletedEntries
<1>5. ~IsZonePath(d, p)
  BY <1>1 DEF KindOf
<1>6. \A i \in DOMAIN d.entries : AbsolutePath(d, i) = p => i \in S
  BY Resolves
<1> HIDE DEF S
<1>7. DOMAIN c.entries = DOMAIN d.entries \ S /\ \A i \in DOMAIN c.entries : c.entries[i] = d.entries[i]
  BY <1>4
<1>8. ASSUME NEW z, NEW r, DirAt(d, z, r) PROVE DirAt(c, z, r)
  BY <1>3, <1>7, <1>8 DEF DirAt, EntriesAt
<1>9. IsTreeOf(c)
  <2>1. Within(c, d)
    BY <1>4, <1>7 DEF Within, SamePlaces
  <2>2. \A i \in DOMAIN c.entries : DirAt(c, c.entries[i].zone, c.entries[i].dir)
    BY <1>7, <1>8 DEF IsTreeOf, Rooted
  <2>3. \A y \in DOMAIN c.zones : c.zones[y].path # <<>> =>
            c.zones[y].parent \in DOMAIN c.zones /\ DirAt(c, c.zones[y].parent, c.zones[y].dir)
    BY <1>4, <1>8 DEF IsTreeOf, AllAttached, Attached, SamePlaces
  <2> QED
    BY <1>4, <2>1, <2>2, <2>3, CutTree
<1>10. KindOf(c, p) = None
  <2>1. SUFFICES ASSUME KindOf(c, p) # None PROVE FALSE
    OBVIOUS
  <2>2. IsNode(c, p)
    BY <1>4, <2>1, FoundIsNode
  <2>3. ~IsZonePath(c, p)
    BY <1>4, <1>5 DEF IsZonePath, SamePlaces
  <2>4. PICK i \in DOMAIN c.entries : AbsolutePath(c, i) = p
    BY <2>2, <2>3 DEF IsNode
  <2>5. AbsolutePath(d, i) = p
    <3>1. i \in DOMAIN d.entries /\ d.entries[i].zone \in DOMAIN d.zones
      BY <1>7, EntryParts
    <3> QED
      BY <1>4, <1>7, <2>4, <3>1 DEF AbsolutePath, SamePlaces
  <2> QED
    BY <1>6, <1>7, <2>5
<1>11. ParentIsDir(c, p)
  <2> DEFINE f == Front(p)
             z == LocateZone(d, f)
             r == RelativePath(d, f)
  <2>1. p # <<>> /\ f \in Seq(Names) /\ KindOf(d, f) = Dir
    BY SplitPath DEF ParentIsDir
  <2>2. ZonesOver(d, f) # {} /\ DirAt(d, z, r)
    BY <2>1, DirLocated
  <2>3. z \in DOMAIN d.zones /\ r \in Seq(Names) /\ f = d.zones[z].path \o r
    BY <2>1, <2>2, LookupIs
  <2> HIDE DEF f, z, r
  <2>4. z \in DOMAIN c.zones /\ f = c.zones[z].path \o r /\ DirAt(c, z, r)
    BY <1>4, <1>8, <2>2, <2>3 DEF SamePlaces
  <2>5. KindOf(c, f) = Dir
    BY <1>4, <1>9, <2>3, <2>4, DirAtKind
  <2> QED
    BY <2>1, <2>5 DEF ParentIsDir, f
<1> QED
  BY <1>4, <1>9, <1>10, <1>11

\* A destination does not lie at or below the source.
Apart(src, dst) == src # <<>> /\ ~IsPrefix(src, dst)

LEMMA MoveEntryTree ==
  ASSUME PlainPaths, NEW d, Good(d), IsTreeOf(d), NEW src \in Seq(Names), NEW dst \in Seq(Names),
         Apart(src, dst), ParentIsDir(d, dst), KindOf(d, dst) = None,
         ZonesOver(d, src) # {}, RelativePath(d, src) # <<>>, ZonesLike(d, src) = {},
         NEW c, c = MoveEntry(d, src, dst), Distinct(c)
  PROVE  IsTreeOf(c)
<1> DEFINE source == RelativePath(d, src)
           z == LocateZone(d, src)
           t == d.zones[z].path
           u == LocateZone(d, Front(dst))
           dir == RelativePath(d, Front(dst))
           moved == {i \in EntriesOf(d, {z}) : LikeWithin(source, d.entries[i].rel)}
           row(i) == [Rebase(d, dst, source, d.entries[i]) EXCEPT
                        !.gen = Bump(Rebase(d, dst, source, d.entries[i]).gen)]
           rows == [i \in moved |-> row(i)]
           ids == [i \in moved |-> i]
<1>1. c = UpdateEntries(d, rows)
  BY Zenon DEF MoveEntry
<1>2. /\ z \in DOMAIN d.zones /\ t \in Seq(Names) /\ source \in Seq(Names) /\ src = t \o source
      /\ source # <<>>
  BY LookupIs
<1>3. dst # <<>> /\ ZonesOver(d, Front(dst)) # {}
  BY ParentParts
<1>4. /\ u \in DOMAIN d.zones /\ dir \in Seq(Names) /\ Front(dst) = d.zones[u].path \o dir
      /\ Front(dst) \in Seq(Names) /\ src # <<>>
  BY <1>3, NewPlace DEF Apart
<1> HIDE DEF source, z, t, u, dir
<1>5. \A i : i \in moved <=> /\ i \in DOMAIN d.entries /\ d.entries[i].zone = z
                             /\ IsPrefix(source, d.entries[i].rel)
  BY <1>2, LikePrefix, EntryParts DEF EntriesOf
<1>6. \A i \in moved : Rebased(d, dst, source, d.entries[i], row(i))
  <2>1. ASSUME NEW i \in moved
        PROVE  Rebased(d, dst, source, d.entries[i], row(i))
    <3>1. d.entries[i] \in EntryRows
      BY <1>5 DEF Good, GoodEntries, GoodRow
    <3> QED
      BY <3>1, RebaseIs
  <2> QED
    BY <2>1
<1> HIDE DEF row, moved
<1>7. DOMAIN rows = moved /\ \A i \in moved : rows[i] = row(i)
  OBVIOUS
<1>8. \A i \in moved : ids[i] = i
  OBVIOUS
<1> HIDE DEF rows, ids
<1>9. Holds(c.entries, rows, d.entries) /\ SamePlaces(d.zones, c.zones)
  BY <1>1, UpdateLeaves, StoreHolds
<1>10. Rebases(d, dst, source, z, moved, ids, c)
  <2>1. \A i \in moved : ids[i] \in DOMAIN c.entries /\ c.entries[ids[i]] = row(i)
    BY <1>7, <1>8, <1>9 DEF Holds
  <2>2. ASSUME NEW i \in moved, NEW j \in DOMAIN d.entries, d.entries[i].rel # source,
               d.entries[j].zone = z, d.entries[j].rel = d.entries[i].dir
        PROVE  j \in moved
    <3>1. /\ d.entries[i].rel \in Seq(Names) /\ Front(d.entries[i].rel) = d.entries[j].rel
          /\ IsPrefix(source, d.entries[i].rel)
      BY <1>5, <2>2, EntryParts
    <3>2. IsPrefix(source, Front(d.entries[i].rel))
      BY <1>2, <2>2, <3>1, RemainderFront
    <3> QED
      BY <1>5, <2>2, <3>1, <3>2
  <2> QED
    BY <1>5, <1>6, <2>1, <2>2 DEF Rebases
\* A directory that does not move is still there.
<1>11. ASSUME NEW v, NEW r, DirAt(d, v, r), ~(v = z /\ IsPrefix(source, r))
       PROVE  DirAt(c, v, r)
  <2>1. CASE r = <<>>
    BY <2>1 DEF DirAt
  <2>2. CASE r # <<>>
    <3>1. PICK j \in DOMAIN d.entries : /\ d.entries[j].zone = v /\ d.entries[j].rel = r
                                        /\ d.entries[j].kind = Dir
      BY <1>11, <2>2 DEF DirAt, EntriesAt
    <3>2. j \notin moved
      BY <1>5, <1>11, <3>1
    <3>3. j \in DOMAIN c.entries /\ c.entries[j] = d.entries[j]
      BY <1>7, <1>9, <3>2 DEF Holds
    <3>4. j \in EntriesAt(c, v, r)
      BY <3>1, <3>3 DEF EntriesAt
    <3> QED
      BY <3>1, <3>3, <3>4 DEF DirAt
  <2> QED
    BY <2>1, <2>2
<1>12. DirAt(c, u, dir)
  <2>1. DirAt(d, u, dir)
    BY ParentPlace DEF u, dir
  <2>2. ~(u = z /\ IsPrefix(source, dir))
    <3>1. SUFFICES ASSUME u = z, IsPrefix(source, dir) PROVE FALSE
      OBVIOUS
    <3>2. IsPrefix(t \o source, t \o dir)
      BY <1>2, <1>4, <3>1, PrefixUnder
    <3>3. Front(dst) = t \o dir
      BY <1>4, <3>1 DEF t
    <3>4. IsPrefix(src, Front(dst))
      BY <1>2, <3>2, <3>3
    <3>5. IsPrefix(src, dst)
      BY <1>3, <3>4, PrefixFront
    <3> QED
      BY <3>5 DEF Apart
  <2> QED
    BY <1>11, <2>1, <2>2
<1>13. \A i \in DOMAIN rows : Placed(d, c, rows[i])
  <2>1. ASSUME NEW i \in moved PROVE Placed(d, c, rows[i])
    <3>1. Placed(d, c, c.entries[ids[i]])
      BY <1>2, <1>3, <1>10, <1>12, RebasedPlaced DEF u, dir
    <3> QED
      BY <1>7, <1>8, <1>9, <3>1 DEF Holds
  <2> QED
    BY <1>7, <2>1
<1>14. ASSUME NEW i \in DOMAIN d.entries \ DOMAIN rows
       PROVE  DirAt(c, d.entries[i].zone, d.entries[i].dir)
  <2> DEFINE e == d.entries[i]
  <2>1. e.rel \in Seq(Names) /\ e.rel # <<>> /\ Front(e.rel) = e.dir
    BY EntryParts
  <2>2. DirAt(d, e.zone, e.dir)
    BY DEF IsTreeOf, Rooted
  <2>3. ~(e.zone = z /\ IsPrefix(source, e.dir))
    <3>1. IsPrefix(source, Front(e.rel)) => IsPrefix(source, e.rel)
      BY <1>2, <2>1, PrefixFront
    <3> QED
      BY <1>5, <1>7, <2>1, <3>1
  <2> QED
    BY <1>11, <2>2, <2>3
<1>15. ASSUME NEW y \in DOMAIN d.zones, d.zones[y].path # <<>>
       PROVE  DirAt(c, d.zones[y].parent, d.zones[y].dir)
  <2> DEFINE v == d.zones[y].parent
             r == d.zones[y].dir
             n == d.zones[y].name
             q == d.zones[y].path
             w == d.zones[v].path
  <2>1. Attached(d, y)
    BY <1>15 DEF IsTreeOf, AllAttached
  <2>2. /\ v \in DOMAIN d.zones /\ r \in Seq(Names) /\ n \in Names /\ q = w \o Append(r, n)
        /\ DirAt(d, v, r)
    BY <2>1 DEF Attached
  <2>3. q \in Seq(Names) /\ w \in Seq(Names) /\ q # <<>>
    BY <1>15, <2>2, ZoneParts
  <2> HIDE DEF v, r, n, q, w
  <2>4. Append(r, n) \in Seq(Names) /\ Append(r, n) # <<>> /\ Front(Append(r, n)) = r
    BY <2>2, AppendProperties, SplitAppend
  <2>5. Front(q) = w \o r
    <3>1. Front(w \o Append(r, n)) = w \o Front(Append(r, n))
      BY <2>3, <2>4, SplitConcat
    <3> QED
      BY <2>2, <2>4, <3>1
  <2>6. ~(v = z /\ IsPrefix(source, r))
    <3>1. SUFFICES ASSUME v = z, IsPrefix(source, r) PROVE FALSE
      OBVIOUS
    <3>2. IsPrefix(t \o source, t \o r)
      BY <1>2, <2>2, <3>1, PrefixUnder
    <3>3. w = t
      BY <3>1 DEF w, t
    <3>4. IsPrefix(src, Front(q))
      BY <1>2, <2>5, <3>2, <3>3
    <3>5. IsPrefix(src, q) /\ Len(src) < Len(q) /\ Len(src) \in Nat
      BY <2>3, <3>4, PrefixFront
    <3>6. LikeBelow(src, q)
      BY <1>4, <2>3, <3>5, LikePrefix
    <3> QED
      BY <3>6 DEF ZonesLike, q
  <2>7. DirAt(c, v, r)
    BY <1>11, <2>2, <2>6
  <2> QED
    BY <2>7 DEF v, r
<1> QED
  BY <1>9, <1>13, <1>14, <1>15, StoreTree


\* What the move of a zone does to the zones.
ZonesMoved(d, src, dst, top, c) ==
    /\ c.entries = d.entries /\ DOMAIN c.zones = DOMAIN d.zones
    /\ \A z \in DOMAIN d.zones :
        /\ IsPrefix(src, d.zones[z].path) =>
              c.zones[z].path = dst \o Remainder(src, d.zones[z].path)
        /\ ~IsPrefix(src, d.zones[z].path) => c.zones[z].path = d.zones[z].path
        /\ z # top => /\ c.zones[z].parent = d.zones[z].parent /\ c.zones[z].dir = d.zones[z].dir
                      /\ c.zones[z].name = d.zones[z].name
    /\ c.zones[top].parent = LocateZone(d, Front(dst))
    /\ c.zones[top].dir = RelativePath(d, Front(dst))
    /\ c.zones[top].name = Last(dst)

LEMMA MoveZoneIs ==
  ASSUME PlainPaths, NEW d, Good(d), Distinct(d), NEW src \in Seq(Names), NEW dst \in Seq(Names),
         src # <<>>, ZonesOver(d, src) # {}, RelativePath(d, src) = <<>>,
         NEW c, c = MoveZone(d, src, dst)
  PROVE  /\ LocateZone(d, src) \in DOMAIN d.zones /\ d.zones[LocateZone(d, src)].path = src
         /\ ZonesMoved(d, src, dst, LocateZone(d, src), c)
<1> DEFINE top == LocateZone(d, src)
           moved == ZonesLike(d, src) \cup {top}
           u == LocateZone(d, Front(dst))
           dir == RelativePath(d, Front(dst))
           place(z) == [d.zones[z] EXCEPT !.path = dst \o Remainder(src, d.zones[z].path)]
           first == [place(top) EXCEPT !.parent = u, !.dir = dir,
                                       !.name = Last(dst), !.gen = Bump(place(top).gen)]
           zs == [z \in DOMAIN d.zones |->
                    IF z = top THEN first ELSE IF z \in moved THEN place(z) ELSE d.zones[z]]
<1>1. c = [d EXCEPT !.zones = zs]
  BY Zenon DEF MoveZone
<1>2. top \in DOMAIN d.zones /\ d.zones[top].path = src
  BY LocatedParts
<1> HIDE DEF top, u, dir
<1>3. ASSUME NEW z \in DOMAIN d.zones
      PROVE  z \in moved <=> IsPrefix(src, d.zones[z].path)
  <2> DEFINE q == d.zones[z].path
  <2>1. q \in Seq(Names)
    BY ZoneParts
  <2>2. z \in ZonesLike(d, src) <=> IsPrefix(src, q) /\ q # src
    BY <2>1, LikePrefix DEF ZonesLike
  <2>3. q = src => z = top
    BY <1>2 DEF Distinct
  <2>4. IsPrefix(src, src)
    BY PrefixSelf
  <2> QED
    BY <1>2, <2>2, <2>3, <2>4
<1> HIDE DEF moved
<1>4. ASSUME NEW z \in DOMAIN d.zones
      PROVE  /\ DOMAIN place(z) = ZoneColumns
             /\ place(z).path = dst \o Remainder(src, d.zones[z].path)
             /\ place(z).parent = d.zones[z].parent /\ place(z).dir = d.zones[z].dir
             /\ place(z).name = d.zones[z].name
  <2> DEFINE q == dst \o Remainder(src, d.zones[z].path)
  <2>1. DOMAIN d.zones[z] = ZoneColumns
    BY DEF Good, GoodZones, IsZoneRow
  <2>2. place(z) = [d.zones[z] EXCEPT !.path = q]
    BY DEF place
  <2> HIDE DEF q, place
  <2> QED
    BY <2>1, <2>2 DEF ZoneColumns, q
<1> HIDE DEF place
<1>5. /\ first.path = place(top).path /\ first.parent = u /\ first.dir = dir /\ first.name = Last(dst)
  <2>1. DOMAIN place(top) = ZoneColumns
    BY <1>2, <1>4
  <2> QED
    BY <2>1 DEF ZoneColumns
<1> HIDE DEF first
<1>6. /\ DOMAIN zs = DOMAIN d.zones /\ zs[top] = first
      /\ \A z \in DOMAIN d.zones : z # top => zs[z] = IF z \in moved THEN place(z) ELSE d.zones[z]
  BY <1>2
<1> HIDE DEF zs
<1>7. c.entries = d.entries /\ c.zones = zs
  BY <1>1, WithZones DEF Good
<1>8. top \in moved
  BY DEF moved
<1>9. ASSUME NEW z \in DOMAIN d.zones
      PROVE  /\ z \in moved => zs[z].path = dst \o Remainder(src, d.zones[z].path)
             /\ z \notin moved => zs[z].path = d.zones[z].path
             /\ z # top => /\ zs[z].parent = d.zones[z].parent /\ zs[z].dir = d.zones[z].dir
                           /\ zs[z].name = d.zones[z].name
  <2>1. CASE z = top
    BY <1>4, <1>5, <1>6, <1>8, <2>1
  <2>2. CASE z # top
    BY <1>4, <1>6, <2>2
  <2> QED
    BY <2>1, <2>2
<1>10. ZonesMoved(d, src, dst, top, c)
  <2>1. zs[top].parent = u /\ zs[top].dir = dir /\ zs[top].name = Last(dst)
    BY <1>5, <1>6
  <2> QED
    BY <1>3, <1>6, <1>7, <1>9, <2>1 DEF ZonesMoved, u, dir
<1> QED
  BY <1>2, <1>10 DEF top

\* A zone at or below the source hangs below it, or is the source.
LEMMA MovedParent ==
  ASSUME NEW d, Good(d), IsTreeOf(d), NEW src \in Seq(Names), src # <<>>,
         NEW top \in DOMAIN d.zones, d.zones[top].path = src,
         NEW y \in DOMAIN d.zones, y # top, IsPrefix(src, d.zones[y].path)
  PROVE  IsPrefix(src, d.zones[d.zones[y].parent].path)
<1> DEFINE u == d.zones[y].parent
           r == d.zones[y].dir
           n == d.zones[y].name
           q == d.zones[y].path
           w == d.zones[u].path
<1>1. q \in Seq(Names) /\ q # src
  BY ZoneParts DEF IsTreeOf, Distinct
<1>2. q # <<>>
  <2>1. SUFFICES ASSUME q = <<>> PROVE FALSE
    OBVIOUS
  <2>2. Len(src) =< Len(<<>>)
    BY <1>1, <2>1, PrefixNames
  <2>3. Len(src) \in Nat /\ Len(<<>>) = 0
    BY LenProperties, EmptySeq
  <2> QED
    BY <2>2, <2>3, EmptySeq
<1>3. Attached(d, y)
  BY <1>2 DEF IsTreeOf, AllAttached
<1>4. /\ u \in DOMAIN d.zones /\ r \in Seq(Names) /\ n \in Names /\ q = w \o Append(r, n)
      /\ DirAt(d, u, r)
  BY <1>3 DEF Attached
<1>5. w \in Seq(Names)
  BY <1>4, ZoneParts
<1>6. IsPrefix(src, q)
  OBVIOUS
<1> HIDE DEF r, n, q, w, u
<1>7. Append(r, n) \in Seq(Names) /\ Append(r, n) # <<>> /\ Front(Append(r, n)) = r
  BY <1>4, AppendProperties, SplitAppend
<1>8. Front(q) = w \o r
  <2>1. Front(w \o Append(r, n)) = w \o Front(Append(r, n))
    BY <1>5, <1>7, SplitConcat
  <2> QED
    BY <1>4, <1>7, <2>1
<1>9. IsPrefix(src, w \o r)
  BY <1>1, <1>2, <1>6, <1>8, PrefixFront
<1>10. /\ w \o r \in Seq(Names) /\ IsPrefix(w, w \o r) /\ Len(w) \in Nat /\ Len(w \o r) = Len(w) + Len(r)
       /\ Len(r) \in Nat
  BY <1>4, <1>5, PrefixConcat
<1>11. CASE Len(src) =< Len(w)
  <2>1. IsPrefix(src, w)
    BY <1>5, <1>9, <1>10, <1>11, PrefixOfPrefix
  <2> QED
    BY <2>1 DEF w, u
<1>12. CASE ~(Len(src) =< Len(w))
  <2>1. r # <<>>
    <3>1. SUFFICES ASSUME r = <<>> PROVE FALSE
      OBVIOUS
    <3>2. Len(r) = 0
      BY <3>1
    <3>3. Len(src) =< Len(w \o r)
      BY <1>9, <1>10, PrefixNames
    <3> QED
      BY <1>10, <1>12, <3>2, <3>3
  <2>2. PICK j \in DOMAIN d.entries : /\ d.entries[j].zone = u /\ d.entries[j].rel = r
                                      /\ d.entries[j].kind = Dir
    BY <1>4, <2>1 DEF DirAt, EntriesAt
  <2>3. AbsolutePath(d, j) = w \o r
    BY <2>2 DEF AbsolutePath, w
  <2>4. ClearOf(d, w \o r, w)
    BY <2>2, <2>3 DEF IsTreeOf, Unshadowed, w
  <2> QED
    BY <1>9, <1>12, <2>4 DEF ClearOf
<1> QED
  BY <1>11, <1>12


\* The move of a zone keeps the tree: all that is below the source goes along,
\* and nothing is below the destination.
LEMMA MoveZoneTree ==
  ASSUME PlainPaths, NEW d, Good(d), IsTreeOf(d), NEW src \in Seq(Names), NEW dst \in Seq(Names),
         Apart(src, dst), ParentIsDir(d, dst), KindOf(d, dst) = None,
         ZonesOver(d, src) # {}, RelativePath(d, src) = <<>>,
         NEW c, c = MoveZone(d, src, dst), Distinct(c)
  PROVE  IsTreeOf(c)
<1> DEFINE top == LocateZone(d, src)
           u0 == LocateZone(d, Front(dst))
           r0 == RelativePath(d, Front(dst))
           Moves(z) == IsPrefix(src, d.zones[z].path)
           rest(z) == Remainder(src, d.zones[z].path)
<1>1. /\ top \in DOMAIN d.zones /\ d.zones[top].path = src /\ ZonesMoved(d, src, dst, top, c)
  BY MoveZoneIs DEF IsTreeOf, Apart
<1>2. dst # <<>> /\ ZonesOver(d, Front(dst)) # {} /\ src # <<>>
  BY ParentParts DEF Apart
<1>3. /\ u0 \in DOMAIN d.zones /\ d.zones[u0].path \in Seq(Names) /\ r0 \in Seq(Names)
      /\ Front(dst) \in Seq(Names) /\ Last(dst) \in Names
      /\ Front(dst) = d.zones[u0].path \o r0 /\ dst = d.zones[u0].path \o Append(r0, Last(dst))
  BY <1>2, NewPlace
<1>4. DirAt(d, u0, r0)
  BY ParentPlace
<1>5. rest(top) = <<>>
  BY <1>1 DEF RelativePath
<1>6. /\ c.entries = d.entries /\ DOMAIN c.zones = DOMAIN d.zones
      /\ c.zones[top].parent = u0 /\ c.zones[top].dir = r0 /\ c.zones[top].name = Last(dst)
  BY <1>1 DEF ZonesMoved
<1> HIDE DEF top, u0, r0
<1>7. ASSUME NEW z \in DOMAIN d.zones, Moves(z)
      PROVE  /\ c.zones[z].path = dst \o rest(z) /\ rest(z) \in Seq(Names)
             /\ d.zones[z].path = src \o rest(z)
  <2>1. d.zones[z].path \in Seq(Names)
    BY ZoneParts
  <2> QED
    BY <1>1, <1>7, <2>1, PrefixSplit DEF ZonesMoved
<1>8. ASSUME NEW z \in DOMAIN d.zones, ~Moves(z)
      PROVE  c.zones[z].path = d.zones[z].path
  BY <1>1, <1>8 DEF ZonesMoved
<1>9. ASSUME NEW z \in DOMAIN d.zones, z # top
      PROVE  /\ c.zones[z].parent = d.zones[z].parent /\ c.zones[z].dir = d.zones[z].dir
             /\ c.zones[z].name = d.zones[z].name
  BY <1>1, <1>9 DEF ZonesMoved
<1>10. \A z \in DOMAIN d.zones : d.zones[z].path \in Seq(Names)
  BY ZoneParts
<1> HIDE DEF rest
<1>11. \A z, r : DirAt(c, z, r) <=> DirAt(d, z, r)
  BY <1>6 DEF DirAt, EntriesAt
<1>12. Rooted(c)
  BY <1>6, <1>11 DEF IsTreeOf, Rooted
<1>13. ~Moves(u0)
  <2>1. SUFFICES ASSUME Moves(u0) PROVE FALSE
    OBVIOUS
  <2>2. IsPrefix(d.zones[u0].path, Front(dst))
    BY <1>3, PrefixConcat
  <2>3. IsPrefix(src, Front(dst))
    BY <1>3, <2>1, <2>2, PrefixTrans
  <2>4. IsPrefix(src, dst)
    BY <1>2, <2>3, PrefixFront
  <2> QED
    BY <2>4 DEF Apart
<1>14. ASSUME NEW y \in DOMAIN c.zones, c.zones[y].path # <<>>
       PROVE  Attached(c, y)
  <2> DEFINE u == d.zones[y].parent
             r == d.zones[y].dir
             n == d.zones[y].name
             s == Append(r, n)
  <2>1. CASE y = top
    <3>1. Moves(top)
      BY <1>1, PrefixSelf
    <3>2. c.zones[top].path = dst \o <<>>
      BY <1>1, <1>5, <1>7, <3>1
    <3>3. dst \o <<>> = dst
      BY ConcatEmptySeq
    <3>4. c.zones[u0].path = d.zones[u0].path
      BY <1>3, <1>8, <1>13
    <3>5. DirAt(c, u0, r0)
      BY <1>4, <1>11
    <3> QED
      BY <1>3, <1>6, <2>1, <3>2, <3>3, <3>4, <3>5 DEF Attached
  <2>2. CASE y # top
    <3>1. d.zones[y].path # <<>>
      <4>1. CASE ~Moves(y)
        BY <1>6, <1>8, <1>14, <4>1
      <4>2. CASE Moves(y)
        BY <1>1, <1>2, <1>6, <1>7, <4>2, ConcatEmptySeq, EmptySeq, SameConcat, PrefixConcat
      <4> QED
        BY <4>1, <4>2
    <3>2. Attached(d, y)
      BY <1>6, <3>1 DEF IsTreeOf, AllAttached
    <3>3. /\ u \in DOMAIN d.zones /\ r \in Seq(Names) /\ n \in Names
          /\ d.zones[y].path = d.zones[u].path \o s /\ DirAt(d, u, r)
      BY <3>2 DEF Attached
    <3>4. s \in Seq(Names)
      <4> HIDE DEF r, n
      <4> QED
        BY <3>3, AppendProperties
    <3>5. d.zones[u].path \in Seq(Names) /\ d.zones[y].path \in Seq(Names)
      BY <1>6, <1>10, <3>3
    <3>6. c.zones[y].path = c.zones[u].path \o s
      <4>1. CASE Moves(y)
        <5>1. Moves(u)
          BY <1>1, <1>2, <1>6, <2>2, <4>1, MovedParent
        <5> HIDE DEF u, s
        <5>2. /\ c.zones[u].path = dst \o rest(u) /\ rest(u) \in Seq(Names)
              /\ d.zones[u].path = src \o rest(u)
          BY <1>7, <3>3, <5>1
        <5>3. /\ c.zones[y].path = dst \o rest(y) /\ rest(y) \in Seq(Names)
              /\ d.zones[y].path = src \o rest(y)
          BY <1>6, <1>7, <4>1
        <5>4. (src \o rest(u)) \o s = src \o (rest(u) \o s)
          <6>1. Assoc(src, rest(u), s)
            BY <3>4, <5>2, Regroup
          <6> QED
            BY <6>1 DEF Assoc
        <5>5. rest(u) \o s \in Seq(Names)
          BY <3>4, <5>2, ConcatProperties
        <5>6. rest(y) = rest(u) \o s
          <6>1. src \o rest(y) = src \o (rest(u) \o s)
            BY <3>3, <5>2, <5>3, <5>4
          <6> QED
            BY <5>3, <5>5, <6>1, SameConcat
        <5>7. (dst \o rest(u)) \o s = dst \o (rest(u) \o s)
          <6>1. Assoc(dst, rest(u), s)
            BY <3>4, <5>2, Regroup
          <6> QED
            BY <6>1 DEF Assoc
        <5> QED
          BY <5>2, <5>3, <5>6, <5>7
      <4>2. CASE ~Moves(y)
        <5>1. ~Moves(u)
          <6>1. IsPrefix(d.zones[u].path, d.zones[y].path)
            BY <3>3, <3>4, <3>5, PrefixConcat
          <6> QED
            BY <3>5, <4>2, <6>1, PrefixTrans
        <5> QED
          BY <1>6, <1>8, <3>3, <4>2, <5>1
      <4> QED
        BY <4>1, <4>2
    <3>7. c.zones[y].parent = u /\ c.zones[y].dir = r /\ c.zones[y].name = n
      BY <1>6, <1>9, <2>2
    <3> QED
      BY <1>6, <1>11, <3>3, <3>6, <3>7 DEF Attached
  <2> QED
    BY <2>1, <2>2
<1>15. ASSUME NEW i \in DOMAIN d.entries, NEW y \in DOMAIN d.zones,
              IsPrefix(c.zones[y].path, AbsolutePath(c, i))
       PROVE  Len(c.zones[y].path) =< Len(c.zones[d.entries[i].zone].path)
  <2> DEFINE z == d.entries[i].zone
             rel == d.entries[i].rel
  <2>1. z \in DOMAIN d.zones /\ rel \in Seq(Names)
    BY EntryParts
  <2>2. AbsolutePath(d, i) = d.zones[z].path \o rel /\ AbsolutePath(c, i) = c.zones[z].path \o rel
    BY <1>6 DEF AbsolutePath
  <2>3. IsPrefix(d.zones[y].path, AbsolutePath(d, i)) => Len(d.zones[y].path) =< Len(d.zones[z].path)
    BY DEF IsTreeOf, Unshadowed, ClearOf
  <2>4. ~IsPrefix(dst, d.zones[y].path) /\ ~IsPrefix(dst, AbsolutePath(d, i))
    BY NothingBelow
  <2>5. d.zones[y].path \in Seq(Names) /\ d.zones[z].path \in Seq(Names)
    BY <1>10, <2>1
  <2> HIDE DEF z, rel
  <2>6. IsPrefix(c.zones[y].path, c.zones[z].path \o rel)
    BY <1>15, <2>2
  <2>7. CASE Moves(z)
    <3> DEFINE x == rest(z)
    <3>1. c.zones[z].path = dst \o x /\ x \in Seq(Names) /\ d.zones[z].path = src \o x
      BY <1>7, <2>1, <2>7
    <3> HIDE DEF x
    <3>2. (dst \o x) \o rel = dst \o (x \o rel) /\ (src \o x) \o rel = src \o (x \o rel)
      <4>1. Assoc(dst, x, rel) /\ Assoc(src, x, rel)
        BY <2>1, <3>1, Regroup
      <4> QED
        BY <4>1 DEF Assoc
    <3>3. x \o rel \in Seq(Names) /\ dst \o (x \o rel) \in Seq(Names)
          /\ Len(dst \o x) = Len(dst) + Len(x) /\ Len(src \o x) = Len(src) + Len(x)
          /\ Len(dst) \in Nat /\ Len(src) \in Nat /\ Len(x) \in Nat
      BY <2>1, <3>1, PrefixConcat
    <3>4. CASE Moves(y)
      <4> DEFINE v == rest(y)
      <4>1. c.zones[y].path = dst \o v /\ v \in Seq(Names) /\ d.zones[y].path = src \o v
        BY <1>7, <3>4
      <4> HIDE DEF v
      <4>2. IsPrefix(dst \o v, dst \o (x \o rel))
        BY <2>6, <3>1, <3>2, <4>1
      <4>3. IsPrefix(v, x \o rel)
        BY <3>3, <4>1, <4>2, PrefixUnder
      <4>4. IsPrefix(src \o v, src \o (x \o rel))
        BY <3>3, <4>1, <4>3, PrefixUnder
      <4>5. Len(src \o v) =< Len(src \o x)
        BY <2>2, <2>3, <3>1, <3>2, <4>1, <4>4
      <4>6. Len(dst \o v) = Len(dst) + Len(v) /\ Len(src \o v) = Len(src) + Len(v) /\ Len(v) \in Nat
        BY <4>1, PrefixConcat
      <4>7. Len(dst \o v) =< Len(dst \o x)
        BY <3>3, <4>5, <4>6
      <4> QED
        BY <3>1, <4>1, <4>7 DEF z
    <3>5. CASE ~Moves(y)
      <4> DEFINE w == d.zones[y].path
      <4>1. c.zones[y].path = w
        BY <1>8, <3>5
      <4>2. w \in Seq(Names) /\ ~IsPrefix(dst, w) /\ Len(w) \in Nat
        BY <2>4, <2>5, LenProperties
      <4> HIDE DEF w
      <4>3. IsPrefix(w, dst \o (x \o rel)) /\ IsPrefix(dst, dst \o (x \o rel))
        BY <2>6, <3>1, <3>2, <3>3, <4>1, PrefixConcat
      <4>4. ~(Len(dst) =< Len(w))
        BY <3>3, <4>2, <4>3, PrefixOfPrefix
      <4>5. Len(w) =< Len(dst \o x)
        BY <3>3, <4>2, <4>4
      <4> QED
        BY <3>1, <4>1, <4>5 DEF z
    <3> QED
      BY <3>4, <3>5
  <2>8. CASE ~Moves(z)
    <3>1. c.zones[z].path = d.zones[z].path
      BY <1>8, <2>1, <2>8
    <3>2. IsPrefix(c.zones[y].path, AbsolutePath(d, i))
      BY <2>2, <2>6, <3>1
    <3>3. CASE Moves(y)
      <4> DEFINE v == rest(y)
                 a == AbsolutePath(d, i)
      <4>1. c.zones[y].path = dst \o v /\ v \in Seq(Names)
        BY <1>7, <3>3
      <4>2. a \in Seq(Names)
        BY AbsoluteParts
      <4> HIDE DEF v, a
      <4>3. IsPrefix(dst, dst \o v) /\ dst \o v \in Seq(Names)
        BY <4>1, PrefixConcat
      <4>4. IsPrefix(dst, a)
        BY <3>2, <4>1, <4>2, <4>3, PrefixTrans DEF a
      <4> QED
        BY <2>4, <4>4 DEF a
    <3>4. CASE ~Moves(y)
      BY <1>8, <2>3, <3>1, <3>2, <3>4 DEF z
    <3> QED
      BY <3>3, <3>4
  <2> QED
    BY <2>7, <2>8
<1>16. Unshadowed(c)
  BY <1>6, <1>15 DEF Unshadowed, ClearOf
<1>17. RootAlone(c)
  <2>1. ASSUME NEW y \in DOMAIN c.zones, c.zones[y].path = <<>>
        PROVE  c.zones[y].parent = None
    <3>1. ~Moves(y)
      <4>1. SUFFICES ASSUME Moves(y) PROVE FALSE
        OBVIOUS
      <4>2. dst \o rest(y) = <<>> /\ rest(y) \in Seq(Names)
        BY <1>6, <1>7, <2>1, <4>1
      <4> QED
        BY <1>2, <4>2, ConcatSimplifications
    <3>2. d.zones[y].path = <<>> /\ y # top
      BY <1>1, <1>2, <1>6, <1>8, <2>1, <3>1
    <3> QED
      BY <1>6, <1>9, <3>2 DEF IsTreeOf, RootAlone
  <2> QED
    BY <2>1 DEF RootAlone
<1> QED
  BY <1>12, <1>14, <1>16, <1>17 DEF IsTreeOf, AllAttached

LEMMA moveTree ==
  ASSUME PlainPaths, Good(db), IsTreeOf(db), NEW src \in Paths, NEW dst \in Paths, move(src, dst)
  PROVE  TreeNext
<1> DEFINE cleared == IF KindOf(db, dst) = None THEN db
                      ELSE DeleteEntries(db, EntriesFor(db, dst))
<1>1. /\ CanPlace(db, src, dst) /\ KindOf(db, src) # None /\ KindOf(db, dst) # Dir
      /\ IF RelativePath(cleared, src) = <<>>
         THEN Commit(MoveZone(cleared, src, dst))
         ELSE /\ ZonesLike(cleared, src) = {}
              /\ Commit(MoveEntry(cleared, src, dst))
  BY Zenon DEF move
<1>2. src \in Seq(Names) /\ dst \in Seq(Names)
  BY PathParts
<1>3. /\ src # <<>> /\ dst # <<>> /\ ParentIsDir(db, dst) /\ ~LikeWithin(src, dst)
      /\ ZonesOver(db, src) # {}
  BY <1>1, <1>2, DirIsOver, ParentParts DEF CanPlace
<1>4. Apart(src, dst)
  BY <1>2, <1>3, LikePrefix DEF Apart
<1>5. /\ Good(cleared) /\ IsTreeOf(cleared) /\ SamePlaces(db.zones, cleared.zones)
      /\ KindOf(cleared, dst) = None /\ ParentIsDir(cleared, dst)
  <2>1. CASE KindOf(db, dst) = None
    BY <1>3, <2>1 DEF SamePlaces
  <2>2. CASE KindOf(db, dst) # None
    <3>1. cleared = DeleteEntries(db, EntriesFor(db, dst))
      BY <2>2
    <3> HIDE DEF cleared
    <3> QED
      BY <1>1, <1>2, <1>3, <2>2, <3>1, ClearedTree
  <2> QED
    BY <2>1, <2>2
<1> HIDE DEF cleared
<1>6. ZonesOver(cleared, src) # {}
  BY <1>3, <1>5 DEF ZonesOver, SamePlaces
<1>7. CASE RelativePath(cleared, src) = <<>>
  <2> DEFINE c == MoveZone(cleared, src, dst)
  <2>1. Commit(c)
    BY <1>1, <1>7
  <2>2. c = MoveZone(cleared, src, dst)
    OBVIOUS
  <2> HIDE DEF c
  <2>3. Distinct(c)
    BY <2>1, CommitDistinct
  <2>4. IsTreeOf(c)
    BY <1>2, <1>4, <1>5, <1>6, <1>7, <2>2, <2>3, MoveZoneTree
  <2> QED
    BY <2>1, <2>4, CommitTree DEF TreeNext
<1>8. CASE RelativePath(cleared, src) # <<>>
  <2> DEFINE c == MoveEntry(cleared, src, dst)
  <2>1. Commit(c) /\ ZonesLike(cleared, src) = {}
    BY <1>1, <1>8
  <2>2. c = MoveEntry(cleared, src, dst)
    OBVIOUS
  <2> HIDE DEF c
  <2>3. Distinct(c)
    BY <2>1, CommitDistinct
  <2>4. IsTreeOf(c)
    BY <1>2, <1>4, <1>5, <1>6, <1>8, <2>1, <2>2, <2>3, MoveEntryTree
  <2> QED
    BY <2>1, <2>4, CommitTree DEF TreeNext
<1> QED
  BY <1>7, <1>8


-----------------------------------------------------------------------------
(* The volume is a tree after every guarded call.                          *)

LEMMA InitTree == Init => IsTreeOf(db)
<1>1. ASSUME Init PROVE DOMAIN db.zones = {} /\ DOMAIN db.entries = {}
  BY <1>1 DEF Init, db, NoRows
<1> QED
  BY <1>1 DEF IsTreeOf, Distinct, Rooted, AllAttached, Unshadowed, RootAlone

LEMMA StutterTree ==
  ASSUME IsTreeOf(db), UNCHANGED vars
  PROVE  TreeNext
<1>1. db' = db
  BY DEF vars, db
<1> DEFINE e == db'
<1>2. e = db
  BY <1>1
<1> HIDE DEF e
<1>3. IsTreeOf(e)
  BY <1>2
<1> QED
  BY <1>3 DEF e, TreeNext

LEMMA NextTree ==
  ASSUME PlainPaths, Good(db), IsTreeOf(db), GuardedNext
  PROVE  TreeNext
<1>1. CASE create_volume
  BY <1>1, create_volumeTree
<1>2. CASE remove_volume
  BY <1>2, remove_volumeTree
<1>3. ASSUME NEW p \in Paths, mkdir(p) PROVE TreeNext
  BY <1>3, mkdirTree
<1>4. ASSUME NEW p \in Paths, set_times(p) PROVE TreeNext
  BY <1>4, set_timesTree
<1>5. ASSUME NEW p \in Paths, NEW body \in Data, KindOf(db, p) # Dir, write_file(p, body) PROVE TreeNext
  BY <1>5, write_fileTree
<1>6. ASSUME NEW p \in Paths, NEW body \in Text, KindOf(db, p) # Dir, import_text(p, body) PROVE TreeNext
  BY <1>6, import_textTree
<1>7. ASSUME NEW p \in Paths, NEW t \in Trees, import(p, t) PROVE TreeNext
  BY <1>7, importTree
<1>8. ASSUME NEW p \in Paths, NEW recursive \in BOOLEAN, remove(p, recursive) PROVE TreeNext
  BY <1>8, removeTree
<1>9. ASSUME NEW p \in Paths, NEW q \in Paths, move(p, q) PROVE TreeNext
  BY <1>9, moveTree
<1>10. ASSUME NEW p \in Paths, NEW q \in Paths, NEW recursive \in BOOLEAN, copy(p, q, recursive)
       PROVE TreeNext
  BY <1>10, copyTree
<1>11. ASSUME NEW P \in Batches, mkdir_parents(P) PROVE TreeNext
  BY <1>11, mkdir_parentsTree
<1>12. ASSUME NEW P \in Batches, \A p \in P : KindOf(db, p) = None, mkdir_many(P) PROVE TreeNext
  BY <1>12, mkdir_manyTree
<1>13. ASSUME NEW P \in Batches, \A p \in P : KindOf(db, p) = Dir => Bare(p),
              NEW recursive \in BOOLEAN, NEW force \in BOOLEAN, remove_many(P, recursive, force)
       PROVE TreeNext
  BY <1>13, remove_manyTree
<1> QED
  BY Zenon, <1>1, <1>2, <1>3, <1>4, <1>5, <1>6, <1>7, <1>8, <1>9, <1>10, <1>11, <1>12, <1>13
     DEF GuardedNext

\* The volume is a tree, in its columns: paths are distinct, parents exist,
\* the pointers of a zone spell its path, and no zone hides an entry.
THEOREM TreeInvariance ==
  ASSUME PlainPaths
  PROVE  GuardedSpec => [](Good(db) /\ IsTreeOf(db))
<1>1. Init => Good(db) /\ IsTreeOf(db)
  BY InitGood, InitTree
<1>2. Good(db) /\ IsTreeOf(db) /\ [GuardedNext]_vars => IsTreeOf(db)'
  BY NextTree, StutterTree DEF TreeNext
<1>3. GuardedSpec => []Good(db)
  BY Invariant, GuardedIsSpec
<1>4. Init => IsTreeOf(db)
  BY <1>1
<1> QED
  BY <1>2, <1>3, <1>4, PTL DEF GuardedSpec

\* Removals, moves, copies and imports leave no node whose parent is missing
\* or is no directory.
THEOREM TreeConnected ==
  ASSUME PlainPaths
  PROVE  GuardedSpec => []Connected
<1>1. Good(db) /\ IsTreeOf(db) => Connected
  <2> SUFFICES ASSUME Good(db), IsTreeOf(db) PROVE Connected
    OBVIOUS
  <2>1. ASSUME NEW i \in DOMAIN db.entries
        PROVE  KindOf(db, Front(AbsolutePath(db, i))) = Dir
    <3>1. AbsolutePath(db, i) # <<>> /\ IsNode(db, AbsolutePath(db, i))
      BY AbsoluteParts DEF IsNode
    <3> QED
      BY <3>1, ParentOfNode
  <2>2. ASSUME NEW z \in DOMAIN db.zones, db.zones[z].path # <<>>
        PROVE  KindOf(db, Front(db.zones[z].path)) = Dir
    <3>1. IsNode(db, db.zones[z].path)
      BY DEF IsNode, IsZonePath
    <3> QED
      BY <2>2, <3>1, ParentOfNode
  <2>3. db.entries = entries /\ db.zones = zones
    BY DEF db
  <2> QED
    BY <2>1, <2>2, <2>3 DEF Connected
<1> QED
  BY <1>1, TreeInvariance, PTL

\* No entry is hidden: the path of every entry resolves to it alone.
THEOREM TreeAddressable ==
  ASSUME PlainPaths
  PROVE  GuardedSpec => []Addressable
<1>1. Good(db) /\ IsTreeOf(db) => Addressable
  <2> SUFFICES ASSUME Good(db), IsTreeOf(db) PROVE Addressable
    OBVIOUS
  <2>1. db.entries = entries
    BY DEF db
  <2> QED
    BY <2>1, Resolves DEF Addressable
<1> QED
  BY <1>1, TreeInvariance, PTL


-----------------------------------------------------------------------------
(* What the queries read of the tree.                                      *)

\* The nodes that readers see are those that are stored.
LEMMA TreeNodes ==
  ASSUME Good(db), IsTreeOf(db)
  PROVE  /\ \A p : p \in DOMAIN tree <=> IsNode(db, p)
         /\ \A z \in DOMAIN db.zones :
              db.zones[z].path \in DOMAIN tree /\ tree[db.zones[z].path].kind = Dir
         /\ \A i \in DOMAIN db.entries :
              AbsolutePath(db, i) \in DOMAIN tree /\ tree[AbsolutePath(db, i)].kind = db.entries[i].kind
<1>1. db.zones = zones /\ db.entries = entries
  BY DEF db
<1>2. DOMAIN tree = {db.zones[z].path : z \in DOMAIN db.zones}
                    \cup {AbsolutePath(db, i) : i \in DOMAIN db.entries}
  BY <1>1 DEF tree
<1>3. \A p \in DOMAIN tree : tree[p] = NodeAt(p)
  BY DEF tree
<1>4. \A p : p \in DOMAIN tree <=> IsNode(db, p)
  BY <1>2 DEF IsNode, IsZonePath
<1>5. ASSUME NEW z \in DOMAIN db.zones
      PROVE  db.zones[z].path \in DOMAIN tree /\ tree[db.zones[z].path].kind = Dir
  <2> DEFINE p == db.zones[z].path
  <2>1. IsZonePath(db, p)
    BY DEF IsZonePath
  <2>2. p \in DOMAIN tree
    BY <1>2
  <2> HIDE DEF p
  <2>3. NodeAt(p) = [kind |-> Dir, body |-> None]
    BY <2>1 DEF NodeAt
  <2>4. tree[p] = [kind |-> Dir, body |-> None]
    BY <1>3, <2>2, <2>3
  <2> QED
    BY <2>2, <2>4 DEF p
<1>6. ASSUME NEW i \in DOMAIN db.entries
      PROVE  AbsolutePath(db, i) \in DOMAIN tree /\ tree[AbsolutePath(db, i)].kind = db.entries[i].kind
  <2> DEFINE p == AbsolutePath(db, i)
             j == CHOOSE x \in DOMAIN entries : AbsolutePath(db, x) = p
  <2>1. ~IsZonePath(db, p) /\ EntriesFor(db, p) = {i}
    BY Resolves
  <2>2. j \in DOMAIN db.entries /\ AbsolutePath(db, j) = p
    BY <1>1
  <2>3. NodeAt(p) = [kind |-> entries[j].kind, body |-> Contents(db, j)]
    BY <2>1 DEF NodeAt
  <2> HIDE DEF j
  <2>4. j = i
    BY <2>1, <2>2, Resolves
  <2> QED
    BY <1>1, <1>2, <1>3, <2>3, <2>4
<1> QED
  BY <1>4, <1>5, <1>6

\* Where the parent of a node is found, and under which name it has the node.
LEMMA EntryUnder ==
  ASSUME NEW d, Good(d), IsTreeOf(d), NEW i \in DOMAIN d.entries, NEW p
  PROVE  Front(AbsolutePath(d, i)) = p /\ KindOf(d, p) = Dir =>
           d.entries[i].zone = LocateZone(d, p) /\ d.entries[i].dir = RelativePath(d, p)
<1> DEFINE e == d.entries[i]
<1>1. /\ e.zone \in DOMAIN d.zones /\ e.dir \in Seq(Names)
      /\ Front(AbsolutePath(d, i)) = d.zones[e.zone].path \o e.dir
  BY EntryParts, AbsoluteParts
<1>2. DirAt(d, e.zone, e.dir)
  BY DEF IsTreeOf, Rooted
<1> HIDE DEF e
<1>3. LocateZone(d, d.zones[e.zone].path \o e.dir) = e.zone
      /\ RelativePath(d, d.zones[e.zone].path \o e.dir) = e.dir
  BY <1>1, <1>2, DirAtKind
<1> QED
  BY <1>1, <1>3 DEF e

LEMMA AttachedParts ==
  ASSUME NEW d, Good(d), IsTreeOf(d), NEW y \in DOMAIN d.zones, d.zones[y].path # <<>>
  PROVE  LET r == d.zones[y]
             p == d.zones[r.parent].path \o r.dir
         IN /\ Front(r.path) = p /\ Last(r.path) = r.name
            /\ LocateZone(d, p) = r.parent /\ RelativePath(d, p) = r.dir
<1> DEFINE u == d.zones[y].parent
           r == d.zones[y].dir
           n == d.zones[y].name
           w == d.zones[u].path
           s == Append(r, n)
<1>1. Attached(d, y)
  BY DEF IsTreeOf, AllAttached
<1>2. /\ u \in DOMAIN d.zones /\ r \in Seq(Names) /\ n \in Names
      /\ d.zones[y].path = w \o Append(r, n) /\ DirAt(d, u, r)
  BY <1>1 DEF Attached
<1>3. w \in Seq(Names)
  BY <1>2, ZoneParts
<1>4. LocateZone(d, w \o r) = u /\ RelativePath(d, w \o r) = r
  <2> HIDE DEF u, r, n
  <2> QED
    BY <1>2, DirAtKind
<1> HIDE DEF u, r, n, w
<1>5. s \in Seq(Names) /\ s # <<>> /\ Front(s) = r /\ Last(s) = n
  BY <1>2, AppendProperties, SplitAppend
<1>6. Front(w \o s) = w \o Front(s) /\ Last(w \o s) = Last(s)
  <2> HIDE DEF s
  <2> QED
    BY <1>3, <1>5, SplitConcat
<1> QED
  BY <1>2, <1>4, <1>5, <1>6 DEF u, r, n, w

\* The listing of a directory and the nodes below it are the same pairs.
LEMMA ListIs ==
  ASSUME NEW d, Good(d), IsTreeOf(d), NEW p \in Seq(Names), KindOf(d, p) = Dir
  PROVE  /\ \A i \in DOMAIN d.entries :
              i \in ChildEntries(d, p) <=> Front(AbsolutePath(d, i)) = p
         /\ \A y \in DOMAIN d.zones :
              y \in ChildZones(d, p) <=> d.zones[y].path # <<>> /\ Front(d.zones[y].path) = p
<1> DEFINE z == LocateZone(d, p)
           r == RelativePath(d, p)
<1>1. ZonesOver(d, p) # {}
  BY DirLocated
<1>2. z \in DOMAIN d.zones /\ p = d.zones[z].path \o r
  BY <1>1, LookupIs
<1>3. ASSUME NEW i \in DOMAIN d.entries
      PROVE  i \in ChildEntries(d, p) <=> Front(AbsolutePath(d, i)) = p
  <2>1. i \in ChildEntries(d, p) <=> d.entries[i].zone = z /\ d.entries[i].dir = r
    BY DEF ChildEntries, RelativePath
  <2>2. Front(AbsolutePath(d, i)) = d.zones[d.entries[i].zone].path \o d.entries[i].dir
    BY AbsoluteParts
  <2> HIDE DEF z, r
  <2> QED
    BY <1>2, <2>1, <2>2, EntryUnder DEF z, r
<1>4. ASSUME NEW y \in DOMAIN d.zones
      PROVE  y \in ChildZones(d, p) <=> d.zones[y].path # <<>> /\ Front(d.zones[y].path) = p
  <2>1. y \in ChildZones(d, p) <=> d.zones[y].parent = z /\ d.zones[y].dir = r
    BY DEF ChildZones, RelativePath
  <2>2. CASE d.zones[y].path = <<>>
    <3>1. d.zones[y].parent = None
      BY <2>2 DEF IsTreeOf, RootAlone
    <3>2. z # None
      BY <1>2, NoneAssumption DEF Good, GoodZones
    <3> QED
      BY <2>1, <2>2, <3>1, <3>2
  <2>3. CASE d.zones[y].path # <<>>
    <3> DEFINE q == d.zones[d.zones[y].parent].path \o d.zones[y].dir
    <3>1. Front(d.zones[y].path) = q /\ LocateZone(d, q) = d.zones[y].parent
          /\ RelativePath(d, q) = d.zones[y].dir
      BY <2>3, AttachedParts
    <3>2. q = p => d.zones[y].parent = z /\ d.zones[y].dir = r
      BY <3>1
    <3>3. d.zones[y].parent = z /\ d.zones[y].dir = r => q = p
      BY <1>2
    <3> HIDE DEF q, z, r
    <3> QED
      BY <2>1, <2>3, <3>1, <3>2, <3>3
  <2> QED
    BY <2>2, <2>3
<1> QED
  BY <1>3, <1>4

LEMMA ListedExactly ==
  ASSUME Good(db), IsTreeOf(db), NEW p \in DOMAIN tree, tree[p].kind = Dir
  PROVE  list(db, p) = {<<q, Last(q)>> : q \in {r \in DOMAIN tree : r # <<>> /\ Front(r) = p}}
<1> DEFINE under == {r \in DOMAIN tree : r # <<>> /\ Front(r) = p}
<1>1. IsNode(db, p)
  BY TreeNodes
<1>2. p \in Seq(Names) /\ KindOf(db, p) = Dir
  <2>1. p \in Seq(Names)
    BY <1>1, NodeIsFound
  <2>2. CASE IsZonePath(db, p)
    BY <2>2, ZoneResolves DEF IsZonePath, IsTreeOf
  <2>3. CASE ~IsZonePath(db, p)
    <3>1. PICK i \in DOMAIN db.entries : AbsolutePath(db, i) = p
      BY <1>1, <2>3 DEF IsNode
    <3>2. tree[AbsolutePath(db, i)].kind = db.entries[i].kind
      BY TreeNodes
    <3>3. KindOf(db, AbsolutePath(db, i)) = db.entries[i].kind
      BY Resolves
    <3> QED
      BY <2>1, <3>1, <3>2, <3>3
  <2> QED
    BY <2>1, <2>2, <2>3
<1>3. ChildEntries(db, p) \subseteq DOMAIN db.entries /\ ChildZones(db, p) \subseteq DOMAIN db.zones
  BY DEF ChildEntries, ChildZones
<1>4. \A i \in DOMAIN db.entries :
        /\ i \in ChildEntries(db, p) <=> AbsolutePath(db, i) \in under
        /\ db.entries[i].name = Last(AbsolutePath(db, i))
  <2>1. \A i \in DOMAIN db.entries : i \in ChildEntries(db, p) <=> Front(AbsolutePath(db, i)) = p
    BY <1>2, ListIs
  <2>2. ASSUME NEW i \in DOMAIN db.entries
        PROVE  AbsolutePath(db, i) # <<>> /\ db.entries[i].name = Last(AbsolutePath(db, i))
               /\ AbsolutePath(db, i) \in DOMAIN tree
    BY AbsoluteParts, TreeNodes
  <2> QED
    BY <2>1, <2>2
<1>5. ASSUME NEW y \in ChildZones(db, p)
      PROVE  db.zones[y].path \in under /\ db.zones[y].name = Last(db.zones[y].path)
  <2>1. y \in DOMAIN db.zones /\ db.zones[y].path # <<>> /\ Front(db.zones[y].path) = p
    BY <1>2, <1>3, ListIs
  <2>2. Last(db.zones[y].path) = db.zones[y].name
    BY <2>1, AttachedParts
  <2> QED
    BY <2>1, <2>2, TreeNodes
<1>6. ASSUME NEW q \in under
      PROVE  \/ \E i \in ChildEntries(db, p) : AbsolutePath(db, i) = q
             \/ \E y \in ChildZones(db, p) : db.zones[y].path = q
  <2>1. IsNode(db, q)
    BY TreeNodes
  <2>2. CASE \E i \in DOMAIN db.entries : AbsolutePath(db, i) = q
    BY <1>4, <2>2
  <2>3. CASE \E y \in DOMAIN db.zones : db.zones[y].path = q
    BY <1>2, <2>3, ListIs
  <2> QED
    BY <2>1, <2>2, <2>3 DEF IsNode, IsZonePath
<1> HIDE DEF under
<1>7. ASSUME NEW x \in list(db, p) PROVE \E q \in under : x = <<q, Last(q)>>
  <2>1. CASE \E i \in ChildEntries(db, p) : x = <<AbsolutePath(db, i), db.entries[i].name>>
    BY <1>3, <1>4, <2>1
  <2>2. CASE \E y \in ChildZones(db, p) : x = <<db.zones[y].path, db.zones[y].name>>
    BY <1>5, <2>2
  <2> QED
    BY <2>1, <2>2 DEF list
<1>8. ASSUME NEW q \in under PROVE <<q, Last(q)>> \in list(db, p)
  <2>1. CASE \E i \in ChildEntries(db, p) : AbsolutePath(db, i) = q
    BY <1>3, <1>4, <2>1 DEF list
  <2>2. CASE \E y \in ChildZones(db, p) : db.zones[y].path = q
    BY <1>5, <2>2 DEF list
  <2> QED
    BY <1>6, <2>1, <2>2
<1> QED
  BY <1>7, <1>8 DEF under


LEMMA EmptyPrefix ==
  ASSUME NEW q \in Seq(Names)
  PROVE  <<>> \in Seq(Names) /\ IsPrefix(<<>>, q) /\ Remainder(<<>>, q) = q
<1>1. <<>> \in Seq(Names) /\ <<>> \o q = q
  BY EmptySeq, ConcatEmptySeq
<1>2. IsPrefix(<<>>, <<>> \o q)
  BY <1>1, PrefixConcat
<1>3. Remainder(<<>>, <<>> \o q) = q
  BY <1>1, ConcatRemainder
<1> QED
  BY <1>1, <1>2, <1>3

\* The pattern of a recursive query, and the prefix test that it stands for.
LEMMA WithinPrefix ==
  ASSUME PlainPaths, NEW p \in Seq(Names), NEW q \in Seq(Names)
  PROVE  p = <<>> \/ LikeWithin(p, q) <=> IsPrefix(p, q)
<1>1. CASE p = <<>>
  BY <1>1, EmptyPrefix
<1>2. CASE p # <<>>
  BY <1>2, LikePrefix
<1> QED
  BY <1>1, <1>2

LEMMA FoundZonesAre ==
  ASSUME PlainPaths, NEW d, Good(d), NEW p \in Seq(Names), NEW z \in DOMAIN d.zones
  PROVE  /\ z \in FoundZones(d, p) <=> IsPrefix(p, d.zones[z].path)
         /\ z \in SelectedZones(d, p) <=> z = LocateZone(d, p) \/ IsPrefix(p, d.zones[z].path)
<1>1. d.zones[z].path \in Seq(Names)
  BY ZoneParts
<1>2. p = <<>> \/ LikeWithin(p, d.zones[z].path) <=> IsPrefix(p, d.zones[z].path)
  BY <1>1, WithinPrefix
<1>3. z \in SelectedZones(d, p) <=>
        z = LocateZone(d, p) \/ p = <<>> \/ LikeWithin(p, d.zones[z].path)
  BY DEF SelectedZones
<1>4. z \in FoundZones(d, p) <=>
        z \in SelectedZones(d, p) /\ (p = <<>> \/ LikeWithin(p, d.zones[z].path))
  BY DEF FoundZones, SelectedZones
<1> QED
  BY <1>2, <1>3, <1>4

\* A row below p is in the zone that p is looked up in, or in one below p.
LEMMA BelowIsSelected ==
  ASSUME NEW d, Good(d), IsTreeOf(d), NEW p \in Seq(Names), NEW i \in DOMAIN d.entries,
         IsPrefix(p, AbsolutePath(d, i)), d.entries[i].zone # LocateZone(d, p)
  PROVE  IsPrefix(p, d.zones[d.entries[i].zone].path)
<1> DEFINE z == d.entries[i].zone
           top == d.zones[z].path
           a == AbsolutePath(d, i)
<1>1. z \in DOMAIN d.zones /\ top \in Seq(Names) /\ a \in Seq(Names) /\ IsPrefix(top, a)
  BY EntryParts, AbsoluteParts
<1>2. ClearOf(d, a, top)
  BY DEF IsTreeOf, Unshadowed
<1>3. IsPrefix(p, a) /\ z # LocateZone(d, p)
  OBVIOUS
<1>4. \A y \in DOMAIN d.zones : d.zones[y].path \in Seq(Names)
  BY ZoneParts
<1>5. Len(p) \in Nat /\ Len(top) \in Nat
  BY <1>1, LenProperties
<1> HIDE DEF z, a
<1>6. CASE Len(p) =< Len(top)
  BY <1>1, <1>3, <1>6, PrefixOfPrefix DEF z
<1>7. CASE ~(Len(p) =< Len(top))
  <2>1. IsPrefix(top, p)
    BY <1>1, <1>3, <1>5, <1>7, PrefixOfPrefix
  <2>2. ClearOf(d, p, top)
    <3>1. ASSUME NEW y \in DOMAIN d.zones, IsPrefix(d.zones[y].path, p)
          PROVE  Len(d.zones[y].path) =< Len(top)
      <4>1. IsPrefix(d.zones[y].path, a)
        BY <1>1, <1>3, <1>4, <3>1, PrefixTrans
      <4> QED
        BY <1>2, <4>1 DEF ClearOf
    <3> QED
      BY <3>1 DEF ClearOf
  <2>3. LocateZone(d, p) = z
    BY <1>1, <2>1, <2>2, LookupFinds DEF IsTreeOf
  <2> QED
    BY <1>3, <2>3
<1> QED
  BY <1>6, <1>7

LEMMA FoundEntriesAre ==
  ASSUME PlainPaths, NEW d, Good(d), IsTreeOf(d), NEW p \in Seq(Names), ZonesOver(d, p) # {},
         NEW i \in DOMAIN d.entries
  PROVE  i \in FoundEntries(d, p) <=> IsPrefix(p, AbsolutePath(d, i))
<1> DEFINE z == d.entries[i].zone
           top == d.zones[z].path
           rel == d.entries[i].rel
           r == RelativeRoot(d, p, z)
<1>1. /\ z \in DOMAIN d.zones /\ top \in Seq(Names) /\ rel \in Seq(Names)
      /\ AbsolutePath(d, i) = top \o rel /\ top \o rel \in Seq(Names) /\ IsPrefix(top, top \o rel)
  BY EntryParts, AbsoluteParts
<1>2. i \in FoundEntries(d, p) <=>
        z \in SelectedZones(d, p) /\ (r = <<>> \/ LikeWithin(r, rel))
  BY DEF FoundEntries, EntriesOf
<1>3. CASE z = LocateZone(d, p)
  <2>1. r = RelativePath(d, p)
    BY <1>3 DEF RelativeRoot
  <2>2. r \in Seq(Names) /\ p = top \o r
    BY <1>3, <2>1, LookupIs
  <2>3. z \in SelectedZones(d, p)
    BY <1>1, <1>3, FoundZonesAre
  <2> HIDE DEF r, top, rel
  <2>4. r = <<>> \/ LikeWithin(r, rel) <=> IsPrefix(r, rel)
    BY <1>1, <2>2, WithinPrefix
  <2>5. IsPrefix(top \o r, top \o rel) <=> IsPrefix(r, rel)
    BY <1>1, <2>2, PrefixUnder
  <2> QED
    BY <1>1, <1>2, <2>2, <2>3, <2>4, <2>5
<1>4. CASE z # LocateZone(d, p)
  <2>1. r = <<>>
    BY <1>4 DEF RelativeRoot
  <2>2. z \in SelectedZones(d, p) <=> IsPrefix(p, top)
    BY <1>1, <1>4, FoundZonesAre
  <2>3. IsPrefix(p, AbsolutePath(d, i)) => IsPrefix(p, top)
    BY <1>4, BelowIsSelected
  <2>4. IsPrefix(p, top) => IsPrefix(p, AbsolutePath(d, i))
    <3> HIDE DEF top, rel
    <3>1. IsPrefix(p, top) => IsPrefix(p, top \o rel)
      BY <1>1, PrefixTrans
    <3> QED
      BY <1>1, <3>1
  <2> QED
    BY <1>2, <2>1, <2>2, <2>3, <2>4
<1> QED
  BY <1>3, <1>4

LEMMA WalkedExactly ==
  ASSUME PlainPaths, Good(db), IsTreeOf(db), NEW p \in DOMAIN tree, NEW kind \in Kinds \cup {None}
  PROVE  find_paths(db, p, kind) = {q \in Subtree(p) : kind \in {None, tree[q].kind}}
<1> DEFINE want == {q \in Subtree(p) : kind \in {None, tree[q].kind}}
           rows == {j \in FoundEntries(db, p) : kind \in {None, db.entries[j].kind}}
<1>1. IsNode(db, p)
  BY TreeNodes
<1>2. p \in Seq(Names) /\ ZonesOver(db, p) # {}
  <2>1. p \in Seq(Names) /\ KindOf(db, p) \in Kinds
    BY <1>1, NodeIsFound
  <2> QED
    BY <2>1, DirIsOver, NoneAssumption
<1>3. FoundEntries(db, p) \subseteq DOMAIN db.entries /\ FoundZones(db, p) \subseteq DOMAIN db.zones
  BY DEF FoundEntries, EntriesOf, FoundZones, SelectedZones
<1>4. ASSUME NEW i \in DOMAIN db.entries
      PROVE  i \in rows <=> AbsolutePath(db, i) \in want
  <2>1. i \in FoundEntries(db, p) <=> IsPrefix(p, AbsolutePath(db, i))
    BY <1>2, FoundEntriesAre
  <2>2. AbsolutePath(db, i) \in DOMAIN tree /\ tree[AbsolutePath(db, i)].kind = db.entries[i].kind
    BY TreeNodes
  <2> QED
    BY <2>1, <2>2 DEF Subtree
<1>5. ASSUME NEW y \in DOMAIN db.zones
      PROVE  y \in FoundZones(db, p) /\ kind \in {None, Dir} <=> db.zones[y].path \in want
  <2>1. y \in FoundZones(db, p) <=> IsPrefix(p, db.zones[y].path)
    BY <1>2, FoundZonesAre
  <2>2. db.zones[y].path \in DOMAIN tree /\ tree[db.zones[y].path].kind = Dir
    BY TreeNodes
  <2> QED
    BY <2>1, <2>2 DEF Subtree
<1>6. ASSUME NEW q \in want
      PROVE  \/ \E i \in DOMAIN db.entries : AbsolutePath(db, i) = q
             \/ \E y \in DOMAIN db.zones : db.zones[y].path = q
  <2>1. q \in DOMAIN tree
    BY DEF Subtree
  <2> QED
    BY <2>1, TreeNodes DEF IsNode, IsZonePath
<1>7. \A q : q \in find_paths(db, p, kind) <=>
        \/ \E i \in rows : q = AbsolutePath(db, i)
        \/ kind \in {None, Dir} /\ \E y \in FoundZones(db, p) : q = db.zones[y].path
  BY DEF find_paths
<1>8. rows \subseteq DOMAIN db.entries
  BY <1>3
<1> HIDE DEF want, rows
<1>9. \A q : q \in find_paths(db, p, kind) => q \in want
  BY <1>3, <1>4, <1>5, <1>7, <1>8
<1>10. \A q \in want : q \in find_paths(db, p, kind)
  <2>1. ASSUME NEW q \in want, NEW i \in DOMAIN db.entries, AbsolutePath(db, i) = q
        PROVE  q \in find_paths(db, p, kind)
    BY <1>4, <1>7, <2>1
  <2>2. ASSUME NEW q \in want, NEW y \in DOMAIN db.zones, db.zones[y].path = q
        PROVE  q \in find_paths(db, p, kind)
    BY <1>5, <1>7, <2>2
  <2> QED
    BY <1>6, <2>1, <2>2
<1> QED
  BY <1>9, <1>10 DEF want

\* Listing a directory by the pointers of rows and zones gives exactly the
\* nodes whose parent it is, each under its own name.
THEOREM ListingsExact ==
  ASSUME PlainPaths
  PROVE  GuardedSpec => []ListAgrees
<1>1. Good(db) /\ IsTreeOf(db) => ListAgrees
  BY ListedExactly DEF ListAgrees
<1> QED
  BY <1>1, TreeInvariance, PTL

\* A recursive query selects zones and rows so that it visits each node at
\* and below its path once, and no other.
THEOREM WalksExact ==
  ASSUME PlainPaths
  PROVE  GuardedSpec => []WalkAgrees
<1>1. Good(db) /\ IsTreeOf(db) => WalkAgrees
  BY WalkedExactly DEF WalkAgrees
<1> QED
  BY <1>1, TreeInvariance, PTL


-----------------------------------------------------------------------------
(* The shortcuts of find, du and mv.                                       *)

Sizes(Q) == [q \in Q |-> [size |-> Size[tree[q].body]]]
FileNodes(p) == {q \in Subtree(p) : tree[q].kind = File}

LEMMA BytesAreSizes ==
  ASSUME NEW p, IsFiniteSet(FileNodes(p))
  PROVE  Bytes(p) = Sum(Sizes(FileNodes(p)), FileNodes(p))
<1> DEFINE Q == FileNodes(p)
           Is(h) == h = [s \in SUBSET Q |-> IF s = {} THEN 0
                           ELSE Size[tree[First(s)].body] + h[s \ {First(s)}]]
           own == CHOOSE h : Is(h)
<1>1. Bytes(p) = own[Q]
  BY DEF Bytes, MapThenSumSet, MapThenFoldSet, First, FileNodes
<1>2. ASSUME NEW h PROVE Sums(h, Sizes(Q), Q) <=> Is(h)
  <2>1. ASSUME NEW s \in SUBSET Q, s # {} PROVE Sizes(Q)[First(s)].size = Size[tree[First(s)].body]
    <3>1. First(s) \in Q
      BY <2>1, FirstIn
    <3> HIDE DEF Q
    <3> QED
      BY <3>1 DEF Sizes
  <2> HIDE DEF Q
  <2> QED
    BY <2>1 DEF Sums
<1>3. \E h : Is(h)
  BY <1>2, SumsExist
<1>4. Is(own)
  <2> HIDE DEF Is
  <2> QED
    BY <1>3
<1> HIDE DEF own, Is, Q
<1>5. Sums(own, Sizes(Q), Q)
  BY <1>2, <1>4
<1>6. IsFiniteSet(Q)
  BY DEF Q
<1>7. own[Q] = Sum(Sizes(Q), Q)
  BY <1>5, <1>6, SumChosen
<1> QED
  BY <1>1, <1>7 DEF Q

\* The rows of the nodes at and below a path.
RowsBelow(d, p) == {i \in DOMAIN d.entries : IsPrefix(p, AbsolutePath(d, i))}
FilesBelow(d, p) == {i \in RowsBelow(d, p) : d.entries[i].kind = File}

LEMMA RowsFinite ==
  ASSUME NEW d, Good(d)
  PROVE  /\ IsFiniteSet(DOMAIN d.entries) /\ IsFiniteSet(DOMAIN d.zones)
         /\ \A i \in DOMAIN d.entries : d.entries[i].size \in Nat
<1>1. DOMAIN d.entries \subseteq NodeId /\ DOMAIN d.zones \subseteq NodeId
  BY DEF Good, GoodEntries, GoodZones
<1>2. \A i \in DOMAIN d.entries : d.entries[i].size \in Nat
  BY DEF Good, GoodEntries, GoodRow, EntryRows
<1> QED
  BY <1>1, <1>2, FS_Subset, NodeIdAssumption

\* The node of an entry has the size of its row.
LEMMA NodeSize ==
  ASSUME Good(db), IsTreeOf(db), NEW i \in DOMAIN db.entries, db.entries[i].kind = File
  PROVE  Size[tree[AbsolutePath(db, i)].body] = db.entries[i].size
<1> DEFINE p == AbsolutePath(db, i)
           j == CHOOSE x \in DOMAIN entries : AbsolutePath(db, x) = p
           e == db.entries[i]
<1>1. db.entries = entries
  BY DEF db
<1>2. ~IsZonePath(db, p) /\ EntriesFor(db, p) = {i}
  BY Resolves
<1>3. j \in DOMAIN db.entries /\ AbsolutePath(db, j) = p
  BY <1>1
<1>4. NodeAt(p) = [kind |-> entries[j].kind, body |-> Contents(db, j)]
  BY <1>2 DEF NodeAt
<1> HIDE DEF j
<1>5. j = i
  BY <1>2, <1>3, Resolves
<1>6. p \in DOMAIN tree
  BY TreeNodes
<1> HIDE DEF p
<1>7. tree[p] = NodeAt(p)
  BY <1>6 DEF tree
<1>8. tree[p].body = Contents(db, i)
  BY <1>4, <1>5, <1>7
<1>9. GoodRow(DOMAIN db.zones, db.objects, e) /\ e.kind = File
  BY DEF Good, GoodEntries
<1>10. Contents(db, i) = IF e.obj = None THEN e.body ELSE db.objects[e.obj].data
  BY DEF Contents
<1> HIDE DEF e
<1>11. Size[Contents(db, i)] = e.size
  BY <1>9, <1>10 DEF GoodRow
<1> QED
  BY <1>8, <1>11 DEF p, e

LEMMA SubtreeBytes ==
  ASSUME Good(db), IsTreeOf(db), NEW p
  PROVE  Bytes(p) = Sum(db.entries, FilesBelow(db, p))
<1> DEFINE A == FilesBelow(db, p)
           Q == FileNodes(p)
           b == Sizes(Q)
           f == [i \in A |-> AbsolutePath(db, i)]
<1>1. A \subseteq DOMAIN db.entries /\ IsFiniteSet(A)
  <2>1. A \subseteq DOMAIN db.entries
    BY DEF FilesBelow, RowsBelow
  <2> QED
    BY <2>1, RowsFinite, FS_Subset
<1>2. \A i \in A : f[i] = AbsolutePath(db, i)
  OBVIOUS
<1>3. ASSUME NEW i \in A PROVE f[i] \in Q
  <2>1. AbsolutePath(db, i) \in DOMAIN tree /\ tree[AbsolutePath(db, i)].kind = db.entries[i].kind
    BY <1>1, TreeNodes
  <2> QED
    BY <2>1 DEF FilesBelow, RowsBelow, FileNodes, Subtree
<1>4. ASSUME NEW q \in Q PROVE \E i \in A : f[i] = q
  <2>1. q \in DOMAIN tree /\ IsPrefix(p, q) /\ tree[q].kind = File
    BY DEF FileNodes, Subtree
  <2>2. ~IsZonePath(db, q)
    BY <2>1, TreeNodes DEF IsZonePath, File, Dir
  <2>3. PICK i \in DOMAIN db.entries : AbsolutePath(db, i) = q
    BY <2>1, <2>2, TreeNodes DEF IsNode
  <2>4. db.entries[i].kind = File
    BY <2>1, <2>3, TreeNodes
  <2> QED
    BY <2>1, <2>3, <2>4 DEF FilesBelow, RowsBelow
<1>5. Q = {f[i] : i \in A}
  <2> HIDE DEF Q, f
  <2> QED
    BY <1>3, <1>4
<1>6. \A i, j \in A : f[i] = f[j] => i = j
  <2>1. \A i \in A : EntriesFor(db, AbsolutePath(db, i)) = {i}
    BY <1>1, Resolves
  <2> QED
    BY <1>2, <2>1
<1>7. ASSUME NEW i \in A PROVE db.entries[i].size \in Nat /\ b[f[i]].size = db.entries[i].size
  <2>1. i \in DOMAIN db.entries /\ db.entries[i].kind = File
    BY <1>1 DEF FilesBelow
  <2>2. b[f[i]].size = Size[tree[f[i]].body]
    BY <1>3 DEF Sizes
  <2> QED
    BY <2>1, <2>2, <1>2, NodeSize, RowsFinite
<1>8. IsFiniteSet(Q)
  <2>1. f \in Surjection(A, Q)
    BY <1>3, <1>4 DEF Surjection
  <2> HIDE DEF f, Q, A
  <2> QED
    BY <1>1, <2>1, FS_Surjection
<1>9. Bytes(p) = Sum(b, Q)
  BY <1>8, BytesAreSizes
<1> HIDE DEF A, b, f, Q
<1>10. Sum(b, {f[i] : i \in A}) = Sum(db.entries, A)
  BY <1>1, <1>6, <1>7, SumRenamed
<1> QED
  BY <1>5, <1>9, <1>10 DEF A


LEMMA CountedParts ==
  ASSUME NEW d, Good(d), NEW z \in DOMAIN d.zones
  PROVE  /\ d.zones[z].entry_count = Cardinality(RowsIn(d.entries, z))
         /\ d.zones[z].file_bytes = FileBytes(d.entries, RowsIn(d.entries, z))
BY DEF Good, Counted, Count, SizeIn

\* A node has a lookup, and nothing is at or below a file but the file.
LEMMA NodeLocated ==
  ASSUME NEW d, Good(d), IsTreeOf(d), NEW p, IsNode(d, p)
  PROVE  /\ p \in Seq(Names) /\ ZonesOver(d, p) # {} /\ LocateZone(d, p) \in DOMAIN d.zones
         /\ p = d.zones[LocateZone(d, p)].path \o RelativePath(d, p)
         /\ RelativePath(d, p) = <<>> => d.zones[LocateZone(d, p)].path = p
<1>1. p \in Seq(Names) /\ KindOf(d, p) \in Kinds
  BY NodeIsFound
<1>2. ZonesOver(d, p) # {}
  BY <1>1, DirIsOver, NoneAssumption
<1> QED
  BY <1>1, <1>2, LookupIs

LEMMA OnlyTheFile ==
  ASSUME NEW d, Good(d), IsTreeOf(d), NEW p, IsNode(d, p),
         NEW i \in EntriesFor(d, p), d.entries[i].kind = File
  PROVE  FilesBelow(d, p) = {j \in EntriesFor(d, p) : d.entries[j].kind = File}
<1> DEFINE z == LocateZone(d, p)
           r == RelativePath(d, p)
<1>1. \A j : j \in EntriesFor(d, p) <=> j \in DOMAIN d.entries /\ d.entries[j].zone = z /\ d.entries[j].rel = r
  BY DEF EntriesFor, EntriesAt, RelativePath
<1>2. p \in Seq(Names) /\ p = d.zones[z].path \o r
  BY NodeLocated
<1>3. \A j \in EntriesFor(d, p) : AbsolutePath(d, j) = p
  BY <1>1, <1>2 DEF AbsolutePath
<1>4. KindOf(d, p) = File
  <2>1. i \in DOMAIN d.entries /\ AbsolutePath(d, i) = p
    BY <1>1, <1>3
  <2> QED
    BY <2>1, Resolves
<1>5. ASSUME NEW j \in RowsBelow(d, p) PROVE AbsolutePath(d, j) = p
  <2>1. IsNode(d, AbsolutePath(d, j)) /\ IsPrefix(p, AbsolutePath(d, j))
    BY DEF RowsBelow, IsNode
  <2>2. CASE AbsolutePath(d, j) # p
    <3>1. KindOf(d, p) = Dir
      BY <1>2, <2>1, <2>2, AboveNode
    <3> QED
      BY <1>4, <3>1 DEF File, Dir
  <2> QED
    BY <2>2
<1>6. ASSUME NEW j \in RowsBelow(d, p) PROVE j \in EntriesFor(d, p)
  <2>1. j \in DOMAIN d.entries /\ AbsolutePath(d, j) = p
    BY <1>5 DEF RowsBelow
  <2>2. EntriesFor(d, AbsolutePath(d, j)) = {j}
    BY <2>1, Resolves
  <2> QED
    BY <2>1, <2>2
<1>7. ASSUME NEW j \in EntriesFor(d, p) PROVE j \in RowsBelow(d, p)
  <2>1. j \in DOMAIN d.entries /\ AbsolutePath(d, j) = p
    BY <1>1, <1>3
  <2> QED
    BY <1>2, <2>1, PrefixSelf DEF RowsBelow
<1> QED
  BY <1>6, <1>7 DEF FilesBelow

\* What du sums of a path that is no file.
UsageRows(d, p) ==
    {i \in EntriesOf(d, SelectedZones(d, p)) :
        LET q == RelativeRoot(d, p, d.entries[i].zone)
        IN q = <<>> \/ LikeBelow(q, d.entries[i].rel)}

LEMMA UsageRowsAre ==
  ASSUME PlainPaths, NEW d, Good(d), IsTreeOf(d), NEW p, IsNode(d, p),
         ~(RelativePath(d, p) # <<>> /\ \E i \in EntriesFor(d, p) : d.entries[i].kind = File)
  PROVE  {i \in UsageRows(d, p) : d.entries[i].kind = File} = FilesBelow(d, p)
<1> DEFINE here == LocateZone(d, p)
           r == RelativePath(d, p)
           q(i) == RelativeRoot(d, p, d.entries[i].zone)
<1>1. p \in Seq(Names) /\ ZonesOver(d, p) # {}
  BY NodeLocated
<1>2. ASSUME NEW i \in DOMAIN d.entries, d.entries[i].kind = File
      PROVE  i \in UsageRows(d, p) <=> i \in FoundEntries(d, p)
  <2>1. i \in UsageRows(d, p) <=>
          d.entries[i].zone \in SelectedZones(d, p) /\ (q(i) = <<>> \/ LikeBelow(q(i), d.entries[i].rel))
    BY DEF UsageRows, EntriesOf
  <2>2. i \in FoundEntries(d, p) <=>
          d.entries[i].zone \in SelectedZones(d, p)
          /\ (q(i) = <<>> \/ q(i) = d.entries[i].rel \/ LikeBelow(q(i), d.entries[i].rel))
    BY DEF FoundEntries, EntriesOf, LikeWithin
  <2>3. q(i) = d.entries[i].rel => q(i) = <<>>
    <3>1. ASSUME q(i) = d.entries[i].rel, q(i) # <<>> PROVE FALSE
      <4>1. d.entries[i].zone = here /\ q(i) = r
        BY <3>1 DEF RelativeRoot
      <4>2. i \in EntriesFor(d, p)
        BY <3>1, <4>1 DEF EntriesFor, EntriesAt, RelativePath
      <4> QED
        BY <1>2, <3>1, <4>1, <4>2
    <3> QED
      BY <3>1
  <2> QED
    BY <2>1, <2>2, <2>3
<1>3. ASSUME NEW i \in DOMAIN d.entries
      PROVE  i \in FoundEntries(d, p) <=> i \in RowsBelow(d, p)
  <2>1. i \in FoundEntries(d, p) <=> IsPrefix(p, AbsolutePath(d, i))
    BY <1>1, FoundEntriesAre
  <2> QED
    BY <2>1 DEF RowsBelow
<1>4. UsageRows(d, p) \subseteq DOMAIN d.entries /\ RowsBelow(d, p) \subseteq DOMAIN d.entries
  BY DEF UsageRows, EntriesOf, RowsBelow
<1> QED
  BY <1>2, <1>3, <1>4 DEF FilesBelow

LEMMA UsageIs ==
  ASSUME PlainPaths, NEW d, Good(d), IsTreeOf(d), NEW p, IsNode(d, p)
  PROVE  disk_usage(d, p) = Sum(d.entries, FilesBelow(d, p))
<1> DEFINE file == RelativePath(d, p) # <<>> /\ \E i \in EntriesFor(d, p) : d.entries[i].kind = File
<1>1. disk_usage(d, p) = IF file THEN FileBytes(d.entries, EntriesFor(d, p))
                         ELSE FileBytes(d.entries, UsageRows(d, p))
  BY DEF disk_usage, UsageRows
<1>2. CASE file
  <2>1. FilesBelow(d, p) = {j \in EntriesFor(d, p) : d.entries[j].kind = File}
    BY <1>2, OnlyTheFile
  <2> QED
    BY <1>1, <1>2, <2>1, BytesAreSum
<1>3. CASE ~file
  <2>1. {i \in UsageRows(d, p) : d.entries[i].kind = File} = FilesBelow(d, p)
    BY <1>3, UsageRowsAre
  <2> QED
    BY <1>1, <1>3, <2>1, BytesAreSum
<1> QED
  BY <1>2, <1>3

-----------------------------------------------------------------------------

\* The zones at and below a path, and the rows that they hold.
ZonesWithin(d, p) == {z \in DOMAIN d.zones : LikeWithin(p, d.zones[z].path)}

LEMMA ZoneRowsBelow ==
  ASSUME PlainPaths, NEW d, Good(d), IsTreeOf(d), NEW p, IsNode(d, p), p # <<>>,
         RelativePath(d, p) = <<>>
  PROVE  /\ \A z \in DOMAIN d.zones : z \in ZonesWithin(d, p) <=> IsPrefix(p, d.zones[z].path)
         /\ RowsUnder(d.entries, DOMAIN d.entries, ZonesWithin(d, p)) = RowsBelow(d, p)
<1> DEFINE M == ZonesWithin(d, p)
<1>1. p \in Seq(Names) /\ d.zones[LocateZone(d, p)].path = p
  BY NodeLocated
<1>2. ASSUME NEW z \in DOMAIN d.zones PROVE z \in M <=> IsPrefix(p, d.zones[z].path)
  <2>1. d.zones[z].path \in Seq(Names)
    BY ZoneParts
  <2>2. LikeWithin(p, d.zones[z].path) <=> IsPrefix(p, d.zones[z].path)
    BY <1>1, <2>1, LikePrefix
  <2> QED
    BY <2>2 DEF ZonesWithin
<1>3. ASSUME NEW i \in DOMAIN d.entries
      PROVE  d.entries[i].zone \in M <=> IsPrefix(p, AbsolutePath(d, i))
  <2> DEFINE z == d.entries[i].zone
             top == d.zones[z].path
             a == AbsolutePath(d, i)
  <2>1. z \in DOMAIN d.zones /\ top \in Seq(Names) /\ a \in Seq(Names) /\ IsPrefix(top, a)
    BY EntryParts, AbsoluteParts
  <2>2. IsPrefix(p, a) /\ z # LocateZone(d, p) => IsPrefix(p, top)
    BY <1>1, BelowIsSelected
  <2>3. z = LocateZone(d, p) => IsPrefix(p, top)
    BY <1>1, PrefixSelf
  <2>4. z \in M <=> IsPrefix(p, top)
    BY <1>2, <2>1
  <2> HIDE DEF z, a, M
  <2>5. IsPrefix(p, top) => IsPrefix(p, a)
    BY <1>1, <2>1, PrefixTrans
  <2> QED
    BY <2>2, <2>3, <2>4, <2>5 DEF z, a, M
<1> QED
  BY <1>2, <1>3 DEF RowsUnder, RowsBelow


ByteColumn(d, M) == [z \in M |-> [size |-> d.zones[z].file_bytes]]

LEMMA ZoneBytesSum ==
  ASSUME NEW d, NEW M, IsFiniteSet(M)
  PROVE  MapThenSumSet(LAMBDA z : d.zones[z].file_bytes, M) = Sum(ByteColumn(d, M), M)
<1> DEFINE Is(h) == h = [s \in SUBSET M |-> IF s = {} THEN 0
                           ELSE d.zones[First(s)].file_bytes + h[s \ {First(s)}]]
           own == CHOOSE h : Is(h)
<1>1. MapThenSumSet(LAMBDA z : d.zones[z].file_bytes, M) = own[M]
  BY DEF MapThenSumSet, MapThenFoldSet, First
<1>2. ASSUME NEW h PROVE Sums(h, ByteColumn(d, M), M) <=> Is(h)
  <2>1. ASSUME NEW s \in SUBSET M, s # {}
        PROVE  ByteColumn(d, M)[First(s)].size = d.zones[First(s)].file_bytes
    BY <2>1, FirstIn DEF ByteColumn
  <2> QED
    BY <2>1 DEF Sums
<1>3. \E h : Is(h)
  BY <1>2, SumsExist
<1>4. Is(own)
  <2> HIDE DEF Is
  <2> QED
    BY <1>3
<1> HIDE DEF own, Is
<1>5. Sums(own, ByteColumn(d, M), M)
  BY <1>2, <1>4
<1> QED
  BY <1>1, <1>5, SumChosen

CountColumn(d, M) == [z \in M |-> [size |-> d.zones[z].entry_count]]

LEMMA ZoneCountsSum ==
  ASSUME NEW d, NEW M, IsFiniteSet(M)
  PROVE  MapThenSumSet(LAMBDA z : d.zones[z].entry_count, M) = Sum(CountColumn(d, M), M)
<1> DEFINE Is(h) == h = [s \in SUBSET M |-> IF s = {} THEN 0
                           ELSE d.zones[First(s)].entry_count + h[s \ {First(s)}]]
           own == CHOOSE h : Is(h)
<1>1. MapThenSumSet(LAMBDA z : d.zones[z].entry_count, M) = own[M]
  BY DEF MapThenSumSet, MapThenFoldSet, First
<1>2. ASSUME NEW h PROVE Sums(h, CountColumn(d, M), M) <=> Is(h)
  <2>1. ASSUME NEW s \in SUBSET M, s # {}
        PROVE  CountColumn(d, M)[First(s)].size = d.zones[First(s)].entry_count
    BY <2>1, FirstIn DEF CountColumn
  <2> QED
    BY <2>1 DEF Sums
<1>3. \E h : Is(h)
  BY <1>2, SumsExist
<1>4. Is(own)
  <2> HIDE DEF Is
  <2> QED
    BY <1>3
<1> HIDE DEF own, Is
<1>5. Sums(own, CountColumn(d, M), M)
  BY <1>2, <1>4
<1> QED
  BY <1>1, <1>5, SumChosen

LEMMA FastUsageIs ==
  ASSUME PlainPaths, NEW d, Good(d), IsTreeOf(d), NEW p, IsNode(d, p), p # <<>>
  PROVE  disk_usage_fast(d, p) = Sum(d.entries, FilesBelow(d, p))
<1> DEFINE M == ZonesWithin(d, p)
           I == {i \in DOMAIN d.entries : d.entries[i].kind = File}
           zs == ByteColumn(d, M)
<1>1. CASE RelativePath(d, p) # <<>>
  BY <1>1, UsageIs DEF disk_usage_fast
<1>2. CASE RelativePath(d, p) = <<>>
  <2>1. disk_usage_fast(d, p) = MapThenSumSet(LAMBDA z : d.zones[z].file_bytes, M)
    BY <1>2 DEF disk_usage_fast, ZonesWithin
  <2>2. M \subseteq DOMAIN d.zones /\ IsFiniteSet(M) /\ IsFiniteSet(I)
    <3>1. M \subseteq DOMAIN d.zones /\ I \subseteq DOMAIN d.entries
      BY DEF ZonesWithin
    <3> QED
      BY <3>1, RowsFinite, FS_Subset
  <2>3. RowsUnder(d.entries, I, M) = FilesBelow(d, p)
    <3>1. RowsUnder(d.entries, DOMAIN d.entries, M) = RowsBelow(d, p)
      BY <1>2, ZoneRowsBelow
    <3> QED
      BY <3>1 DEF RowsUnder, FilesBelow
  <2>4. ASSUME NEW z \in M PROVE zs[z].size = Sum(d.entries, RowsUnder(d.entries, I, {z}))
    <3>1. zs[z].size = FileBytes(d.entries, RowsIn(d.entries, z))
      BY <2>2, CountedParts DEF ByteColumn
    <3>2. {i \in RowsIn(d.entries, z) : d.entries[i].kind = File} = RowsUnder(d.entries, I, {z})
      BY DEF RowsIn, RowsUnder
    <3> QED
      BY <3>1, <3>2, BytesAreSum
  <2>5. \A i \in I : d.entries[i].size \in Nat
    BY RowsFinite
  <2>6. MapThenSumSet(LAMBDA z : d.zones[z].file_bytes, M) = Sum(zs, M)
    <3> HIDE DEF M
    <3> QED
      BY <2>2, ZoneBytesSum
  <2>7. Sum(zs, M) = Sum(d.entries, RowsUnder(d.entries, I, M))
    <3> DEFINE es == d.entries
    <3>1. SumPerZone(es, I, M, zs)
      BY <2>4 DEF SumPerZone
    <3>2. SizesAreNat(es, I)
      BY <2>5 DEF SizesAreNat
    <3>3. IsFiniteSet(I) /\ IsFiniteSet(M)
      BY <2>2
    <3> HIDE DEF M, I, zs, es
    <3>4. Sum(zs, M) = Sum(es, RowsUnder(es, I, M))
      BY <3>1, <3>2, <3>3, SumOfZones
    <3> QED
      BY <3>4 DEF es
  <2> QED
    BY <2>1, <2>3, <2>6, <2>7
<1> QED
  BY <1>1, <1>2

LEMMA ImageSize ==
  ASSUME NEW A, IsFiniteSet(A), NEW f, \A i, j \in A : f[i] = f[j] => i = j
  PROVE  /\ IsFiniteSet({f[i] : i \in A})
         /\ Cardinality({f[i] : i \in A}) = Cardinality(A)
<1> DEFINE B == {f[i] : i \in A}
           g == [i \in A |-> f[i]]
<1>1. g \in Surjection(A, B)
  BY DEF Surjection
<1>2. g \in Injection(A, B)
  BY DEF Injection, IsInjective
<1> HIDE DEF g, B
<1>3. IsFiniteSet(B) /\ Cardinality(B) = Cardinality(A)
  BY <1>1, <1>2, FS_Surjection
<1> QED
  BY <1>3 DEF B

\* Each node at and below a zone's path is a zone or an entry, never both.
LEMMA SubtreeSize ==
  ASSUME Good(db), IsTreeOf(db), NEW p, NEW M,
         M = {z \in DOMAIN db.zones : IsPrefix(p, db.zones[z].path)}
  PROVE  Cardinality(Subtree(p)) = Cardinality(M) + Cardinality(RowsBelow(db, p))
<1> DEFINE A == RowsBelow(db, p)
           f == [z \in M |-> db.zones[z].path]
           g == [i \in A |-> AbsolutePath(db, i)]
           X == {f[z] : z \in M}
           Y == {g[i] : i \in A}
<1>1. M \subseteq DOMAIN db.zones /\ A \subseteq DOMAIN db.entries
  BY DEF RowsBelow
<1>2. IsFiniteSet(M) /\ IsFiniteSet(A)
  BY <1>1, RowsFinite, FS_Subset
<1>3. \A y, z \in M : f[y] = f[z] => y = z
  BY <1>1 DEF IsTreeOf, Distinct
<1>4. \A i, j \in A : g[i] = g[j] => i = j
  <2>1. \A i \in A : EntriesFor(db, AbsolutePath(db, i)) = {i}
    BY <1>1, Resolves
  <2>2. \A i \in A : g[i] = AbsolutePath(db, i)
    OBVIOUS
  <2> QED
    BY <2>1, <2>2
<1>5. X \cap Y = {}
  <2>1. ASSUME NEW z \in M, NEW i \in A, f[z] = g[i] PROVE FALSE
    <3>1. db.zones[z].path = AbsolutePath(db, i)
      BY <2>1
    <3>2. ~IsZonePath(db, AbsolutePath(db, i))
      BY <1>1, Resolves
    <3> QED
      BY <1>1, <3>1, <3>2 DEF IsZonePath
  <2> HIDE DEF f, g, A
  <2> QED
    BY <2>1
<1>6. Subtree(p) = X \cup Y
  <2>1. ASSUME NEW q \in Subtree(p) PROVE q \in X \cup Y
    <3>1. q \in DOMAIN tree /\ IsPrefix(p, q)
      BY DEF Subtree
    <3>2. IsNode(db, q)
      BY <3>1, TreeNodes
    <3>3. CASE \E z \in DOMAIN db.zones : db.zones[z].path = q
      <4>1. PICK z \in DOMAIN db.zones : db.zones[z].path = q
        BY <3>3
      <4>2. z \in M /\ f[z] = q
        BY <3>1, <4>1
      <4> QED
        BY <4>2
    <3>4. CASE \E i \in DOMAIN db.entries : AbsolutePath(db, i) = q
      <4>1. PICK i \in DOMAIN db.entries : AbsolutePath(db, i) = q
        BY <3>4
      <4>2. i \in A /\ g[i] = q
        BY <3>1, <4>1 DEF RowsBelow
      <4> QED
        BY <4>2
    <3> QED
      BY <3>2, <3>3, <3>4 DEF IsNode, IsZonePath
  <2>2. ASSUME NEW z \in M PROVE f[z] \in Subtree(p)
    BY TreeNodes DEF Subtree
  <2>3. ASSUME NEW i \in A PROVE g[i] \in Subtree(p)
    BY <1>1, TreeNodes DEF Subtree, RowsBelow
  <2> HIDE DEF f, g, A
  <2> QED
    BY <2>1, <2>2, <2>3
<1> HIDE DEF A, f, g
<1>7. /\ IsFiniteSet(X) /\ Cardinality(X) = Cardinality(M)
      /\ IsFiniteSet(Y) /\ Cardinality(Y) = Cardinality(A)
  BY <1>2, <1>3, <1>4, ImageSize
<1> HIDE DEF X, Y
<1>8. Cardinality(X \cup Y) = Cardinality(X) + Cardinality(Y) - Cardinality(X \cap Y)
  BY <1>7, FS_Union
<1>9. Cardinality(X \cap Y) = 0 /\ Cardinality(X) \in Nat /\ Cardinality(Y) \in Nat
  BY <1>5, <1>7, FS_EmptySet, FS_CardinalityType
<1> QED
  BY <1>6, <1>7, <1>8, <1>9 DEF A

LEMMA MovedIs ==
  ASSUME PlainPaths, Good(db), IsTreeOf(db), NEW p, p # <<>>, IsZonePath(db, p)
  PROVE  moved_count(db, p) = Cardinality(Subtree(p))
<1> DEFINE M == ZonesWithin(db, p)
           I == DOMAIN db.entries
           zs == CountColumn(db, M)
<1>1. IsNode(db, p) /\ RelativePath(db, p) = <<>>
  <2>1. PICK z \in DOMAIN db.zones : db.zones[z].path = p
    BY DEF IsZonePath
  <2>2. RelativePath(db, db.zones[z].path) = <<>>
    BY ZoneResolves DEF IsTreeOf
  <2> QED
    BY <2>1, <2>2 DEF IsNode
<1>2. M \subseteq DOMAIN db.zones /\ IsFiniteSet(M) /\ IsFiniteSet(I)
  <2>1. M \subseteq DOMAIN db.zones
    BY DEF ZonesWithin
  <2> QED
    BY <2>1, RowsFinite, FS_Subset
<1>3. /\ \A z \in DOMAIN db.zones : z \in M <=> IsPrefix(p, db.zones[z].path)
      /\ RowsUnder(db.entries, I, M) = RowsBelow(db, p)
  BY <1>1, ZoneRowsBelow
<1>4. ASSUME NEW z \in M PROVE zs[z].size = Cardinality(RowsUnder(db.entries, I, {z}))
  <2>1. zs[z].size = Cardinality(RowsIn(db.entries, z))
    BY <1>2, CountedParts DEF CountColumn
  <2>2. RowsIn(db.entries, z) = RowsUnder(db.entries, I, {z})
    BY DEF RowsIn, RowsUnder
  <2> QED
    BY <2>1, <2>2
<1>5. moved_count(db, p) = Cardinality(M) + MapThenSumSet(LAMBDA z : db.zones[z].entry_count, M)
  BY DEF moved_count, ZonesWithin
<1>6. MapThenSumSet(LAMBDA z : db.zones[z].entry_count, M) = Sum(zs, M)
  <2> HIDE DEF M
  <2> QED
    BY <1>2, ZoneCountsSum
<1>7. M = {z \in DOMAIN db.zones : IsPrefix(p, db.zones[z].path)}
  BY <1>2, <1>3
<1> HIDE DEF M, I, zs
<1>8. Sum(zs, M) = Cardinality(RowsUnder(db.entries, I, M))
  BY <1>2, <1>4, CountOfZones
<1>9. Cardinality(Subtree(p)) = Cardinality(M) + Cardinality(RowsBelow(db, p))
  BY <1>7, SubtreeSize
<1> QED
  BY <1>3, <1>5, <1>6, <1>8, <1>9

\* Without zones below the path, the one zone that find reads is the only
\* one with anything to find.
LEMMA OneZoneFinds ==
  ASSUME NEW d, Good(d), IsTreeOf(d), NEW p, IsNode(d, p), p # <<>>,
         NEW kind \in Kinds
  PROVE  find_output(d, p, kind) = find_paths(d, p, kind)
<1> DEFINE here == LocateZone(d, p)
           r == RelativePath(d, p)
           mine == {j \in EntriesOf(d, {here}) :
                      d.entries[j].kind = kind /\ (r = <<>> \/ LikeWithin(r, d.entries[j].rel))}
           found == {j \in FoundEntries(d, p) : kind \in {None, d.entries[j].kind}}
<1>1. CASE ~(kind \in {File, Symlink} /\ ZonesLike(d, p) = {})
  BY <1>1 DEF find_output
<1>2. CASE kind \in {File, Symlink} /\ ZonesLike(d, p) = {}
  <2>1. find_output(d, p, kind) = {AbsolutePath(d, i) : i \in mine}
    BY <1>2 DEF find_output
  <2>2. find_paths(d, p, kind) = {AbsolutePath(d, i) : i \in found}
    <3>1. kind # None /\ kind # Dir
      BY <1>2, NoneAssumption DEF Kinds, File, Symlink, Dir
    <3> QED
      BY <3>1 DEF find_paths
  <2>3. SelectedZones(d, p) = {here}
    <3>1. here \in DOMAIN d.zones
      BY NodeLocated
    <3>2. ASSUME NEW z \in DOMAIN d.zones, d.zones[z].path = p PROVE z = here
      BY <3>2, ZoneResolves DEF IsTreeOf
    <3>3. \A z \in DOMAIN d.zones : ~LikeBelow(p, d.zones[z].path)
      BY <1>2 DEF ZonesLike
    <3> HIDE DEF here
    <3> QED
      BY <3>1, <3>2, <3>3 DEF SelectedZones, LikeWithin, here
  <2>4. \A i \in EntriesOf(d, {here}) : RelativeRoot(d, p, d.entries[i].zone) = r
    BY DEF EntriesOf, RelativeRoot
  <2>5. mine = found
    <3>1. kind # None
      BY NoneAssumption
    <3>2. ASSUME NEW i \in EntriesOf(d, {here})
          PROVE  i \in FoundEntries(d, p) <=> r = <<>> \/ LikeWithin(r, d.entries[i].rel)
      BY <2>3, <2>4 DEF FoundEntries
    <3>3. FoundEntries(d, p) \subseteq EntriesOf(d, {here})
      BY <2>3 DEF FoundEntries
    <3> HIDE DEF here, r
    <3> QED
      BY <3>1, <3>2, <3>3
  <2> QED
    BY <2>1, <2>2, <2>5
<1> QED
  BY <1>1, <1>2

\* The single-zone query of find and the counters that du and mv read in
\* place of rows give the answers of the rows.
THEOREM ShortcutsExact ==
  ASSUME PlainPaths
  PROVE  GuardedSpec => []FastPathsAgree
<1>1. ASSUME Good(db), IsTreeOf(db), NEW p \in DOMAIN tree \ {<<>>}
      PROVE  /\ \A kind \in Kinds : find_output(db, p, kind) = find_paths(db, p, kind)
             /\ disk_usage(db, p) = Bytes(p) /\ disk_usage_fast(db, p) = Bytes(p)
             /\ IsZonePath(db, p) => moved_count(db, p) = Cardinality(Subtree(p))
  <2>1. IsNode(db, p)
    BY <1>1, TreeNodes
  <2>2. \A kind \in Kinds : find_output(db, p, kind) = find_paths(db, p, kind)
    BY <1>1, <2>1, OneZoneFinds
  <2>3. Bytes(p) = Sum(db.entries, FilesBelow(db, p))
    BY <1>1, SubtreeBytes
  <2>4. disk_usage(db, p) = Sum(db.entries, FilesBelow(db, p))
    BY <1>1, <2>1, UsageIs
  <2>5. disk_usage_fast(db, p) = Sum(db.entries, FilesBelow(db, p))
    BY <1>1, <2>1, FastUsageIs
  <2>6. IsZonePath(db, p) => moved_count(db, p) = Cardinality(Subtree(p))
    BY <1>1, MovedIs
  <2> QED
    BY <2>2, <2>3, <2>4, <2>5, <2>6
<1>2. Good(db) /\ IsTreeOf(db) => FastPathsAgree
  BY <1>1 DEF FastPathsAgree
<1> QED
  BY <1>2, TreeInvariance, PTL


-----------------------------------------------------------------------------
(* Text goes to blocks.                                                    *)

TextRow(e) == e.kind = File /\ e.body \in Text => e.obj # None
TextStored(es) == \A i \in DOMAIN es : TextRow(es[i])
TextNext == TextStored(entries)'

\* A row whose content stays as it is.
Alike(e, r) == r.kind = e.kind /\ r.body = e.body /\ r.obj = e.obj

LEMMA AlikeText ==
  ASSUME NEW e, NEW r, Alike(e, r), TextRow(e)
  PROVE  TextRow(r)
BY DEF Alike, TextRow

LEMMA StoreText ==
  ASSUME NEW es, TextStored(es), NEW rows, \A i \in DOMAIN rows : TextRow(rows[i])
  PROVE  TextStored(Store(rows, es))
BY DEF TextStored, Store

LEMMA CommitText ==
  ASSUME NEW c, Commit(c), TextStored(c.entries)
  PROVE  TextNext
<1>1. entries' = c.entries
  BY DEF Commit
<1> QED
  BY <1>1 DEF TextNext, TextStored, TextRow

LEMMA InsertText ==
  ASSUME Good(db), TextStored(db.entries), NEW rows, \A i \in DOMAIN rows : TextRow(rows[i]),
         Commit(InsertEntries(db, rows))
  PROVE  TextNext
<1> DEFINE c == InsertEntries(db, rows)
<1>1. c.entries = Store(rows, db.entries)
  BY InsertLeaves
<1> HIDE DEF c
<1>2. TextStored(c.entries)
  BY <1>1, StoreText
<1> QED
  BY <1>2, CommitText DEF c

LEMMA DirText ==
  ASSUME NEW d, NEW p, NEW body
  PROVE  TextRow(EntryRow(d, p, Dir, body)) /\ TextRow(EntryRow(d, p, Symlink, body))
BY EntryRowIs DEF TextRow, File, Dir, Symlink

LEMMA mkdirText ==
  ASSUME Good(db), TextStored(db.entries), NEW p \in Paths, mkdir(p)
  PROVE  TextNext
<1>1. PICK i \in FreshNodes(db) : Commit(InsertEntries(db, OneRow(i, EntryRow(db, p, Dir, None))))
  BY DEF mkdir
<1> DEFINE rows == OneRow(i, EntryRow(db, p, Dir, None))
<1>2. \A k \in DOMAIN rows : TextRow(rows[k])
  <2>1. DOMAIN rows = {i} /\ rows[i] = EntryRow(db, p, Dir, None)
    BY OneRowParts
  <2> HIDE DEF rows
  <2> QED
    BY <2>1, DirText
<1> HIDE DEF rows
<1> QED
  BY <1>1, <1>2, InsertText DEF rows

LEMMA DirRowsText ==
  ASSUME Good(db), TextStored(db.entries), NEW P, NEW f, Commit(InsertEntries(db, DirRows(db, P, f)))
  PROVE  TextNext
<1>1. \A k \in DOMAIN DirRows(db, P, f) : TextRow(DirRows(db, P, f)[k])
  BY DirText DEF DirRows
<1> QED
  BY <1>1, InsertText

LEMMA mkdir_parentsText ==
  ASSUME Good(db), TextStored(db.entries), NEW P \in Batches, mkdir_parents(P)
  PROVE  TextNext
<1> DEFINE prefixes == UNION {Prefixes(p) : p \in P}
           missing == {q \in prefixes : KindOf(db, q) = None}
<1>1. PICK f \in Injection(missing, FreshNodes(db)) :
        Commit(InsertEntries(db, DirRows(db, missing, f)))
  BY Zenon DEF mkdir_parents
<1> HIDE DEF missing
<1> QED
  BY <1>1, DirRowsText

LEMMA mkdir_manyText ==
  ASSUME Good(db), TextStored(db.entries), NEW P \in Batches, mkdir_many(P)
  PROVE  TextNext
<1>1. PICK f \in Injection(P, FreshNodes(db)) : Commit(InsertEntries(db, DirRows(db, P, f)))
  BY DEF mkdir_many
<1> QED
  BY <1>1, DirRowsText

-----------------------------------------------------------------------------

\* All text is in blocks, but for rows of zone z.
TextBut(es, z) == \A i \in DOMAIN es : TextRow(es[i]) \/ es[i].zone = z

LEMMA BlockizedText ==
  ASSUME NEW d, Good(d), NEW z, TextBut(d.entries, z), NEW f, NEW c, Blockized(d, z, f, c)
  PROVE  TextStored(c.entries)
<1>1. ASSUME NEW i \in DOMAIN d.entries, i \in Unblocked(d, z) PROVE TextRow(c.entries[i])
  <2> DEFINE e == d.entries[i]
             o == f[i]
             r == [e EXCEPT !.obj = o, !.body = EmptyText]
  <2>1. e \in EntryRows
    BY DEF Good, GoodEntries, GoodRow
  <2>2. c.entries[i] = r /\ o # None
    BY <1>1 DEF Blockized
  <2> HIDE DEF e, o
  <2>3. r.obj = o
    BY <2>1 DEF EntryRows
  <2> HIDE DEF r
  <2> QED
    BY <2>2, <2>3 DEF TextRow
<1>2. ASSUME NEW i \in DOMAIN d.entries, i \notin Unblocked(d, z) PROVE TextRow(c.entries[i])
  <2>1. c.entries[i] = d.entries[i]
    BY <1>2 DEF Blockized
  <2>2. TextRow(d.entries[i])
    BY <1>2 DEF TextBut, Unblocked, TextRow
  <2> QED
    BY <2>1, <2>2
<1>3. DOMAIN c.entries = DOMAIN d.entries
  BY DEF Blockized
<1> QED
  BY <1>1, <1>2, <1>3 DEF TextStored

\* Lookups read the places of zones only.
LEMMA PlacesLookup ==
  ASSUME NEW d, Good(d), NEW c, Good(c), Distinct(c), SamePlaces(d.zones, c.zones),
         NEW p \in Seq(Names), ZonesOver(d, p) # {}
  PROVE  LocateZone(c, p) = LocateZone(d, p)
<1> DEFINE z == LocateZone(d, p)
<1>1. z \in DOMAIN d.zones /\ IsPrefix(d.zones[z].path, p) /\ ClearOf(d, p, d.zones[z].path)
  BY LookupIs
<1> HIDE DEF z
<1>2. z \in DOMAIN c.zones /\ IsPrefix(c.zones[z].path, p) /\ ClearOf(c, p, c.zones[z].path)
  BY <1>1 DEF SamePlaces, ClearOf
<1> QED
  BY <1>2, LookupFinds DEF z

\* The zone whose rows are blockized is the one the file was written to.
LEMMA write_fileText ==
  ASSUME Good(db), TextStored(db.entries), NEW p \in Paths, NEW body \in Data, KindOf(db, p) # Dir,
         write_file(p, body)
  PROVE  TextNext
<1>1. PICK i \in UpsertIds(db, p) :
        LET written == WriteInline(db, p, body, i)
            z == LocateZone(written, p)
        IN \E f \in Mappings(written, z) : Commit(Reclaim(Blockize(written, z, f, None)))
  BY Zenon DEF write_file
<1> DEFINE written == WriteInline(db, p, body, i)
           z == LocateZone(written, p)
<1>2. PICK f \in Mappings(written, z) : Commit(Reclaim(Blockize(written, z, f, None)))
  BY <1>1, Zenon
<1> DEFINE stored == Blockize(written, z, f, None)
           c == Reclaim(stored)
<1>3. p \in Seq(Names) /\ ParentIsDir(db, p)
  BY PathParts DEF write_file
<1>4. Good(written)
  BY <1>3, WriteInlineGood
<1>5. Written(db, p, body, i, written)
  BY <1>3, WriteInlineIs
<1> HIDE DEF written
<1>6. Good(stored) /\ Same(written, stored) /\ Blockized(written, z, f, stored)
  <2>1. None \in written.segments \cup {None}
    OBVIOUS
  <2>2. Blockized(written, z, f, stored)
    BY <1>4, <2>1, BlockizeLeaves
  <2>3. Good(stored)
    BY <1>4, BlockizeGood
  <2> HIDE DEF stored
  <2> QED
    BY <1>4, <2>2, <2>3, BlockizedSame
<1>10. Commit(c)
  BY <1>2
<1> HIDE DEF stored
<1>11. c.entries = stored.entries /\ Same(stored, c)
  BY <1>6, ReclaimGood, ReclaimLeaves, EqualsSame
<1> HIDE DEF c
<1>12. Distinct(written)
  BY <1>6, <1>10, <1>11, CommitDistinct, SameDistinct, SameThen
<1>13. z = LocateZone(db, Front(p))
  <2>1. SamePlaces(db.zones, written.zones)
    BY <1>5 DEF Written
  <2>2. p # <<>> /\ ZonesOver(db, Front(p)) # {}
    BY <1>3, ParentParts
  <2>3. ~IsZonePath(db, p)
    <3>1. ZonesOver(db, p) = {} => ~IsZonePath(db, p)
      BY <1>3, PrefixSelf DEF ZonesOver, IsZonePath
    <3> QED
      BY <3>1 DEF KindOf
  <2>4. LocateZone(db, p) = LocateZone(db, Front(p)) /\ ZonesOver(db, p) # {}
    BY <1>3, <2>2, <2>3, LookupAbove
  <2> QED
    BY <1>3, <1>4, <1>12, <2>1, <2>4, PlacesLookup
<1>7. TextBut(written.entries, z)
  <2>1. ASSUME NEW k \in DOMAIN written.entries, k # i PROVE TextRow(written.entries[k])
    <3>1. k \in DOMAIN db.entries /\ written.entries[k] = db.entries[k]
      BY <1>5, <2>1 DEF Written
    <3> QED
      BY <3>1 DEF TextStored
  <2>2. written.entries[i].zone = z
    BY <1>5, <1>13 DEF Written
  <2> QED
    BY <2>1, <2>2 DEF TextBut
<1>8. TextStored(stored.entries)
  BY <1>4, <1>6, <1>7, BlockizedText
<1> QED
  BY <1>8, <1>10, <1>11, CommitText

LEMMA import_textText ==
  ASSUME Good(db), TextStored(db.entries), NEW p \in Paths, NEW body \in Text, import_text(p, body)
  PROVE  TextNext
<1>1. PICK s \in FreshSegments(db), o \in FreshObjects(db), i \in UpsertIds(db, p) :
        LET stored == [db EXCEPT !.segments = segments \cup {s},
                                 !.objects = Store(OneRow(o, [data |-> body, segment |-> s]), objects)]
            written == WriteInline(stored, p, EmptyText, i)
        IN Commit(UpdateEntries(written, OneRow(i, [written.entries[i] EXCEPT
                                                 !.obj = o, !.size = Size[body]])))
  BY Zenon DEF import_text
<1> DEFINE b == [db EXCEPT !.segments = db.segments \cup {s}]
           x == [data |-> body, segment |-> s]
           made == OneRow(o, x)
           stored == [b EXCEPT !.objects = Store(made, b.objects)]
           written == WriteInline(stored, p, EmptyText, i)
           e == written.entries[i]
           r == [e EXCEPT !.obj = o, !.size = Size[body]]
           one == OneRow(i, r)
           c == UpdateEntries(written, one)
<1>2. s \in SegmentId /\ o \in ObjectId /\ o \notin DOMAIN db.objects /\ o # None
  BY NoneAssumption DEF FreshSegments, FreshObjects
<1>3. Good(b) /\ b.segments = db.segments \cup {s} /\ b.objects = db.objects
      /\ b.entries = db.entries /\ b.zones = db.zones
  BY <1>2, SegmentsGood, WithSegments DEF Good
<1>4. Commit(c)
  BY <1>1, <1>3, Zenon DEF db
<1>5. /\ DOMAIN made = {o} /\ made[o] = x
      /\ x \in ObjectRows /\ x.segment \in b.segments
  BY <1>2, <1>3, OneRowParts DEF ObjectRows
<1> HIDE DEF x, made
<1>6. Good(stored)
  <2>1. DOMAIN made \subseteq FreshObjects(b)
    BY <1>2, <1>3, <1>5 DEF FreshObjects
  <2> HIDE DEF b
  <2> QED
    BY <1>3, <1>5, <2>1, MadeGood
<1> HIDE DEF b
<1>7. stored.zones = db.zones /\ stored.entries = db.entries
  BY <1>3, WithObjects DEF Good
<1> HIDE DEF stored
<1>8. SamePlaces(db.zones, stored.zones) /\ SameRows(db.entries, stored.entries)
  BY <1>7 DEF SamePlaces, SameRows
<1>9. ParentIsDir(stored, p) /\ i \in UpsertIds(stored, p)
  BY <1>7, SameLookups DEF import_text
<1>10. EmptyText \in Data /\ p \in Seq(Names)
  BY ContentAssumption, PathParts DEF Data
<1>11. /\ Good(written) /\ i \in DOMAIN written.entries
       /\ Written(stored, p, EmptyText, i, written)
  BY <1>6, <1>9, <1>10, WriteInlineGood, WriteInlineIs
<1> HIDE DEF written
<1>12. r.obj = o
  <2>1. e \in EntryRows
    BY <1>11 DEF Good, GoodEntries, GoodRow
  <2> HIDE DEF e
  <2> QED
    BY <2>1 DEF EntryRows
<1>13. DOMAIN one = {i} /\ one[i] = r
  BY OneRowParts
<1> HIDE DEF r, one
<1>14. c.entries = Store(one, written.entries)
  BY <1>11, UpdateLeaves
<1> HIDE DEF c
<1>15. ASSUME NEW k \in DOMAIN c.entries PROVE TextRow(c.entries[k])
  <2>1. CASE k = i
    <3>1. c.entries[k] = r
      BY <1>13, <1>14, <2>1 DEF Store
    <3> QED
      BY <1>2, <1>12, <3>1 DEF TextRow
  <2>2. CASE k # i
    <3>1. k \in DOMAIN written.entries /\ c.entries[k] = written.entries[k]
      BY <1>13, <1>14, <2>2 DEF Store
    <3>2. k \in DOMAIN db.entries /\ written.entries[k] = db.entries[k]
      BY <1>7, <1>11, <2>2, <3>1 DEF Written
    <3> QED
      BY <3>1, <3>2 DEF TextStored
  <2> QED
    BY <2>1, <2>2
<1> QED
  BY <1>4, <1>15, CommitText DEF TextStored


LEMMA SubsetText ==
  ASSUME NEW es, TextStored(es), NEW fs, DOMAIN fs \subseteq DOMAIN es,
         \A i \in DOMAIN fs : fs[i] = es[i]
  PROVE  TextStored(fs)
BY DEF TextStored

LEMMA SegmentText ==
  ASSUME NEW d, Good(d), NEW z, TextBut(d.entries, z), NEW f \in Mappings(d, z), NEW s \in SegmentId,
         NEW c, c = BlockizeSegment(d, z, f, s)
  PROVE  TextStored(c.entries)
<1> DEFINE b == [d EXCEPT !.segments = d.segments \cup {s}]
           a == [d EXCEPT !.staging = d.staging \cup {s}]
<1>1. IsDb(d)
  BY DEF Good
<1>2. CASE Unblocked(d, z) = {}
  <2>1. c = a
    BY <1>2, Zenon DEF BlockizeSegment
  <2>2. a.entries = d.entries
    BY <1>1, WithStaging
  <2>3. TextStored(d.entries)
    BY <1>2 DEF TextBut, TextStored, TextRow, Unblocked
  <2> HIDE DEF a
  <2> QED
    BY <2>1, <2>2, <2>3
<1>3. CASE Unblocked(d, z) # {}
  <2>1. c = Blockize(b, z, f, s)
    BY <1>3, Zenon DEF BlockizeSegment
  <2>2. Good(b)
    BY SegmentsGood
  <2>3. /\ b.entries = d.entries /\ b.zones = d.zones /\ b.objects = d.objects
        /\ b.segments = d.segments \cup {s}
    BY <1>1, WithSegments
  <2> HIDE DEF b
  <2>4. f \in Mappings(b, z)
    <3>1. Unblocked(b, z) = Unblocked(d, z)
      BY <2>3, Zenon DEF Unblocked
    <3>2. FreshObjects(b) = FreshObjects(d)
      BY <2>3, Zenon DEF FreshObjects
    <3> QED
      BY <3>1, <3>2 DEF Mappings
  <2>5. Blockized(b, z, f, c)
    BY <2>1, <2>2, <2>3, <2>4, BlockizeLeaves
  <2> QED
    BY <2>2, <2>3, <2>5, BlockizedText
<1> QED
  BY <1>2, <1>3

\* All rows of an imported tree are in its new zone.
LEMMA ImportZoneText ==
  ASSUME NEW d, Good(d), TextStored(d.entries), NEW p \in Seq(Names), ParentIsDir(d, p),
         NEW staged \in Trees, NEW z \in FreshNodes(d),
         NEW f \in Injection(DOMAIN staged \ {<<>>}, FreshNodes(d) \ {z}),
         NEW c, c = ImportZone(d, p, staged, z, f), Good(c), Distinct(c)
  PROVE  LocateZone(c, p) = z /\ TextBut(c.entries, z)
<1> DEFINE made == [d EXCEPT !.zones = Store(OneRow(z, ZoneRow(d, p)), d.zones)]
           below == DOMAIN staged \ {<<>>}
           row(r) == [zone |-> z, rel |-> r, dir |-> Front(r), name |-> Last(r),
                      kind |-> staged[r].kind, body |-> staged[r].body, obj |-> None,
                      size |-> IF staged[r].kind = File THEN Size[staged[r].body] ELSE 0,
                      gen |-> 1]
           rows == [i \in {f[r] : r \in below} |-> row(CHOOSE r \in below : f[r] = i)]
<1>1. c = InsertEntries(made, rows)
  BY Zenon DEF ImportZone
<1>2. \A r : row(r).zone = z
  OBVIOUS
<1> HIDE DEF row
<1>3. \A k \in DOMAIN rows : rows[k].zone = z
  BY <1>2
<1> HIDE DEF rows
<1>4. Attaches(d, p, z, c) /\ Holds(c.entries, rows, d.entries)
  <2>1. made = WithZone(d, p, z)
    BY DEF WithZone
  <2> HIDE DEF made
  <2> QED
    BY <1>1, <2>1, AttachIs
<1>5. LocateZone(c, p) = z
  <2>1. z \in DOMAIN c.zones /\ c.zones[z].path = p
    BY <1>4 DEF Attaches
  <2>2. LocateZone(c, c.zones[z].path) = z
    BY <2>1, ZoneResolves
  <2> QED
    BY <2>1, <2>2
<1> QED
  BY <1>3, <1>4, <1>5 DEF Holds, TextBut, TextStored

LEMMA importText ==
  ASSUME Good(db), TextStored(db.entries), NEW p \in Paths, NEW staged \in Trees, import(p, staged)
  PROVE  TextNext
<1>1. PICK s \in FreshSegments(db), n \in FreshNodes(db) :
        \E f \in Injection(DOMAIN staged \ {<<>>}, FreshNodes(db) \ {n}) :
            LET root == staged[<<>>]
                inserted ==
                  IF root.kind = Dir THEN ImportZone(db, p, staged, n, f)
                  ELSE InsertEntries(db, OneRow(n, EntryRow(db, p, root.kind, root.body)))
                z == LocateZone(inserted, p)
            IN \E g \in Mappings(inserted, z) : Commit(BlockizeSegment(inserted, z, g, s))
  BY Zenon DEF import
<1>2. PICK f \in Injection(DOMAIN staged \ {<<>>}, FreshNodes(db) \ {n}) :
            LET root == staged[<<>>]
                inserted ==
                  IF root.kind = Dir THEN ImportZone(db, p, staged, n, f)
                  ELSE InsertEntries(db, OneRow(n, EntryRow(db, p, root.kind, root.body)))
                z == LocateZone(inserted, p)
            IN \E g \in Mappings(inserted, z) : Commit(BlockizeSegment(inserted, z, g, s))
  BY <1>1, Zenon
<1> DEFINE k == staged[<<>>].kind
           b == staged[<<>>].body
           inserted == IF k = Dir THEN ImportZone(db, p, staged, n, f)
                       ELSE InsertEntries(db, OneRow(n, EntryRow(db, p, k, b)))
           z == LocateZone(inserted, p)
<1>3. PICK g \in Mappings(inserted, z) : Commit(BlockizeSegment(inserted, z, g, s))
  BY <1>2, Zenon
<1>4. /\ p \in Seq(Names) /\ ParentIsDir(db, p) /\ KindOf(db, p) = None /\ StagedWell(staged)
      /\ p # <<>> /\ ZonesOver(db, Front(p)) # {}
  BY PathParts, ParentParts DEF import
<1>5. k \in Kinds /\ b \in Data \cup {None} /\ (k = File => b \in Data)
  BY <1>4, TreesAssumption DEF StagedWell
<1>6. DOMAIN db.zones # {}
  BY <1>4 DEF ZonesOver
<1> HIDE DEF k, b
<1>7. Good(inserted)
  <2>1. CASE k = Dir
    BY <1>4, <1>6, <2>1, ImportZoneGood
  <2>2. CASE k # Dir
    <3>1. GoodRow(DOMAIN db.zones, db.objects, EntryRow(db, p, k, b))
      BY <1>4, <1>5, EntryRowGood
    <3> QED
      BY <2>2, <3>1, OneRowGood
  <2> QED
    BY <2>1, <2>2
<1> DEFINE c == BlockizeSegment(inserted, z, g, s)
<1>8. Commit(c)
  BY <1>3
<1>9. s \in SegmentId
  BY DEF FreshSegments
<1>10. Same(inserted, c)
  <2> HIDE DEF inserted, z
  <2> QED
    BY <1>7, <1>9, BlockizeSegmentSame
<1> HIDE DEF c
<1>11. Distinct(inserted)
  <2> HIDE DEF inserted
  <2> QED
    BY <1>8, <1>10, CommitDistinct, SameDistinct
<1>12. TextBut(inserted.entries, z)
  <2>1. CASE k = Dir
    <3>1. inserted = ImportZone(db, p, staged, n, f)
      BY <2>1
    <3> HIDE DEF inserted
    <3> QED
      BY <1>4, <1>7, <1>11, <3>1, ImportZoneText
  <2>2. CASE k # Dir
    <3> DEFINE row == EntryRow(db, p, k, b)
               rows == OneRow(n, row)
    <3>1. inserted = InsertEntries(db, rows)
      BY <2>2
    <3> HIDE DEF inserted
    <3>2. inserted.entries = Store(rows, db.entries) /\ SamePlaces(db.zones, inserted.zones)
      BY <3>1, InsertLeaves
    <3>3. DOMAIN rows = {n} /\ rows[n] = row
      BY OneRowParts
    <3>4. row.zone = LocateZone(db, Front(p))
      BY EntryRowIs
    <3>5. ~IsZonePath(db, p)
      <4>1. ZonesOver(db, p) = {} => ~IsZonePath(db, p)
        BY <1>4, PrefixSelf DEF ZonesOver, IsZonePath
      <4> QED
        BY <1>4, <4>1, NoneAssumption DEF KindOf, Kinds
    <3>6. LocateZone(db, p) = LocateZone(db, Front(p)) /\ ZonesOver(db, p) # {}
      BY <1>4, <3>5, LookupAbove
    <3>7. z = LocateZone(db, Front(p))
      BY <1>4, <1>7, <1>11, <3>2, <3>6, PlacesLookup
    <3> HIDE DEF row, rows, z
    <3> QED
      BY <3>2, <3>3, <3>4, <3>7 DEF TextBut, TextStored, Store
  <2> QED
    BY <2>1, <2>2
<1> HIDE DEF inserted, z
<1>13. TextStored(c.entries)
  BY <1>7, <1>9, <1>12, SegmentText DEF c
<1> QED
  BY <1>8, <1>13, CommitText


\* A row that is given another place, or another generation.
LEMMA PlacedText ==
  ASSUME NEW e \in EntryRows, TextRow(e), NEW z, NEW rel, NEW dir, NEW name, NEW g
  PROVE  /\ TextRow([e EXCEPT !.gen = g])
         /\ TextRow([e EXCEPT !.zone = z, !.gen = g])
         /\ TextRow([[e EXCEPT !.zone = z, !.rel = rel, !.dir = dir, !.name = name] EXCEPT !.gen = g])
<1> DEFINE a == [e EXCEPT !.gen = g]
           b == [e EXCEPT !.zone = z, !.gen = g]
           r == [e EXCEPT !.zone = z, !.rel = rel, !.dir = dir, !.name = name]
           c == [r EXCEPT !.gen = g]
<1>1. Alike(e, a) /\ Alike(e, b)
  BY DEF Alike, EntryRows
<1>2. Alike(e, r) /\ {"kind", "body", "obj"} \subseteq DOMAIN r
  BY DEF Alike, EntryRows
<1> HIDE DEF r
<1>3. Alike(e, c)
  BY <1>2 DEF Alike
<1> HIDE DEF a, b, c
<1>4. TextRow(a) /\ TextRow(b) /\ TextRow(c)
  BY <1>1, <1>3, AlikeText
<1> QED
  BY <1>4 DEF a, b, c, r

LEMMA ZonedText ==
  ASSUME NEW e \in EntryRows, TextRow(e), NEW z
  PROVE  TextRow([e EXCEPT !.zone = z, !.gen = 1])
<1> DEFINE r == [e EXCEPT !.zone = z, !.gen = 1]
<1>1. Alike(e, r)
  BY DEF Alike, EntryRows
<1> HIDE DEF r
<1>2. TextRow(r)
  BY <1>1, AlikeText
<1> QED
  BY <1>2 DEF r

LEMMA RebaseText ==
  ASSUME NEW d, NEW p, NEW source, NEW e \in EntryRows, TextRow(e), NEW g
  PROVE  TextRow([Rebase(d, p, source, e) EXCEPT !.gen = g])
<1> DEFINE z == LocateZone(d, Front(p))
           rel == Append(RelativePath(d, Front(p)), Last(p)) \o Remainder(source, e.rel)
           name == IF e.rel = source THEN Last(p) ELSE e.name
           dir == Front(rel)
           r == [e EXCEPT !.zone = z, !.rel = rel, !.dir = dir, !.name = name]
<1>1. Rebase(d, p, source, e) = r
  BY Zenon DEF Rebase
<1> HIDE DEF z, rel, name, dir
<1>2. TextRow([r EXCEPT !.gen = g])
  BY PlacedText
<1> HIDE DEF r
<1> QED
  BY <1>1, <1>2

LEMMA CopyZoneText ==
  ASSUME Good(db), TextStored(db.entries), NEW src \in Seq(Names), NEW dst \in Seq(Names),
         ParentIsDir(db, dst), CopyZone(src, dst)
  PROVE  TextNext
<1> DEFINE z == LocateZone(db, src)
           old == EntriesOf(db, {z})
<1>1. PICK n \in FreshNodes(db) : \E f \in Injection(old, FreshNodes(db) \ {n}) :
            LET made == [db EXCEPT !.zones = Store(OneRow(n, ZoneRow(db, dst)), zones)]
            IN Commit(InsertEntries(made, [k \in {f[i] : i \in old} |->
                    [entries[CHOOSE i \in old : f[i] = k] EXCEPT !.zone = n, !.gen = 1]]))
  BY Zenon DEF CopyZone
<1>2. PICK f \in Injection(old, FreshNodes(db) \ {n}) :
            LET made == [db EXCEPT !.zones = Store(OneRow(n, ZoneRow(db, dst)), zones)]
            IN Commit(InsertEntries(made, [k \in {f[i] : i \in old} |->
                    [entries[CHOOSE i \in old : f[i] = k] EXCEPT !.zone = n, !.gen = 1]]))
  BY <1>1, Zenon
<1> DEFINE made == [db EXCEPT !.zones = Store(OneRow(n, ZoneRow(db, dst)), db.zones)]
           row(i) == [db.entries[i] EXCEPT !.zone = n, !.gen = 1]
           rows == [k \in {f[i] : i \in old} |-> row(CHOOSE i \in old : f[i] = k)]
           c == InsertEntries(made, rows)
<1>3. Commit(c)
  BY <1>2 DEF db
<1>4. Holds(c.entries, rows, db.entries)
  <2>1. c = InsertEntries(made, rows)
    OBVIOUS
  <2> HIDE DEF rows, c
  <2>2. made = WithZone(db, dst, n)
    BY DEF WithZone
  <2> HIDE DEF made
  <2> QED
    BY <2>1, <2>2, AttachIs
<1>5. old \subseteq DOMAIN db.entries
  BY DEF EntriesOf
<1>6. ASSUME NEW i \in old PROVE TextRow(row(i))
  <2> DEFINE e == db.entries[i]
  <2>1. e \in EntryRows /\ TextRow(e)
    BY <1>5 DEF Good, GoodEntries, GoodRow, TextStored
  <2>2. row(i) = [e EXCEPT !.zone = n, !.gen = 1]
    OBVIOUS
  <2> HIDE DEF e, row
  <2>3. TextRow([e EXCEPT !.zone = n, !.gen = 1])
    BY <2>1, ZonedText
  <2> QED
    BY <2>2, <2>3
<1> HIDE DEF row
<1>7. \A k \in DOMAIN rows : TextRow(rows[k])
  <2> HIDE DEF old
  <2> QED
    BY <1>6
<1> HIDE DEF rows, c
<1>8. TextStored(c.entries)
  BY <1>4, <1>7 DEF Holds, TextStored
<1> QED
  BY <1>3, <1>8, CommitText

LEMMA CopyEntryText ==
  ASSUME Good(db), TextStored(db.entries), NEW src, NEW dst,
         NEW recursive \in BOOLEAN, CopyEntry(src, dst, recursive)
  PROVE  TextNext
<1> DEFINE source == RelativePath(db, src)
           old == {i \in EntriesOf(db, {LocateZone(db, src)}) :
                     \/ entries[i].rel = source
                     \/ recursive /\ LikeBelow(source, entries[i].rel)}
<1>1. PICK f \in Injection(old, FreshNodes(db)) :
        Commit(InsertEntries(db, [k \in {f[i] : i \in old} |->
             [Rebase(db, dst, source, entries[CHOOSE i \in old : f[i] = k]) EXCEPT !.gen = 1]]))
  BY Zenon DEF CopyEntry
<1> DEFINE row(i) == [Rebase(db, dst, source, entries[i]) EXCEPT !.gen = 1]
           rows == [k \in {f[i] : i \in old} |-> row(CHOOSE i \in old : f[i] = k)]
<1>2. db.entries = entries
  BY DEF db
<1>3. old \subseteq DOMAIN db.entries
  BY DEF EntriesOf
<1>4. ASSUME NEW i \in old PROVE TextRow(row(i))
  <2>1. entries[i] \in EntryRows /\ TextRow(entries[i])
    BY <1>2, <1>3 DEF Good, GoodEntries, GoodRow, TextStored
  <2> QED
    BY <2>1, RebaseText
<1>5. Commit(InsertEntries(db, rows))
  BY <1>1
<1> HIDE DEF row
<1>6. \A k \in DOMAIN rows : TextRow(rows[k])
  <2> HIDE DEF old
  <2> QED
    BY <1>4
<1> HIDE DEF rows
<1> QED
  BY <1>5, <1>6, InsertText

LEMMA copyText ==
  ASSUME Good(db), TextStored(db.entries), NEW src \in Paths, NEW dst \in Paths,
         NEW recursive \in BOOLEAN, copy(src, dst, recursive)
  PROVE  TextNext
<1>1. src \in Seq(Names) /\ dst \in Seq(Names) /\ ParentIsDir(db, dst)
  BY PathParts DEF copy, CanPlace
<1>2. CopyZone(src, dst) \/ CopyEntry(src, dst, recursive)
  BY DEF copy
<1> QED
  BY <1>1, <1>2, CopyZoneText, CopyEntryText

LEMMA moveText ==
  ASSUME Good(db), TextStored(db.entries), NEW src \in Paths, NEW dst \in Paths, move(src, dst)
  PROVE  TextNext
<1> DEFINE d == IF KindOf(db, dst) = None THEN db
                ELSE DeleteEntries(db, EntriesFor(db, dst))
<1>1. Commit(MoveZone(d, src, dst)) \/ Commit(MoveEntry(d, src, dst))
  BY Zenon DEF move
<1>2. Good(d) /\ TextStored(d.entries)
  <2>1. CASE KindOf(db, dst) = None
    BY <2>1
  <2>2. CASE KindOf(db, dst) # None
    <3>1. d = DeleteEntries(db, EntriesFor(db, dst)) /\ EntriesFor(db, dst) \subseteq DOMAIN db.entries
      BY <2>2 DEF EntriesFor, EntriesAt
    <3> HIDE DEF d
    <3>2. Good(d) /\ d.entries = [i \in DOMAIN db.entries \ EntriesFor(db, dst) |-> db.entries[i]]
      BY <3>1, DeleteGood
    <3> QED
      BY <3>2 DEF TextStored
  <2> QED
    BY <2>1, <2>2
<1> HIDE DEF d
<1>3. CASE Commit(MoveZone(d, src, dst))
  <2> DEFINE c == MoveZone(d, src, dst)
             zs == c.zones
  <2>1. c.entries = d.entries
    BY <1>2 DEF MoveZone, Good, IsDb
  <2> HIDE DEF c
  <2> QED
    BY <1>2, <1>3, <2>1, CommitText DEF c
<1>4. CASE Commit(MoveEntry(d, src, dst))
  <2> DEFINE source == RelativePath(d, src)
             moved == {i \in EntriesOf(d, {LocateZone(d, src)}) : LikeWithin(source, d.entries[i].rel)}
             row(i) == [Rebase(d, dst, source, d.entries[i]) EXCEPT
                          !.gen = Bump(Rebase(d, dst, source, d.entries[i]).gen)]
             rows == [i \in moved |-> row(i)]
             c == MoveEntry(d, src, dst)
  <2>1. c = UpdateEntries(d, rows)
    BY Zenon DEF MoveEntry
  <2>2. moved \subseteq DOMAIN d.entries
    BY DEF EntriesOf
  <2>3. ASSUME NEW i \in moved PROVE TextRow(row(i))
    <3>1. d.entries[i] \in EntryRows /\ TextRow(d.entries[i])
      BY <1>2, <2>2 DEF Good, GoodEntries, GoodRow, TextStored
    <3> QED
      BY <3>1, RebaseText
  <2> HIDE DEF row, moved
  <2>4. \A i \in DOMAIN rows : TextRow(rows[i])
    BY <2>3
  <2> HIDE DEF rows, c
  <2>5. c.entries = Store(rows, d.entries)
    BY <1>2, <2>1, UpdateLeaves
  <2>6. TextStored(c.entries)
    BY <1>2, <2>4, <2>5, StoreText
  <2> QED
    BY <1>4, <2>6, CommitText DEF c
<1> QED
  BY <1>1, <1>3, <1>4

LEMMA RemovedText ==
  ASSUME NEW d, Good(d), TextStored(d.entries), NEW p \in Seq(Names), NEW recursive \in BOOLEAN,
         CanRemove(d, p, recursive), NEW c, c = Removed(d, p, recursive)
  PROVE  Good(c) /\ TextStored(c.entries)
<1>1. Good(c) /\ Within(c, d)
  BY RemovedIs DEF Without
<1> QED
  BY <1>1, SubsetText DEF Within

LEMMA removeText ==
  ASSUME Good(db), TextStored(db.entries), NEW p \in Paths, NEW recursive \in BOOLEAN,
         remove(p, recursive)
  PROVE  TextNext
<1> DEFINE c == Removed(db, p, recursive)
<1>1. CanRemove(db, p, recursive) /\ Commit(c) /\ p \in Seq(Names)
  BY PathParts DEF remove
<1>2. TextStored(c.entries)
  BY <1>1, RemovedText
<1> HIDE DEF c
<1> QED
  BY <1>1, <1>2, CommitText

LEMMA RemoveRoundText ==
  ASSUME NEW d, Good(d), TextStored(d.entries), NEW p \in Seq(Names),
         NEW recursive \in BOOLEAN, NEW force \in BOOLEAN,
         NEW c \in RemoveRound(d, p, recursive, force)
  PROVE  Good(c) /\ TextStored(c.entries)
<1>1. CASE c = d
  BY <1>1
<1>2. CASE c # d
  <2>1. CanRemove(d, p, recursive) /\ c = Removed(d, p, recursive)
    BY <1>2 DEF RemoveRound
  <2> QED
    BY <2>1, RemovedText
<1> QED
  BY <1>1, <1>2

LEMMA remove_manyText ==
  ASSUME Good(db), TextStored(db.entries), NEW P \in Batches, NEW recursive \in BOOLEAN,
         NEW force \in BOOLEAN, remove_many(P, recursive, force)
  PROVE  TextNext
<1>1. P \in SUBSET Seq(Names)
  BY BatchesAssumption, PathsAssumption
<1>2. CASE \E p \in P : IsZonePath(db, p)
  <2>1. PICK p \in P, q \in P : RemoveEach(p, q, recursive, force)
    BY <1>2 DEF remove_many
  <2>2. PICK d \in RemoveRound(db, p, recursive, force) :
          \E e \in RemoveRound(d, q, recursive, force) : Commit(e)
    BY <2>1 DEF RemoveEach
  <2>3. PICK e \in RemoveRound(d, q, recursive, force) : Commit(e)
    BY <2>2
  <2>4. p \in Seq(Names) /\ q \in Seq(Names)
    BY <1>1
  <2>5. Good(d) /\ TextStored(d.entries)
    BY <2>4, RemoveRoundText
  <2>6. TextStored(e.entries)
    BY <2>4, <2>5, RemoveRoundText
  <2> QED
    BY <2>3, <2>6, CommitText
<1>3. CASE ~ \E p \in P : IsZonePath(db, p)
  <2> DEFINE gone == Exact(db, P, recursive)
             cut == DeleteEntries(db, gone)
             c == Reclaim(cut)
  <2>1. Commit(c)
    BY <1>3 DEF remove_many, RemoveExact
  <2>2. gone \subseteq DOMAIN db.entries
    BY DEF Exact
  <2> HIDE DEF gone
  <2>3. Good(cut) /\ cut.entries = [i \in DOMAIN db.entries \ gone |-> db.entries[i]]
    BY <2>2, DeleteGood
  <2> HIDE DEF cut
  <2>4. c.entries = cut.entries
    BY <2>3, ReclaimGood
  <2> HIDE DEF c
  <2>5. TextStored(c.entries)
    BY <2>3, <2>4 DEF TextStored
  <2> QED
    BY <2>1, <2>5, CommitText
<1> QED
  BY <1>2, <1>3

LEMMA set_timesText ==
  ASSUME Good(db), TextStored(db.entries), NEW p \in Paths, set_times(p)
  PROVE  TextNext
<1>1. CASE RelativePath(db, p) = <<>>
  <2> DEFINE zs == [db.zones EXCEPT ![LocateZone(db, p)].gen = Bump(@)]
             c == [db EXCEPT !.zones = zs]
  <2>1. Commit(c)
    BY <1>1, Zenon DEF set_times, db
  <2> HIDE DEF zs
  <2>2. c.entries = db.entries
    BY WithZones DEF Good
  <2> HIDE DEF c
  <2> QED
    BY <2>1, <2>2, CommitText
<1>2. CASE RelativePath(db, p) # <<>>
  <2> DEFINE S == EntriesFor(db, p)
             row(i) == [db.entries[i] EXCEPT !.gen = Bump(db.entries[i].gen)]
             rows == [i \in S |-> row(i)]
             c == UpdateEntries(db, rows)
  <2>1. Commit(UpdateEntries(db, [i \in S |-> [entries[i] EXCEPT !.gen = Bump(@)]]))
    BY <1>2, Zenon DEF set_times
  <2>2. Commit(c)
    BY <2>1, Zenon DEF db
  <2>3. S \subseteq DOMAIN db.entries
    BY DEF EntriesFor, EntriesAt
  <2> HIDE DEF S
  <2>4. ASSUME NEW i \in S PROVE TextRow(row(i))
    <3> DEFINE e == db.entries[i]
               g == Bump(e.gen)
    <3>1. e \in EntryRows /\ TextRow(e)
      BY <2>3 DEF Good, GoodEntries, GoodRow, TextStored
    <3>2. row(i) = [e EXCEPT !.gen = g]
      OBVIOUS
    <3> HIDE DEF e, g, row
    <3> QED
      BY <3>1, <3>2, PlacedText
  <2> HIDE DEF row
  <2>5. \A i \in DOMAIN rows : TextRow(rows[i])
    BY <2>4
  <2> HIDE DEF rows
  <2>6. c.entries = Store(rows, db.entries)
    BY UpdateLeaves
  <2> HIDE DEF c
  <2>7. TextStored(c.entries)
    BY <2>5, <2>6, StoreText
  <2> QED
    BY <2>2, <2>7, CommitText
<1> QED
  BY <1>1, <1>2

LEMMA create_volumeText ==
  ASSUME Good(db), TextStored(db.entries), create_volume
  PROVE  TextNext
<1>1. PICK z \in FreshNodes(db) : Commit([db EXCEPT !.zones = OneRow(z, RootRow)])
  BY DEF create_volume
<1> DEFINE zs == OneRow(z, RootRow)
           c == [db EXCEPT !.zones = zs]
<1> HIDE DEF zs
<1>2. c.entries = db.entries
  BY WithZones DEF Good
<1>3. Commit(c)
  BY <1>1 DEF zs
<1> HIDE DEF c
<1> QED
  BY <1>2, <1>3, CommitText

LEMMA remove_volumeText ==
  ASSUME Good(db), remove_volume
  PROVE  TextNext
<1> DEFINE cut == DeleteEntries(db, DOMAIN db.entries)
           emptied == Reclaim(cut)
           c == [emptied EXCEPT !.zones = NoRows, !.objects = NoRows, !.segments = {}]
<1>1. Commit(c)
  BY Zenon DEF remove_volume, db
<1>2. Good(cut) /\ cut.entries = [i \in DOMAIN db.entries \ DOMAIN db.entries |-> db.entries[i]]
  BY DeleteGood
<1> HIDE DEF cut
<1>3. Good(emptied) /\ emptied.entries = cut.entries
  BY <1>2, ReclaimGood
<1> HIDE DEF emptied
<1>4. c.entries = emptied.entries
  BY <1>3 DEF Good, IsDb
<1> HIDE DEF c
<1>5. DOMAIN c.entries = {}
  BY <1>2, <1>3, <1>4
<1> QED
  BY <1>1, <1>5, CommitText DEF TextStored

LEMMA NextText ==
  ASSUME Good(db), TextStored(db.entries), GuardedNext
  PROVE  TextNext
<1>1. CASE create_volume
  BY <1>1, create_volumeText
<1>2. CASE remove_volume
  BY <1>2, remove_volumeText
<1>3. ASSUME NEW p \in Paths, mkdir(p) PROVE TextNext
  BY <1>3, mkdirText
<1>4. ASSUME NEW p \in Paths, set_times(p) PROVE TextNext
  BY <1>4, set_timesText
<1>5. ASSUME NEW p \in Paths, NEW body \in Data, KindOf(db, p) # Dir, write_file(p, body) PROVE TextNext
  BY <1>5, write_fileText
<1>6. ASSUME NEW p \in Paths, NEW body \in Text, import_text(p, body) PROVE TextNext
  BY <1>6, import_textText
<1>7. ASSUME NEW p \in Paths, NEW t \in Trees, import(p, t) PROVE TextNext
  BY <1>7, importText
<1>8. ASSUME NEW p \in Paths, NEW recursive \in BOOLEAN, remove(p, recursive) PROVE TextNext
  BY <1>8, removeText
<1>9. ASSUME NEW p \in Paths, NEW q \in Paths, move(p, q) PROVE TextNext
  BY <1>9, moveText
<1>10. ASSUME NEW p \in Paths, NEW q \in Paths, NEW recursive \in BOOLEAN, copy(p, q, recursive)
       PROVE TextNext
  BY <1>10, copyText
<1>11. ASSUME NEW P \in Batches, mkdir_parents(P) PROVE TextNext
  BY <1>11, mkdir_parentsText
<1>12. ASSUME NEW P \in Batches, mkdir_many(P) PROVE TextNext
  BY <1>12, mkdir_manyText
<1>13. ASSUME NEW P \in Batches, NEW recursive \in BOOLEAN, NEW force \in BOOLEAN,
              remove_many(P, recursive, force)
       PROVE TextNext
  BY <1>13, remove_manyText
<1> QED
  BY Zenon, <1>1, <1>2, <1>3, <1>4, <1>5, <1>6, <1>7, <1>8, <1>9, <1>10, <1>11, <1>12, <1>13
     DEF GuardedNext

\* Whatever the zone that a call works on, the one it blockizes is the one
\* that holds the rows it wrote: no text is left where a search of the
\* blocks does not see it.
THEOREM TextIsStored == GuardedSpec => []TextInBlocks
<1>1. Init => TextStored(db.entries)
  BY DEF Init, db, NoRows, TextStored
<1>2. Good(db) /\ TextStored(db.entries) /\ [GuardedNext]_vars => TextStored(db.entries)'
  <2>1. db.entries = entries
    BY DEF db
  <2>2. TextNext => TextStored(db.entries)'
    BY DEF TextNext, db
  <2>3. UNCHANGED vars /\ TextStored(db.entries) => TextNext
    BY <2>1 DEF vars, TextNext, TextStored, TextRow
  <2> QED
    BY <2>2, <2>3, NextText
<1>3. TextStored(db.entries) => TextInBlocks
  BY DEF TextStored, TextRow, TextInBlocks, db
<1>4. GuardedSpec => []Good(db)
  BY Invariant, GuardedIsSpec, PTL
<1> QED
  BY <1>1, <1>2, <1>3, <1>4, PTL DEF GuardedSpec

=============================================================================
