--------------------------- MODULE FileTreeProofs ---------------------------
(***************************************************************************)
(* Volume implements FileTree: a guarded call changes the tree that its    *)
(* readers see as one command of the file tree, or not at all.             *)
(*                                                                         *)
(* The refinement mapping, tree, is a function made with CHOOSE.  It is    *)
(* reasoned about through Image: the rows of d make the tree t when t has  *)
(* a node for every zone and for every entry, and no other.  Rows that     *)
(* form a tree (IsTreeOf) make exactly one.  For each call the tree that   *)
(* FileTree promises is shown to be an image of the rows that the call     *)
(* commits; so it is the tree that readers see next.                       *)
(***************************************************************************)
EXTENDS TreeProofs

-----------------------------------------------------------------------------
(* Images: the tree that rows make.                                        *)

\* A node as readers see it.
Node(kind, body) == [kind |-> kind, body |-> body]

EntryNode(d, i) == Node(d.entries[i].kind, Contents(d, i))

\* t holds a node for each zone of Z and for each entry of E, as they are in
\* d, and no other node.
ImageOf(d, Z, E, t) ==
    /\ t = [q \in DOMAIN t |-> t[q]]
    /\ \A q \in DOMAIN t :
         \/ \E z \in Z : d.zones[z].path = q
         \/ \E i \in E : AbsolutePath(d, i) = q
    /\ \A z \in Z : d.zones[z].path \in DOMAIN t /\ t[d.zones[z].path] = Node(Dir, None)
    /\ \A i \in E : AbsolutePath(d, i) \in DOMAIN t /\ t[AbsolutePath(d, i)] = EntryNode(d, i)

\* t is the whole tree of d.
Image(d, t) == ImageOf(d, DOMAIN d.zones, DOMAIN d.entries, t)

\* Rows make one tree.
LEMMA ImageUnique ==
  ASSUME NEW d, NEW Z, NEW E, NEW t, ImageOf(d, Z, E, t), NEW u, ImageOf(d, Z, E, u)
  PROVE  t = u
<1>1. DOMAIN t = DOMAIN u
  BY DEF ImageOf
<1>2. ASSUME NEW q \in DOMAIN t PROVE t[q] = u[q]
  BY <1>2 DEF ImageOf
<1>3. t = [q \in DOMAIN t |-> t[q]] /\ u = [q \in DOMAIN u |-> u[q]]
  BY DEF ImageOf
<1> QED
  BY <1>1, <1>2, <1>3, Zenon

\* The tree depends on paths, kinds and contents only.
LEMMA ImageKept ==
  ASSUME NEW d, NEW Z, NEW E, NEW t, ImageOf(d, Z, E, t), NEW c,
         \A z \in Z : c.zones[z].path = d.zones[z].path,
         \A i \in E : AbsolutePath(c, i) = AbsolutePath(d, i) /\ EntryNode(c, i) = EntryNode(d, i)
  PROVE  ImageOf(c, Z, E, t)
BY Zenon DEF ImageOf

\* Rows with paths apart make a tree over the other.
LEMMA ImageUnion ==
  ASSUME NEW d, NEW Z, NEW E, NEW t, ImageOf(d, Z, E, t),
         NEW Y, NEW F, NEW s, ImageOf(d, Y, F, s), DOMAIN s \cap DOMAIN t = {}
  PROVE  ImageOf(d, Z \cup Y, E \cup F, Abstract!Over(s, t))
<1> DEFINE u == Abstract!Over(s, t)
<1>1. /\ DOMAIN u = DOMAIN s \cup DOMAIN t /\ u = [q \in DOMAIN u |-> u[q]]
      /\ \A q \in DOMAIN s : u[q] = s[q]
      /\ \A q \in DOMAIN t : u[q] = t[q]
  BY DEF Abstract!Over
<1> HIDE DEF u
<1>2. ImageOf(d, Z \cup Y, E \cup F, u)
  BY <1>1 DEF ImageOf
<1> QED
  BY <1>2 DEF u

\* The rows with a path in Q make the part of the tree in Q.
LEMMA ImageCut ==
  ASSUME NEW d, NEW Z, NEW E, NEW t, ImageOf(d, Z, E, t),
         NEW Y \in SUBSET Z, NEW F \in SUBSET E, NEW Q \in SUBSET DOMAIN t,
         \A z \in Z : z \in Y <=> d.zones[z].path \in Q,
         \A i \in E : i \in F <=> AbsolutePath(d, i) \in Q
  PROVE  ImageOf(d, Y, F, [q \in Q |-> t[q]])
<1> DEFINE u == [q \in Q |-> t[q]]
<1>1. DOMAIN u = Q /\ u = [q \in DOMAIN u |-> u[q]] /\ \A q \in Q : u[q] = t[q]
  OBVIOUS
<1> HIDE DEF u
<1>2. ImageOf(d, Y, F, u)
  BY <1>1 DEF ImageOf
<1> QED
  BY <1>2 DEF u

\* The nodes that the zones Z and the entries E have in d below src are, below
\* dst, those of c, where zone z is zs[z] and entry i is es[i].
Planted(d, src, Z, E, c, dst, zs, es) ==
    /\ \A z \in Z : c.zones[zs[z]].path = dst \o Remainder(src, d.zones[z].path)
    /\ \A i \in E : /\ AbsolutePath(c, es[i]) = dst \o Remainder(src, AbsolutePath(d, i))
                    /\ EntryNode(c, es[i]) = EntryNode(d, i)

\* What lies at and below src in t, as a tree of its own.
Below(src, t) ==
    [r \in {SubSeq(q, Len(src) + 1, Len(q)) : q \in {x \in DOMAIN t : IsPrefix(src, x)}} |-> t[src \o r]]

\* Where the nodes at and below src are, once put at dst.
LEMMA BelowIs ==
  ASSUME NEW t, \A q \in DOMAIN t : q \in Seq(Names), NEW src \in Seq(Names), NEW dst \in Seq(Names)
  PROVE  LET u == Abstract!At(dst, Below(src, t))
         IN /\ \A q \in DOMAIN t : IsPrefix(src, q) =>
                 dst \o Remainder(src, q) \in DOMAIN u /\ u[dst \o Remainder(src, q)] = t[q]
            /\ \A x \in DOMAIN u : \E q \in DOMAIN t : IsPrefix(src, q) /\ x = dst \o Remainder(src, q)
            /\ u = [x \in DOMAIN u |-> u[x]]
<1> DEFINE b == Below(src, t)
           u == Abstract!At(dst, b)
<1>1. \A q \in DOMAIN t : IsPrefix(src, q) =>
        Remainder(src, q) \in DOMAIN b /\ b[Remainder(src, q)] = t[q]
  BY PrefixSplit DEF Below, Remainder
<1>2. \A r \in DOMAIN b : \E q \in DOMAIN t : IsPrefix(src, q) /\ r = Remainder(src, q)
  BY DEF Below, Remainder
<1>3. \A r \in DOMAIN b : r \in Seq(Names)
  BY <1>2, PrefixSplit
<1> HIDE DEF b
<1>4. DOMAIN u = {dst \o r : r \in DOMAIN b} /\ u = [x \in DOMAIN u |-> u[x]]
  BY DEF Abstract!At
<1>5. \A r \in DOMAIN b : u[dst \o r] = b[r]
  <2> TAKE r \in DOMAIN b
  <2>1. dst \o r \in {dst \o x : x \in DOMAIN b}
    OBVIOUS
  <2>2. u[dst \o r] = b[Remainder(dst, dst \o r)]
    BY <2>1 DEF Abstract!At, Remainder
  <2> QED
    BY <2>2, <1>3, ConcatRemainder
<1> HIDE DEF u
<1>6. \A q \in DOMAIN t : IsPrefix(src, q) =>
        dst \o Remainder(src, q) \in DOMAIN u /\ u[dst \o Remainder(src, q)] = t[q]
  BY <1>1, <1>4, <1>5
<1>7. \A x \in DOMAIN u : \E q \in DOMAIN t : IsPrefix(src, q) /\ x = dst \o Remainder(src, q)
  BY <1>2, <1>4
<1> QED
  BY <1>4, <1>6, <1>7 DEF u, b

\* Rows planted at dst make what was at src, at dst.
LEMMA ImagePlanted ==
  ASSUME NEW d, NEW Z, NEW E, NEW t, ImageOf(d, Z, E, t), \A q \in DOMAIN t : q \in Seq(Names),
         NEW src \in Seq(Names), NEW dst \in Seq(Names), NEW Y \in SUBSET Z, NEW F \in SUBSET E,
         \A z \in Z : z \in Y <=> IsPrefix(src, d.zones[z].path),
         \A i \in E : i \in F <=> IsPrefix(src, AbsolutePath(d, i)),
         NEW c, NEW zs, NEW es, Planted(d, src, Y, F, c, dst, zs, es)
  PROVE  ImageOf(c, {zs[z] : z \in Y}, {es[i] : i \in F}, Abstract!At(dst, Below(src, t)))
<1> DEFINE u == Abstract!At(dst, Below(src, t))
<1>1. /\ \A q \in DOMAIN t : IsPrefix(src, q) =>
            dst \o Remainder(src, q) \in DOMAIN u /\ u[dst \o Remainder(src, q)] = t[q]
      /\ \A x \in DOMAIN u : \E q \in DOMAIN t : IsPrefix(src, q) /\ x = dst \o Remainder(src, q)
      /\ u = [x \in DOMAIN u |-> u[x]]
  BY BelowIs
<1> HIDE DEF u
<1>2. ASSUME NEW x \in DOMAIN u
      PROVE  \/ \E y \in {zs[z] : z \in Y} : c.zones[y].path = x
             \/ \E j \in {es[i] : i \in F} : AbsolutePath(c, j) = x
  <2>1. PICK q \in DOMAIN t : IsPrefix(src, q) /\ x = dst \o Remainder(src, q)
    BY <1>1
  <2>2. CASE \E z \in Z : d.zones[z].path = q
    BY <2>1, <2>2 DEF Planted
  <2>3. CASE \E i \in E : AbsolutePath(d, i) = q
    BY <2>1, <2>3 DEF Planted
  <2> QED
    BY <2>2, <2>3 DEF ImageOf
<1>3. ASSUME NEW z \in Y
      PROVE  c.zones[zs[z]].path \in DOMAIN u /\ u[c.zones[zs[z]].path] = Node(Dir, None)
  <2> DEFINE q == d.zones[z].path
  <2>1. q \in DOMAIN t /\ t[q] = Node(Dir, None) /\ IsPrefix(src, q)
    BY DEF ImageOf
  <2>2. c.zones[zs[z]].path = dst \o Remainder(src, q)
    BY Zenon DEF Planted
  <2> HIDE DEF q
  <2> QED
    BY <1>1, <2>1, <2>2
<1>4. ASSUME NEW i \in F
      PROVE  AbsolutePath(c, es[i]) \in DOMAIN u /\ u[AbsolutePath(c, es[i])] = EntryNode(c, es[i])
  <2> DEFINE q == AbsolutePath(d, i)
  <2>1. q \in DOMAIN t /\ t[q] = EntryNode(d, i) /\ IsPrefix(src, q)
    BY DEF ImageOf
  <2>2. /\ AbsolutePath(c, es[i]) = dst \o Remainder(src, q)
        /\ EntryNode(c, es[i]) = EntryNode(d, i)
    BY Zenon DEF Planted
  <2> HIDE DEF q
  <2> QED
    BY <1>1, <2>1, <2>2
<1>5. ImageOf(c, {zs[z] : z \in Y}, {es[i] : i \in F}, u)
  <2>1. \A y \in {zs[z] : z \in Y} : c.zones[y].path \in DOMAIN u /\ u[c.zones[y].path] = Node(Dir, None)
    BY <1>3, Zenon
  <2>2. \A j \in {es[i] : i \in F} :
          AbsolutePath(c, j) \in DOMAIN u /\ u[AbsolutePath(c, j)] = EntryNode(c, j)
    BY <1>4, Zenon
  <2> QED
    BY <1>1, <1>2, <2>1, <2>2, Zenon DEF ImageOf
<1> QED
  BY <1>5 DEF u

-----------------------------------------------------------------------------

\* The tree that readers of d see.
TreeOf(d) ==
    [p \in {d.zones[z].path : z \in DOMAIN d.zones} \cup {AbsolutePath(d, i) : i \in DOMAIN d.entries} |->
        IF IsZonePath(d, p) THEN Node(Dir, None)
        ELSE EntryNode(d, CHOOSE i \in DOMAIN d.entries : AbsolutePath(d, i) = p)]

LEMMA TreeIs == tree = TreeOf(db)
BY DEF tree, NodeAt, TreeOf, Node, EntryNode, db

\* Every entry has a path of its own.
Sole(d) ==
    /\ \A i \in DOMAIN d.entries : ~IsZonePath(d, AbsolutePath(d, i))
    /\ \A i, j \in DOMAIN d.entries : AbsolutePath(d, i) = AbsolutePath(d, j) => i = j

LEMMA TreeSole ==
  ASSUME NEW d, Good(d), IsTreeOf(d)
  PROVE  Sole(d)
<1>1. \A i \in DOMAIN d.entries :
        /\ ~IsZonePath(d, AbsolutePath(d, i))
        /\ EntriesFor(d, AbsolutePath(d, i)) = {i}
  BY Resolves, Zenon
<1> QED
  BY <1>1 DEF Sole

LEMMA TreeImage ==
  ASSUME NEW d, Sole(d)
  PROVE  Image(d, TreeOf(d))
<1> DEFINE t == TreeOf(d)
<1>1. /\ DOMAIN t = {d.zones[z].path : z \in DOMAIN d.zones}
                    \cup {AbsolutePath(d, i) : i \in DOMAIN d.entries}
      /\ t = [q \in DOMAIN t |-> t[q]]
      /\ \A p \in DOMAIN t :
           t[p] = IF IsZonePath(d, p) THEN Node(Dir, None)
                  ELSE EntryNode(d, CHOOSE i \in DOMAIN d.entries : AbsolutePath(d, i) = p)
  BY DEF TreeOf
<1> HIDE DEF t
<1>2. \A z \in DOMAIN d.zones : t[d.zones[z].path] = Node(Dir, None)
  <2> TAKE z \in DOMAIN d.zones
  <2> DEFINE p == d.zones[z].path
  <2>1. p \in DOMAIN t /\ IsZonePath(d, p)
    BY <1>1 DEF IsZonePath
  <2> HIDE DEF p
  <2>2. t[p] = Node(Dir, None)
    BY <1>1, <2>1
  <2> QED
    BY <2>2 DEF p
<1>3. \A i \in DOMAIN d.entries : t[AbsolutePath(d, i)] = EntryNode(d, i)
  <2> TAKE i \in DOMAIN d.entries
  <2>1. (CHOOSE j \in DOMAIN d.entries : AbsolutePath(d, j) = AbsolutePath(d, i)) = i
    BY DEF Sole
  <2> QED
    BY <1>1, <2>1 DEF Sole
<1> QED
  BY <1>1, <1>2, <1>3 DEF Image, ImageOf, t

-----------------------------------------------------------------------------
(* What a command sees and what a commit shows.                            *)

\* A step of the file tree.
Implements == [Abstract!Next]_tree

\* A commit of c shows the tree whose image c is.
LEMMA CommitImage ==
  ASSUME NEW c, Commit(c), Good(db)', TreeNext, NEW t, Image(c, t)
  PROVE  tree' = t
<1> DEFINE e == db'
<1>1. e.zones = c.zones /\ e.entries = c.entries /\ e.objects = c.objects
  BY DEF Commit, db
<1>2. Good(e) /\ IsTreeOf(e)
  BY DEF TreeNext
<1>3. tree' = TreeOf(e)
  BY DEF tree, NodeAt, TreeOf, Node, EntryNode, db
<1> HIDE DEF e
<1>4. Image(e, TreeOf(e))
  BY <1>2, TreeSole, TreeImage
<1>5. /\ \A i \in DOMAIN c.entries : AbsolutePath(e, i) = AbsolutePath(c, i) /\ EntryNode(e, i) = EntryNode(c, i)
      /\ \A z \in DOMAIN c.zones : e.zones[z].path = c.zones[z].path
  BY <1>1 DEF AbsolutePath, EntryNode, Contents
<1>6. Image(e, t)
  BY <1>1, <1>5, ImageKept DEF Image
<1> QED
  BY <1>3, <1>4, <1>6, ImageUnique DEF Image

\* The volume as it is.
LEMMA ImageNow ==
  ASSUME Good(db), IsTreeOf(db)
  PROVE  Image(db, tree)
BY TreeIs, TreeSole, TreeImage

\* What a command asks of the tree is what kind_of answers.
LEMMA KindIs ==
  ASSUME Good(db), IsTreeOf(db), NEW p \in Seq(Names)
  PROVE  /\ Abstract!Kind(p) = KindOf(db, p)
         /\ p \in DOMAIN tree <=> KindOf(db, p) # None
         /\ p \in DOMAIN tree => tree[p].kind = KindOf(db, p)
<1>1. p \in DOMAIN tree <=> IsNode(db, p)
  BY TreeNodes
<1>2. IsNode(db, p) => tree[p].kind = KindOf(db, p)
  <2>1. CASE \E z \in DOMAIN db.zones : db.zones[z].path = p
    BY <2>1, TreeNodes, ZoneResolves DEF IsTreeOf
  <2>2. CASE \E i \in DOMAIN db.entries : AbsolutePath(db, i) = p
    BY <2>2, TreeNodes, Resolves
  <2> QED
    BY <2>1, <2>2 DEF IsNode, IsZonePath
<1>3. KindOf(db, p) # None <=> IsNode(db, p)
  BY FoundIsNode, NodeIsFound, NoneAssumption DEF Kinds
<1> QED
  BY <1>1, <1>2, <1>3 DEF Abstract!Kind

\* Nodes have paths of names.
LEMMA NamedPaths ==
  ASSUME Good(db), IsTreeOf(db), NEW p \in DOMAIN tree
  PROVE  p \in Seq(Names)
BY TreeNodes, NodeIsFound

\* The operators on sequences are the same on both sides.
LEMMA SameOperators ==
  /\ \A p : Abstract!Front(p) = Front(p)
  /\ \A p, q : Abstract!IsPrefix(p, q) <=> IsPrefix(p, q)
  /\ \A p : Abstract!Prefixes(p) = Prefixes(p)
<1>1. \A p : Abstract!Front(p) = Front(p)
  BY DEF Abstract!Front, Front
<1>2. \A p, q : Abstract!IsPrefix(p, q) <=> IsPrefix(p, q)
  BY DEF Abstract!IsPrefix, IsPrefix
<1>3. \A p : Abstract!Prefixes(p) = Prefixes(p)
  BY DEF Abstract!Prefixes, Prefixes
<1> QED
  BY <1>1, <1>2, <1>3

\* parent_dir finds a directory that can hold the node.
LEMMA HoldIs ==
  ASSUME Good(db), IsTreeOf(db), NEW p \in Seq(Names), ParentIsDir(db, p)
  PROVE  Abstract!CanHold(p) /\ tree # Abstract!Nothing
<1>1. p # <<>> /\ KindOf(db, Front(p)) = Dir
  BY DEF ParentIsDir
<1>2. Front(p) \in Seq(Names)
  BY <1>1, SplitPath
<1>3. Front(p) \in DOMAIN tree /\ Abstract!Kind(Front(p)) = Dir
  BY <1>1, <1>2, KindIs, NoneAssumption DEF Kinds
<1>4. DOMAIN Abstract!Nothing = {}
  BY DEF Abstract!Nothing
<1> QED
  BY <1>1, <1>3, <1>4, SameOperators DEF Abstract!CanHold

\* Zones Z and entries E are in c what they were in d.
Stays(d, Z, E, c) ==
    /\ \A z \in Z : c.zones[z].path = d.zones[z].path
    /\ \A i \in E : AbsolutePath(c, i) = AbsolutePath(d, i) /\ EntryNode(c, i) = EntryNode(d, i)

\* Rows that stay make the tree they made.
LEMMA ImageStays ==
  ASSUME NEW d, NEW Z, NEW E, NEW t, ImageOf(d, Z, E, t), NEW c, Stays(d, Z, E, c)
  PROVE  ImageOf(c, Z, E, t)
BY ImageKept DEF Stays

\* Rows that are not written stay.
LEMMA SameRowStays ==
  ASSUME NEW d, Good(d), NEW c, NEW Z \in SUBSET DOMAIN d.zones, NEW E \in SUBSET DOMAIN d.entries,
         \A z \in DOMAIN d.zones : c.zones[z].path = d.zones[z].path,
         \A i \in E : c.entries[i] = d.entries[i],
         \A o \in DOMAIN d.objects : c.objects[o] = d.objects[o]
  PROVE  Stays(d, Z, E, c)
<1>1. ASSUME NEW i \in E
      PROVE  AbsolutePath(c, i) = AbsolutePath(d, i) /\ EntryNode(c, i) = EntryNode(d, i)
  <2>1. c.entries[i] = d.entries[i] /\ d.entries[i].zone \in DOMAIN d.zones
    BY EntryParts
  <2>2. d.entries[i].obj # None => d.entries[i].obj \in DOMAIN d.objects
    BY DEF Good, GoodEntries, GoodRow
  <2> QED
    BY <2>1, <2>2 DEF AbsolutePath, EntryNode, Contents
<1> QED
  BY <1>1 DEF Stays

-----------------------------------------------------------------------------
(* Directories.                                                            *)

\* New entries beside the old ones.
LEMMA InsertImage ==
  ASSUME NEW d, Good(d), NEW t, Image(d, t), NEW rows, DOMAIN rows \cap DOMAIN d.entries = {},
         NEW c, c = InsertEntries(d, rows),
         NEW s, ImageOf(c, {}, DOMAIN rows, s), DOMAIN s \cap DOMAIN t = {}
  PROVE  Image(c, Abstract!Over(s, t))
<1>1. Holds(c.entries, rows, d.entries) /\ SamePlaces(d.zones, c.zones) /\ c.objects = d.objects
  BY InsertLeaves, StoreHolds
<1>2. Stays(d, DOMAIN d.zones, DOMAIN d.entries, c)
  BY <1>1, SameRowStays DEF Holds, SamePlaces
<1>3. ImageOf(c, DOMAIN d.zones, DOMAIN d.entries, t)
  BY <1>2, ImageStays DEF Image
<1>4. ImageOf(c, DOMAIN d.zones \cup {}, DOMAIN d.entries \cup DOMAIN rows, Abstract!Over(s, t))
  BY <1>3, ImageUnion
<1>5. DOMAIN c.zones = DOMAIN d.zones \cup {} /\ DOMAIN c.entries = DOMAIN d.entries \cup DOMAIN rows
  BY <1>1 DEF Holds, SamePlaces
<1> QED
  BY <1>4, <1>5, Zenon DEF Image

\* p has a name, and a zone to be in.
HasPlace(d, p) == p # <<>> /\ ZonesOver(d, Front(p)) # {}

\* Row i of c is the one insert_entry makes for p in d.
RowFor(d, p, kind, body, c, i) ==
    SamePlaces(d.zones, c.zones) /\ c.entries[i] = EntryRow(d, p, kind, body)

\* A row made for path p is at p.
LEMMA NewRowNode ==
  ASSUME NEW d, Good(d), NEW p \in Seq(Names), HasPlace(d, p),
         NEW kind, NEW body, NEW c, NEW i, RowFor(d, p, kind, body, c, i)
  PROVE  AbsolutePath(c, i) = p /\ EntryNode(c, i) = Node(kind, body)
<1> USE DEF RowFor
<1>1. /\ c.entries[i].zone = LocateZone(d, Front(p))
      /\ c.entries[i].rel = Append(RelativePath(d, Front(p)), Last(p))
      /\ c.entries[i].kind = kind /\ c.entries[i].body = body /\ c.entries[i].obj = None
  BY EntryRowIs
<1>2. /\ LocateZone(d, Front(p)) \in DOMAIN d.zones
      /\ p = d.zones[LocateZone(d, Front(p))].path \o Append(RelativePath(d, Front(p)), Last(p))
  BY NewPlace DEF HasPlace
<1> QED
  BY <1>1, <1>2 DEF AbsolutePath, EntryNode, Contents, SamePlaces

\* s is the node n at p and nothing else.
Single(p, n, s) == DOMAIN s = {p} /\ s[p] = n /\ s = [q \in DOMAIN s |-> s[q]]

\* Alone is that.
LEMMA AloneIs ==
  ASSUME NEW p, NEW n
  PROVE  Single(p, n, Abstract!Alone(p, n))
BY DEF Abstract!Alone, Single

\* The new row makes one node.
LEMMA OneImage ==
  ASSUME NEW d, Good(d), NEW p \in Seq(Names), HasPlace(d, p),
         NEW kind, NEW body, NEW i, NEW c, c = InsertEntries(d, OneRow(i, EntryRow(d, p, kind, body)))
  PROVE  ImageOf(c, {}, {i}, Abstract!Alone(p, Node(kind, body)))
<1> DEFINE rows == OneRow(i, EntryRow(d, p, kind, body))
           s == Abstract!Alone(p, Node(kind, body))
<1>1. DOMAIN rows = {i} /\ rows[i] = EntryRow(d, p, kind, body)
  BY OneRowParts
<1> HIDE DEF rows
<1>2. Holds(c.entries, rows, d.entries) /\ SamePlaces(d.zones, c.zones)
  BY InsertLeaves, StoreHolds DEF rows
<1>3. RowFor(d, p, kind, body, c, i)
  BY <1>1, <1>2 DEF Holds, RowFor
<1>4. AbsolutePath(c, i) = p /\ EntryNode(c, i) = Node(kind, body)
  <2> HIDE DEF s
  <2> QED
    BY <1>3, NewRowNode
<1>5. Single(p, Node(kind, body), s)
  BY AloneIs
<1> HIDE DEF s
<1>6. ImageOf(c, {}, {i}, s)
  BY <1>4, <1>5 DEF ImageOf, Single
<1> QED
  BY <1>6 DEF s

\* An insert of one node where there is none.
LEMMA OneStep ==
  ASSUME Good(db), IsTreeOf(db), NEW p \in Seq(Names), ParentIsDir(db, p), KindOf(db, p) = None,
         NEW kind, NEW body, NEW i \in FreshNodes(db),
         NEW c, c = InsertEntries(db, OneRow(i, EntryRow(db, p, kind, body)))
  PROVE  Image(c, Abstract!Over(Abstract!Alone(p, Node(kind, body)), tree))
<1> DEFINE rows == OneRow(i, EntryRow(db, p, kind, body))
           s == Abstract!Alone(p, Node(kind, body))
<1>1. HasPlace(db, p)
  BY ParentParts DEF HasPlace
<1>2. DOMAIN rows = {i} /\ i \notin DOMAIN db.entries
  BY OneRowParts DEF FreshNodes
<1>3. ImageOf(c, {}, {i}, s)
  BY <1>1, OneImage
<1>4. DOMAIN s = {p} /\ p \notin DOMAIN tree
  BY AloneIs, KindIs DEF Single
<1> HIDE DEF s, rows
<1>5. Image(db, tree)
  BY ImageNow
<1>6. Image(c, Abstract!Over(s, tree))
  BY <1>2, <1>3, <1>4, <1>5, InsertImage DEF rows
<1> QED
  BY <1>6 DEF s

\* mkdir makes one directory.
LEMMA mkdirStep ==
  ASSUME Good(db), IsTreeOf(db), Good(db)', TreeNext, NEW p \in Paths, mkdir(p)
  PROVE  Abstract!MakeDirs({p})
<1>1. p \in Seq(Names) /\ ParentIsDir(db, p) /\ KindOf(db, p) = None
  BY PathParts DEF mkdir
<1>2. PICK i \in FreshNodes(db) : Commit(InsertEntries(db, OneRow(i, EntryRow(db, p, Dir, None))))
  BY Zenon DEF mkdir
<1> DEFINE c == InsertEntries(db, OneRow(i, EntryRow(db, p, Dir, None)))
           s == Abstract!Alone(p, Node(Dir, None))
<1>3. Image(c, Abstract!Over(s, tree))
  BY <1>1, OneStep
<1>4. tree' = Abstract!Over(s, tree)
  BY <1>2, <1>3, CommitImage
<1>5. Abstract!CanHold(p) /\ tree # Abstract!Nothing
  BY <1>1, HoldIs
<1>6. p \notin DOMAIN tree /\ Abstract!Kind(p) = None
  BY <1>1, KindIs
<1>7. s = [q \in {p} \ DOMAIN tree |-> Abstract!Directory]
  <2>1. {p} \ DOMAIN tree = {p}
    BY <1>6
  <2> QED
    BY <2>1 DEF Abstract!Alone, Abstract!Directory, Node
<1> HIDE DEF s
<1> QED
  BY <1>4, <1>5, <1>6, <1>7 DEF Abstract!MakeDirs, Abstract!CanHold

\* A volume with zones is a tree.
LEMMA VolumeIs ==
  ASSUME Good(db), IsTreeOf(db), DOMAIN db.zones # {}
  PROVE  tree # Abstract!Nothing
<1>1. <<>> \in Seq(Names) /\ KindOf(db, <<>>) = Dir
  BY RootIsOver, EmptySeq
<1>2. <<>> \in DOMAIN tree
  BY <1>1, KindIs, NoneAssumption DEF Kinds
<1>3. DOMAIN Abstract!Nothing = {}
  BY DEF Abstract!Nothing
<1> QED
  BY <1>2, <1>3

\* New directories, where none of them is.
LEMMA DirRowsStep ==
  ASSUME Good(db), IsTreeOf(db), NEW P \in SUBSET Seq(Names), NEW f \in Injection(P, FreshNodes(db)),
         \A q \in P : KindOf(db, q) = None /\ HasPlace(db, q),
         NEW c, c = InsertEntries(db, DirRows(db, P, f))
  PROVE  Image(c, Abstract!Over([q \in P |-> Abstract!Directory], tree))
<1> DEFINE rows == DirRows(db, P, f)
           s == [q \in P |-> Abstract!Directory]
<1>2. \A q \in P : f[q] \in DOMAIN rows /\ rows[f[q]] = EntryRow(db, q, Dir, None)
  <2>1. \A q, r \in P : f[q] = f[r] => q = r
    <3>1. IsInjective(f) /\ f \in [P -> FreshNodes(db)]
      BY DEF Injection
    <3> QED
      BY <3>1 DEF IsInjective
  <2>2. \A q \in P : (CHOOSE r \in P : f[r] = f[q]) = q
    BY <2>1
  <2> QED
    BY <2>2 DEF DirRows
<1>3. DOMAIN rows = {f[q] : q \in P}
  BY DEF DirRows
<1>4. DOMAIN rows \cap DOMAIN db.entries = {}
  BY DEF DirRows, Injection, FreshNodes
<1> HIDE DEF rows
<1>5. Holds(c.entries, rows, db.entries) /\ SamePlaces(db.zones, c.zones)
  BY InsertLeaves, StoreHolds DEF rows
<1>6. DOMAIN s = P /\ s = [q \in DOMAIN s |-> s[q]] /\ \A q \in P : s[q] = Node(Dir, None)
  BY DEF Abstract!Directory, Node
<1> HIDE DEF s
<1>7. ASSUME NEW q \in P
      PROVE  AbsolutePath(c, f[q]) = q /\ EntryNode(c, f[q]) = Node(Dir, None)
  <2> DEFINE j == f[q]
             kind == Dir
  <2>1. RowFor(db, q, Dir, None, c, j)
    BY <1>2, <1>5 DEF Holds, RowFor
  <2>2. q \in Seq(Names) /\ HasPlace(db, q)
    OBVIOUS
  <2> HIDE DEF j
  <2>3. AbsolutePath(c, j) = q /\ EntryNode(c, j) = Node(Dir, None)
    BY <2>1, <2>2, NewRowNode
  <2> QED
    BY <2>3 DEF j
<1>8. ImageOf(c, {}, DOMAIN rows, s)
  <2>1. \A q \in DOMAIN s : \E i \in DOMAIN rows : AbsolutePath(c, i) = q
    BY <1>3, <1>6, <1>7
  <2>2. \A i \in DOMAIN rows : AbsolutePath(c, i) \in DOMAIN s /\ s[AbsolutePath(c, i)] = EntryNode(c, i)
    BY <1>3, <1>6, <1>7
  <2> QED
    BY <1>6, <2>1, <2>2 DEF ImageOf
<1>9. DOMAIN s \cap DOMAIN tree = {}
  BY <1>6, KindIs
<1>10. Image(db, tree)
  BY ImageNow
<1>11. Image(c, Abstract!Over(s, tree))
  BY <1>4, <1>8, <1>9, <1>10, InsertImage DEF rows
<1> QED
  BY <1>11 DEF s

\* The directories of P that were missing are made: this is what the tree is
\* promised, whichever command asked for it.
LEMMA DirsStep ==
  ASSUME Good(db), IsTreeOf(db), Good(db)', TreeNext, NEW P \in SUBSET Seq(Names),
         NEW missing, missing = {q \in P : KindOf(db, q) = None},
         \A q \in P : KindOf(db, q) \in {None, Dir},
         \A q \in P : q # <<>> => Front(q) \in P \/ KindOf(db, Front(q)) = Dir,
         \A q \in missing : HasPlace(db, q), DOMAIN db.zones # {},
         NEW f \in Injection(missing, FreshNodes(db)),
         Commit(InsertEntries(db, DirRows(db, missing, f)))
  PROVE  Abstract!MakeDirs(P)
<1> DEFINE c == InsertEntries(db, DirRows(db, missing, f))
           t == Abstract!Over([q \in missing |-> Abstract!Directory], tree)
<1>1. missing \in SUBSET Seq(Names)
  OBVIOUS
<1>2. \A q \in missing : KindOf(db, q) = None /\ HasPlace(db, q)
  OBVIOUS
<1>3. Image(c, t)
  BY <1>1, <1>2, DirRowsStep
<1>4. Commit(c)
  OBVIOUS
<1> HIDE DEF c, t
<1>5. tree' = t
  BY <1>3, <1>4, CommitImage
<1>6. missing = P \ DOMAIN tree
  BY KindIs
<1>7. \A q \in P : Abstract!Kind(q) \in {None, Dir}
  BY KindIs
<1>8. \A q \in P : q # <<>> => Abstract!Front(q) \in P \/ Abstract!Kind(Abstract!Front(q)) = Dir
  <2>1. ASSUME NEW q \in P, q # <<>>, Front(q) \notin P
        PROVE  Abstract!Kind(Front(q)) = Dir
    <3>1. q \in Seq(Names)
      OBVIOUS
    <3>2. Front(q) \in Seq(Names)
      BY <2>1, <3>1, SplitPath
    <3>3. KindOf(db, Front(q)) = Dir
      BY <2>1
    <3> QED
      BY <3>2, <3>3, KindIs
  <2> QED
    BY <2>1, SameOperators
<1>9. tree # Abstract!Nothing
  BY VolumeIs
<1> QED
  BY <1>5, <1>6, <1>7, <1>8, <1>9 DEF Abstract!MakeDirs, t

\* mkdir_many without parents makes the directories it is given, or nothing
\* when it is given none.
LEMMA mkdir_manyStep ==
  ASSUME Good(db), IsTreeOf(db), Good(db)', TreeNext, NEW P \in Batches, mkdir_many(P),
         \A p \in P : KindOf(db, p) = None
  PROVE  Abstract!MakeDirs(P) \/ UNCHANGED tree
<1>1. PICK f \in Injection(P, FreshNodes(db)) : Commit(InsertEntries(db, DirRows(db, P, f)))
  BY DEF mkdir_many
<1>2. P \in SUBSET Seq(Names)
  BY BatchesAssumption, PathsAssumption
<1>3. \A q \in P : HasPlace(db, q) /\ KindOf(db, Front(q)) = Dir
  BY ParentParts DEF mkdir_many, ParentIsDir, HasPlace
<1>4. P = {q \in P : KindOf(db, q) = None}
  OBVIOUS
<1>5. CASE P # {}
  <2>1. DOMAIN db.zones # {}
    BY <1>3, <1>5 DEF HasPlace, ZonesOver
  <2> QED
    BY <1>1, <1>2, <1>3, <1>4, <2>1, DirsStep
<1>6. CASE P = {}
  <2> DEFINE c == InsertEntries(db, DirRows(db, P, f))
             t == Abstract!Over([q \in P |-> Abstract!Directory], tree)
  <2>1. Image(c, t) /\ Commit(c)
    BY <1>1, <1>2, <1>3, DirRowsStep
  <2>2. tree = [q \in DOMAIN tree |-> tree[q]]
    BY ImageNow DEF Image, ImageOf
  <2>3. t = tree
    BY <1>6, <2>2 DEF Abstract!Over
  <2> HIDE DEF c, t
  <2> QED
    BY <2>1, <2>3, CommitImage
<1> QED
  BY <1>5, <1>6

\* mkdir with parents makes every missing prefix.
LEMMA mkdir_parentsStep ==
  ASSUME Good(db), IsTreeOf(db), Good(db)', TreeNext, NEW P \in Batches, mkdir_parents(P)
  PROVE  Abstract!MakeDirs(UNION {Abstract!Prefixes(p) : p \in P})
<1> DEFINE prefixes == UNION {Prefixes(p) : p \in P}
           missing == {q \in prefixes : KindOf(db, q) = None}
<1>1. DOMAIN db.zones # {}
  BY DEF mkdir_parents, db
<1>2. PICK f \in Injection(missing, FreshNodes(db)) :
        Commit(InsertEntries(db, DirRows(db, missing, f)))
  BY Zenon DEF mkdir_parents
<1>3. \A q \in prefixes : q \in Seq(Names) /\ (q # <<>> => Front(q) \in prefixes)
  <2>1. \A p \in P : p \in Seq(Names)
    BY BatchesAssumption, PathsAssumption
  <2> QED
    BY <2>1, PrefixesClosed
<1>4. \A q \in prefixes : KindOf(db, q) \in {None, Dir}
  BY Zenon DEF mkdir_parents
<1>5. prefixes = UNION {Abstract!Prefixes(p) : p \in P}
  BY SameOperators
<1> HIDE DEF prefixes
<1>6. KindOf(db, <<>>) = Dir /\ Dir # None
  BY <1>1, RootIsOver, EmptySeq, NoneAssumption DEF Kinds
<1>7. \A q \in missing : HasPlace(db, q)
  <2> TAKE q \in missing
  <2>1. q # <<>> /\ q \in Seq(Names)
    BY <1>3, <1>6
  <2> QED
    BY <1>1, <2>1, SplitPath, RootIsOver DEF HasPlace
<1>8. prefixes \in SUBSET Seq(Names)
  BY <1>3
<1>9. Abstract!MakeDirs(prefixes)
  BY <1>1, <1>2, <1>3, <1>4, <1>7, <1>8, DirsStep
<1> QED
  BY <1>5, <1>9

-----------------------------------------------------------------------------
(* Files.                                                                  *)

\* c is d but for entry i, new or not.
Touches(d, i, c) ==
    /\ DOMAIN c.zones = DOMAIN d.zones /\ DOMAIN c.entries = DOMAIN d.entries \cup {i}
    /\ Stays(d, DOMAIN d.zones, DOMAIN d.entries \ {i}, c)

\* c is d but for entry i, which is now node n at p.
Rewrites(d, p, n, i, c) ==
    Touches(d, i, c) /\ AbsolutePath(c, i) = p /\ EntryNode(c, i) = n

\* p is the path of no zone, and of no entry but i.
OnlyAt(d, p, i) ==
    /\ \A z \in DOMAIN d.zones : d.zones[z].path # p
    /\ \A k \in DOMAIN d.entries : AbsolutePath(d, k) = p <=> k = i

\* The row that a write changes is the one at its path, if there is one.
LEMMA WrittenAt ==
  ASSUME NEW d, Good(d), IsTreeOf(d), NEW p \in Seq(Names), ParentIsDir(d, p), KindOf(d, p) # Dir,
         NEW body, NEW i, NEW c, Written(d, p, body, i, c)
  PROVE  /\ KindOf(d, p) \in {None, File}
         /\ OnlyAt(d, p, i)
         /\ AbsolutePath(c, i) = p /\ EntryNode(c, i) = Node(File, body)
<1> DEFINE z == LocateZone(d, Front(p))
           rel == Append(RelativePath(d, Front(p)), Last(p))
<1>0. p # <<>> /\ ZonesOver(d, Front(p)) # {}
  BY ParentParts
<1>1. z \in DOMAIN d.zones /\ p = d.zones[z].path \o rel
  BY <1>0, NewPlace
<1>2. \A y \in DOMAIN d.zones : d.zones[y].path # p
  BY ZoneResolves DEF IsTreeOf
<1>3. ~IsZonePath(d, p)
  BY <1>2 DEF IsZonePath
<1>4. LocateZone(d, p) = z /\ RelativePath(d, p) = rel /\ ZonesOver(d, p) # {}
  BY <1>0, <1>3, LookupAbove
<1>5. AbsolutePath(c, i) = p /\ EntryNode(c, i) = Node(File, body)
  BY <1>1 DEF Written, SamePlaces, AbsolutePath, EntryNode, Contents
<1>6. EntriesFor(d, p) = EntriesAt(d, z, rel)
  BY <1>4 DEF EntriesFor, RelativePath
<1>7. CASE i \in DOMAIN d.entries
  <2>1. AbsolutePath(d, i) = p /\ d.entries[i].kind = File
    BY <1>1, <1>7 DEF Written, AbsolutePath
  <2>2. KindOf(d, p) = File
    BY <1>7, <2>1, Resolves
  <2>3. \A k \in DOMAIN d.entries : AbsolutePath(d, k) = p => k = i
    BY <1>7, <2>1, TreeSole DEF Sole
  <2> QED
    BY <1>2, <1>5, <2>1, <2>2, <2>3 DEF OnlyAt
<1>8. CASE i \notin DOMAIN d.entries
  <2>1. EntriesAt(d, z, rel) = {}
    BY <1>8 DEF Written
  <2>2. KindOf(d, p) = None
    BY <1>3, <1>4, <1>6, <2>1 DEF KindOf
  <2>3. \A k \in DOMAIN d.entries : AbsolutePath(d, k) # p
    BY <2>2, Resolves, NoneAssumption DEF Kinds, Good, GoodEntries, GoodRow, EntryRows
  <2> QED
    BY <1>2, <1>5, <1>8, <2>2, <2>3 DEF OnlyAt
<1> QED
  BY <1>7, <1>8

\* A row written in place, or a new one, is one node put over the tree.
LEMMA RewriteImage ==
  ASSUME NEW d, NEW t, Image(d, t), NEW p, NEW n, NEW i, NEW c, Rewrites(d, p, n, i, c),
         OnlyAt(d, p, i)
  PROVE  Image(c, Abstract!Over(Abstract!Alone(p, n), t))
<1> DEFINE E == DOMAIN d.entries \ {i}
           Q == DOMAIN t \ {p}
           u == [q \in Q |-> t[q]]
           s == Abstract!Alone(p, n)
<1>1. ImageOf(d, DOMAIN d.zones, E, u)
  <2>1. \A z \in DOMAIN d.zones : z \in DOMAIN d.zones <=> d.zones[z].path \in Q
    BY DEF Image, ImageOf, OnlyAt
  <2>2. \A k \in DOMAIN d.entries : k \in E <=> AbsolutePath(d, k) \in Q
    BY DEF Image, ImageOf, OnlyAt
  <2>3. Q \in SUBSET DOMAIN t /\ E \in SUBSET DOMAIN d.entries
        /\ DOMAIN d.zones \in SUBSET DOMAIN d.zones
    OBVIOUS
  <2> HIDE DEF Q, E
  <2> QED
    BY <2>1, <2>2, <2>3, ImageCut DEF Image
<1>2. ImageOf(c, DOMAIN d.zones, E, u)
  <2>1. Stays(d, DOMAIN d.zones, E, c)
    BY DEF Rewrites, Touches
  <2> HIDE DEF u, E
  <2> QED
    BY <1>1, <2>1, ImageStays
<1>3. Single(p, n, s)
  BY AloneIs
<1>4. Abstract!Over(s, t) = Abstract!Over(s, u)
  <2>1. DOMAIN s = {p}
    BY <1>3 DEF Single
  <2> HIDE DEF s
  <2>2. DOMAIN s \cup DOMAIN t = DOMAIN s \cup DOMAIN u
    BY <2>1
  <2>3. \A q \in DOMAIN s \cup DOMAIN t : q \notin DOMAIN s => t[q] = u[q]
    BY <2>1
  <2> HIDE DEF u
  <2> QED
    BY <2>2, <2>3, Zenon DEF Abstract!Over
<1>5. DOMAIN s \cap DOMAIN u = {}
  BY <1>3 DEF Single
<1> HIDE DEF s, u
<1>6. ImageOf(c, {}, {i}, s)
  BY <1>3 DEF ImageOf, Single, Rewrites
<1>7. ImageOf(c, DOMAIN d.zones \cup {}, E \cup {i}, Abstract!Over(s, u))
  BY <1>2, <1>5, <1>6, ImageUnion
<1>8. DOMAIN c.zones = DOMAIN d.zones \cup {} /\ DOMAIN c.entries = E \cup {i}
  BY DEF Rewrites, Touches
<1> QED
  BY <1>4, <1>7, <1>8, Zenon DEF Image, s

\* Text that moves to blocks, and content that nothing refers to, do not show.
LEMMA BlockizedImage ==
  ASSUME NEW d, Good(d), NEW t, Image(d, t), NEW z, NEW f, NEW c, Blockized(d, z, f, c)
  PROVE  Image(c, t)
<1>1. ASSUME NEW i \in DOMAIN d.entries
      PROVE  AbsolutePath(c, i) = AbsolutePath(d, i) /\ EntryNode(c, i) = EntryNode(d, i)
  <2>1. d.entries[i] \in EntryRows /\ d.entries[i].zone \in DOMAIN d.zones
        /\ (d.entries[i].obj # None => d.entries[i].obj \in DOMAIN d.objects)
    BY DEF Good, GoodEntries, GoodRow
  <2>2. c.zones[d.entries[i].zone].path = d.zones[d.entries[i].zone].path
    BY <2>1 DEF Blockized, SamePlaces
  <2>3. CASE i \in Unblocked(d, z)
    <3>1. c.entries[i] = [d.entries[i] EXCEPT !.obj = f[i], !.body = EmptyText]
          /\ f[i] # None /\ c.objects[f[i]].data = d.entries[i].body
      BY <2>3 DEF Blockized
    <3>2. d.entries[i].obj = None
      BY <2>3 DEF Unblocked
    <3>3. /\ c.entries[i].zone = d.entries[i].zone /\ c.entries[i].rel = d.entries[i].rel
          /\ c.entries[i].kind = d.entries[i].kind /\ c.entries[i].obj = f[i]
      BY <2>1, <3>1 DEF EntryRows
    <3>4. Contents(c, i) = Contents(d, i)
      BY <3>1, <3>2, <3>3 DEF Contents
    <3> QED
      BY <2>2, <3>3, <3>4 DEF AbsolutePath, EntryNode
  <2>4. CASE i \notin Unblocked(d, z)
    <3>1. c.entries[i] = d.entries[i]
      BY <2>4 DEF Blockized
    <3>2. d.entries[i].obj # None => c.objects[d.entries[i].obj] = d.objects[d.entries[i].obj]
      BY <2>1 DEF Blockized
    <3>3. Contents(c, i) = Contents(d, i)
      BY <3>1, <3>2 DEF Contents
    <3> QED
      BY <2>2, <3>1, <3>3 DEF AbsolutePath, EntryNode
  <2> QED
    BY <2>3, <2>4
<1>2. Stays(d, DOMAIN d.zones, DOMAIN d.entries, c)
  BY <1>1 DEF Stays, Blockized, SamePlaces
<1>3. ImageOf(c, DOMAIN d.zones, DOMAIN d.entries, t)
  BY <1>2, ImageStays DEF Image
<1>4. DOMAIN c.zones = DOMAIN d.zones /\ DOMAIN c.entries = DOMAIN d.entries
  BY DEF Blockized, SamePlaces
<1> QED
  BY <1>3, <1>4, Zenon DEF Image

\* Nor does reclamation.
LEMMA ReclaimImage ==
  ASSUME NEW d, Good(d), NEW t, Image(d, t), NEW c, c = Reclaim(d)
  PROVE  Image(c, t)
<1>1. /\ c.entries = d.entries /\ c.zones = d.zones
      /\ \A i \in DOMAIN d.entries : d.entries[i].obj # None =>
             c.objects[d.entries[i].obj] = d.objects[d.entries[i].obj]
  BY ReclaimLeaves
<1>2. Stays(d, DOMAIN d.zones, DOMAIN d.entries, c)
  BY <1>1 DEF Stays, AbsolutePath, EntryNode, Contents
<1>3. ImageOf(c, DOMAIN d.zones, DOMAIN d.entries, t)
  BY <1>2, ImageStays DEF Image
<1> QED
  BY <1>1, <1>3, Zenon DEF Image

\* No object of d is changed in c.
ObjectsKept(d, c) == \A o \in DOMAIN d.objects : c.objects[o] = d.objects[o]

\* A write touches one row.
LEMMA WrittenStays ==
  ASSUME NEW d, Good(d), NEW p, NEW body, NEW i, NEW c, Written(d, p, body, i, c), ObjectsKept(d, c)
  PROVE  Touches(d, i, c)
<1> DEFINE E == DOMAIN d.entries \ {i}
<1>1. \A k \in E : c.entries[k] = d.entries[k]
  BY DEF Written
<1>2. \A z \in DOMAIN d.zones : c.zones[z].path = d.zones[z].path
  BY DEF Written, SamePlaces
<1>3. E \in SUBSET DOMAIN d.entries /\ DOMAIN d.zones \in SUBSET DOMAIN d.zones
  OBVIOUS
<1> HIDE DEF E
<1>4. Stays(d, DOMAIN d.zones, E, c)
  BY <1>1, <1>2, <1>3, SameRowStays DEF ObjectsKept
<1> QED
  BY <1>4 DEF Written, SamePlaces, Touches, E

\* The tree with a file put over it is what Put promises.
LEMMA PutStep ==
  ASSUME Good(db), IsTreeOf(db), NEW p \in Seq(Names), ParentIsDir(db, p),
         KindOf(db, p) \in {None, File}, NEW body,
         tree' = Abstract!Over(Abstract!Alone(p, Node(File, body)), tree)
  PROVE  Abstract!Put(p, body)
<1>1. Abstract!CanHold(p)
  BY HoldIs
<1>2. Abstract!Kind(p) \in {None, File}
  BY KindIs
<1> QED
  BY <1>1, <1>2 DEF Abstract!Put, Node

\* write_file puts a file: the text it moves to blocks and the content it
\* reclaims do not show.
LEMMA write_fileStep ==
  ASSUME Good(db), IsTreeOf(db), Good(db)', TreeNext, NEW p \in Paths, NEW body \in Data,
         KindOf(db, p) # Dir, write_file(p, body)
  PROVE  Abstract!Put(p, body)
<1>1. PICK i \in UpsertIds(db, p) :
        LET written == WriteInline(db, p, body, i)
            z == LocateZone(written, p)
        IN \E f \in Mappings(written, z) : Commit(Reclaim(Blockize(written, z, f, None)))
  BY Zenon DEF write_file
<1> DEFINE written == WriteInline(db, p, body, i)
           z == LocateZone(written, p)
<1>2. PICK f \in Mappings(written, z) : Commit(Reclaim(Blockize(written, z, f, None)))
  BY <1>1, Zenon
<1> DEFINE stored == Blockize(written, z, f, None)
           c == Reclaim(stored)
           n == Node(File, body)
           t == Abstract!Over(Abstract!Alone(p, n), tree)
<1>3. p \in Seq(Names) /\ ParentIsDir(db, p)
  BY PathParts DEF write_file
<1>4. Good(written) /\ written.objects = db.objects
  BY <1>3, WriteInlineGood
<1>5. Written(db, p, body, i, written)
  BY <1>3, WriteInlineIs
<1> HIDE DEF written, z
<1>6. /\ KindOf(db, p) \in {None, File}
      /\ OnlyAt(db, p, i)
      /\ AbsolutePath(written, i) = p /\ EntryNode(written, i) = n
  BY <1>3, <1>5, WrittenAt
<1> HIDE DEF n
<1>7. Rewrites(db, p, n, i, written)
  <2>1. ObjectsKept(db, written)
    BY <1>4 DEF ObjectsKept
  <2>2. Touches(db, i, written)
    BY <1>5, <2>1, WrittenStays
  <2> QED
    BY <1>6, <2>2 DEF Rewrites
<1>8. Image(written, t)
  BY <1>6, <1>7, ImageNow, RewriteImage
<1> HIDE DEF t
<1>9. Good(stored) /\ Image(stored, t)
  <2>1. None \in written.segments \cup {None}
    OBVIOUS
  <2>2. Blockized(written, z, f, stored)
    BY <1>4, <2>1, BlockizeLeaves
  <2>3. Good(stored)
    BY <1>4, <2>1, BlockizeGood
  <2> HIDE DEF stored
  <2> QED
    BY <1>4, <1>8, <2>2, <2>3, BlockizedImage
<1>10. Commit(c)
  BY <1>2
<1> HIDE DEF stored
<1>11. Image(c, t)
  BY <1>9, ReclaimImage
<1> HIDE DEF c
<1>12. tree' = t
  BY <1>10, <1>11, CommitImage
<1> QED
  BY <1>3, <1>6, <1>12, PutStep DEF t, n

\* import_text puts a file.
LEMMA import_textStep ==
  ASSUME Good(db), IsTreeOf(db), Good(db)', TreeNext, NEW p \in Paths, NEW body \in Text,
         KindOf(db, p) # Dir, import_text(p, body)
  PROVE  Abstract!Put(p, body)
<1>1. PICK s \in FreshSegments(db), o \in FreshObjects(db), i \in UpsertIds(db, p) :
        LET stored == [db EXCEPT !.segments = segments \cup {s},
                                 !.objects = Store(OneRow(o, [data |-> body, segment |-> s]), objects)]
            written == WriteInline(stored, p, EmptyText, i)
        IN Commit(UpdateEntries(written, OneRow(i, [written.entries[i] EXCEPT
                                                 !.obj = o, !.size = Size[body]])))
  BY Zenon DEF import_text
<1> DEFINE b == [db EXCEPT !.segments = db.segments \cup {s}]
           x == [data |-> body, segment |-> s]
           made == OneRow(o, x)
           stored == [b EXCEPT !.objects = Store(made, b.objects)]
           written == WriteInline(stored, p, EmptyText, i)
           e == written.entries[i]
           r == [e EXCEPT !.obj = o, !.size = Size[body]]
           one == OneRow(i, r)
           c == UpdateEntries(written, one)
           n == Node(File, body)
           t == Abstract!Over(Abstract!Alone(p, n), tree)
<1>2. s \in SegmentId /\ o \in ObjectId /\ o \notin DOMAIN db.objects /\ o # None
  BY NoneAssumption DEF FreshSegments, FreshObjects
<1>3. Good(b) /\ b.segments = db.segments \cup {s} /\ b.objects = db.objects
      /\ b.entries = db.entries /\ b.zones = db.zones
  BY <1>2, SegmentsGood, WithSegments DEF Good
<1>4. Commit(c)
  BY <1>1, <1>3, Zenon DEF db
<1>5. /\ DOMAIN made = {o} /\ made[o] = x
      /\ x \in ObjectRows /\ x.segment \in b.segments /\ x.data = body
  BY <1>2, <1>3, OneRowParts DEF ObjectRows
<1> HIDE DEF x, made
<1>6. Good(stored)
  <2>1. DOMAIN made \subseteq FreshObjects(b)
    BY <1>2, <1>3, <1>5 DEF FreshObjects
  <2> HIDE DEF b
  <2> QED
    BY <1>3, <1>5, <2>1, MadeGood
<1> HIDE DEF b
<1>7. /\ stored.zones = db.zones /\ stored.entries = db.entries
      /\ stored.objects = Store(made, db.objects)
  BY <1>3, WithObjects DEF Good
<1>7a. ObjectsKept(db, stored) /\ stored.objects[o] = x
  <2>1. Holds(stored.objects, made, db.objects)
    BY <1>7, StoreHolds
  <2> HIDE DEF stored
  <2> QED
    BY <1>2, <1>5, <2>1 DEF Holds, ObjectsKept
<1> HIDE DEF stored
<1>8. Same(db, stored) /\ IsTreeOf(stored)
  BY <1>7, EqualsSame, SameTree DEF Same
<1>8a. Image(stored, tree)
  <2>1. Stays(db, DOMAIN db.zones, DOMAIN db.entries, stored)
    BY <1>7, <1>7a, SameRowStays DEF ObjectsKept
  <2>2. ImageOf(stored, DOMAIN db.zones, DOMAIN db.entries, tree)
    BY <2>1, ImageNow, ImageStays DEF Image
  <2> QED
    BY <1>7, <2>2 DEF Image
<1>9. /\ ParentIsDir(stored, p) /\ i \in UpsertIds(stored, p) /\ KindOf(stored, p) # Dir
      /\ ParentIsDir(db, p) /\ KindOf(stored, p) = KindOf(db, p)
  BY <1>7, SameLookups DEF import_text
<1>10. EmptyText \in Data /\ p \in Seq(Names)
  BY ContentAssumption, PathParts DEF Data
<1>11. /\ Good(written) /\ i \in DOMAIN written.entries
       /\ Written(stored, p, EmptyText, i, written) /\ written.objects = stored.objects
  BY <1>6, <1>9, <1>10, WriteInlineGood, WriteInlineIs
<1> HIDE DEF written
<1>12. /\ KindOf(stored, p) \in {None, File}
       /\ OnlyAt(stored, p, i)
       /\ AbsolutePath(written, i) = p /\ e.kind = File
  <2>1. e.kind = File
    BY <1>11 DEF Written
  <2> HIDE DEF e
  <2> QED
    BY <1>6, <1>8, <1>9, <1>10, <1>11, <2>1, WrittenAt
<1>13. Touches(stored, i, written)
  <2>1. ObjectsKept(stored, written)
    BY <1>11 DEF ObjectsKept
  <2> QED
    BY <1>6, <1>11, <2>1, WrittenStays
<1>14. r.zone = e.zone /\ r.rel = e.rel /\ r.kind = e.kind /\ r.obj = o
  <2>1. e \in EntryRows
    BY <1>11 DEF Good, GoodEntries, GoodRow
  <2> HIDE DEF e
  <2> QED
    BY <2>1 DEF EntryRows
<1>15. DOMAIN one = {i} /\ one[i] = r
  BY OneRowParts
<1> HIDE DEF r, one
<1>16. c.entries = Store(one, written.entries) /\ SamePlaces(written.zones, c.zones)
       /\ c.objects = written.objects
  BY <1>11, UpdateLeaves
<1>17. /\ c.entries[i] = r /\ DOMAIN c.entries = DOMAIN written.entries
       /\ \A k \in DOMAIN written.entries \ {i} : c.entries[k] = written.entries[k]
  <2>1. Holds(c.entries, one, written.entries)
    BY <1>16, StoreHolds
  <2> HIDE DEF c, e
  <2> QED
    BY <1>11, <1>15, <2>1 DEF Holds
<1> HIDE DEF c
<1>18. AbsolutePath(c, i) = p /\ EntryNode(c, i) = n
  <2>1. AbsolutePath(c, i) = AbsolutePath(written, i)
    <3>1. e.zone \in DOMAIN written.zones
      BY <1>11, EntryParts
    <3> QED
      BY <1>14, <1>16, <1>17, <3>1 DEF AbsolutePath, SamePlaces
  <2>2. Contents(c, i) = body
    BY <1>2, <1>5, <1>7a, <1>11, <1>14, <1>16, <1>17 DEF Contents
  <2> HIDE DEF e
  <2> QED
    BY <1>12, <1>14, <1>17, <2>1, <2>2 DEF EntryNode
<1>19. Rewrites(stored, p, n, i, c)
  <2> DEFINE Z == DOMAIN stored.zones
             E == DOMAIN stored.entries \ {i}
  <2>1. Stays(written, Z, E, c)
    <3>1. /\ \A k \in E : c.entries[k] = written.entries[k]
          /\ E \in SUBSET DOMAIN written.entries /\ Z \in SUBSET DOMAIN written.zones
          /\ \A z \in DOMAIN written.zones : c.zones[z].path = written.zones[z].path
      BY <1>13, <1>16, <1>17 DEF SamePlaces, Touches
    <3> HIDE DEF E, Z
    <3> QED
      BY <1>11, <1>16, <3>1, SameRowStays
  <2>2. Stays(stored, Z, E, written)
    BY <1>13 DEF Touches
  <2>3. DOMAIN c.zones = Z /\ DOMAIN c.entries = DOMAIN stored.entries \cup {i}
    BY <1>13, <1>16, <1>17 DEF SamePlaces, Touches
  <2> HIDE DEF E
  <2>4. Stays(stored, Z, E, c)
    BY <2>1, <2>2 DEF Stays
  <2> QED
    BY <1>18, <2>3, <2>4 DEF Rewrites, Touches, E
<1> HIDE DEF n
<1>20. Image(c, t)
  BY <1>8a, <1>12, <1>19, RewriteImage
<1> HIDE DEF t
<1>21. tree' = t
  BY <1>4, <1>20, CommitImage
<1>22. KindOf(db, p) \in {None, File}
  BY <1>9, <1>12
<1> QED
  BY <1>9, <1>10, <1>21, <1>22, PutStep DEF t, n

-----------------------------------------------------------------------------
(* Imports.                                                                *)

\* What lies where nothing was is apart from the tree.
LEMMA ApartFromTree ==
  ASSUME Good(db), IsTreeOf(db), NEW p \in Seq(Names), KindOf(db, p) = None,
         NEW s, \A x \in DOMAIN s : IsPrefix(p, x)
  PROVE  DOMAIN s \cap DOMAIN tree = {}
<1>1. \A q \in DOMAIN tree : IsNode(db, q)
  BY TreeNodes
<1>2. \A q \in DOMAIN tree : ~IsPrefix(p, q)
  BY <1>1, NothingBelow DEF IsNode, IsZonePath
<1> QED
  BY <1>2

\* Where the nodes of a tree put at p are.
PutAt(p, t, u) ==
    /\ u = [x \in DOMAIN u |-> u[x]]
    /\ \A x \in DOMAIN u : \E r \in DOMAIN t : x = p \o r
    /\ \A r \in DOMAIN t : p \o r \in DOMAIN u /\ u[p \o r] = t[r]

\* At puts a tree there.
LEMMA AtIs ==
  ASSUME NEW p \in Seq(Names), NEW t, \A r \in DOMAIN t : r \in Seq(Names)
  PROVE  PutAt(p, t, Abstract!At(p, t))
<1> DEFINE u == Abstract!At(p, t)
<1>1. DOMAIN u = {p \o r : r \in DOMAIN t} /\ u = [x \in DOMAIN u |-> u[x]]
  BY DEF Abstract!At
<1>2. \A r \in DOMAIN t : u[p \o r] = t[r]
  <2> TAKE r \in DOMAIN t
  <2>1. p \o r \in {p \o x : x \in DOMAIN t}
    OBVIOUS
  <2>2. u[p \o r] = t[Remainder(p, p \o r)]
    BY <2>1 DEF Abstract!At, Remainder
  <2> QED
    BY <2>2, ConcatRemainder
<1> HIDE DEF u
<1>3. PutAt(p, t, u)
  BY <1>1, <1>2 DEF PutAt
<1> QED
  BY <1>3 DEF u

\* A new zone and its entries, beside the old ones.
LEMMA AttachImage ==
  ASSUME NEW d, Good(d), NEW t, Image(d, t), NEW p, NEW n, NEW rows, NEW c,
         Attaches(d, p, n, c), Holds(c.entries, rows, d.entries), ObjectsKept(d, c),
         DOMAIN rows \cap DOMAIN d.entries = {},
         NEW s, ImageOf(c, {n}, DOMAIN rows, s), DOMAIN s \cap DOMAIN t = {}
  PROVE  Image(c, Abstract!Over(s, t))
<1> DEFINE Z == DOMAIN d.zones
           E == DOMAIN d.entries
<1>1. /\ \A k \in E : c.entries[k] = d.entries[k]
      /\ \A z \in DOMAIN d.zones : c.zones[z].path = d.zones[z].path
      /\ E \in SUBSET DOMAIN d.entries /\ Z \in SUBSET DOMAIN d.zones
  BY DEF Holds, Attaches
<1>2. DOMAIN c.zones = Z \cup {n} /\ DOMAIN c.entries = E \cup DOMAIN rows
  BY DEF Holds, Attaches
<1>3. ImageOf(d, Z, E, t)
  BY DEF Image
<1> HIDE DEF Z, E
<1>4. Stays(d, Z, E, c)
  BY <1>1, SameRowStays DEF ObjectsKept
<1>5. ImageOf(c, Z, E, t)
  BY <1>3, <1>4, ImageStays
<1>6. ImageOf(c, Z \cup {n}, E \cup DOMAIN rows, Abstract!Over(s, t))
  BY <1>5, ImageUnion
<1> QED
  BY <1>2, <1>6, Zenon DEF Image

\* blockize_zone_segment does not show.
LEMMA SegmentImage ==
  ASSUME NEW d, Good(d), NEW t, Image(d, t), NEW z, NEW f \in Mappings(d, z), NEW s \in SegmentId,
         NEW c, c = BlockizeSegment(d, z, f, s)
  PROVE  Image(c, t)
<1> DEFINE b == [d EXCEPT !.segments = d.segments \cup {s}]
           a == [d EXCEPT !.staging = d.staging \cup {s}]
<1>1. IsDb(d)
  BY DEF Good
<1>0. ASSUME NEW e, e.zones = d.zones, e.entries = d.entries, e.objects = d.objects
      PROVE  Image(e, t)
  <2>1. Stays(d, DOMAIN d.zones, DOMAIN d.entries, e)
    BY <1>0 DEF Stays, AbsolutePath, EntryNode, Contents
  <2>2. ImageOf(e, DOMAIN d.zones, DOMAIN d.entries, t)
    BY <2>1, ImageStays DEF Image
  <2> QED
    BY <1>0, <2>2, Zenon DEF Image
<1>2. CASE Unblocked(d, z) = {}
  <2>1. c = a
    BY <1>2, Zenon DEF BlockizeSegment
  <2>2. a.entries = d.entries /\ a.zones = d.zones /\ a.objects = d.objects
    BY <1>1, WithStaging
  <2> HIDE DEF a
  <2> QED
    BY <1>0, <2>1, <2>2
<1>3. CASE Unblocked(d, z) # {}
  <2>1. c = Blockize(b, z, f, s)
    BY <1>3, Zenon DEF BlockizeSegment
  <2>2. Good(b)
    BY SegmentsGood
  <2>3. /\ b.entries = d.entries /\ b.zones = d.zones /\ b.objects = d.objects
        /\ b.segments = d.segments \cup {s}
    BY <1>1, WithSegments
  <2> HIDE DEF b
  <2>4. f \in Mappings(b, z)
    <3>1. Unblocked(b, z) = Unblocked(d, z)
      BY <2>3, Zenon DEF Unblocked
    <3>2. FreshObjects(b) = FreshObjects(d)
      BY <2>3, Zenon DEF FreshObjects
    <3> QED
      BY <3>1, <3>2 DEF Mappings
  <2>5. Blockized(b, z, f, c)
    BY <2>1, <2>2, <2>3, <2>4, BlockizeLeaves
  <2>6. Image(b, t)
    BY <1>0, <2>3
  <2> QED
    BY <2>2, <2>5, <2>6, BlockizedImage
<1> QED
  BY <1>2, <1>3

\* A staged tree whose root is no directory is its root.
LEMMA StagedFile ==
  ASSUME NEW staged \in Trees, StagedWell(staged), staged[<<>>].kind # Dir
  PROVE  DOMAIN staged = {<<>>}
<1> SUFFICES ASSUME NEW w \in DOMAIN staged, w # <<>> PROVE FALSE
  BY DEF StagedWell
<1> DEFINE B == DOMAIN staged \ {<<>>}
           T == {n \in Nat : \E r \in B : n = Len(r)}
<1>1. \A r \in B : /\ r \in Seq(Names) /\ r # <<>> /\ Len(r) \in Nat
                   /\ Front(r) \in DOMAIN staged /\ staged[Front(r)].kind = Dir
  BY TreesAssumption, LenProperties DEF StagedWell
<1>2. Len(w) \in T
  BY <1>1
<1>3. PICK n \in T : \A m \in T : n =< m
  <2>1. T \in SUBSET Nat /\ T # {}
    BY <1>2
  <2> HIDE DEF T
  <2> QED
    BY <2>1, LeastNumber
<1>4. PICK r \in B : n = Len(r)
  OBVIOUS
<1> DEFINE f == Front(r)
<1>5. f \in Seq(Names) /\ Len(r) = Len(f) + 1 /\ Len(f) \in Nat
  BY <1>1, PrefixFront
<1>6. f \in B
  <2>1. f \in DOMAIN staged /\ staged[f].kind = Dir
    BY <1>1
  <2> QED
    BY <2>1
<1> HIDE DEF f
<1>7. Len(f) \in T
  BY <1>5, <1>6
<1> QED
  BY <1>3, <1>4, <1>5, <1>7

\* A staged node is a node, and a directory has no contents.
LEMMA StagedNodes ==
  ASSUME NEW staged \in Trees
  PROVE  \A r \in DOMAIN staged :
           /\ r \in Seq(Names) /\ staged[r] = Node(staged[r].kind, staged[r].body)
           /\ staged[r].kind = Dir => staged[r].body = None
BY TreesAssumption DEF Node, File, Dir

\* One node put at p.
LEMMA AtAlone ==
  ASSUME NEW p \in Seq(Names), NEW t, DOMAIN t = {<<>>}
  PROVE  Abstract!At(p, t) = Abstract!Alone(p, t[<<>>])
<1> DEFINE a == Abstract!At(p, t)
<1>1. \A r \in DOMAIN t : r \in Seq(Names)
  BY EmptySeq
<1>2. PutAt(p, t, a)
  BY <1>1, AtIs
<1>3. p \o <<>> = p
  BY ConcatProperties
<1> HIDE DEF a
<1>4. DOMAIN a = {p}
  <2>1. \A x \in DOMAIN a : x = p
    BY <1>2, <1>3 DEF PutAt
  <2>2. p \in DOMAIN a
    BY <1>2, <1>3 DEF PutAt
  <2> QED
    BY <2>1, <2>2
<1>5. a = [x \in DOMAIN a |-> a[x]] /\ a[p] = t[<<>>]
  BY <1>2, <1>3 DEF PutAt
<1>6. a = [x \in {p} |-> t[<<>>]]
  BY <1>4, <1>5
<1> QED
  BY <1>6 DEF Abstract!Alone, a

\* A staged directory becomes a zone and its rows: the staged tree, at p.
LEMMA ImportZoneImage ==
  ASSUME Good(db), IsTreeOf(db), NEW p \in Seq(Names), ParentIsDir(db, p), KindOf(db, p) = None,
         NEW staged \in Trees, StagedWell(staged), staged[<<>>].kind = Dir, NEW z \in FreshNodes(db),
         NEW f \in Injection(DOMAIN staged \ {<<>>}, FreshNodes(db) \ {z}),
         NEW c, c = ImportZone(db, p, staged, z, f)
  PROVE  Image(c, Abstract!Over(Abstract!At(p, staged), tree))
<1> DEFINE made == [db EXCEPT !.zones = Store(OneRow(z, ZoneRow(db, p)), db.zones)]
           below == DOMAIN staged \ {<<>>}
           row(r) == [zone |-> z, rel |-> r, dir |-> Front(r), name |-> Last(r),
                      kind |-> staged[r].kind, body |-> staged[r].body, obj |-> None,
                      size |-> IF staged[r].kind = File THEN Size[staged[r].body] ELSE 0,
                      gen |-> 1]
           rows == [i \in {f[r] : r \in below} |-> row(CHOOSE r \in below : f[r] = i)]
           s == Abstract!At(p, staged)
<1>1. c = InsertEntries(made, rows)
  BY Zenon DEF ImportZone
<1>2. \A r : /\ row(r).zone = z /\ row(r).rel = r /\ row(r).obj = None
             /\ row(r).kind = staged[r].kind /\ row(r).body = staged[r].body
  OBVIOUS
<1> HIDE DEF row
<1>3. /\ \A r \in below : f[r] \in FreshNodes(db) \ {z}
      /\ \A r, q \in below : f[r] = f[q] => r = q
  BY DEF Injection, IsInjective
<1>4. \A r \in below : f[r] \in DOMAIN rows /\ rows[f[r]] = row(r)
  <2>1. \A r \in below : (CHOOSE q \in below : f[q] = f[r]) = r
    BY <1>3
  <2> HIDE DEF below
  <2> QED
    BY <2>1
<1>5. DOMAIN rows = {f[r] : r \in below}
  OBVIOUS
<1> HIDE DEF rows
<1>6. Attaches(db, p, z, c) /\ Holds(c.entries, rows, db.entries) /\ Good(made)
  <2>1. made = WithZone(db, p, z)
    BY DEF WithZone
  <2> HIDE DEF made
  <2> QED
    BY <1>1, <2>1, AttachIs
<1>7. ObjectsKept(db, c)
  <2>1. made.objects = db.objects
    BY WithZones DEF Good
  <2> HIDE DEF made
  <2>2. c.objects = made.objects
    BY <1>1, <1>6, InsertLeaves
  <2> QED
    BY <2>1, <2>2 DEF ObjectsKept
<1>8. DOMAIN rows \cap DOMAIN db.entries = {}
  BY <1>3, <1>5 DEF FreshNodes
<1>9. \A r \in below : f[r] \in DOMAIN c.entries /\ c.entries[f[r]] = row(r)
  BY <1>4, <1>6 DEF Holds
<1>10. /\ \A r \in DOMAIN staged :
            /\ r \in Seq(Names) /\ staged[r] = Node(staged[r].kind, staged[r].body)
            /\ staged[r].kind = Dir => staged[r].body = None
       /\ <<>> \in DOMAIN staged /\ p \o <<>> = p
  BY StagedNodes, ConcatProperties DEF StagedWell
<1>11. PutAt(p, staged, s)
  BY <1>10, AtIs
<1> HIDE DEF s, made
<1>12. c.zones[z].path = p
  BY <1>6 DEF Attaches
<1>13. ASSUME NEW r \in below
       PROVE  AbsolutePath(c, f[r]) = p \o r /\ EntryNode(c, f[r]) = staged[r]
  <2>1. EntryNode(c, f[r]) = Node(staged[r].kind, staged[r].body)
    BY <1>2, <1>9 DEF EntryNode, Contents
  <2>2. staged[r] = Node(staged[r].kind, staged[r].body)
    BY <1>10
  <2> QED
    BY <1>2, <1>9, <1>12, <2>1, <2>2 DEF AbsolutePath
<1>14. ImageOf(c, {z}, DOMAIN rows, s)
  <2>1. ASSUME NEW x \in DOMAIN s
        PROVE  \/ \E y \in {z} : c.zones[y].path = x
               \/ \E i \in DOMAIN rows : AbsolutePath(c, i) = x
    <3>1. PICK r \in DOMAIN staged : x = p \o r
      BY <1>11 DEF PutAt
    <3>2. CASE r = <<>>
      BY <1>10, <1>12, <3>1, <3>2
    <3>3. CASE r # <<>>
      BY <1>5, <1>13, <3>1, <3>3
    <3> QED
      BY <3>2, <3>3
  <2>2. p \in DOMAIN s /\ s[p] = Node(Dir, None)
    <3>1. p \in DOMAIN s /\ s[p] = staged[<<>>]
      BY <1>10, <1>11 DEF PutAt
    <3>2. staged[<<>>] = Node(Dir, None)
      BY <1>10
    <3> QED
      BY <3>1, <3>2
  <2>3. ASSUME NEW i \in DOMAIN rows
        PROVE  AbsolutePath(c, i) \in DOMAIN s /\ s[AbsolutePath(c, i)] = EntryNode(c, i)
    <3>1. PICK r \in below : i = f[r]
      BY <1>5
    <3>2. p \o r \in DOMAIN s /\ s[p \o r] = staged[r]
      BY <1>11 DEF PutAt
    <3> QED
      BY <1>13, <3>1, <3>2
  <2>4. s = [x \in DOMAIN s |-> s[x]]
    BY <1>11 DEF PutAt
  <2> QED
    BY <1>12, <2>1, <2>2, <2>3, <2>4 DEF ImageOf
<1>15. DOMAIN s \cap DOMAIN tree = {}
  <2>1. \A x \in DOMAIN s : IsPrefix(p, x)
    BY <1>10, <1>11, PrefixConcat DEF PutAt
  <2> QED
    BY <2>1, ApartFromTree
<1>16. Image(c, Abstract!Over(s, tree))
  BY <1>6, <1>7, <1>8, <1>14, <1>15, ImageNow, AttachImage
<1> QED
  BY <1>16 DEF s

\* import grafts the staged tree.
LEMMA importStep ==
  ASSUME Good(db), IsTreeOf(db), Good(db)', TreeNext, NEW p \in Paths, NEW staged \in Trees,
         import(p, staged)
  PROVE  Abstract!Graft(p, staged)
<1>1. PICK s \in FreshSegments(db), n \in FreshNodes(db) :
        \E f \in Injection(DOMAIN staged \ {<<>>}, FreshNodes(db) \ {n}) :
            LET root == staged[<<>>]
                inserted ==
                  IF root.kind = Dir THEN ImportZone(db, p, staged, n, f)
                  ELSE InsertEntries(db, OneRow(n, EntryRow(db, p, root.kind, root.body)))
                z == LocateZone(inserted, p)
            IN \E g \in Mappings(inserted, z) : Commit(BlockizeSegment(inserted, z, g, s))
  BY Zenon DEF import
<1>2. PICK f \in Injection(DOMAIN staged \ {<<>>}, FreshNodes(db) \ {n}) :
            LET root == staged[<<>>]
                inserted ==
                  IF root.kind = Dir THEN ImportZone(db, p, staged, n, f)
                  ELSE InsertEntries(db, OneRow(n, EntryRow(db, p, root.kind, root.body)))
                z == LocateZone(inserted, p)
            IN \E g \in Mappings(inserted, z) : Commit(BlockizeSegment(inserted, z, g, s))
  BY <1>1, Zenon
<1> DEFINE k == staged[<<>>].kind
           b == staged[<<>>].body
           inserted == IF k = Dir THEN ImportZone(db, p, staged, n, f)
                       ELSE InsertEntries(db, OneRow(n, EntryRow(db, p, k, b)))
           z == LocateZone(inserted, p)
           t == Abstract!Over(Abstract!At(p, staged), tree)
<1>3. PICK g \in Mappings(inserted, z) : Commit(BlockizeSegment(inserted, z, g, s))
  BY <1>2, Zenon
<1>4. /\ p \in Seq(Names) /\ ParentIsDir(db, p) /\ KindOf(db, p) = None /\ StagedWell(staged)
      /\ p # <<>> /\ ZonesOver(db, Front(p)) # {}
  BY PathParts, ParentParts DEF import
<1>5. k \in Kinds /\ b \in Data \cup {None} /\ (k = File => b \in Data)
  BY <1>4, TreesAssumption DEF StagedWell
<1>6. DOMAIN db.zones # {}
  BY <1>4 DEF ZonesOver
<1>7. Good(inserted)
  <2> HIDE DEF k, b
  <2>1. CASE k = Dir
    BY <1>4, <1>6, <2>1, ImportZoneGood
  <2>2. CASE k # Dir
    <3>1. GoodRow(DOMAIN db.zones, db.objects, EntryRow(db, p, k, b))
      BY <1>4, <1>5, EntryRowGood
    <3> QED
      BY <2>2, <3>1, OneRowGood
  <2> QED
    BY <2>1, <2>2
<1>8. Image(inserted, t)
  <2>1. CASE k = Dir
    <3>1. inserted = ImportZone(db, p, staged, n, f)
      BY <2>1
    <3> HIDE DEF inserted
    <3> QED
      BY <1>4, <2>1, <3>1, ImportZoneImage
  <2>2. CASE k # Dir
    <3> DEFINE e == InsertEntries(db, OneRow(n, EntryRow(db, p, k, b)))
               u == Abstract!Over(Abstract!Alone(p, Node(k, b)), tree)
    <3>1. inserted = e
      BY <2>2
    <3>2. Image(e, u)
      <4> HIDE DEF k, b
      <4> QED
        BY <1>4, OneStep
    <3>3. Abstract!At(p, staged) = Abstract!Alone(p, Node(k, b))
      <4>1. DOMAIN staged = {<<>>}
        BY <1>4, <2>2, StagedFile
      <4>2. staged[<<>>] = Node(k, b)
        BY <4>1, StagedNodes
      <4> QED
        BY <1>4, <4>1, <4>2, AtAlone
    <3> HIDE DEF inserted, e, k, b
    <3> QED
      BY <3>1, <3>2, <3>3
  <2> QED
    BY <2>1, <2>2
<1> HIDE DEF k, b, t
<1> DEFINE c == BlockizeSegment(inserted, z, g, s)
<1>9. Commit(c)
  BY <1>3
<1> HIDE DEF inserted, z
<1>10. s \in SegmentId
  BY DEF FreshSegments
<1>11. Image(c, t)
  BY <1>7, <1>8, <1>10, SegmentImage
<1> HIDE DEF c
<1>12. tree' = t
  BY <1>9, <1>11, CommitImage
<1>13. Abstract!CanHold(p) /\ Abstract!Kind(p) = None
  BY <1>4, HoldIs, KindIs
<1>14. Abstract!IsTree(staged)
  BY <1>4, SameOperators DEF StagedWell, Abstract!IsTree
<1> QED
  BY <1>12, <1>13, <1>14 DEF Abstract!Graft, t

-----------------------------------------------------------------------------
(* Copies.                                                                 *)

\* Where the nodes of t at and below src are in b.
CutAt(src, t, b) ==
    /\ \A q \in DOMAIN t : IsPrefix(src, q) =>
         Remainder(src, q) \in DOMAIN b /\ b[Remainder(src, q)] = t[q]
    /\ \A r \in DOMAIN b : \E q \in DOMAIN t : IsPrefix(src, q) /\ r = Remainder(src, q)

\* Below cuts so.
LEMMA BelowCut ==
  ASSUME NEW t, \A q \in DOMAIN t : q \in Seq(Names), NEW src \in Seq(Names)
  PROVE  CutAt(src, t, Below(src, t))
<1> DEFINE b == Below(src, t)
<1>1. \A q \in DOMAIN t : IsPrefix(src, q) =>
        Remainder(src, q) \in DOMAIN b /\ b[Remainder(src, q)] = t[q]
  BY PrefixSplit DEF Below, Remainder
<1>2. \A r \in DOMAIN b : \E q \in DOMAIN t : IsPrefix(src, q) /\ r = Remainder(src, q)
  BY DEF Below, Remainder
<1> HIDE DEF b
<1>3. CutAt(src, t, b)
  BY <1>1, <1>2 DEF CutAt
<1> QED
  BY <1>3 DEF b

\* It is the subtree of the file tree.
LEMMA SubtreeIs == ASSUME NEW p PROVE Abstract!Subtree(p) = Below(p, tree)
<1>1. Abstract!Within(p) = {x \in DOMAIN tree : IsPrefix(p, x)}
  BY SameOperators DEF Abstract!Within
<1> QED
  BY <1>1 DEF Abstract!Subtree, Below

\* Every part of the tree is a tree.
LEMMA SubtreeIsTree ==
  ASSUME Good(db), IsTreeOf(db), NEW src \in Seq(Names), KindOf(db, src) # None
  PROVE  Abstract!IsTree(Below(src, tree))
<1> DEFINE b == Below(src, tree)
<1>1. \A q \in DOMAIN tree : q \in Seq(Names)
  BY NamedPaths
<1>2. CutAt(src, tree, b)
  BY <1>1, BelowCut
<1> HIDE DEF b
<1>3. <<>> \in DOMAIN b
  <2>1. src \in DOMAIN tree /\ IsPrefix(src, src)
    BY KindIs, PrefixSelf
  <2>2. Remainder(src, src) = <<>>
    BY RemainderOf, LenProperties
  <2> QED
    BY <1>2, <2>1, <2>2 DEF CutAt
<1>4. ASSUME NEW r \in DOMAIN b, r # <<>>
      PROVE  Front(r) \in DOMAIN b /\ b[Front(r)].kind = Dir
  <2>1. PICK q \in DOMAIN tree : IsPrefix(src, q) /\ r = Remainder(src, q)
    BY <1>2 DEF CutAt
  <2>2. q \in Seq(Names) /\ q # src
    BY <1>1, <1>4, <2>1, RemainderOf, LenProperties
  <2>3. /\ q # <<>> /\ IsPrefix(src, Front(q)) /\ Front(q) \in Seq(Names)
        /\ Front(r) = Remainder(src, Front(q))
    BY <2>1, <2>2, RemainderFront
  <2>4. KindOf(db, Front(q)) = Dir
    <3>1. IsNode(db, q)
      BY TreeNodes
    <3> QED
      BY <2>3, <3>1, ParentOfNode
  <2>5. Front(q) \in DOMAIN tree /\ tree[Front(q)].kind = Dir
    BY <2>3, <2>4, KindIs, NoneAssumption DEF Kinds
  <2> QED
    BY <1>2, <2>3, <2>5 DEF CutAt
<1>5. Abstract!IsTree(b)
  BY <1>3, <1>4, SameOperators DEF Abstract!IsTree
<1> QED
  BY <1>5 DEF b

\* What is planted at dst lies at or below dst.
LEMMA PlantedUnder ==
  ASSUME NEW t, \A q \in DOMAIN t : q \in Seq(Names), NEW src \in Seq(Names), NEW dst \in Seq(Names)
  PROVE  \A x \in DOMAIN Abstract!At(dst, Below(src, t)) : IsPrefix(dst, x)
<1> DEFINE u == Abstract!At(dst, Below(src, t))
<1>1. /\ \A q \in DOMAIN t : IsPrefix(src, q) =>
            dst \o Remainder(src, q) \in DOMAIN u /\ u[dst \o Remainder(src, q)] = t[q]
      /\ \A x \in DOMAIN u : \E q \in DOMAIN t : IsPrefix(src, q) /\ x = dst \o Remainder(src, q)
      /\ u = [x \in DOMAIN u |-> u[x]]
  BY BelowIs
<1> HIDE DEF u
<1>2. \A x \in DOMAIN u : IsPrefix(dst, x)
  BY <1>1, PrefixSplit, PrefixConcat
<1> QED
  BY <1>2 DEF u

\* The entries below a path that is a zone's are those of the zones below it.
LEMMA UnderZone ==
  ASSUME NEW d, Good(d), IsTreeOf(d), NEW src \in Seq(Names),
         ZonesOver(d, src) # {}, RelativePath(d, src) = <<>>, NEW i \in DOMAIN d.entries
  PROVE  IsPrefix(src, AbsolutePath(d, i)) <=> IsPrefix(src, d.zones[d.entries[i].zone].path)
<1> DEFINE top == d.zones[d.entries[i].zone].path
           a == AbsolutePath(d, i)
<1>1. top \in Seq(Names) /\ a \in Seq(Names) /\ IsPrefix(top, a)
  BY AbsoluteParts
<1>2. IsPrefix(src, top) => IsPrefix(src, a)
  <2> HIDE DEF top, a
  <2> QED
    BY <1>1, PrefixTrans
<1>3. d.zones[LocateZone(d, src)].path = src /\ IsPrefix(src, src)
  BY LookupIs, PrefixSelf
<1>4. IsPrefix(src, a) => IsPrefix(src, top)
  BY <1>3, BelowIsSelected
<1> QED
  BY <1>2, <1>4

\* The entries below a path that is an entry's, when no zone is.
LEMMA UnderEntry ==
  ASSUME NEW d, Good(d), IsTreeOf(d), NEW src \in Seq(Names), ZonesOver(d, src) # {},
         \A z \in DOMAIN d.zones : ~IsPrefix(src, d.zones[z].path), NEW i \in DOMAIN d.entries
  PROVE  IsPrefix(src, AbsolutePath(d, i)) <=>
            /\ d.entries[i].zone = LocateZone(d, src)
            /\ IsPrefix(RelativePath(d, src), d.entries[i].rel)
<1> DEFINE z == LocateZone(d, src)
           top == d.zones[z].path
           rel == d.entries[i].rel
           source == RelativePath(d, src)
<1>1. /\ z \in DOMAIN d.zones /\ top \in Seq(Names) /\ source \in Seq(Names) /\ src = top \o source
      /\ rel \in Seq(Names) /\ d.entries[i].zone \in DOMAIN d.zones
  BY LookupIs, EntryParts
<1>2. CASE d.entries[i].zone = z
  <2>1. AbsolutePath(d, i) = top \o rel
    BY <1>2 DEF AbsolutePath
  <2>2. IsPrefix(top \o source, top \o rel) <=> IsPrefix(source, rel)
    BY <1>1, PrefixUnder
  <2> QED
    BY <1>1, <1>2, <2>1, <2>2, Zenon
<1>3. CASE d.entries[i].zone # z
  BY <1>1, <1>3, BelowIsSelected
<1> QED
  BY <1>2, <1>3

\* What Rebase leaves of a row.
LEMMA RebaseKeeps ==
  ASSUME NEW d, NEW p, NEW source, NEW e \in EntryRows, NEW g
  PROVE  Alike(e, [Rebase(d, p, source, e) EXCEPT !.gen = g])
BY DEF Alike, Rebase, EntryRows

\* Row k of c is at dst what row i of d is at src.
Relocated(d, i, src, c, k, dst) ==
    /\ AbsolutePath(c, k) = dst \o Remainder(src, AbsolutePath(d, i))
    /\ EntryNode(c, k) = EntryNode(d, i)

\* A rebased row lies as far below dst as it lay below src.
LEMMA RebasedAt ==
  ASSUME NEW d, Good(d), NEW src \in Seq(Names), ZonesOver(d, src) # {},
         NEW dst \in Seq(Names), HasPlace(d, dst),
         NEW i \in DOMAIN d.entries, d.entries[i].zone = LocateZone(d, src),
         IsPrefix(RelativePath(d, src), d.entries[i].rel),
         NEW g, NEW k, NEW c, SamePlaces(d.zones, c.zones), ObjectsKept(d, c),
         c.entries[k] = [Rebase(d, dst, RelativePath(d, src), d.entries[i]) EXCEPT !.gen = g]
  PROVE  Relocated(d, i, src, c, k, dst)
<1> DEFINE source == RelativePath(d, src)
           e == d.entries[i]
           r == c.entries[k]
           z == LocateZone(d, src)
           top == d.zones[z].path
           rest == Remainder(source, e.rel)
           y == LocateZone(d, Front(dst))
           new == Append(RelativePath(d, Front(dst)), Last(dst)) \o rest
<1>1. /\ z \in DOMAIN d.zones /\ top \in Seq(Names) /\ source \in Seq(Names) /\ src = top \o source
      /\ e.rel \in Seq(Names) /\ IsPrefix(source, e.rel) /\ e.zone = z
  BY LookupIs, EntryParts
<1>2. e \in EntryRows /\ (e.obj # None => e.obj \in DOMAIN d.objects)
  BY DEF Good, GoodEntries, GoodRow
<1>3. Rebased(d, dst, source, e, r) /\ Alike(e, r)
  <2> DEFINE x == Rebase(d, dst, source, e)
  <2>1. r = [x EXCEPT !.gen = g]
    OBVIOUS
  <2>2. Alike(e, [x EXCEPT !.gen = g])
    BY <1>2, RebaseKeeps
  <2>3. Rebased(d, dst, source, e, [x EXCEPT !.gen = g])
    BY <1>2, RebaseIs
  <2> QED
    BY <2>1, <2>2, <2>3, Zenon
<1>4. r.zone = y /\ r.rel = new
  BY <1>3 DEF Rebased
<1>5. d.zones[y].path \o new = dst \o rest /\ y \in DOMAIN d.zones
  <2>1. dst # <<>> /\ ZonesOver(d, Front(dst)) # {}
    BY DEF HasPlace
  <2>2. Lands(d, dst, source, e.rel)
    BY <1>1, <2>1, RebasePlace
  <2>3. Front(dst) \in Seq(Names)
    BY <2>1, SplitPath
  <2>4. y \in DOMAIN d.zones
    BY <2>1, <2>3, LocatedParts
  <2> QED
    BY <2>2, <2>4 DEF Lands
<1>6. AbsolutePath(c, k) = dst \o rest
  BY <1>4, <1>5 DEF AbsolutePath, SamePlaces
<1>7. Remainder(src, AbsolutePath(d, i)) = rest
  <2>1. AbsolutePath(d, i) = top \o e.rel
    BY <1>1 DEF AbsolutePath
  <2> HIDE DEF top, source, e
  <2>2. e.rel = source \o rest /\ rest \in Seq(Names)
    BY <1>1, PrefixSplit
  <2> HIDE DEF rest
  <2>3. top \o (source \o rest) = src \o rest
    BY <1>1, <2>2, PathConcat
  <2> QED
    BY <2>1, <2>2, <2>3, ConcatRemainder
<1>8. EntryNode(c, k) = EntryNode(d, i)
  <2>1. r.kind = e.kind /\ r.body = e.body /\ r.obj = e.obj
    BY <1>3 DEF Alike
  <2>2. e.obj # None => c.objects[e.obj] = d.objects[e.obj]
    BY <1>2 DEF ObjectsKept
  <2> QED
    BY <2>1, <2>2 DEF EntryNode, Contents
<1> QED
  BY <1>6, <1>7, <1>8 DEF Relocated

\* Y and F are the zones and the entries at and below src.
TakesBelow(d, src, Y, F) ==
    /\ Y \in SUBSET DOMAIN d.zones /\ F \in SUBSET DOMAIN d.entries
    /\ \A z \in DOMAIN d.zones : z \in Y <=> IsPrefix(src, d.zones[z].path)
    /\ \A i \in DOMAIN d.entries : i \in F <=> IsPrefix(src, AbsolutePath(d, i))

\* Planted rows make what was at src, at dst.
LEMMA PlantedImage ==
  ASSUME NEW d, NEW t, Image(d, t), \A q \in DOMAIN t : q \in Seq(Names),
         NEW src \in Seq(Names), NEW dst \in Seq(Names),
         NEW Y, NEW F, TakesBelow(d, src, Y, F),
         NEW c, NEW zs, NEW es, Planted(d, src, Y, F, c, dst, zs, es)
  PROVE  ImageOf(c, {zs[z] : z \in Y}, {es[i] : i \in F}, Abstract!At(dst, Below(src, t)))
<1>1. ImageOf(d, DOMAIN d.zones, DOMAIN d.entries, t)
  BY DEF Image
<1>2. /\ Y \in SUBSET DOMAIN d.zones /\ F \in SUBSET DOMAIN d.entries
      /\ \A z \in DOMAIN d.zones : z \in Y <=> IsPrefix(src, d.zones[z].path)
      /\ \A i \in DOMAIN d.entries : i \in F <=> IsPrefix(src, AbsolutePath(d, i))
  BY DEF TakesBelow
<1> QED
  BY <1>1, <1>2, ImagePlanted

\* The same of the volume as it is.
LEMMA SubtreePlanted ==
  ASSUME Good(db), IsTreeOf(db), NEW src \in Seq(Names), NEW dst \in Seq(Names),
         NEW Y, NEW F, TakesBelow(db, src, Y, F),
         NEW c, NEW zs, NEW es, Planted(db, src, Y, F, c, dst, zs, es)
  PROVE  ImageOf(c, {zs[z] : z \in Y}, {es[i] : i \in F}, Abstract!At(dst, Below(src, tree)))
<1> DEFINE t == tree
<1>1. Image(db, t)
  BY ImageNow
<1>2. \A q \in DOMAIN t : q \in Seq(Names)
  BY NamedPaths
<1> HIDE DEF t
<1>3. ImageOf(c, {zs[z] : z \in Y}, {es[i] : i \in F}, Abstract!At(dst, Below(src, t)))
  BY <1>1, <1>2, PlantedImage
<1> QED
  BY <1>3 DEF t

\* At and below a path that is no zone's there is no zone, unless ZonesLike
\* finds it.
LEMMA NoZonesBelow ==
  ASSUME PlainPaths, NEW d, Good(d), IsTreeOf(d), NEW src \in Seq(Names), src # <<>>,
         RelativePath(d, src) # <<>>, KindOf(d, src) = Dir => ZonesLike(d, src) = {}
  PROVE  \A z \in DOMAIN d.zones : ~IsPrefix(src, d.zones[z].path)
<1> SUFFICES ASSUME NEW z \in DOMAIN d.zones, IsPrefix(src, d.zones[z].path) PROVE FALSE
  OBVIOUS
<1>1. src # d.zones[z].path
  BY ZoneResolves DEF IsTreeOf
<1>2. KindOf(d, src) = Dir
  BY <1>1, AboveNode DEF IsNode, IsZonePath
<1>3. LikeBelow(src, d.zones[z].path)
  BY <1>1, ZoneParts, LikePrefix
<1> QED
  BY <1>2, <1>3 DEF ZonesLike

\* The rows under zone z with a path at or below rel.
EntriesUnder(d, z, rel) ==
    {i \in DOMAIN d.entries : d.entries[i].zone = z /\ IsPrefix(rel, d.entries[i].rel)}

\* They are what is at and below an entry.
LEMMA EntryTakes ==
  ASSUME NEW d, Good(d), IsTreeOf(d), NEW src \in Seq(Names), ZonesOver(d, src) # {},
         \A z \in DOMAIN d.zones : ~IsPrefix(src, d.zones[z].path)
  PROVE  TakesBelow(d, src, {}, EntriesUnder(d, LocateZone(d, src), RelativePath(d, src)))
BY UnderEntry DEF TakesBelow, EntriesUnder

\* A zone, the zones below it and their entries are what is at and below it.
LEMMA ZoneTakes ==
  ASSUME PlainPaths, NEW d, Good(d), IsTreeOf(d), NEW src \in Seq(Names), src # <<>>,
         ZonesOver(d, src) # {}, RelativePath(d, src) = <<>>,
         NEW Y, Y = ZonesLike(d, src) \cup {LocateZone(d, src)}
  PROVE  TakesBelow(d, src, Y, EntriesOf(d, Y))
<1> DEFINE z == LocateZone(d, src)
<1>1. z \in DOMAIN d.zones /\ d.zones[z].path = src
  BY LookupIs
<1>2. \A y \in DOMAIN d.zones : y \in Y <=> IsPrefix(src, d.zones[y].path)
  <2> TAKE y \in DOMAIN d.zones
  <2>1. d.zones[y].path = src <=> y = z
    BY <1>1 DEF IsTreeOf, Distinct
  <2>2. y \in ZonesLike(d, src) <=> IsPrefix(src, d.zones[y].path) /\ src # d.zones[y].path
    BY ZoneParts, LikePrefix DEF ZonesLike
  <2> HIDE DEF z
  <2> QED
    BY <2>1, <2>2, PrefixSelf DEF z
<1>3. \A i \in DOMAIN d.entries :
        i \in EntriesOf(d, Y) <=> IsPrefix(src, AbsolutePath(d, i))
  <2> TAKE i \in DOMAIN d.entries
  <2>1. d.entries[i].zone \in DOMAIN d.zones
    BY EntryParts
  <2>2. IsPrefix(src, AbsolutePath(d, i)) <=> IsPrefix(src, d.zones[d.entries[i].zone].path)
    BY UnderZone
  <2> QED
    BY <1>2, <2>1, <2>2 DEF EntriesOf
<1>4. Y \in SUBSET DOMAIN d.zones
  BY <1>1 DEF ZonesLike
<1> QED
  BY <1>2, <1>3, <1>4 DEF TakesBelow, EntriesOf

\* The tree as it is once a copy of what is at src has been put at dst.
Grafted(src, dst) == Abstract!Over(Abstract!At(dst, Below(src, tree)), tree)

\* The copy is apart from the tree.
LEMMA CopyApart ==
  ASSUME Good(db), IsTreeOf(db), NEW src \in Seq(Names), NEW dst \in Seq(Names), KindOf(db, dst) = None
  PROVE  DOMAIN Abstract!At(dst, Below(src, tree)) \cap DOMAIN tree = {}
<1> DEFINE t == tree
           s == Abstract!At(dst, Below(src, t))
<1>1. \A q \in DOMAIN t : q \in Seq(Names)
  BY NamedPaths
<1> HIDE DEF t
<1>2. \A x \in DOMAIN s : IsPrefix(dst, x)
  BY <1>1, PlantedUnder
<1> HIDE DEF s
<1>3. DOMAIN s \cap DOMAIN tree = {}
  BY <1>2, ApartFromTree
<1> QED
  BY <1>3 DEF s, t

\* A zone is copied to a new zone, and its objects are shared.
LEMMA CopyZoneStep ==
  ASSUME PlainPaths, Good(db), IsTreeOf(db), Good(db)', TreeNext,
         NEW src \in Seq(Names), NEW dst \in Seq(Names), src # <<>>, ZonesOver(db, src) # {},
         RelativePath(db, src) = <<>>, ParentIsDir(db, dst), KindOf(db, dst) = None, CopyZone(src, dst)
  PROVE  tree' = Grafted(src, dst)
<1> DEFINE z == LocateZone(db, src)
           old == EntriesOf(db, {z})
<1>1. PICK n \in FreshNodes(db) : \E f \in Injection(old, FreshNodes(db) \ {n}) :
            LET made == [db EXCEPT !.zones = Store(OneRow(n, ZoneRow(db, dst)), zones)]
            IN Commit(InsertEntries(made, [k \in {f[i] : i \in old} |->
                    [entries[CHOOSE i \in old : f[i] = k] EXCEPT !.zone = n, !.gen = 1]]))
  BY Zenon DEF CopyZone
<1>2. PICK f \in Injection(old, FreshNodes(db) \ {n}) :
            LET made == [db EXCEPT !.zones = Store(OneRow(n, ZoneRow(db, dst)), zones)]
            IN Commit(InsertEntries(made, [k \in {f[i] : i \in old} |->
                    [entries[CHOOSE i \in old : f[i] = k] EXCEPT !.zone = n, !.gen = 1]]))
  BY <1>1, Zenon
<1> DEFINE made == [db EXCEPT !.zones = Store(OneRow(n, ZoneRow(db, dst)), db.zones)]
           row(i) == [db.entries[i] EXCEPT !.zone = n, !.gen = 1]
           rows == [k \in {f[i] : i \in old} |-> row(CHOOSE i \in old : f[i] = k)]
           c == InsertEntries(made, rows)
           zs == [y \in {z} |-> n]
           s == Abstract!At(dst, Below(src, tree))
<1>3. Commit(c)
  BY <1>2 DEF db
<1>4. /\ Good(made) /\ Attaches(db, dst, n, c) /\ Holds(c.entries, rows, db.entries)
      /\ ObjectsKept(db, c)
  <2>1. c = InsertEntries(made, rows)
    OBVIOUS
  <2> HIDE DEF rows, c
  <2>2. made = WithZone(db, dst, n) /\ made.objects = db.objects
    BY WithZones DEF WithZone, Good
  <2> HIDE DEF made
  <2>3. Good(made) /\ Attaches(db, dst, n, c) /\ Holds(c.entries, rows, db.entries)
    BY <2>1, <2>2, AttachIs
  <2>4. c.objects = made.objects
    BY <2>1, <2>3, InsertLeaves
  <2> QED
    BY <2>2, <2>3, <2>4 DEF ObjectsKept
<1>5. TakesBelow(db, src, {z}, old)
  <2>1. CopyZone(src, dst) => ZonesLike(db, src) = {}
    BY DEF CopyZone
  <2>2. {z} = ZonesLike(db, src) \cup {LocateZone(db, src)}
    BY <2>1
  <2> QED
    BY <2>2, ZoneTakes
<1>6. ASSUME NEW i \in old
      PROVE  /\ row(i).zone = n /\ row(i).rel = db.entries[i].rel
             /\ Alike(db.entries[i], row(i))
  <2> DEFINE e == db.entries[i]
  <2>1. e \in EntryRows
    BY DEF Good, GoodEntries, GoodRow, EntriesOf
  <2>2. row(i) = [e EXCEPT !.zone = n, !.gen = 1]
    OBVIOUS
  <2> HIDE DEF e, row
  <2>3. row(i).zone = n /\ row(i).rel = e.rel /\ Alike(e, row(i))
    BY <2>1, <2>2 DEF EntryRows, Alike
  <2> QED
    BY <2>3 DEF e
<1> HIDE DEF row
<1>7. /\ \A i \in old : f[i] \in FreshNodes(db) \ {n}
      /\ \A i, j \in old : f[i] = f[j] => i = j
  BY DEF Injection, IsInjective
<1>8. \A i \in old : f[i] \in DOMAIN rows /\ rows[f[i]] = row(i)
  <2>1. \A i \in old : (CHOOSE j \in old : f[j] = f[i]) = i
    BY <1>7
  <2> HIDE DEF old
  <2> QED
    BY <2>1
<1>9. DOMAIN rows = {f[i] : i \in old} /\ {zs[y] : y \in {z}} = {n}
  OBVIOUS
<1>10. \A i \in old : i \in DOMAIN db.entries /\ db.entries[i].zone = z
  BY DEF EntriesOf
<1>11. z \in DOMAIN db.zones /\ db.zones[z].path = src /\ zs[z] = n
  BY LookupIs
<1> HIDE DEF rows, c, made, old, zs, z, s
<1>12. DOMAIN rows \cap DOMAIN db.entries = {}
  BY <1>7, <1>9 DEF FreshNodes
<1>13. \A i \in old : f[i] \in DOMAIN c.entries /\ c.entries[f[i]] = row(i)
  BY <1>4, <1>8 DEF Holds
<1>14. c.zones[n].path = dst
  BY <1>4 DEF Attaches
<1>15. c.zones[zs[z]].path = dst \o Remainder(src, db.zones[z].path)
  <2>1. Remainder(src, src) = <<>> /\ dst \o <<>> = dst
    BY RemainderOf, LenProperties, ConcatProperties
  <2> QED
    BY <1>11, <1>14, <2>1
<1>16. ASSUME NEW i \in old
       PROVE  /\ AbsolutePath(c, f[i]) = dst \o Remainder(src, AbsolutePath(db, i))
              /\ EntryNode(c, f[i]) = EntryNode(db, i)
  <2> DEFINE e == db.entries[i]
             r == c.entries[f[i]]
  <2>1. e.rel \in Seq(Names) /\ AbsolutePath(db, i) = src \o e.rel
    BY <1>10, <1>11, EntryParts DEF AbsolutePath
  <2>2. r.zone = n /\ r.rel = e.rel /\ r.kind = e.kind /\ r.body = e.body /\ r.obj = e.obj
    BY <1>6, <1>13 DEF Alike
  <2>3. e.obj # None => c.objects[e.obj] = db.objects[e.obj]
    BY <1>4, <1>10 DEF ObjectsKept, Good, GoodEntries, GoodRow
  <2>4. EntryNode(c, f[i]) = EntryNode(db, i)
    BY <2>2, <2>3 DEF EntryNode, Contents
  <2>5. AbsolutePath(c, f[i]) = dst \o e.rel
    BY <1>14, <2>2 DEF AbsolutePath
  <2> HIDE DEF e
  <2>6. Remainder(src, src \o e.rel) = e.rel
    BY <2>1, ConcatRemainder
  <2> QED
    BY <2>1, <2>4, <2>5, <2>6
<1>17. Planted(db, src, {z}, old, c, dst, zs, f)
  BY <1>15, <1>16 DEF Planted
<1>18. ImageOf(c, {n}, DOMAIN rows, s)
  <2>1. ImageOf(c, {zs[y] : y \in {z}}, {f[i] : i \in old}, s)
    BY <1>5, <1>17, SubtreePlanted DEF s
  <2> QED
    BY <1>9, <2>1
<1>19. DOMAIN s \cap DOMAIN tree = {}
  BY CopyApart DEF s
<1>20. Image(c, Abstract!Over(s, tree))
  BY <1>4, <1>12, <1>18, <1>19, ImageNow, AttachImage
<1> QED
  BY <1>3, <1>20, CommitImage DEF s, Grafted

\* An entry is copied with the rows below it.
LEMMA CopyEntryStep ==
  ASSUME PlainPaths, Good(db), IsTreeOf(db), Good(db)', TreeNext,
         NEW src \in Seq(Names), NEW dst \in Seq(Names), NEW recursive \in BOOLEAN,
         src # <<>>, RelativePath(db, src) # <<>>,
         ParentIsDir(db, dst), KindOf(db, dst) = None, CopyEntry(src, dst, recursive)
  PROVE  tree' = Grafted(src, dst)
<1> DEFINE source == RelativePath(db, src)
           z == LocateZone(db, src)
           old == {i \in EntriesOf(db, {LocateZone(db, src)}) :
                     \/ entries[i].rel = source
                     \/ recursive /\ LikeBelow(source, entries[i].rel)}
           s == Abstract!At(dst, Below(src, tree))
<1>1. PICK f \in Injection(old, FreshNodes(db)) :
        Commit(InsertEntries(db, [k \in {f[i] : i \in old} |->
             [Rebase(db, dst, source, entries[CHOOSE i \in old : f[i] = k]) EXCEPT !.gen = 1]]))
  BY Zenon DEF CopyEntry
<1> DEFINE row(i) == [Rebase(db, dst, source, db.entries[i]) EXCEPT !.gen = 1]
           rows == [k \in {f[i] : i \in old} |-> row(CHOOSE i \in old : f[i] = k)]
           c == InsertEntries(db, rows)
<1>2. Commit(c) /\ db.entries = entries
  BY <1>1 DEF db
<1>3. HasPlace(db, dst)
  BY ParentParts DEF HasPlace
<1>4. /\ KindOf(db, src) # None /\ (KindOf(db, src) = Dir => recursive /\ ZonesLike(db, src) = {})
      /\ ZonesOver(db, src) # {}
  BY DirIsOver DEF CopyEntry
<1>5. source \in Seq(Names) /\ source # <<>> /\ z \in DOMAIN db.zones
      /\ src = db.zones[z].path \o source /\ db.zones[z].path \in Seq(Names)
  BY <1>4, LookupIs
<1>6. \A y \in DOMAIN db.zones : ~IsPrefix(src, db.zones[y].path)
  BY <1>4, NoZonesBelow
<1>7. old = EntriesUnder(db, z, source)
  <2>1. ASSUME NEW i \in DOMAIN db.entries, db.entries[i].zone = z
        PROVE  IsPrefix(source, db.entries[i].rel) <=>
                  \/ db.entries[i].rel = source
                  \/ recursive /\ LikeBelow(source, db.entries[i].rel)
    <3> DEFINE rel == db.entries[i].rel
    <3>1. rel \in Seq(Names) /\ AbsolutePath(db, i) = db.zones[z].path \o rel
      BY <2>1, EntryParts DEF AbsolutePath
    <3>2. LikeBelow(source, rel) <=> IsPrefix(source, rel) /\ source # rel
      <4> HIDE DEF source, rel
      <4> QED
        BY <1>5, <3>1, LikePrefix
    <3>3. IsPrefix(source, rel) /\ source # rel => recursive
      <4> SUFFICES ASSUME IsPrefix(source, rel), source # rel PROVE recursive
        OBVIOUS
      <4>1. IsPrefix(src, AbsolutePath(db, i))
        <5> DEFINE top == db.zones[z].path
        <5> HIDE DEF source, rel, z, top
        <5>1. IsPrefix(top \o source, top \o rel) <=> IsPrefix(source, rel)
          BY <1>5, <3>1, PrefixUnder DEF top
        <5> QED
          BY <1>5, <3>1, <5>1 DEF top
      <4>2. src # AbsolutePath(db, i)
        <5> DEFINE top == db.zones[z].path
        <5> HIDE DEF source, rel, z, top
        <5>1. top \o source = top \o rel => source = rel
          BY <1>5, <3>1, SameConcat DEF top
        <5> QED
          BY <1>5, <3>1, <5>1 DEF top
      <4>3. IsNode(db, AbsolutePath(db, i))
        BY DEF IsNode
      <4>4. KindOf(db, src) = Dir
        BY <4>1, <4>2, <4>3, AboveNode
      <4> QED
        BY <1>4, <4>4
    <3>4. IsPrefix(source, source)
      BY <1>5, PrefixSelf
    <3> HIDE DEF source
    <3> QED
      BY <3>2, <3>3, <3>4
  <2> QED
    BY <1>2, <2>1 DEF EntriesOf, EntriesUnder
<1>8. TakesBelow(db, src, {}, old)
  BY <1>4, <1>6, <1>7, EntryTakes
<1> HIDE DEF row
<1>9. /\ \A i \in old : f[i] \in FreshNodes(db)
      /\ \A i, j \in old : f[i] = f[j] => i = j
  BY DEF Injection, IsInjective
<1>10. \A i \in old : f[i] \in DOMAIN rows /\ rows[f[i]] = row(i)
  <2>1. \A i \in old : (CHOOSE j \in old : f[j] = f[i]) = i
    BY <1>9
  <2> HIDE DEF old
  <2> QED
    BY <2>1
<1>11. DOMAIN rows = {f[i] : i \in old}
  OBVIOUS
<1> HIDE DEF rows, old
<1>12. /\ Holds(c.entries, rows, db.entries) /\ SamePlaces(db.zones, c.zones)
       /\ c.objects = db.objects
  BY InsertLeaves, StoreHolds
<1> HIDE DEF c
<1>13. DOMAIN rows \cap DOMAIN db.entries = {}
  BY <1>9, <1>11 DEF FreshNodes
<1>14. \A i \in old : c.entries[f[i]] = row(i)
  BY <1>10, <1>12 DEF Holds
<1>15. ObjectsKept(db, c)
  BY <1>12 DEF ObjectsKept
<1>16. ASSUME NEW i \in old PROVE Relocated(db, i, src, c, f[i], dst)
  <2>1. /\ i \in DOMAIN db.entries /\ db.entries[i].zone = z
        /\ IsPrefix(source, db.entries[i].rel)
    BY <1>7 DEF EntriesUnder
  <2>2. c.entries[f[i]] = [Rebase(db, dst, source, db.entries[i]) EXCEPT !.gen = 1]
    BY <1>14 DEF row
  <2> QED
    BY <1>3, <1>4, <1>12, <1>15, <2>1, <2>2, RebasedAt
<1>17. Planted(db, src, {}, old, c, dst, <<>>, f)
  BY <1>16 DEF Planted, Relocated
<1> HIDE DEF s
<1>18. ImageOf(c, {}, DOMAIN rows, s)
  <2>1. ImageOf(c, {<<>>[y] : y \in {}}, {f[i] : i \in old}, s)
    BY <1>8, <1>17, SubtreePlanted DEF s
  <2>2. {<<>>[y] : y \in {}} = {}
    OBVIOUS
  <2> QED
    BY <1>11, <2>1, <2>2
<1>19. DOMAIN s \cap DOMAIN tree = {}
  BY CopyApart DEF s
<1>20. c = InsertEntries(db, rows)
  BY DEF c
<1>21. Image(c, Abstract!Over(s, tree))
  BY <1>13, <1>18, <1>19, <1>20, ImageNow, InsertImage
<1> QED
  BY <1>2, <1>21, CommitImage DEF s, Grafted

\* copy grafts what is at src.
LEMMA copyStep ==
  ASSUME PlainPaths, Good(db), IsTreeOf(db), Good(db)', TreeNext,
         NEW src \in Paths, NEW dst \in Paths, NEW recursive \in BOOLEAN, copy(src, dst, recursive)
  PROVE  Abstract!Copy(src, dst)
<1>1. /\ src \in Seq(Names) /\ dst \in Seq(Names) /\ src # <<>> /\ ~LikeWithin(src, dst)
      /\ ParentIsDir(db, dst) /\ KindOf(db, dst) = None
  BY PathParts DEF copy, CanPlace
<1>2. tree' = Grafted(src, dst) /\ KindOf(db, src) # None
  <2>1. CASE RelativePath(db, src) = <<>>
    <3>1. CopyZone(src, dst)
      BY <2>1 DEF copy
    <3>2. ZonesOver(db, src) # {}
      <4>1. DOMAIN db.zones # {}
        BY <1>1, ParentParts DEF ZonesOver
      <4> QED
        BY <1>1, <4>1, RootIsOver
    <3>3. db.zones[LocateZone(db, src)].path = src /\ LocateZone(db, src) \in DOMAIN db.zones
      BY <1>1, <2>1, <3>2, LookupIs
    <3>4. IsZonePath(db, src)
      BY <3>3 DEF IsZonePath
    <3>5. KindOf(db, src) # None
      BY <3>2, <3>4, NoneAssumption DEF KindOf, Kinds
    <3> QED
      BY <1>1, <2>1, <3>1, <3>2, <3>5, CopyZoneStep
  <2>2. CASE RelativePath(db, src) # <<>>
    <3>1. CopyEntry(src, dst, recursive)
      BY <2>2 DEF copy
    <3> QED
      BY <1>1, <2>2, <3>1, CopyEntryStep DEF CopyEntry
  <2> QED
    BY <2>1, <2>2
<1>3. ~IsPrefix(src, dst)
  BY <1>1, LikePrefix
<1>4. /\ Abstract!CanHold(dst) /\ Abstract!Kind(dst) = None /\ Abstract!Kind(src) # None
  BY <1>1, <1>2, HoldIs, KindIs
<1>5. Abstract!IsTree(Below(src, tree))
  BY <1>1, <1>2, SubtreeIsTree
<1>6. Abstract!Subtree(src) = Below(src, tree)
  BY SubtreeIs
<1> QED
  BY <1>1, <1>2, <1>3, <1>4, <1>5, <1>6, SameOperators DEF Abstract!Copy, Abstract!Graft, Grafted

-----------------------------------------------------------------------------
(* Removals.                                                               *)

\* The nodes at and below p; the tree without the nodes of Q.
NodesUnder(t, p) == {x \in DOMAIN t : IsPrefix(p, x)}
CutFrom(t, Q) == [q \in DOMAIN t \ Q |-> t[q]]

\* Y and F are the zones and the entries whose path is in Q.
Takes(d, Q, Y, F) ==
    /\ \A z \in DOMAIN d.zones : z \in Y <=> d.zones[z].path \in Q
    /\ \A i \in DOMAIN d.entries : i \in F <=> AbsolutePath(d, i) \in Q

\* The rows of c have the contents they had in d.
ContentsLeft(d, c) == \A i \in DOMAIN c.entries : Contents(c, i) = Contents(d, i)

\* Without the rows of Q the tree is without the nodes of Q.
LEMMA LeftImage ==
  ASSUME NEW d, Good(d), NEW t, Image(d, t), NEW Q, NEW Y, NEW F, Takes(d, Q, Y, F),
         NEW c, Good(c), Without(d, Y, F, c), ContentsLeft(d, c)
  PROVE  Image(c, CutFrom(t, Q))
<1> DEFINE Z == DOMAIN d.zones
           E == DOMAIN d.entries
           R == DOMAIN t \ Q
           u == [q \in R |-> t[q]]
<1>1. ImageOf(d, Z, E, t) /\ DOMAIN c.zones = Z \ Y /\ DOMAIN c.entries = E \ F
  BY DEF Image, Without
<1>2. /\ \A z \in Z : z \in Z \ Y <=> d.zones[z].path \in R
      /\ \A i \in E : i \in E \ F <=> AbsolutePath(d, i) \in R
  BY <1>1 DEF Takes, ImageOf
<1>3. ImageOf(d, Z \ Y, E \ F, u)
  <2>1. Z \ Y \in SUBSET Z /\ E \ F \in SUBSET E /\ R \in SUBSET DOMAIN t
    OBVIOUS
  <2> HIDE DEF Z, E, R
  <2> QED
    BY <1>1, <1>2, <2>1, ImageCut
<1>4. Stays(d, Z \ Y, E \ F, c)
  <2>1. \A z \in Z \ Y : c.zones[z].path = d.zones[z].path
    BY <1>1 DEF Without, Within
  <2>2. ASSUME NEW i \in E \ F
        PROVE  AbsolutePath(c, i) = AbsolutePath(d, i) /\ EntryNode(c, i) = EntryNode(d, i)
    <3>1. i \in DOMAIN c.entries /\ c.entries[i] = d.entries[i] /\ Contents(c, i) = Contents(d, i)
      BY <1>1 DEF Without, Within, ContentsLeft
    <3>2. d.entries[i].zone \in Z \ Y
      BY <1>1, <3>1, EntryParts
    <3> QED
      BY <2>1, <3>1, <3>2 DEF AbsolutePath, EntryNode
  <2> QED
    BY <2>1, <2>2 DEF Stays
<1> HIDE DEF u
<1>5. ImageOf(c, Z \ Y, E \ F, u)
  BY <1>3, <1>4, ImageStays
<1>6. Image(c, u)
  BY <1>1, <1>5, Zenon DEF Image
<1> QED
  BY <1>6 DEF CutFrom, u

\* A directory with a node below it lists one.
LEMMA HasChild ==
  ASSUME NEW d, Good(d), IsTreeOf(d), NEW p \in Seq(Names),
         NEW q, IsNode(d, q), IsPrefix(p, q), q # p
  PROVE  KindOf(d, p) = Dir /\ (ChildEntries(d, p) # {} \/ ChildZones(d, p) # {})
<1>1. KindOf(d, p) = Dir /\ q \in Seq(Names)
  BY AboveNode, NodeIsFound
<1>2. PICK rest \in Seq(Names) : q = p \o rest
  BY <1>1, PrefixSplit
<1>3. rest # <<>>
  BY <1>2, ConcatProperties
<1> DEFINE x == rest[1]
           r == Append(p, x)
<1>4. x \in Names /\ IsPrefix(<<x>>, rest) /\ <<x>> \in Seq(Names)
  <2>1. Len(rest) \in Nat /\ Len(rest) # 0
    BY <1>3, EmptySeq, LenProperties
  <2>2. x \in Names
    BY <2>1
  <2> DEFINE one == <<x>>
  <2>3. one \in Seq(Names) /\ Len(one) = 1 /\ one[1] = rest[1]
    BY <2>2
  <2> HIDE DEF one, x
  <2>4. Len(one) =< Len(rest) /\ \A k \in 1 .. Len(one) : one[k] = rest[k]
    BY <2>1, <2>3
  <2>5. IsPrefix(one, rest)
    BY <2>3, <2>4, PrefixNames
  <2> QED
    BY <2>2, <2>3, <2>5 DEF one
<1> HIDE DEF x
<1>5. r \in Seq(Names) /\ r # <<>> /\ Front(r) = p /\ IsPrefix(r, q)
  <2>1. r \in Seq(Names) /\ r # <<>> /\ Front(r) = p
    BY <1>4, SplitAppend, AppendProperties
  <2>2. r = p \o <<x>>
    BY <1>4, AppendIsConcat
  <2>3. IsPrefix(p \o <<x>>, p \o rest)
    BY <1>4, PrefixUnder
  <2> QED
    BY <1>2, <2>1, <2>2, <2>3
<1> HIDE DEF r
<1>6. IsNode(d, r)
  <2>1. CASE r = q
    BY <2>1
  <2>2. CASE r # q
    BY <1>5, <2>2, AboveNode, FoundIsNode, NoneAssumption DEF Kinds
  <2> QED
    BY <2>1, <2>2
<1>7. CASE \E z \in DOMAIN d.zones : d.zones[z].path = r
  BY <1>1, <1>5, <1>7, ListIs
<1>8. CASE \E i \in DOMAIN d.entries : AbsolutePath(d, i) = r
  BY <1>1, <1>5, <1>8, ListIs
<1> QED
  BY <1>1, <1>6, <1>7, <1>8 DEF IsNode, IsZonePath

\* p lists as empty, or is no directory.
Childless(d, p) == KindOf(d, p) = Dir => ChildEntries(d, p) = {} /\ ChildZones(d, p) = {}

\* Below an empty directory there is nothing.
LEMMA NoneBelow ==
  ASSUME NEW d, Good(d), IsTreeOf(d), NEW p \in Seq(Names), Childless(d, p),
         NEW q, IsNode(d, q), IsPrefix(p, q)
  PROVE  q = p
BY HasChild DEF Childless

\* What an image holds is what kind_of finds.
LEMMA KindInImage ==
  ASSUME NEW d, Good(d), IsTreeOf(d), NEW t, Image(d, t), NEW p \in Seq(Names)
  PROVE  /\ p \in DOMAIN t <=> KindOf(d, p) # None
         /\ p \in DOMAIN t <=> IsNode(d, p)
<1>1. p \in DOMAIN t <=> IsNode(d, p)
  BY DEF Image, ImageOf, IsNode, IsZonePath
<1>2. KindOf(d, p) # None <=> IsNode(d, p)
  BY FoundIsNode, NodeIsFound, NoneAssumption DEF Kinds
<1> QED
  BY <1>1, <1>2

\* DELETE leaves the objects alone.
LEMMA DeleteObjects ==
  ASSUME NEW d, IsDb(d), NEW S, NEW c, c = DeleteEntries(d, S)
  PROVE  IsDb(c) /\ c.objects = d.objects
BY DEF DeleteEntries, IsDb

\* Objects that reclamation leaves are as they were.
LEMMA ReclaimObjects ==
  ASSUME NEW d, IsDb(d), NEW c, c = Reclaim(d), NEW o \in DOMAIN c.objects
  PROVE  c.objects[o] = d.objects[o]
<1> DEFINE live == {s \in d.segments : Referenced(d, s)}
           kept == {x \in DOMAIN d.objects : d.objects[x].segment \notin d.segments \ live}
           os == [x \in kept |-> d.objects[x]]
<1>1. c = [d EXCEPT !.segments = live, !.objects = os]
  BY Zenon DEF Reclaim
<1>2. DOMAIN os = kept /\ \A x \in kept : os[x] = d.objects[x]
  OBVIOUS
<1> HIDE DEF live, os
<1>3. c.objects = os
  BY <1>1 DEF IsDb
<1> QED
  BY <1>2, <1>3

\* A removal does not touch the content of what stays.
LEMMA RemovedContents ==
  ASSUME NEW d, Good(d), NEW p \in Seq(Names), NEW recursive \in BOOLEAN,
         CanRemove(d, p, recursive), NEW c, c = Removed(d, p, recursive)
  PROVE  ContentsLeft(d, c)
<1> DEFINE rel == RelativePath(d, p)
           here == LocateZone(d, p)
           gone == IF rel = <<>> THEN ZonesLike(d, p) \cup {here}
                   ELSE IF recursive THEN ZonesLike(d, p) ELSE {}
           emptied == DeleteEntries(d, EntriesOf(d, gone))
           cut == DeleteZones(emptied, gone)
           own == {i \in EntriesOf(cut, {here} \ gone) :
                     \/ cut.entries[i].rel = rel
                     \/ recursive /\ LikeBelow(rel, cut.entries[i].rel)}
           left == DeleteEntries(cut, own)
<1>1. c = Reclaim(left)
  BY Zenon DEF Removed
<1> HIDE DEF gone
<1>2. IsDb(emptied) /\ emptied.objects = d.objects
  BY DeleteObjects DEF Good
<1> HIDE DEF emptied
<1>3. IsDb(cut) /\ cut.objects = d.objects
  <2> DEFINE zs == [z \in DOMAIN emptied.zones \ gone |-> emptied.zones[z]]
  <2>1. cut = [emptied EXCEPT !.zones = zs]
    BY DEF DeleteZones
  <2> HIDE DEF zs, cut
  <2> QED
    BY <1>2, <2>1, WithZones
<1> HIDE DEF cut, own
<1>4. IsDb(left) /\ left.objects = d.objects
  BY <1>3, DeleteObjects
<1> HIDE DEF left
<1>5. \A o \in DOMAIN c.objects : c.objects[o] = d.objects[o]
  BY <1>1, <1>4, ReclaimObjects
<1>6. Good(c) /\ \A i \in DOMAIN c.entries : c.entries[i] = d.entries[i]
  BY RemovedIs DEF Without, Within
<1>7. ASSUME NEW i \in DOMAIN c.entries PROVE Contents(c, i) = Contents(d, i)
  <2>1. c.entries[i].obj # None => c.entries[i].obj \in DOMAIN c.objects
    BY <1>6 DEF Good, GoodEntries, GoodRow
  <2> QED
    BY <1>5, <1>6, <2>1 DEF Contents
<1> QED
  BY <1>7 DEF ContentsLeft

\* A removal takes what lies at and below its path.
LEMMA RemovedTakes ==
  ASSUME PlainPaths, NEW d, Good(d), IsTreeOf(d), NEW p \in Seq(Names), NEW recursive \in BOOLEAN,
         CanRemove(d, p, recursive)
  PROVE  TakesBelow(d, p, GoneZones(d, p, recursive), GoneEntries(d, p, recursive))
<1> DEFINE rel == RelativePath(d, p)
           here == LocateZone(d, p)
           Y == GoneZones(d, p, recursive)
           F == GoneEntries(d, p, recursive)
<1>1. p # <<>> /\ ZonesOver(d, p) # {}
  BY DirIsOver DEF CanRemove
<1>2. CASE rel = <<>>
  <2>1. Y = ZonesLike(d, p) \cup {here}
    BY <1>2 DEF GoneZones
  <2>2. F = EntriesOf(d, Y)
    BY <2>1 DEF GoneEntries, EntriesOf
  <2> QED
    BY <1>1, <1>2, <2>1, <2>2, ZoneTakes
<1>3. CASE rel # <<>> /\ recursive
  <2>1. Y = ZonesLike(d, p)
    BY <1>3 DEF GoneZones
  <2>2. ASSUME NEW y \in DOMAIN d.zones
        PROVE  y \in Y <=> IsPrefix(p, d.zones[y].path)
    <3>1. p # d.zones[y].path
      BY <1>3, ZoneResolves DEF IsTreeOf
    <3> QED
      BY <1>1, <2>1, <3>1, ZoneParts, LikePrefix DEF ZonesLike
  <2>3. ASSUME NEW i \in DOMAIN d.entries
        PROVE  i \in F <=> IsPrefix(p, AbsolutePath(d, i))
    <3> DEFINE z == d.entries[i].zone
               a == AbsolutePath(d, i)
               top == d.zones[z].path
               r == d.entries[i].rel
    <3>1. z \in DOMAIN d.zones /\ top \in Seq(Names) /\ a \in Seq(Names) /\ IsPrefix(top, a)
          /\ r \in Seq(Names) /\ a = top \o r
      BY EntryParts, AbsoluteParts
    <3>2. i \in F <=> z \in Y \/ (z = here /\ (r = rel \/ LikeBelow(rel, r)))
      BY <1>3 DEF GoneEntries
    <3>3. rel \in Seq(Names) /\ p = d.zones[here].path \o rel
      BY <1>1, LookupIs
    <3>4. r = rel \/ LikeBelow(rel, r) <=> IsPrefix(rel, r)
      <4>1. LikeWithin(rel, r) <=> IsPrefix(rel, r)
        BY <1>3, <3>1, <3>3, LikePrefix
      <4> QED
        BY <4>1 DEF LikeWithin
    <3>5. z = here => (IsPrefix(p, a) <=> IsPrefix(rel, r))
      <4> HIDE DEF rel, r, here, z
      <4>1. IsPrefix(top \o rel, top \o r) <=> IsPrefix(rel, r)
        BY <3>1, <3>3, PrefixUnder
      <4> QED
        BY <3>1, <3>3, <4>1 DEF z
    <3>6. z # here => (IsPrefix(p, a) => IsPrefix(p, top))
      BY BelowIsSelected
    <3>7. IsPrefix(p, top) => IsPrefix(p, a)
      <4> HIDE DEF top, a
      <4> QED
        BY <3>1, PrefixTrans
    <3>8. z \in Y <=> IsPrefix(p, top)
      BY <2>2, <3>1
    <3> HIDE DEF z, a, top, r, here, rel, Y, F
    <3> QED
      BY <3>2, <3>4, <3>5, <3>6, <3>7, <3>8 DEF a
  <2> QED
    BY <2>1, <2>2, <2>3 DEF TakesBelow, GoneEntries, ZonesLike
<1>4. CASE rel # <<>> /\ ~recursive
  <2>1. Y = {} /\ F = EntriesFor(d, p)
    BY <1>4 DEF GoneZones, GoneEntries, EntriesFor, EntriesAt, RelativePath
  <2>2. Childless(d, p)
    BY <1>4 DEF CanRemove, Childless
  <2>3. \A y \in DOMAIN d.zones : ~IsPrefix(p, d.zones[y].path)
    <3> SUFFICES ASSUME NEW y \in DOMAIN d.zones, IsPrefix(p, d.zones[y].path) PROVE FALSE
      OBVIOUS
    <3>1. p = d.zones[y].path
      BY <2>2, NoneBelow DEF IsNode, IsZonePath
    <3> QED
      BY <1>4, <3>1, ZoneResolves DEF IsTreeOf
  <2>4. ASSUME NEW i \in DOMAIN d.entries
        PROVE  i \in EntriesFor(d, p) <=> IsPrefix(p, AbsolutePath(d, i))
    <3>1. IsPrefix(p, AbsolutePath(d, i)) => AbsolutePath(d, i) = p
      BY <2>2, NoneBelow DEF IsNode
    <3>2. AbsolutePath(d, i) = p => i \in EntriesFor(d, p)
      BY Resolves
    <3>3. i \in EntriesFor(d, p) => AbsolutePath(d, i) = p
      <4>1. p = d.zones[here].path \o rel
        BY <1>1, LookupIs
      <4>2. i \in EntriesFor(d, p) => d.entries[i].zone = here /\ d.entries[i].rel = rel
        BY DEF EntriesFor, EntriesAt, RelativePath
      <4> HIDE DEF rel, here
      <4> QED
        BY <4>1, <4>2 DEF AbsolutePath
    <3> QED
      BY <3>1, <3>2, <3>3, PrefixSelf
  <2> QED
    BY <2>1, <2>3, <2>4 DEF TakesBelow, EntriesFor, EntriesAt
<1> QED
  BY <1>2, <1>3, <1>4

\* remove cuts what is at and below its path, and only that.
LEMMA RemovedImage ==
  ASSUME PlainPaths, NEW d, Good(d), IsTreeOf(d), NEW p \in Seq(Names), NEW recursive \in BOOLEAN,
         CanRemove(d, p, recursive), NEW c, c = Removed(d, p, recursive), NEW t, Image(d, t)
  PROVE  Image(c, CutFrom(t, NodesUnder(t, p)))
<1> DEFINE Y == GoneZones(d, p, recursive)
           F == GoneEntries(d, p, recursive)
<1>1. Good(c) /\ Without(d, Y, F, c)
  BY RemovedIs
<1>2. ContentsLeft(d, c)
  BY RemovedContents
<1>3. TakesBelow(d, p, Y, F)
  BY RemovedTakes
<1> HIDE DEF Y, F
<1>4. Takes(d, NodesUnder(t, p), Y, F)
  BY <1>3 DEF TakesBelow, Takes, NodesUnder, Image, ImageOf
<1> QED
  BY <1>1, <1>2, <1>4, LeftImage

\* What Prune leaves.
LEMMA PruneIs ==
  ASSUME NEW P
  PROVE  Abstract!Without(UNION {Abstract!Within(p) : p \in P})
           = CutFrom(tree, UNION {NodesUnder(tree, p) : p \in P})
<1>1. \A p : Abstract!Within(p) = NodesUnder(tree, p)
  BY SameOperators DEF Abstract!Within, NodesUnder
<1> DEFINE U == UNION {Abstract!Within(p) : p \in P}
           V == UNION {NodesUnder(tree, p) : p \in P}
<1>2. U = V
  BY <1>1
<1> HIDE DEF U, V
<1>3. Abstract!Without(U) = CutFrom(tree, V)
  BY <1>2 DEF Abstract!Without, CutFrom
<1> QED
  BY <1>3 DEF U, V

\* A directory without rows to list has no children.
LEMMA NoChildren ==
  ASSUME Good(db), IsTreeOf(db), NEW p \in Seq(Names), Childless(db, p)
  PROVE  Abstract!Children(p) = {}
<1> SUFFICES ASSUME NEW q \in Abstract!Children(p) PROVE FALSE
  OBVIOUS
<1>1. q \in DOMAIN tree /\ q # <<>> /\ Front(q) = p
  BY SameOperators DEF Abstract!Children
<1>2. q \in Seq(Names) /\ IsNode(db, q)
  BY <1>1, NamedPaths, TreeNodes
<1>3. IsPrefix(p, q) /\ q # p
  BY <1>1, <1>2, PrefixFront
<1> QED
  BY <1>2, <1>3, NoneBelow

\* remove prunes one node.
LEMMA removeStep ==
  ASSUME PlainPaths, Good(db), IsTreeOf(db), Good(db)', TreeNext,
         NEW p \in Paths, NEW recursive \in BOOLEAN, remove(p, recursive)
  PROVE  Abstract!Prune({p}, recursive, FALSE)
<1> DEFINE c == Removed(db, p, recursive)
           t == CutFrom(tree, NodesUnder(tree, p))
<1>1. p \in Seq(Names) /\ CanRemove(db, p, recursive) /\ Commit(c)
  BY PathParts DEF remove
<1>2. Image(c, t)
  <2> DEFINE b == tree
  <2>1. Image(db, b)
    BY ImageNow
  <2> HIDE DEF b
  <2>2. Image(c, CutFrom(b, NodesUnder(b, p)))
    BY <1>1, <2>1, RemovedImage
  <2> QED
    BY <2>2 DEF b
<1> HIDE DEF c, t
<1>3. tree' = t
  BY <1>1, <1>2, CommitImage
<1>4. p # <<>> /\ p \in DOMAIN tree
  BY <1>1, KindIs DEF CanRemove
<1>5. recursive \/ (Abstract!Kind(p) = Dir => Abstract!Children(p) = {})
  <2>1. ~recursive => Childless(db, p)
    BY <1>1 DEF CanRemove, Childless
  <2> QED
    BY <1>1, <2>1, NoChildren
<1>6. UNION {NodesUnder(tree, q) : q \in {p}} = NodesUnder(tree, p)
  OBVIOUS
<1>7. tree' = Abstract!Without(UNION {Abstract!Within(q) : q \in {p}})
  BY <1>3, <1>6, PruneIs DEF t
<1> QED
  BY <1>4, <1>5, <1>7 DEF Abstract!Prune

\* A round of the loop of remove_many removes one node, or none with force.
LEMMA RoundImage ==
  ASSUME PlainPaths, NEW d, Good(d), IsTreeOf(d), NEW p \in Seq(Names),
         NEW recursive \in BOOLEAN, NEW force \in BOOLEAN, DOMAIN d.zones # {},
         NEW c \in RemoveRound(d, p, recursive, force), NEW t, Image(d, t)
  PROVE  /\ p # <<>>
         /\ Image(c, CutFrom(t, NodesUnder(t, p)))
         /\ force \/ p \in DOMAIN t
<1>1. CASE force /\ KindOf(d, p) = None
  <2>1. c = d
    BY <1>1 DEF RemoveRound
  <2>2. NodesUnder(t, p) = {}
    BY <1>1, NothingBelow DEF NodesUnder, Image, ImageOf
  <2>3. CutFrom(t, {}) = t
    <3>1. t = [q \in DOMAIN t |-> t[q]] /\ DOMAIN t \ {} = DOMAIN t
      BY DEF Image, ImageOf
    <3> QED
      BY <3>1, Zenon DEF CutFrom
  <2>4. p # <<>>
    BY <1>1, RootIsOver, EmptySeq, NoneAssumption DEF Kinds
  <2> QED
    BY <1>1, <2>1, <2>2, <2>3, <2>4
<1>2. CASE ~(force /\ KindOf(d, p) = None)
  <2>1. CanRemove(d, p, recursive) /\ c = Removed(d, p, recursive)
    BY <1>2 DEF RemoveRound
  <2>2. p # <<>> /\ p \in DOMAIN t
    BY <2>1, KindInImage DEF CanRemove
  <2> QED
    BY <2>1, <2>2, RemovedImage
<1> QED
  BY <1>1, <1>2

\* Two cuts are the cut of both.
LEMMA CutTwice ==
  ASSUME NEW t, NEW p, NEW q, NEW u, u = CutFrom(t, NodesUnder(t, p))
  PROVE  CutFrom(u, NodesUnder(u, q)) = CutFrom(t, UNION {NodesUnder(t, x) : x \in {p, q}})
<1> DEFINE A == NodesUnder(t, p)
           B == NodesUnder(u, q)
           U == UNION {NodesUnder(t, x) : x \in {p, q}}
<1>1. DOMAIN u = DOMAIN t \ A /\ \A x \in DOMAIN u : u[x] = t[x]
  BY DEF CutFrom
<1>2. DOMAIN u \ B = DOMAIN t \ U
  BY <1>1 DEF NodesUnder
<1> HIDE DEF A, B, U
<1>3. \A x \in DOMAIN t \ U : u[x] = t[x]
  BY <1>1, <1>2
<1>4. [x \in DOMAIN u \ B |-> u[x]] = [x \in DOMAIN t \ U |-> t[x]]
  BY <1>2, <1>3
<1> QED
  BY <1>4, Zenon DEF CutFrom, B, U

\* A round leaves the root.
LEMMA RootStays ==
  ASSUME NEW d, Good(d), DOMAIN d.zones # {}, NEW t, Image(d, t), NEW p \in Seq(Names), p # <<>>,
         NEW c, Good(c), Image(c, CutFrom(t, NodesUnder(t, p)))
  PROVE  DOMAIN c.zones # {}
<1>1. PICK z \in DOMAIN d.zones : d.zones[z].path = <<>>
  BY DEF Good, GoodZones
<1>2. ~IsPrefix(p, <<>>)
  <2> DEFINE root == <<>>
  <2>1. root \in Seq(Names) /\ Len(root) = 0
    BY EmptySeq
  <2> HIDE DEF root
  <2>2. IsPrefix(p, root) => Len(p) =< Len(root)
    BY <2>1, PrefixNames
  <2>3. Len(p) # 0 /\ Len(p) \in Nat
    BY EmptySeq, LenProperties
  <2> QED
    BY <2>1, <2>2, <2>3 DEF root
<1>3. <<>> \in DOMAIN CutFrom(t, NodesUnder(t, p))
  BY <1>1, <1>2 DEF Image, ImageOf, CutFrom, NodesUnder
<1>4. \/ \E y \in DOMAIN c.zones : c.zones[y].path = <<>>
      \/ \E i \in DOMAIN c.entries : AbsolutePath(c, i) = <<>>
  BY <1>3 DEF Image, ImageOf
<1>5. \A i \in DOMAIN c.entries : c.entries[i].zone \in DOMAIN c.zones
  BY EntryParts
<1> QED
  BY <1>4, <1>5

\* Two rounds of the loop prune both nodes: the second finds the tree that
\* the first leaves.
LEMMA RemoveEachStep ==
  ASSUME PlainPaths, Good(db), IsTreeOf(db), Good(db)', TreeNext,
         NEW p \in Seq(Names), NEW q \in Seq(Names),
         NEW recursive \in BOOLEAN, NEW force \in BOOLEAN, DOMAIN db.zones # {},
         RemoveEach(p, q, recursive, force)
  PROVE  /\ p # <<>> /\ q # <<>>
         /\ force \/ (p \in DOMAIN tree /\ q \in DOMAIN tree)
         /\ tree' = CutFrom(tree, UNION {NodesUnder(tree, x) : x \in {p, q}})
<1>1. PICK d \in RemoveRound(db, p, recursive, force) :
        \E e \in RemoveRound(d, q, recursive, force) : Commit(e)
  BY DEF RemoveEach
<1>2. PICK e \in RemoveRound(d, q, recursive, force) : Commit(e)
  BY <1>1
<1>3. Good(d) /\ IsTreeOf(d)
  BY RemoveRoundTree
<1> DEFINE t == tree
           u == CutFrom(t, NodesUnder(t, p))
           v == CutFrom(u, NodesUnder(u, q))
<1>4. Image(db, t)
  BY ImageNow
<1> HIDE DEF t
<1>5. p # <<>> /\ Image(d, u) /\ (force \/ p \in DOMAIN t)
  BY <1>4, RoundImage
<1>6. DOMAIN d.zones # {}
  BY <1>3, <1>4, <1>5, RootStays
<1>7. DOMAIN u \subseteq DOMAIN t
  BY DEF CutFrom
<1>8. v = CutFrom(t, UNION {NodesUnder(t, x) : x \in {p, q}})
  BY CutTwice
<1> HIDE DEF u
<1>9. q # <<>> /\ Image(e, v) /\ (force \/ q \in DOMAIN u)
  BY <1>3, <1>5, <1>6, RoundImage
<1> HIDE DEF v
<1>10. tree' = v
  BY <1>2, <1>9, CommitImage
<1> QED
  BY <1>5, <1>7, <1>8, <1>9, <1>10 DEF t

\* The paths of P are no zones', and nothing lies below them.
Leaves(P) ==
    \A p \in P : p \in Seq(Names) /\ p # <<>> /\ ~IsZonePath(db, p) /\ Childless(db, p)

\* The single DELETE of remove_many finds the rows with these paths.
LEMMA ExactIs ==
  ASSUME Good(db), IsTreeOf(db), NEW P, Leaves(P), NEW recursive \in BOOLEAN, DOMAIN db.zones # {},
         NEW i \in DOMAIN db.entries
  PROVE  i \in Exact(db, P, recursive) <=> AbsolutePath(db, i) \in P
<1> DEFINE e == db.entries[i]
           a == AbsolutePath(db, i)
<1>1. i \in Exact(db, P, recursive) => a \in P
  <2> SUFFICES ASSUME i \in Exact(db, P, recursive) PROVE a \in P
    OBVIOUS
  <2>1. PICK p \in P : /\ e.zone = LocateZone(db, Front(p))
                       /\ e.rel = Append(RelativePath(db, Front(p)), Last(p))
    BY DEF Exact
  <2>2. p \in Seq(Names) /\ p # <<>>
    BY DEF Leaves
  <2>3. ZonesOver(db, Front(p)) # {}
    BY <2>2, SplitPath, RootIsOver
  <2>4. p = db.zones[LocateZone(db, Front(p))].path \o Append(RelativePath(db, Front(p)), Last(p))
    BY <2>2, <2>3, NewPlace
  <2>5. a = p
    BY <2>1, <2>4 DEF AbsolutePath
  <2> QED
    BY <2>5
<1>2. a \in P => i \in Exact(db, P, recursive)
  <2> SUFFICES ASSUME a \in P PROVE i \in Exact(db, P, recursive)
    OBVIOUS
  <2>1. e.rel = Append(e.dir, e.name) /\ Last(a) = e.name
    BY EntryParts, AbsoluteParts
  <2>2. e.zone = LocateZone(db, Front(a)) /\ e.dir = RelativePath(db, Front(a))
    <3>1. KindOf(db, Front(a)) = Dir
      BY ParentOfNode, AbsoluteParts DEF IsNode
    <3> QED
      BY <3>1, EntryUnder
  <2>3. e.kind = Dir => {j \in EntriesOf(db, {e.zone}) : db.entries[j].dir = e.rel} = {}
    <3>1. LocateZone(db, a) = e.zone /\ RelativePath(db, a) = e.rel /\ KindOf(db, a) = e.kind
      BY Resolves
    <3>2. e.kind = Dir => ChildEntries(db, a) = {}
      BY <3>1 DEF Leaves, Childless
    <3>3. {j \in EntriesOf(db, {e.zone}) : db.entries[j].dir = e.rel} = ChildEntries(db, a)
      <4>1. {j \in EntriesOf(db, {e.zone}) : db.entries[j].dir = e.rel}
              = {j \in DOMAIN db.entries : db.entries[j].zone = e.zone /\ db.entries[j].dir = e.rel}
        BY DEF EntriesOf
      <4> QED
        BY <3>1, <4>1 DEF ChildEntries, RelativePath
    <3> QED
      BY <3>2, <3>3
  <2> QED
    BY <2>1, <2>2, <2>3 DEF Exact
<1> QED
  BY <1>1, <1>2

\* Nothing lies below them, so it takes whole subtrees.
LEMMA ExactTakes ==
  ASSUME Good(db), IsTreeOf(db), NEW P, Leaves(P), NEW recursive \in BOOLEAN, DOMAIN db.zones # {}
  PROVE  Takes(db, UNION {NodesUnder(tree, p) : p \in P}, {}, Exact(db, P, recursive))
<1> DEFINE U == UNION {NodesUnder(tree, p) : p \in P}
<1>1. ASSUME NEW q, IsNode(db, q) PROVE q \in U <=> q \in P
  <2>1. q \in DOMAIN tree /\ q \in Seq(Names)
    BY <1>1, TreeNodes, NodeIsFound
  <2>2. \A p \in P : IsPrefix(p, q) => p = q
    BY <1>1, NoneBelow DEF Leaves
  <2>3. IsPrefix(q, q)
    BY <2>1, PrefixSelf
  <2> QED
    BY <2>1, <2>2, <2>3 DEF NodesUnder
<1> HIDE DEF U
<1>2. \A z \in DOMAIN db.zones : db.zones[z].path \notin U
  BY <1>1 DEF IsNode, IsZonePath, Leaves
<1>3. \A i \in DOMAIN db.entries : i \in Exact(db, P, recursive) <=> AbsolutePath(db, i) \in U
  BY <1>1, ExactIs DEF IsNode
<1>4. Takes(db, U, {}, Exact(db, P, recursive))
  BY <1>2, <1>3 DEF Takes
<1> QED
  BY <1>4 DEF U

\* As many rows as paths are all the paths.
LEMMA ExactCounts ==
  ASSUME Good(db), IsTreeOf(db), NEW P, Leaves(P), IsFiniteSet(P), NEW recursive \in BOOLEAN,
         DOMAIN db.zones # {}, Cardinality(Exact(db, P, recursive)) = Cardinality(P)
  PROVE  P \subseteq DOMAIN tree
<1> DEFINE gone == Exact(db, P, recursive)
           f == [i \in gone |-> AbsolutePath(db, i)]
<1>1. gone \subseteq DOMAIN db.entries
  BY DEF Exact
<1>2. \A i \in gone : AbsolutePath(db, i) \in P
  BY <1>1, ExactIs
<1>3. Sole(db)
  BY TreeSole
<1> HIDE DEF gone
<1>4. f \in Injection(gone, P)
  BY <1>1, <1>2, <1>3 DEF Sole, Injection, IsInjective
<1>5. \A i \in gone : f[i] = AbsolutePath(db, i)
  OBVIOUS
<1> HIDE DEF f
<1>6. f \in Surjection(gone, P)
  BY <1>4, FS_Injection DEF gone
<1>7. \A p \in P : \E i \in gone : f[i] = p
  BY <1>6 DEF Surjection
<1>8. \A i \in gone : AbsolutePath(db, i) \in DOMAIN tree
  BY <1>1, TreeNodes DEF IsNode
<1> QED
  BY <1>5, <1>7, <1>8

\* The single DELETE prunes its paths.
LEMMA RemoveExactStep ==
  ASSUME Good(db), IsTreeOf(db), Good(db)', TreeNext, NEW P, Leaves(P), IsFiniteSet(P),
         NEW recursive \in BOOLEAN, NEW force \in BOOLEAN, RemoveExact(P, recursive, force)
  PROVE  /\ force \/ P \subseteq DOMAIN tree
         /\ tree' = CutFrom(tree, UNION {NodesUnder(tree, p) : p \in P})
<1> DEFINE gone == Exact(db, P, recursive)
           cut == DeleteEntries(db, gone)
           c == Reclaim(cut)
           t == tree
           Q == UNION {NodesUnder(t, p) : p \in P}
<1>1. Commit(c) /\ DOMAIN db.zones # {} /\ (force \/ Cardinality(gone) = Cardinality(P))
  BY DEF RemoveExact, db
<1>2. force \/ P \subseteq DOMAIN tree
  BY <1>1, ExactCounts
<1>3. gone \subseteq DOMAIN db.entries
  BY DEF Exact
<1>4. Takes(db, Q, {}, gone)
  BY <1>1, ExactTakes
<1>5. Image(db, t)
  BY ImageNow
<1> HIDE DEF gone, t
<1>6. /\ Good(cut) /\ SamePlaces(db.zones, cut.zones) /\ cut.objects = db.objects
      /\ cut.entries = [i \in DOMAIN db.entries \ gone |-> db.entries[i]]
  BY <1>3, DeleteGood, DeleteLeaves
<1> HIDE DEF cut
<1>7. Good(c) /\ c.entries = cut.entries /\ c.zones = cut.zones
  BY <1>6, ReclaimGood, ReclaimLeaves
<1>8. \A i \in DOMAIN c.entries : c.entries[i] = db.entries[i] /\ i \in DOMAIN db.entries
  BY <1>6, <1>7
<1>9. Without(db, {}, gone, c)
  BY <1>6, <1>7 DEF Without, Within, SamePlaces
<1>10. ContentsLeft(db, c)
  <2>1. \A o \in DOMAIN c.objects : c.objects[o] = db.objects[o]
    BY <1>6, ReclaimObjects DEF Good
  <2>2. \A i \in DOMAIN c.entries : c.entries[i].obj # None => c.entries[i].obj \in DOMAIN c.objects
    BY <1>7 DEF Good, GoodEntries, GoodRow
  <2> HIDE DEF c
  <2>3. ASSUME NEW i \in DOMAIN c.entries PROVE Contents(c, i) = Contents(db, i)
    BY <1>8, <2>1, <2>2 DEF Contents
  <2> QED
    BY <2>3 DEF ContentsLeft
<1> HIDE DEF c, Q
<1>11. Image(c, CutFrom(t, Q))
  BY <1>4, <1>5, <1>7, <1>9, <1>10, LeftImage
<1>12. tree' = CutFrom(t, Q)
  BY <1>1, <1>11, CommitImage
<1> QED
  BY <1>2, <1>12 DEF Q, t

\* remove_many prunes the nodes of a batch, by either way.
LEMMA remove_manyStep ==
  ASSUME PlainPaths, Good(db), IsTreeOf(db), Good(db)', TreeNext, NEW P \in Batches,
         NEW recursive \in BOOLEAN, NEW force \in BOOLEAN, \A p \in P : KindOf(db, p) = Dir => Bare(p),
         remove_many(P, recursive, force)
  PROVE  Abstract!Prune(P, recursive, force)
<1>1. P \subseteq Seq(Names) /\ IsFiniteSet(P)
  BY BatchesAssumption, PathsAssumption
<1>2. \A p \in P : Childless(db, p)
  BY DEF Childless, Bare
<1>3. /\ <<>> \notin P
      /\ force \/ P \subseteq DOMAIN tree
      /\ tree' = CutFrom(tree, UNION {NodesUnder(tree, p) : p \in P})
  <2>1. CASE \E p \in P : IsZonePath(db, p)
    <3>1. PICK p \in P, q \in P : P = {p, q} /\ RemoveEach(p, q, recursive, force)
      BY <2>1 DEF remove_many
    <3>2. DOMAIN db.zones # {}
      BY <2>1 DEF IsZonePath
    <3>3. p \in Seq(Names) /\ q \in Seq(Names)
      BY <1>1
    <3>4. /\ p # <<>> /\ q # <<>>
          /\ force \/ (p \in DOMAIN tree /\ q \in DOMAIN tree)
          /\ tree' = CutFrom(tree, UNION {NodesUnder(tree, x) : x \in {p, q}})
      BY <3>1, <3>2, <3>3, RemoveEachStep
    <3> QED
      BY <3>1, <3>4
  <2>2. CASE ~ \E p \in P : IsZonePath(db, p)
    <3>1. RemoveExact(P, recursive, force)
      BY <2>2 DEF remove_many
    <3>2. DOMAIN db.zones # {}
      BY <3>1 DEF RemoveExact, db
    <3>3. <<>> \notin P
      BY <2>2, <3>2 DEF Good, GoodZones, IsZonePath
    <3>4. Leaves(P)
      BY <1>1, <1>2, <2>2, <3>3 DEF Leaves
    <3> QED
      BY <1>1, <3>1, <3>3, <3>4, RemoveExactStep
  <2> QED
    BY <2>1, <2>2
<1>4. \A p \in P : Abstract!Kind(p) = Dir => Abstract!Children(p) = {}
  BY <1>1, <1>2, NoChildren
<1> QED
  BY <1>3, <1>4, PruneIs DEF Abstract!Prune

-----------------------------------------------------------------------------
(* Moves.                                                                  *)

\* The tree t once what is at src has been taken to dst.
Taken(t, src, dst) ==
    Abstract!Over(Abstract!At(dst, Below(src, t)), CutFrom(t, NodesUnder(t, src)))

\* Rows planted at dst in place, with the others as they were.
LEMMA MovedImage ==
  ASSUME NEW d, Good(d), IsTreeOf(d), NEW src \in Seq(Names), NEW dst \in Seq(Names),
         KindOf(d, dst) = None, NEW t, Image(d, t), NEW Y, NEW F, TakesBelow(d, src, Y, F),
         NEW c, DOMAIN c.zones = DOMAIN d.zones, DOMAIN c.entries = DOMAIN d.entries,
         Planted(d, src, Y, F, c, dst, [z \in Y |-> z], [i \in F |-> i]),
         Stays(d, DOMAIN d.zones \ Y, DOMAIN d.entries \ F, c)
  PROVE  Image(c, Taken(t, src, dst))
<1> DEFINE Z == DOMAIN d.zones
           E == DOMAIN d.entries
           R == DOMAIN t \ NodesUnder(t, src)
           u == [q \in R |-> t[q]]
           s == Abstract!At(dst, Below(src, t))
           zs == [z \in Y |-> z]
           es == [i \in F |-> i]
<1>1. ImageOf(d, Z, E, t) /\ Y \in SUBSET Z /\ F \in SUBSET E
  BY DEF Image, TakesBelow
<1>2. \A q \in DOMAIN t : q \in Seq(Names)
  <2>1. \A z \in Z : d.zones[z].path \in Seq(Names)
    BY ZoneParts
  <2>2. \A i \in E : AbsolutePath(d, i) \in Seq(Names)
    BY AbsoluteParts
  <2>3. \A q \in DOMAIN t : \/ \E z \in Z : d.zones[z].path = q
                            \/ \E i \in E : AbsolutePath(d, i) = q
    BY <1>1 DEF ImageOf
  <2> HIDE DEF Z, E
  <2> SUFFICES ASSUME NEW q \in DOMAIN t PROVE q \in Seq(Names)
    OBVIOUS
  <2>4. CASE \E z \in Z : d.zones[z].path = q
    BY <2>1, <2>4
  <2>5. CASE \E i \in E : AbsolutePath(d, i) = q
    BY <2>2, <2>5
  <2> QED
    BY <2>3, <2>4, <2>5
<1>3. ImageOf(c, Y, F, s)
  <2>1. ImageOf(c, {zs[z] : z \in Y}, {es[i] : i \in F}, s)
    BY <1>2, PlantedImage
  <2>2. {zs[z] : z \in Y} = Y /\ {es[i] : i \in F} = F
    OBVIOUS
  <2> HIDE DEF s, zs, es
  <2> QED
    BY <2>1, <2>2
<1>4. /\ \A z \in Z : z \in Z \ Y <=> d.zones[z].path \in R
      /\ \A i \in E : i \in E \ F <=> AbsolutePath(d, i) \in R
  BY <1>1 DEF TakesBelow, ImageOf, NodesUnder
<1>5. ImageOf(d, Z \ Y, E \ F, u)
  <2>1. Z \ Y \in SUBSET Z /\ E \ F \in SUBSET E /\ R \in SUBSET DOMAIN t
    OBVIOUS
  <2> HIDE DEF Z, E, R
  <2> QED
    BY <1>1, <1>4, <2>1, ImageCut
<1>6. DOMAIN u = R
  OBVIOUS
<1> HIDE DEF u
<1>7. ImageOf(c, Z \ Y, E \ F, u)
  BY <1>5, ImageStays
<1>8. \A x \in DOMAIN s : IsPrefix(dst, x)
  BY <1>2, PlantedUnder
<1>9. \A x \in DOMAIN t : ~IsPrefix(dst, x)
  BY <1>1, NothingBelow DEF ImageOf
<1> HIDE DEF s
<1>10. DOMAIN s \cap DOMAIN u = {}
  BY <1>6, <1>8, <1>9
<1>11. ImageOf(c, (Z \ Y) \cup Y, (E \ F) \cup F, Abstract!Over(s, u))
  BY <1>3, <1>7, <1>10, ImageUnion
<1>12. (Z \ Y) \cup Y = DOMAIN c.zones /\ (E \ F) \cup F = DOMAIN c.entries
  BY <1>1
<1>13. Image(c, Abstract!Over(s, u))
  BY <1>11, <1>12, Zenon DEF Image
<1> QED
  BY <1>13 DEF Taken, CutFrom, s, u

\* move deletes what is at dst first, which is no directory.
LEMMA ClearedImage ==
  ASSUME NEW d, Good(d), IsTreeOf(d), NEW p \in Seq(Names), KindOf(d, p) # None, KindOf(d, p) # Dir,
         ZonesOver(d, p) # {}, NEW c, c = DeleteEntries(d, EntriesFor(d, p)), NEW t, Image(d, t)
  PROVE  Image(c, CutFrom(t, {p}))
<1> DEFINE S == EntriesFor(d, p)
<1>1. S \subseteq DOMAIN d.entries
  BY DEF EntriesFor, EntriesAt
<1>2. ASSUME NEW i \in DOMAIN d.entries PROVE i \in S <=> AbsolutePath(d, i) = p
  <2>1. i \in S => AbsolutePath(d, i) = p
    <3>1. p = d.zones[LocateZone(d, p)].path \o RelativePath(d, p)
      BY LookupIs
    <3> QED
      BY <3>1 DEF AbsolutePath, EntriesFor, EntriesAt, RelativePath
  <2>2. AbsolutePath(d, i) = p => i \in S
    BY Resolves
  <2> QED
    BY <2>1, <2>2
<1>3. \A z \in DOMAIN d.zones : d.zones[z].path # p
  BY ZoneResolves DEF IsTreeOf
<1>4. /\ Good(c) /\ SamePlaces(d.zones, c.zones) /\ DOMAIN c.entries = DOMAIN d.entries \ S
      /\ \A i \in DOMAIN c.entries : c.entries[i] = d.entries[i]
  <2>1. c = DeleteEntries(d, S)
    OBVIOUS
  <2> HIDE DEF S
  <2> QED
    BY <1>1, <2>1, DeletedEntries
<1>5. c.objects = d.objects
  BY DeleteLeaves
<1> HIDE DEF S
<1>6. Takes(d, {p}, {}, S)
  BY <1>2, <1>3 DEF Takes
<1>7. Without(d, {}, S, c)
  BY <1>4 DEF Without, Within, SamePlaces
<1>8. ContentsLeft(d, c)
  BY <1>4, <1>5 DEF ContentsLeft, Contents
<1> QED
  BY <1>4, <1>6, <1>7, <1>8, LeftImage

\* A zone takes the zones below it along by their paths, and their entries by
\* their zones.
LEMMA MoveZoneImage ==
  ASSUME PlainPaths, NEW d, Good(d), IsTreeOf(d), NEW src \in Seq(Names), NEW dst \in Seq(Names),
         src # <<>>, KindOf(d, dst) = None,
         ZonesOver(d, src) # {}, RelativePath(d, src) = <<>>,
         NEW c, c = MoveZone(d, src, dst), NEW t, Image(d, t)
  PROVE  Image(c, Taken(t, src, dst))
<1> DEFINE top == LocateZone(d, src)
           Y == ZonesLike(d, src) \cup {top}
           F == EntriesOf(d, Y)
           zs == [z \in Y |-> z]
           es == [i \in F |-> i]
<1>1. TakesBelow(d, src, Y, F)
  BY ZoneTakes
<1>2. ZonesMoved(d, src, dst, top, c)
  BY MoveZoneIs DEF IsTreeOf
<1>3. /\ c.entries = d.entries /\ DOMAIN c.zones = DOMAIN d.zones
      /\ \A z \in DOMAIN d.zones :
           /\ IsPrefix(src, d.zones[z].path) =>
                c.zones[z].path = dst \o Remainder(src, d.zones[z].path)
           /\ ~IsPrefix(src, d.zones[z].path) => c.zones[z].path = d.zones[z].path
  BY <1>2 DEF ZonesMoved
<1>4. c.objects = d.objects
  BY WithZones DEF MoveZone, Good
<1>5. \A i \in DOMAIN d.entries : i \in F <=> d.entries[i].zone \in Y
  BY DEF EntriesOf
<1>6. /\ Y \subseteq DOMAIN d.zones /\ F \subseteq DOMAIN d.entries
      /\ \A z \in DOMAIN d.zones : z \in Y <=> IsPrefix(src, d.zones[z].path)
  BY <1>1 DEF TakesBelow
<1> HIDE DEF Y, F, top
<1>7. \A i \in DOMAIN d.entries : EntryNode(c, i) = EntryNode(d, i)
  BY <1>3, <1>4 DEF EntryNode, Contents
<1>8. \A z \in Y : c.zones[zs[z]].path = dst \o Remainder(src, d.zones[z].path)
  BY <1>3, <1>6
<1>9. ASSUME NEW i \in F
      PROVE  AbsolutePath(c, i) = dst \o Remainder(src, AbsolutePath(d, i))
  <2> DEFINE z == d.entries[i].zone
             p == d.zones[z].path
             rel == d.entries[i].rel
             rest == Remainder(src, p)
  <2>1. i \in DOMAIN d.entries /\ z \in Y
    BY <1>5, <1>6
  <2>2. z \in DOMAIN d.zones /\ rel \in Seq(Names) /\ p \in Seq(Names) /\ IsPrefix(src, p)
    BY <1>6, <2>1, EntryParts, ZoneParts
  <2>3. AbsolutePath(d, i) = p \o rel /\ AbsolutePath(c, i) = (dst \o rest) \o rel
    BY <1>3, <2>1, <2>2 DEF AbsolutePath
  <2> HIDE DEF z, p, rel
  <2>4. p = src \o rest /\ rest \in Seq(Names)
    BY <2>2, PrefixSplit
  <2> HIDE DEF rest
  <2>5. Assoc(src, rest, rel) /\ Assoc(dst, rest, rel)
    BY <2>2, <2>4, Regroup
  <2>6. rest \o rel \in Seq(Names)
    BY <2>2, <2>4, PrefixConcat
  <2>7. Remainder(src, src \o (rest \o rel)) = rest \o rel
    BY <2>6, ConcatRemainder
  <2> QED
    BY <2>3, <2>4, <2>5, <2>7 DEF Assoc
<1>10. Planted(d, src, Y, F, c, dst, zs, es)
  <2>1. \A i \in F : es[i] = i
    OBVIOUS
  <2> HIDE DEF zs, es
  <2> QED
    BY <1>6, <1>7, <1>8, <1>9, <2>1 DEF Planted
<1>11. Stays(d, DOMAIN d.zones \ Y, DOMAIN d.entries \ F, c)
  <2>1. \A z \in DOMAIN d.zones \ Y : c.zones[z].path = d.zones[z].path
    BY <1>3, <1>6
  <2>2. ASSUME NEW i \in DOMAIN d.entries \ F PROVE AbsolutePath(c, i) = AbsolutePath(d, i)
    <3>1. d.entries[i].zone \in DOMAIN d.zones \ Y
      BY <1>5, EntryParts
    <3> QED
      BY <1>3, <2>1, <3>1 DEF AbsolutePath
  <2> QED
    BY <1>7, <2>1, <2>2 DEF Stays
<1> QED
  BY <1>1, <1>3, <1>10, <1>11, MovedImage

\* An entry takes the rows below it along by their paths.
LEMMA MoveEntryImage ==
  ASSUME PlainPaths, NEW d, Good(d), IsTreeOf(d), NEW src \in Seq(Names), NEW dst \in Seq(Names),
         src # <<>>, HasPlace(d, dst), KindOf(d, dst) = None,
         ZonesOver(d, src) # {}, RelativePath(d, src) # <<>>, ZonesLike(d, src) = {},
         NEW c, c = MoveEntry(d, src, dst), NEW t, Image(d, t)
  PROVE  Image(c, Taken(t, src, dst))
<1> DEFINE source == RelativePath(d, src)
           z == LocateZone(d, src)
           moved == {i \in EntriesOf(d, {z}) : LikeWithin(source, d.entries[i].rel)}
           row(i) == [Rebase(d, dst, source, d.entries[i]) EXCEPT
                        !.gen = Bump(Rebase(d, dst, source, d.entries[i]).gen)]
           rows == [i \in moved |-> row(i)]
           ids == [i \in moved |-> i]
           none == [y \in {} |-> y]
<1>1. c = UpdateEntries(d, rows)
  BY Zenon DEF MoveEntry
<1>2. source \in Seq(Names) /\ source # <<>>
  BY LookupIs
<1>3. \A y \in DOMAIN d.zones : ~IsPrefix(src, d.zones[y].path)
  BY NoZonesBelow
<1>4. moved = EntriesUnder(d, z, source)
  <2> HIDE DEF source, z
  <2>1. \A i \in DOMAIN d.entries :
          LikeWithin(source, d.entries[i].rel) <=> IsPrefix(source, d.entries[i].rel)
    BY <1>2, LikePrefix, EntryParts
  <2> QED
    BY <2>1 DEF EntriesOf, EntriesUnder
<1>5. TakesBelow(d, src, {}, moved)
  BY <1>3, <1>4, EntryTakes
<1> HIDE DEF row, moved
<1>6. DOMAIN rows = moved /\ \A i \in moved : rows[i] = row(i)
  OBVIOUS
<1> HIDE DEF rows
<1>7. /\ Holds(c.entries, rows, d.entries) /\ SamePlaces(d.zones, c.zones)
      /\ c.objects = d.objects
  BY <1>1, UpdateLeaves, StoreHolds
<1>8. moved \subseteq DOMAIN d.entries
  BY <1>5 DEF TakesBelow
<1>9. /\ DOMAIN c.entries = DOMAIN d.entries /\ DOMAIN c.zones = DOMAIN d.zones
      /\ \A i \in moved : c.entries[i] = row(i)
      /\ \A i \in DOMAIN d.entries \ moved : c.entries[i] = d.entries[i]
  BY <1>6, <1>7, <1>8 DEF Holds, SamePlaces
<1>10. ObjectsKept(d, c)
  BY <1>7 DEF ObjectsKept
<1>11. ASSUME NEW i \in moved PROVE Relocated(d, i, src, c, i, dst)
  <2>1. i \in DOMAIN d.entries /\ d.entries[i].zone = z /\ IsPrefix(source, d.entries[i].rel)
    BY <1>4 DEF EntriesUnder
  <2>2. PICK g : c.entries[i] = [Rebase(d, dst, source, d.entries[i]) EXCEPT !.gen = g]
    BY <1>9 DEF row
  <2> QED
    BY <1>7, <1>10, <2>1, <2>2, RebasedAt
<1>12. Planted(d, src, {}, moved, c, dst, none, ids)
  <2>1. \A i \in moved : ids[i] = i
    OBVIOUS
  <2> HIDE DEF ids
  <2> QED
    BY <1>11, <2>1 DEF Planted, Relocated
<1>13. Stays(d, DOMAIN d.zones, DOMAIN d.entries \ moved, c)
  <2>1. /\ \A y \in DOMAIN d.zones : c.zones[y].path = d.zones[y].path
        /\ \A o \in DOMAIN d.objects : c.objects[o] = d.objects[o]
    BY <1>7 DEF SamePlaces
  <2> QED
    BY <1>9, <2>1, SameRowStays
<1>14. Planted(d, src, {}, moved, c, dst, [y \in {} |-> y], [i \in moved |-> i])
  BY <1>12
<1>15. DOMAIN d.zones \ {} = DOMAIN d.zones
  OBVIOUS
<1> QED
  BY <1>5, <1>9, <1>13, <1>14, <1>15, MovedImage

\* To clear dst and then move is to do both at once.
LEMMA CutThenTaken ==
  ASSUME NEW t, \A q \in DOMAIN t : q \in Seq(Names), NEW src \in Seq(Names), NEW dst,
         ~IsPrefix(src, dst), NEW u, u = CutFrom(t, {dst})
  PROVE  Taken(u, src, dst)
           = Abstract!Over(Abstract!At(dst, Below(src, t)), CutFrom(t, NodesUnder(t, src) \cup {dst}))
<1>1. DOMAIN u = DOMAIN t \ {dst} /\ \A q \in DOMAIN u : u[q] = t[q]
  BY DEF CutFrom
<1>2. {x \in DOMAIN u : IsPrefix(src, x)} = {x \in DOMAIN t : IsPrefix(src, x)}
  BY <1>1
<1>3. Below(src, u) = Below(src, t)
  <2> DEFINE N == {SubSeq(q, Len(src) + 1, Len(q)) : q \in {x \in DOMAIN t : IsPrefix(src, x)}}
  <2>1. ASSUME NEW r \in N PROVE t[src \o r] = u[src \o r]
    <3>1. PICK q \in DOMAIN t : IsPrefix(src, q) /\ r = Remainder(src, q)
      BY DEF Remainder
    <3>2. src \o r = q
      BY <3>1, PrefixSplit
    <3> QED
      BY <1>1, <3>1, <3>2
  <2>2. N = {SubSeq(q, Len(src) + 1, Len(q)) : q \in {x \in DOMAIN u : IsPrefix(src, x)}}
    BY <1>2
  <2> HIDE DEF N
  <2>3. [r \in N |-> u[src \o r]] = [r \in N |-> t[src \o r]]
    BY <2>1, Zenon
  <2>4. Below(src, u) = [r \in N |-> u[src \o r]]
    BY <2>2 DEF Below
  <2>5. Below(src, t) = [r \in N |-> t[src \o r]]
    BY DEF Below, N
  <2> QED
    BY <2>3, <2>4, <2>5
<1>4. NodesUnder(u, src) = NodesUnder(t, src)
  BY <1>2 DEF NodesUnder
<1>5. CutFrom(u, NodesUnder(u, src)) = CutFrom(t, NodesUnder(t, src) \cup {dst})
  <2> DEFINE N == NodesUnder(t, src)
  <2>1. DOMAIN u \ N = DOMAIN t \ (N \cup {dst})
    BY <1>1
  <2>2. \A q \in DOMAIN u \ N : u[q] = t[q]
    BY <1>1
  <2> HIDE DEF N
  <2>3. [q \in DOMAIN u \ N |-> u[q]] = [q \in DOMAIN t \ (N \cup {dst}) |-> t[q]]
    BY <2>1, <2>2, Zenon
  <2> QED
    BY <1>4, <2>3 DEF CutFrom, N
<1> QED
  BY <1>3, <1>5 DEF Taken

\* move takes what is at src to dst, over a file if one is there.
LEMMA moveStep ==
  ASSUME PlainPaths, Good(db), IsTreeOf(db), Good(db)', TreeNext,
         NEW src \in Paths, NEW dst \in Paths, move(src, dst)
  PROVE  Abstract!Move(src, dst)
<1> DEFINE t == tree
           cleared == IF KindOf(db, dst) = None THEN db
                      ELSE DeleteEntries(db, EntriesFor(db, dst))
<1>1. /\ CanPlace(db, src, dst) /\ KindOf(db, src) # None /\ KindOf(db, dst) # Dir
      /\ IF RelativePath(cleared, src) = <<>>
         THEN Commit(MoveZone(cleared, src, dst))
         ELSE /\ ZonesLike(cleared, src) = {}
              /\ Commit(MoveEntry(cleared, src, dst))
  BY Zenon DEF move
<1>2. src \in Seq(Names) /\ dst \in Seq(Names)
  BY PathParts
<1>3. /\ src # <<>> /\ dst # <<>> /\ ParentIsDir(db, dst) /\ ~LikeWithin(src, dst)
      /\ ZonesOver(db, src) # {}
  BY <1>1, <1>2, DirIsOver, ParentParts DEF CanPlace
<1>4. Apart(src, dst)
  BY <1>2, <1>3, LikePrefix DEF Apart
<1>5. /\ Good(cleared) /\ IsTreeOf(cleared) /\ SamePlaces(db.zones, cleared.zones)
      /\ KindOf(cleared, dst) = None /\ ParentIsDir(cleared, dst)
  <2>1. CASE KindOf(db, dst) = None
    BY <1>3, <2>1 DEF SamePlaces
  <2>2. CASE KindOf(db, dst) # None
    <3>1. cleared = DeleteEntries(db, EntriesFor(db, dst))
      BY <2>2
    <3> HIDE DEF cleared
    <3> QED
      BY <1>1, <1>2, <1>3, <2>2, <3>1, ClearedTree
  <2> QED
    BY <2>1, <2>2
<1>6. Image(db, t) /\ DOMAIN t = DOMAIN tree
  BY ImageNow
<1>7. dst \in DOMAIN t => KindOf(db, dst) # None
  BY <1>2, KindIs
<1>8. \A q \in DOMAIN t : q \in Seq(Names)
  BY NamedPaths
<1> HIDE DEF t
<1>9. Image(cleared, CutFrom(t, {dst}))
  <2>1. CASE KindOf(db, dst) = None
    <3>1. DOMAIN t \ {dst} = DOMAIN t
      BY <1>7, <2>1
    <3>2. CutFrom(t, {dst}) = t
      BY <1>6, <3>1, Zenon DEF CutFrom, Image, ImageOf
    <3> QED
      BY <1>6, <2>1, <3>2
  <2>2. CASE KindOf(db, dst) # None
    <3>1. cleared = DeleteEntries(db, EntriesFor(db, dst))
      BY <2>2
    <3> HIDE DEF cleared
    <3>2. ZonesOver(db, dst) # {}
      BY <1>2, <2>2, DirIsOver
    <3> QED
      BY <1>1, <1>2, <1>6, <2>2, <3>1, <3>2, ClearedImage
  <2> QED
    BY <2>1, <2>2
<1> HIDE DEF cleared
<1>10. ZonesOver(cleared, src) # {}
  BY <1>3, <1>5 DEF ZonesOver, SamePlaces
<1> DEFINE u == CutFrom(t, {dst})
<1>11. HasPlace(cleared, dst) /\ src # <<>> /\ Image(cleared, u)
  BY <1>2, <1>3, <1>5, <1>9, ParentParts DEF HasPlace
<1>12. u = CutFrom(t, {dst})
  OBVIOUS
<1> HIDE DEF u
<1>13. tree' = Taken(u, src, dst)
  <2>1. CASE RelativePath(cleared, src) = <<>>
    <3> DEFINE c == MoveZone(cleared, src, dst)
    <3>1. Commit(c)
      BY <1>1, <2>1
    <3>2. c = MoveZone(cleared, src, dst)
      OBVIOUS
    <3> HIDE DEF c
    <3>3. Image(c, Taken(u, src, dst))
      BY <1>2, <1>5, <1>10, <1>11, <2>1, <3>2, MoveZoneImage
    <3> QED
      BY <3>1, <3>3, CommitImage
  <2>2. CASE RelativePath(cleared, src) # <<>>
    <3> DEFINE c == MoveEntry(cleared, src, dst)
    <3>1. Commit(c) /\ ZonesLike(cleared, src) = {}
      BY <1>1, <2>2
    <3>2. c = MoveEntry(cleared, src, dst)
      OBVIOUS
    <3> HIDE DEF c
    <3>3. Image(c, Taken(u, src, dst))
      BY <1>2, <1>5, <1>10, <1>11, <2>2, <3>1, <3>2, MoveEntryImage
    <3> QED
      BY <3>1, <3>3, CommitImage
  <2> QED
    BY <2>1, <2>2
<1>14. ~IsPrefix(src, dst)
  BY <1>4 DEF Apart
<1>15. tree' = Abstract!Over(Abstract!At(dst, Below(src, t)), CutFrom(t, NodesUnder(t, src) \cup {dst}))
  BY <1>2, <1>8, <1>12, <1>13, <1>14, CutThenTaken
<1>16. Below(src, t) = Abstract!Subtree(src)
  BY SubtreeIs DEF t
<1>17. CutFrom(t, NodesUnder(t, src) \cup {dst}) = Abstract!Without(Abstract!Within(src) \cup {dst})
  <2>1. NodesUnder(t, src) = Abstract!Within(src)
    BY SameOperators DEF Abstract!Within, NodesUnder, t
  <2> QED
    BY <2>1 DEF Abstract!Without, CutFrom, t
<1>18. tree' = Abstract!Over(Abstract!At(dst, Abstract!Subtree(src)),
                            Abstract!Without(Abstract!Within(src) \cup {dst}))
  BY <1>15, <1>16, <1>17
<1>19. Abstract!CanHold(dst) /\ Abstract!Kind(dst) # Dir /\ Abstract!Kind(src) # None
  BY <1>1, <1>2, <1>3, HoldIs, KindIs
<1> QED
  BY <1>3, <1>14, <1>18, <1>19, SameOperators DEF Abstract!Move

-----------------------------------------------------------------------------
(* The volume itself, and times.                                           *)

\* There is one tree without nodes.
LEMMA EmptyIs ==
  ASSUME NEW t, t = [q \in DOMAIN t |-> t[q]], DOMAIN t = {}
  PROVE  t = Abstract!Nothing
<1>1. [q \in {} |-> t[q]] = [q \in {} |-> q]
  OBVIOUS
<1>2. t = [q \in {} |-> t[q]]
  OBVIOUS
<1> QED
  BY <1>1, <1>2 DEF Abstract!Nothing

\* Without zones there is no tree.
LEMMA NoTree ==
  ASSUME NEW d, DOMAIN d.zones = {}, DOMAIN d.entries = {}
  PROVE  Image(d, Abstract!Nothing)
<1> DEFINE n == Abstract!Nothing
<1>1. DOMAIN n = {} /\ n = [q \in DOMAIN n |-> n[q]]
  BY DEF Abstract!Nothing
<1> HIDE DEF n
<1> QED
  BY <1>1 DEF Image, ImageOf, n

\* create_volume makes the root.
LEMMA create_volumeStep ==
  ASSUME Good(db), IsTreeOf(db), Good(db)', TreeNext, create_volume
  PROVE  Abstract!Format
<1>1. PICK z \in FreshNodes(db) : Commit([db EXCEPT !.zones = OneRow(z, RootRow)])
  BY DEF create_volume
<1> DEFINE zs == OneRow(z, RootRow)
           c == [db EXCEPT !.zones = zs]
           root == <<>>
           s == Abstract!Alone(root, Abstract!Directory)
<1>2. DOMAIN zs = {z} /\ zs[z].path = root
  <2>1. RootRow.path = <<>>
    BY DEF RootRow
  <2> HIDE DEF zs
  <2>2. DOMAIN zs = {z} /\ zs[z] = RootRow
    BY OneRowParts DEF zs
  <2> QED
    BY <2>1, <2>2
<1>3. DOMAIN db.zones = {} /\ DOMAIN db.entries = {}
  <2>1. DOMAIN NoRows = {} /\ db.zones = NoRows
    BY DEF create_volume, NoRows, db
  <2> QED
    BY <2>1, EntryParts
<1>4. Commit(c)
  BY <1>1
<1> HIDE DEF zs
<1>5. c.entries = db.entries /\ c.zones = zs
  BY WithZones DEF Good
<1>6. Abstract!Directory = Node(Dir, None)
  BY DEF Abstract!Directory, Node
<1> HIDE DEF c, root
<1>7. Single(root, Node(Dir, None), s)
  BY <1>6, AloneIs
<1> HIDE DEF s
<1>8. Image(c, s)
  BY <1>2, <1>3, <1>5, <1>7 DEF Single, Image, ImageOf
<1>9. tree' = s
  BY <1>4, <1>8, CommitImage
<1>10. tree = Abstract!Nothing
  BY <1>3, ImageNow, NoTree, ImageUnique DEF Image
<1> QED
  BY <1>9, <1>10 DEF Abstract!Format, s, root

\* remove_volume leaves nothing.
LEMMA remove_volumeStep ==
  ASSUME Good(db), IsTreeOf(db), Good(db)', TreeNext, remove_volume
  PROVE  Abstract!Drop
<1> DEFINE cut == DeleteEntries(db, DOMAIN db.entries)
           emptied == Reclaim(cut)
           c == [emptied EXCEPT !.zones = NoRows, !.objects = NoRows, !.segments = {}]
<1>1. Commit(c)
  BY Zenon DEF remove_volume, db
<1>2. Good(cut) /\ cut.entries = [i \in DOMAIN db.entries \ DOMAIN db.entries |-> db.entries[i]]
  BY DeleteGood
<1> HIDE DEF cut
<1>3. Good(emptied) /\ emptied.entries = cut.entries
  BY <1>2, ReclaimGood
<1> HIDE DEF emptied
<1>4. c.entries = emptied.entries /\ c.zones = NoRows
  BY <1>3 DEF Good, IsDb
<1> HIDE DEF c
<1>5. DOMAIN c.entries = {} /\ DOMAIN c.zones = {}
  BY <1>2, <1>3, <1>4 DEF NoRows
<1>6. tree' = Abstract!Nothing
  BY <1>1, <1>5, NoTree, CommitImage
<1>7. DOMAIN db.zones # {}
  BY DEF remove_volume, db
<1> QED
  BY <1>6, <1>7, VolumeIs DEF Abstract!Drop

\* A call that leaves places and contents alone does not change the tree.
LEMMA UnchangedStep ==
  ASSUME Good(db), IsTreeOf(db), Good(db)', TreeNext, NEW c, Commit(c),
         DOMAIN c.zones = DOMAIN db.zones, DOMAIN c.entries = DOMAIN db.entries,
         Stays(db, DOMAIN db.zones, DOMAIN db.entries, c)
  PROVE  UNCHANGED tree
<1> DEFINE t == tree
<1>1. Image(db, t)
  BY ImageNow
<1> HIDE DEF t
<1>2. Image(c, t)
  BY <1>1, ImageStays DEF Image
<1>3. tree' = t
  BY <1>2, CommitImage
<1> QED
  BY <1>3 DEF t

\* set_times does not show.
LEMMA set_timesStep ==
  ASSUME Good(db), IsTreeOf(db), Good(db)', TreeNext, NEW p \in Paths, set_times(p)
  PROVE  UNCHANGED tree
<1>1. CASE RelativePath(db, p) = <<>>
  <2> DEFINE z == LocateZone(db, p)
             g == Bump(db.zones[z].gen)
             r == [db.zones[z] EXCEPT !.gen = g]
             zs == [db.zones EXCEPT ![z] = r]
             c == [db EXCEPT !.zones = zs]
  <2>1. Commit(c)
    BY <1>1, Zenon DEF set_times, db
  <2>2. SamePlaces(db.zones, zs)
    <3> HIDE DEF z, g
    <3>1. z \in DOMAIN db.zones => IsZoneRow(db.zones[z])
      BY DEF Good, GoodZones
    <3>2. z \in DOMAIN db.zones =>
            /\ r.path = db.zones[z].path /\ r.parent = db.zones[z].parent
            /\ r.dir = db.zones[z].dir /\ r.name = db.zones[z].name
      BY <3>1 DEF IsZoneRow, ZoneColumns
    <3> HIDE DEF r
    <3>3. DOMAIN zs = DOMAIN db.zones
          /\ \A y \in DOMAIN db.zones : zs[y] = IF y = z THEN r ELSE db.zones[y]
      OBVIOUS
    <3> HIDE DEF zs
    <3> QED
      BY <3>2, <3>3 DEF SamePlaces
  <2> HIDE DEF zs
  <2>3. c.entries = db.entries /\ c.zones = zs /\ c.objects = db.objects
    BY WithZones DEF Good
  <2> HIDE DEF c
  <2>4. Stays(db, DOMAIN db.zones, DOMAIN db.entries, c)
    BY <2>2, <2>3, SameRowStays DEF SamePlaces
  <2> QED
    BY <2>1, <2>2, <2>3, <2>4, UnchangedStep DEF SamePlaces
<1>2. CASE RelativePath(db, p) # <<>>
  <2> DEFINE S == EntriesFor(db, p)
             row(i) == [db.entries[i] EXCEPT !.gen = Bump(db.entries[i].gen)]
             rows == [i \in S |-> row(i)]
             c == UpdateEntries(db, rows)
  <2>1. Commit(UpdateEntries(db, [i \in S |-> [entries[i] EXCEPT !.gen = Bump(@)]]))
    BY <1>2, Zenon DEF set_times
  <2>2. Commit(c)
    BY <2>1, Zenon DEF db
  <2>3. S \subseteq DOMAIN db.entries
    BY DEF EntriesFor, EntriesAt
  <2> HIDE DEF S
  <2>4. ASSUME NEW i \in S
        PROVE  /\ row(i).zone = db.entries[i].zone /\ row(i).rel = db.entries[i].rel
               /\ Alike(db.entries[i], row(i))
    <3> DEFINE e == db.entries[i]
               g == Bump(e.gen)
    <3>1. e \in EntryRows
      BY <2>3 DEF Good, GoodEntries, GoodRow
    <3>2. row(i) = [e EXCEPT !.gen = g]
      OBVIOUS
    <3> HIDE DEF e, g, row
    <3>3. row(i).zone = e.zone /\ row(i).rel = e.rel /\ Alike(e, row(i))
      BY <3>1, <3>2 DEF EntryRows, Alike
    <3> QED
      BY <3>3 DEF e
  <2>5. DOMAIN rows = S /\ \A i \in S : rows[i] = row(i)
    OBVIOUS
  <2> HIDE DEF rows, row
  <2>6. /\ Holds(c.entries, rows, db.entries) /\ SamePlaces(db.zones, c.zones)
        /\ c.objects = db.objects
    BY UpdateLeaves, StoreHolds
  <2> HIDE DEF c
  <2>7. DOMAIN c.entries = DOMAIN db.entries
    BY <2>3, <2>5, <2>6 DEF Holds
  <2>8. ASSUME NEW i \in DOMAIN db.entries
        PROVE  /\ c.entries[i].zone = db.entries[i].zone /\ c.entries[i].rel = db.entries[i].rel
               /\ c.entries[i].kind = db.entries[i].kind /\ c.entries[i].body = db.entries[i].body
               /\ c.entries[i].obj = db.entries[i].obj
    <3>1. CASE i \in S
      BY <2>4, <2>5, <2>6, <3>1 DEF Holds, Alike
    <3>2. CASE i \notin S
      BY <2>5, <2>6, <3>2 DEF Holds
    <3> QED
      BY <3>1, <3>2
  <2>9. Stays(db, DOMAIN db.zones, DOMAIN db.entries, c)
    <3>1. \A y \in DOMAIN db.zones : c.zones[y].path = db.zones[y].path
      BY <2>6 DEF SamePlaces
    <3>2. ASSUME NEW i \in DOMAIN db.entries
          PROVE  AbsolutePath(c, i) = AbsolutePath(db, i) /\ EntryNode(c, i) = EntryNode(db, i)
      <4>1. db.entries[i].zone \in DOMAIN db.zones
        BY EntryParts
      <4> QED
        BY <2>6, <2>8, <3>1, <4>1 DEF AbsolutePath, EntryNode, Contents
    <3> QED
      BY <3>1, <3>2 DEF Stays
  <2> QED
    BY <2>2, <2>6, <2>7, <2>9, UnchangedStep DEF SamePlaces
<1> QED
  BY <1>1, <1>2

-----------------------------------------------------------------------------
(* The refinement.                                                         *)

\* At first there is no volume.
LEMMA InitImplements == Init => Abstract!Init
<1>1. ASSUME Init PROVE tree = Abstract!Nothing
  <2>1. DOMAIN db.zones = {} /\ DOMAIN db.entries = {}
    BY <1>1 DEF Init, db, NoRows
  <2>2. Good(db) /\ IsTreeOf(db)
    BY <1>1, InitGood, InitTree
  <2> QED
    BY <2>1, <2>2, ImageNow, NoTree, ImageUnique DEF Image
<1> QED
  BY <1>1 DEF Abstract!Init

\* The tree is made of the variables of Volume.
LEMMA StutterImplements ==
  ASSUME UNCHANGED vars
  PROVE  UNCHANGED tree
<1>1. db' = db /\ zones' = zones /\ entries' = entries
  BY DEF vars, db
<1> DEFINE e == db'
<1>2. tree' = TreeOf(e)
  BY DEF tree, NodeAt, TreeOf, Node, EntryNode, db
<1>3. e = db
  BY <1>1
<1> HIDE DEF e
<1> QED
  BY <1>2, <1>3, TreeIs

\* Each guarded call is a command on the tree, or leaves it as it was.
LEMMA NextImplements ==
  ASSUME PlainPaths, Good(db), IsTreeOf(db), Good(db)', TreeNext, GuardedNext
  PROVE  Implements
<1>1. CASE create_volume
  <2>1. Abstract!Format
    BY <1>1, create_volumeStep
  <2> QED
    BY <2>1, Zenon DEF Implements, Abstract!Next
<1>2. CASE remove_volume
  <2>1. Abstract!Drop
    BY <1>2, remove_volumeStep
  <2> QED
    BY <2>1, Zenon DEF Implements, Abstract!Next
<1>3. ASSUME NEW p \in Paths, mkdir(p) PROVE Implements
  <2>1. Abstract!MakeDirs({p})
    BY <1>3, mkdirStep
  <2> QED
    BY <2>1, Zenon DEF Implements, Abstract!Next
<1>4. ASSUME NEW p \in Paths, set_times(p) PROVE Implements
  BY <1>4, set_timesStep DEF Implements
<1>5. ASSUME NEW p \in Paths, NEW body \in Data, KindOf(db, p) # Dir, write_file(p, body)
      PROVE  Implements
  <2>1. Abstract!Put(p, body)
    BY <1>5, write_fileStep
  <2> QED
    BY <2>1, Zenon DEF Implements, Abstract!Next
<1>6. ASSUME NEW p \in Paths, NEW body \in Text, KindOf(db, p) # Dir, import_text(p, body)
      PROVE  Implements
  <2>1. Abstract!Put(p, body) /\ body \in Data
    BY <1>6, import_textStep DEF Data
  <2> QED
    BY <2>1, Zenon DEF Implements, Abstract!Next
<1>7. ASSUME NEW p \in Paths, NEW t \in Trees, import(p, t) PROVE Implements
  <2>1. Abstract!Graft(p, t)
    BY <1>7, importStep
  <2> QED
    BY <2>1, Zenon DEF Implements, Abstract!Next
<1>8. ASSUME NEW p \in Paths, NEW recursive \in BOOLEAN, remove(p, recursive) PROVE Implements
  <2>1. Abstract!Prune({p}, recursive, FALSE)
    BY <1>8, removeStep
  <2> QED
    BY <2>1, Zenon DEF Implements, Abstract!Next
<1>9. ASSUME NEW p \in Paths, NEW q \in Paths, move(p, q) PROVE Implements
  <2>1. Abstract!Move(p, q)
    BY <1>9, moveStep
  <2> QED
    BY <2>1, Zenon DEF Implements, Abstract!Next
<1>10. ASSUME NEW p \in Paths, NEW q \in Paths, NEW recursive \in BOOLEAN, copy(p, q, recursive)
       PROVE Implements
  <2>1. Abstract!Copy(p, q)
    BY <1>10, copyStep
  <2> QED
    BY <2>1, Zenon DEF Implements, Abstract!Next
<1>11. ASSUME NEW P \in Batches, mkdir_parents(P) PROVE Implements
  <2>1. Abstract!MakeDirs(UNION {Abstract!Prefixes(p) : p \in P})
    BY <1>11, mkdir_parentsStep
  <2> QED
    BY <2>1, Zenon DEF Implements, Abstract!Next
<1>12. ASSUME NEW P \in Batches, \A p \in P : KindOf(db, p) = None, mkdir_many(P) PROVE Implements
  <2>1. Abstract!MakeDirs(P) \/ UNCHANGED tree
    BY <1>12, mkdir_manyStep
  <2> QED
    BY <2>1, Zenon DEF Implements, Abstract!Next
<1>13. ASSUME NEW P \in Batches, \A p \in P : KindOf(db, p) = Dir => Bare(p),
              NEW recursive \in BOOLEAN, NEW force \in BOOLEAN, remove_many(P, recursive, force)
       PROVE Implements
  <2>1. Abstract!Prune(P, recursive, force)
    BY <1>13, remove_manyStep
  <2> QED
    BY <2>1, Zenon DEF Implements, Abstract!Next
<1> QED
  BY Zenon, <1>1, <1>2, <1>3, <1>4, <1>5, <1>6, <1>7, <1>8, <1>9, <1>10, <1>11, <1>12, <1>13
     DEF GuardedNext

\* The rows, zones, objects and segments of a volume implement the file tree:
\* whatever the SQL functions do inside one guarded call, a reader sees one
\* command of FileTree or nothing.  A copy shares objects that no later write
\* may change for the other; a move rewrites prefixes of zones and of rows; a
\* removal deletes zones, rows and objects that something else may still need.
THEOREM VolumeImplements ==
  ASSUME PlainPaths
  PROVE  GuardedSpec => Refines
<1>1. GuardedSpec => [](Good(db) /\ IsTreeOf(db))
  BY TreeInvariance
<1>2. Good(db) /\ IsTreeOf(db) /\ Good(db)' /\ IsTreeOf(db)' /\ [GuardedNext]_vars => [Abstract!Next]_tree
  BY NextImplements, StutterImplements DEF TreeNext, Implements
<1> QED
  BY <1>1, <1>2, InitImplements, PTL DEF GuardedSpec, Refines, Abstract!Spec

=============================================================================
