------------------------------ MODULE Namespace ------------------------------
(***************************************************************************)
(* How one PostgreOS volume stores a file tree, as pure operators.         *)
(*                                                                         *)
(* A volume is a set of zones.  A zone is a directory with a row of its    *)
(* own in pgos_private.zones; every other node is a row of                 *)
(* pgos_private.zone_entries, keyed by its zone and by its path relative   *)
(* to that zone.  An absolute path is resolved by taking the deepest zone  *)
(* above it and looking the rest of the path up among that zone's entries. *)
(*                                                                         *)
(* A path is the sequence of its names; <<>> is "/".  A database state d   *)
(* is a record with the fields zones, entries (functions from node ids to  *)
(* rows), objects (function from object ids to content), segments (the     *)
(* published content segments) and staging (the staging schemas that       *)
(* exist).                                                                 *)
(*                                                                         *)
(* A definition named Broken... is not part of the model: it is the        *)
(* operator it precedes with a plausible mistake in it, put in its place   *)
(* to see that the properties notice.                                      *)
(***************************************************************************)
EXTENDS Naturals, Integers, FiniteSets, Sequences, FiniteSetsExt, SequencesExt, TLC

CONSTANTS
    Names,         \* the names a path is made of
    Paths,         \* the normalized paths a command can name, closed under parents
    NodeId,        \* values of pgos_private.node_id_seq
    ObjectId,      \* uuids of content objects
    SegmentId,     \* uuids of content segments
    Text,          \* file contents that are valid UTF-8 text
    Binary,        \* file contents that are not
    EmptyText,     \* the empty text, ''
    Size,          \* octet_length of each content
    MaxGeneration, \* bound of the model: generation counters stop here
    Escaped,       \* paths in which a backslash escapes what follows it in p || '/%'
    Wild,          \* <<p, q>>: q matches p || '/%' and is not one of the plain matches
    None           \* SQL NULL

Data == Text \cup Binary

\* A table with one row, and a table after the rows are stored in it (TLC's
\* i :> r and rows @@ table, written out for the provers).
OneRow(i, r) == [x \in {i} |-> r]

Store(rows, table) ==
    [i \in DOMAIN rows \cup DOMAIN table |->
        IF i \in DOMAIN rows THEN rows[i] ELSE table[i]]

File == 1
Dir == 2
Symlink == 3
Kinds == {File, Dir, Symlink}

ASSUME PathsAssumption ==
    /\ Paths \subseteq Seq(Names)
    /\ <<>> \in Paths
    /\ \A p \in Paths : p # <<>> => Front(p) \in Paths

\* A sequence of bigint values ends.
ASSUME NodeIdAssumption == IsFiniteSet(NodeId)

ASSUME ContentAssumption ==
    /\ EmptyText \in Text
    /\ Size \in [Data -> Nat]
    /\ Size[EmptyText] = 0

ASSUME NoneAssumption ==
    None \notin NodeId \cup ObjectId \cup SegmentId \cup Data \cup Kinds

\* LIKE matches the slashes of its pattern: q has more names than p.
ASSUME WildAssumption ==
    \A w \in Wild : w[1] \in Seq(Names) /\ w[2] \in Seq(Names) /\ Len(w[1]) < Len(w[2])

ASSUME GenerationAssumption == MaxGeneration \in Nat \ {0}

\* generation + 1
Bump(g) == IF g < MaxGeneration THEN g + 1 ELSE g

-----------------------------------------------------------------------------
(* Paths.                                                                  *)

\* The SQL test  q LIKE p || '/%'.  For "/" the pattern is '//%', which no
\* normalized path matches.  A backslash in p is LIKE's escape and matches
\* nothing itself, so p || '/%' misses what lies under p; a '%' or '_' in p is
\* a wildcard.  Wild holds the pairs that match all the same because of either.
LikeBelow(p, q) ==
    /\ p # <<>>
    /\ (p \notin Escaped /\ IsStrictPrefix(p, q)) \/ <<p, q>> \in Wild

\* No path holds a character that LIKE does not take for itself.
PlainPaths == Escaped = {} /\ Wild = {}

\* A path and everything whose stored path matches the pattern below it.
LikeWithin(p, q) == q = p \/ LikeBelow(p, q)

\* substr(q, length(p) + 1): what is left of q after as many names as p has.
Remainder(p, q) == SubSeq(q, Len(p) + 1, Len(q))

-----------------------------------------------------------------------------
(* Lookup.                                                                 *)

ZonesOver(d, p) == {z \in DOMAIN d.zones : IsPrefix(d.zones[z].path, p)}

\* locate_zone: the deepest zone at or above p, and p relative to it.
LocateZone(d, p) ==
    LET over == ZonesOver(d, p)
    IN CHOOSE z \in over : \A y \in over : Len(d.zones[y].path) =< Len(d.zones[z].path)

RelativePath(d, p) == Remainder(d.zones[LocateZone(d, p)].path, p)

EntriesAt(d, z, r) ==
    {i \in DOMAIN d.entries : d.entries[i].zone = z /\ d.entries[i].rel = r}

EntriesFor(d, p) ==
    LET z == LocateZone(d, p) IN EntriesAt(d, z, Remainder(d.zones[z].path, p))

IsZonePath(d, p) == \E z \in DOMAIN d.zones : d.zones[z].path = p

\* kind_of: a zone's own path is a directory whatever the entries say.
KindOf(d, p) ==
    IF ZonesOver(d, p) = {} THEN None
    ELSE IF IsZonePath(d, p) THEN Dir
    ELSE LET found == EntriesFor(d, p)
         IN IF found = {} THEN None ELSE d.entries[CHOOSE i \in found : TRUE].kind

\* parent_of('/') is NULL and kind_of is NULL for it.
ParentIsDir(d, p) == p # <<>> /\ KindOf(d, Front(p)) = Dir

AbsolutePath(d, i) == d.zones[d.entries[i].zone].path \o d.entries[i].rel

\* list: the entries whose parent_path is the directory's relative path, and
\* the zones attached there.
ChildEntries(d, p) ==
    LET z == LocateZone(d, p)
        r == Remainder(d.zones[z].path, p)
    IN {i \in DOMAIN d.entries : d.entries[i].zone = z /\ d.entries[i].dir = r}

BrokenChildZones(d, p) ==
    {y \in DOMAIN d.zones : d.zones[y].parent = LocateZone(d, p)}

ChildZones(d, p) ==
    LET z == LocateZone(d, p)
        r == Remainder(d.zones[z].path, p)
    IN {y \in DOMAIN d.zones : d.zones[y].parent = z /\ d.zones[y].dir = r}

\* Zones LIKE path || '/%'.
ZonesLike(d, p) == {z \in DOMAIN d.zones : LikeBelow(p, d.zones[z].path)}

EntriesOf(d, Z) == {i \in DOMAIN d.entries : d.entries[i].zone \in Z}

\* What a reader of the file gets: its content object's blocks, or the row.
Contents(d, i) ==
    IF d.entries[i].obj = None THEN d.entries[i].body
    ELSE d.objects[d.entries[i].obj].data

-----------------------------------------------------------------------------
(* The statement triggers that keep zones.entry_count and file_bytes.      *)

RowsIn(rows, z) == {i \in DOMAIN rows : rows[i].zone = z}

FileBytes(rows, S) ==
    MapThenSumSet(LAMBDA i : rows[i].size, {i \in S : rows[i].kind = File})

AfterInsert(zs, new) ==
    [z \in DOMAIN zs |-> [zs[z] EXCEPT
        !.entry_count = @ + Cardinality(RowsIn(new, z)),
        !.file_bytes = @ + FileBytes(new, RowsIn(new, z))]]

AfterDelete(zs, old) ==
    [z \in DOMAIN zs |-> [zs[z] EXCEPT
        !.entry_count = @ - Cardinality(RowsIn(old, z)),
        !.file_bytes = @ - FileBytes(old, RowsIn(old, z))]]

BrokenAfterUpdate(zs, old, new) ==
    [z \in DOMAIN zs |-> [zs[z] EXCEPT
        !.file_bytes = @ + FileBytes(new, RowsIn(new, z)) - FileBytes(old, RowsIn(old, z))]]

AfterUpdate(zs, old, new) ==
    [z \in DOMAIN zs |-> [zs[z] EXCEPT
        !.entry_count = @ + Cardinality(RowsIn(new, z)) - Cardinality(RowsIn(old, z)),
        !.file_bytes = @ + FileBytes(new, RowsIn(new, z)) - FileBytes(old, RowsIn(old, z))]]

-----------------------------------------------------------------------------
(* Statements on zone_entries, each with the trigger it fires.             *)

InsertEntries(d, rows) ==
    [d EXCEPT !.entries = Store(rows, d.entries), !.zones = AfterInsert(d.zones, rows)]

DeleteEntries(d, S) ==
    [d EXCEPT !.entries = [i \in DOMAIN d.entries \ S |-> d.entries[i]],
              !.zones = AfterDelete(d.zones, [i \in S |-> d.entries[i]])]

UpdateEntries(d, rows) ==
    [d EXCEPT !.entries = Store(rows, d.entries),
              !.zones = AfterUpdate(d.zones, [i \in DOMAIN rows |-> d.entries[i]], rows)]

DeleteZones(d, Z) == [d EXCEPT !.zones = [z \in DOMAIN d.zones \ Z |-> d.zones[z]]]

\* UNIQUE (volume, zone, relative_path), (volume, zone, parent_path, name),
\* (volume, path) and (volume, parent_zone_id, parent_path, name).
UniqueEntries(d) ==
    \A i, j \in DOMAIN d.entries :
        /\ d.entries[i].zone = d.entries[j].zone
        /\ \/ d.entries[i].rel = d.entries[j].rel
           \/ d.entries[i].dir = d.entries[j].dir /\ d.entries[i].name = d.entries[j].name
        => i = j

UniqueZones(d) ==
    \A y, z \in DOMAIN d.zones :
        \/ d.zones[y].path = d.zones[z].path
        \/ /\ d.zones[y].parent = d.zones[z].parent /\ d.zones[y].parent # None
           /\ d.zones[y].dir = d.zones[z].dir /\ d.zones[y].name = d.zones[z].name
        => y = z

BrokenFreshNodes(d) == NodeId \ DOMAIN d.entries

\* node_id_seq and gen_random_uuid() never hand out an id that a row holds.
\* They never hand out one twice either; here the id of a row that is gone
\* may return, which keeps the sets of ids small.
FreshNodes(d) == NodeId \ (DOMAIN d.zones \cup DOMAIN d.entries)
FreshObjects(d) == ObjectId \ DOMAIN d.objects
FreshSegments(d) == SegmentId \ (d.segments \cup d.staging)

-----------------------------------------------------------------------------
(* Rows.                                                                   *)

\* The row that an insert under path p's parent directory builds.
EntryRow(d, p, kind, body) ==
    LET dir == RelativePath(d, Front(p)) IN
    [zone |-> LocateZone(d, Front(p)), rel |-> Append(dir, Last(p)),
     dir |-> dir, name |-> Last(p), kind |-> kind, body |-> body, obj |-> None,
     size |-> IF kind = File THEN Size[body] ELSE 0, gen |-> 1]

ZoneRow(d, p) ==
    [path |-> p, parent |-> LocateZone(d, Front(p)), dir |-> RelativePath(d, Front(p)),
     name |-> Last(p), entry_count |-> 0, file_bytes |-> 0, gen |-> 1]

\* The root zone of a new volume.
RootRow ==
    [path |-> <<>>, parent |-> None, dir |-> None, name |-> None,
     entry_count |-> 0, file_bytes |-> 0, gen |-> 1]

-----------------------------------------------------------------------------
(* Content objects and segments.                                           *)

BrokenUnblocked(d, z) ==
    {i \in DOMAIN d.entries :
        /\ d.entries[i].zone = z /\ d.entries[i].kind = File
        /\ d.entries[i].body \in Text \ {EmptyText} /\ d.entries[i].obj = None}

\* Text files of zone z whose content is still in the row.
Unblocked(d, z) ==
    {i \in DOMAIN d.entries :
        /\ d.entries[i].zone = z /\ d.entries[i].kind = File
        /\ d.entries[i].body \in Text /\ d.entries[i].obj = None}

\* blockize_zone and the common part of blockize_zone_segment: f gives every
\* such file a new content object, whose blocks go to segment seg (None for
\* pgos_private.content_blocks), and empties the row.
Blockize(d, z, f, seg) ==
    LET rows == [i \in Unblocked(d, z) |->
                    [d.entries[i] EXCEPT !.obj = f[i], !.body = EmptyText]]
        made == [o \in {f[i] : i \in Unblocked(d, z)} |->
                    [data |-> d.entries[CHOOSE i \in Unblocked(d, z) : f[i] = o].body,
                     segment |-> seg]]
    IN UpdateEntries([d EXCEPT !.objects = Store(made, d.objects)], rows)

\* The ways to give new objects to the unblocked files of z.
Mappings(d, z) == Injection(Unblocked(d, z), FreshObjects(d))

Referenced(d, s) ==
    \E o \in DOMAIN d.objects :
        /\ d.objects[o].segment = s
        /\ \E i \in DOMAIN d.entries : d.entries[i].obj = o

BrokenReclaim(d) ==
    [d EXCEPT !.segments = {},
              !.objects = [o \in {x \in DOMAIN @ : @[x].segment = None} |-> @[o]]]

\* reclaim_content_segments: drop the segments no entry refers to, with
\* their objects.  Objects without a segment are left alone.
Reclaim(d) ==
    LET live == {s \in d.segments : Referenced(d, s)}
        kept == {o \in DOMAIN d.objects : d.objects[o].segment \notin d.segments \ live}
    IN [d EXCEPT !.segments = live, !.objects = [o \in kept |-> d.objects[o]]]

=============================================================================
