-------------------------------- MODULE Volume --------------------------------
(***************************************************************************)
(* One volume and the SQL functions that change it.                        *)
(*                                                                         *)
(* Every function runs as one PostgreSQL transaction and an exception      *)
(* undoes all of it, so a function that raises is an action that is not    *)
(* enabled.  The functions call each other; an action is the whole call,   *)
(* with its trigger updates, blockization and reclamation.                 *)
(***************************************************************************)
EXTENDS Namespace

CONSTANTS
    Batches,        \* the sets of paths that one call can name
    Trees           \* staged import trees: functions from relative path to [kind, body]

\* A staged node of kind 1 has contents; of the others none are stored.
ASSUME TreesAssumption ==
    \A tree \in Trees : \A r \in DOMAIN tree :
        /\ r \in Seq(Names)
        /\ tree[r] \in [kind : Kinds, body : Data \cup {None}]
        /\ IF tree[r].kind = File THEN tree[r].body \in Data ELSE tree[r].body = None

\* Each is the elements of an array.
ASSUME BatchesAssumption == \A P \in Batches : P \subseteq Paths /\ IsFiniteSet(P)

VARIABLES
    zones,      \* pgos_private.zones of the volume
    entries,    \* pgos_private.zone_entries of the volume
    objects,    \* pgos_private.content_objects with their blocks
    segments,   \* published rows of content_segments and their partitions
    staging     \* staging schemas left in the database

vars == <<zones, entries, objects, segments, staging>>

db == [zones |-> zones, entries |-> entries, objects |-> objects,
       segments |-> segments, staging |-> staging]

\* A bound of the model, not of the code: every node's path stays in Paths.
WithinBounds(d) ==
    /\ \A z \in DOMAIN d.zones : d.zones[z].path \in Paths
    /\ \A i \in DOMAIN d.entries :
        d.entries[i].zone \in DOMAIN d.zones => AbsolutePath(d, i) \in Paths

\* Commit d: the unique indexes hold, or the statement fails.
Commit(d) ==
    /\ WithinBounds(d) /\ UniqueEntries(d) /\ UniqueZones(d)
    /\ zones' = d.zones
    /\ entries' = d.entries
    /\ objects' = d.objects
    /\ segments' = d.segments
    /\ staging' = d.staging

-----------------------------------------------------------------------------
(* The volume itself.                                                      *)

NoRows == [x \in {} |-> x]

Init ==
    /\ zones = NoRows
    /\ entries = NoRows
    /\ objects = NoRows
    /\ segments = {}
    /\ staging = {}

create_volume ==
    /\ zones = NoRows
    /\ \E z \in FreshNodes(db) : Commit([db EXCEPT !.zones = OneRow(z, RootRow)])

\* The entries go first, the reclamation drops every published segment, and
\* deleting the volume row cascades to zones, objects and segments.
remove_volume ==
    /\ DOMAIN zones # {}
    /\ LET emptied == Reclaim(DeleteEntries(db, DOMAIN entries))
       IN Commit([emptied EXCEPT !.zones = NoRows, !.objects = NoRows, !.segments = {}])

-----------------------------------------------------------------------------
(* Directories.                                                            *)

mkdir(p) ==
    /\ KindOf(db, p) = None
    /\ ParentIsDir(db, p)
    /\ \E i \in FreshNodes(db) : Commit(InsertEntries(db, OneRow(i, EntryRow(db, p, Dir, None))))

\* The new directory rows for the paths of P, with ids f.
DirRows(d, P, f) ==
    [i \in {f[q] : q \in P} |-> EntryRow(d, CHOOSE q \in P : f[q] = i, Dir, None)]

\* parents = true, for mkdir and for mkdir_many over the targets P: every
\* missing prefix, from the top down.
mkdir_parents(P) ==
    LET prefixes == UNION {Prefixes(p) : p \in P}
        missing == {q \in prefixes : KindOf(db, q) = None}
    IN /\ DOMAIN zones # {}
       /\ \A q \in prefixes : KindOf(db, q) \in {None, Dir}
       /\ \E f \in Injection(missing, FreshNodes(db)) :
            Commit(InsertEntries(db, DirRows(db, missing, f)))

\* parents = false: one statement inserts all rows; only the parents are
\* looked up, the targets are left to the unique indexes.
mkdir_many(P) ==
    /\ \A p \in P : ParentIsDir(db, p)
    /\ \E f \in Injection(P, FreshNodes(db)) :
        Commit(InsertEntries(db, DirRows(db, P, f)))

-----------------------------------------------------------------------------
(* Files.                                                                  *)

\* The row that ON CONFLICT (zone, relative_path) finds, or a new one.
UpsertIds(d, p) ==
    LET row == EntryRow(d, p, Dir, None)
        old == EntriesAt(d, row.zone, row.rel)
    IN IF old = {} THEN FreshNodes(d) ELSE {i \in old : d.entries[i].kind = File}

BrokenWriteInline(d, p, body, i) ==
    IF i \in DOMAIN d.entries
    THEN UpdateEntries(d, OneRow(i, [d.entries[i] EXCEPT !.body = body, !.obj = None]))
    ELSE InsertEntries(d, OneRow(i, EntryRow(d, p, File, body)))

\* write_file_inline on id i \in UpsertIds(d, p).
WriteInline(d, p, body, i) ==
    IF i \in DOMAIN d.entries
    THEN UpdateEntries(d, OneRow(i, [d.entries[i] EXCEPT
            !.body = body, !.obj = None, !.size = Size[body], !.gen = Bump(@)]))
    ELSE InsertEntries(d, OneRow(i, EntryRow(d, p, File, body)))

\* write_file: the zone that is blockized is the one the target resolves to.
write_file(p, body) ==
    /\ ParentIsDir(db, p)
    /\ \E i \in UpsertIds(db, p) :
        LET written == WriteInline(db, p, body, i)
            z == LocateZone(written, p)
        IN \E f \in Mappings(written, z) : Commit(Reclaim(Blockize(written, z, f, None)))

\* import_text: prepare_content_segment, the object and its blocks,
\* publish_content_segment and publish_content, in one transaction.
import_text(p, body) ==
    /\ ParentIsDir(db, p)
    /\ \E s \in FreshSegments(db), o \in FreshObjects(db), i \in UpsertIds(db, p) :
        LET stored == [db EXCEPT !.segments = segments \cup {s},
                                 !.objects = Store(OneRow(o, [data |-> body, segment |-> s]), objects)]
            written == WriteInline(stored, p, EmptyText, i)
        IN Commit(UpdateEntries(written, OneRow(i, [written.entries[i] EXCEPT
                                                 !.obj = o, !.size = Size[body]])))

-----------------------------------------------------------------------------
(* Imports of a local tree.                                                *)

\* apply_import_inline's checks of the staged rows.
StagedWell(tree) ==
    /\ <<>> \in DOMAIN tree
    /\ \A r \in DOMAIN tree :
        r # <<>> => Front(r) \in DOMAIN tree /\ tree[Front(r)].kind = Dir

\* A staged directory becomes a zone z, its descendants the entries of z.
ImportZone(d, p, tree, z, f) ==
    LET made == [d EXCEPT !.zones = Store(OneRow(z, ZoneRow(d, p)), d.zones)]
        below == DOMAIN tree \ {<<>>}
        row(r) == [zone |-> z, rel |-> r, dir |-> Front(r), name |-> Last(r),
                   kind |-> tree[r].kind, body |-> tree[r].body, obj |-> None,
                   size |-> IF tree[r].kind = File THEN Size[tree[r].body] ELSE 0,
                   gen |-> 1]
    IN InsertEntries(made, [i \in {f[r] : r \in below} |-> row(CHOOSE r \in below : f[r] = i)])

\* blockize_zone_segment: the segment's staging schema becomes a partition,
\* unless the zone has nothing to store; then only its row is deleted.
BlockizeSegment(d, z, f, s) ==
    IF Unblocked(d, z) = {}
    THEN [d EXCEPT !.staging = d.staging \cup {s}]
    ELSE Blockize([d EXCEPT !.segments = d.segments \cup {s}], z, f, s)

\* prepare_import and apply_import.
import(p, tree) ==
    /\ StagedWell(tree)
    /\ ParentIsDir(db, p)
    /\ KindOf(db, p) = None
    /\ \E s \in FreshSegments(db), n \in FreshNodes(db) :
        \E f \in Injection(DOMAIN tree \ {<<>>}, FreshNodes(db) \ {n}) :
            LET root == tree[<<>>]
                inserted ==
                  IF root.kind = Dir THEN ImportZone(db, p, tree, n, f)
                  ELSE InsertEntries(db, OneRow(n, EntryRow(db, p, root.kind, root.body)))
                z == LocateZone(inserted, p)
            IN \E g \in Mappings(inserted, z) : Commit(BlockizeSegment(inserted, z, g, s))

-----------------------------------------------------------------------------
(* Copy and move.                                                          *)

BrokenRebase(d, p, source, e) ==
    LET rel == Append(RelativePath(d, Front(p)), Last(p)) \o Remainder(source, e.rel)
    IN [e EXCEPT !.zone = LocateZone(d, Front(p)), !.rel = rel, !.dir = Front(rel)]

\* The entry with path r under zone z, given a new place below the
\* directory that is to hold p.
Rebase(d, p, source, e) ==
    LET top == Append(RelativePath(d, Front(p)), Last(p))
        rel == top \o Remainder(source, e.rel)
    IN [e EXCEPT !.zone = LocateZone(d, Front(p)), !.rel = rel, !.dir = Front(rel),
                 !.name = IF e.rel = source THEN Last(p) ELSE @]

BrokenCanPlace(d, src, dst) ==
    src # <<>> /\ src # dst /\ ParentIsDir(d, dst)

CanPlace(d, src, dst) ==
    /\ src # <<>> /\ ~LikeWithin(src, dst)
    /\ ParentIsDir(d, dst)

\* A zone is copied to a new zone; its entries share their content objects.
CopyZone(src, dst) ==
    LET z == LocateZone(db, src)
        old == EntriesOf(db, {z})
    IN /\ ZonesLike(db, src) = {}
       /\ \E n \in FreshNodes(db) : \E f \in Injection(old, FreshNodes(db) \ {n}) :
            LET made == [db EXCEPT !.zones = Store(OneRow(n, ZoneRow(db, dst)), zones)]
            IN Commit(InsertEntries(made, [k \in {f[i] : i \in old} |->
                    [entries[CHOOSE i \in old : f[i] = k] EXCEPT !.zone = n, !.gen = 1]]))

CopyEntry(src, dst, recursive) ==
    LET source == RelativePath(db, src)
        kind == KindOf(db, src)
        old == {i \in EntriesOf(db, {LocateZone(db, src)}) :
                  \/ entries[i].rel = source
                  \/ recursive /\ LikeBelow(source, entries[i].rel)}
    IN /\ kind # None
       /\ kind = Dir => recursive /\ ZonesLike(db, src) = {}
       /\ \E f \in Injection(old, FreshNodes(db)) :
            Commit(InsertEntries(db, [k \in {f[i] : i \in old} |->
                 [Rebase(db, dst, source, entries[CHOOSE i \in old : f[i] = k])
                    EXCEPT !.gen = 1]]))

copy(src, dst, recursive) ==
    /\ CanPlace(db, src, dst)
    /\ KindOf(db, dst) = None
    /\ IF RelativePath(db, src) = <<>>
       THEN recursive /\ CopyZone(src, dst)
       ELSE CopyEntry(src, dst, recursive)

\* A zone moves with the zones below it: their paths get the new prefix, and
\* only the moved zone is attached to another parent.
MoveZone(d, src, dst) ==
    LET top == LocateZone(d, src)
        moved == ZonesLike(d, src) \cup {top}
        place(z) == [d.zones[z] EXCEPT !.path = dst \o Remainder(src, @)]
    IN [d EXCEPT !.zones = [z \in DOMAIN d.zones |->
          IF z = top
          THEN [place(z) EXCEPT !.parent = LocateZone(d, Front(dst)),
                                !.dir = RelativePath(d, Front(dst)),
                                !.name = Last(dst), !.gen = Bump(@)]
          ELSE IF z \in moved THEN place(z) ELSE d.zones[z]]]

MoveEntry(d, src, dst) ==
    LET source == RelativePath(d, src)
        moved == {i \in EntriesOf(d, {LocateZone(d, src)}) :
                    LikeWithin(source, d.entries[i].rel)}
    IN UpdateEntries(d, [i \in moved |->
          [Rebase(d, dst, source, d.entries[i]) EXCEPT !.gen = Bump(@)]])

Broken_move(src, dst) ==
    /\ CanPlace(db, src, dst)
    /\ KindOf(db, src) # None
    /\ KindOf(db, dst) # Dir
    /\ IF RelativePath(db, src) = <<>>
       THEN Commit(MoveZone(db, src, dst))
       ELSE ZonesLike(db, src) = {} /\ Commit(MoveEntry(db, src, dst))

\* move and move_command: a destination that is not a directory is deleted.
move(src, dst) ==
    /\ CanPlace(db, src, dst)
    /\ KindOf(db, src) # None
    /\ KindOf(db, dst) # Dir
    /\ LET cleared == IF KindOf(db, dst) = None THEN db
                      ELSE DeleteEntries(db, EntriesFor(db, dst))
       IN IF RelativePath(cleared, src) = <<>>
          THEN Commit(MoveZone(cleared, src, dst))
          ELSE /\ ZonesLike(cleared, src) = {}
               /\ Commit(MoveEntry(cleared, src, dst))

-----------------------------------------------------------------------------
(* Removal.                                                                *)

BrokenCanRemove(d, p, recursive) ==
    /\ p # <<>>
    /\ KindOf(d, p) # None
    /\ KindOf(d, p) = Dir /\ ~recursive => ChildEntries(d, p) = {}

CanRemove(d, p, recursive) ==
    /\ p # <<>>
    /\ KindOf(d, p) # None
    /\ KindOf(d, p) = Dir /\ ~recursive => ChildEntries(d, p) = {} /\ ChildZones(d, p) = {}

BrokenRemoved(d, p, recursive) ==
    LET here == LocateZone(d, p)
        rel == RelativePath(d, p)
        own == {i \in EntriesOf(d, {here}) : LikeWithin(rel, d.entries[i].rel)}
        cut == DeleteEntries(d, IF rel = <<>> THEN EntriesOf(d, {here}) ELSE own)
    IN Reclaim(DeleteZones(cut, {z \in DOMAIN d.zones : LikeWithin(p, d.zones[z].path)}))

\* What remove leaves: a zone goes with the zones below it and all their
\* entries, an entry with its own subtree and the zones below its path.
Removed(d, p, recursive) ==
    LET rel == RelativePath(d, p)
        here == LocateZone(d, p)
        gone == IF rel = <<>> THEN ZonesLike(d, p) \cup {here}
                ELSE IF recursive THEN ZonesLike(d, p) ELSE {}
        cut == DeleteZones(DeleteEntries(d, EntriesOf(d, gone)), gone)
        own == {i \in EntriesOf(cut, {here} \ gone) :
                  \/ cut.entries[i].rel = rel
                  \/ recursive /\ LikeBelow(rel, cut.entries[i].rel)}
    IN Reclaim(DeleteEntries(cut, own))

remove(p, recursive) ==
    /\ CanRemove(db, p, recursive)
    /\ Commit(Removed(db, p, recursive))

\* The single statement of remove_many for paths none of which is a zone:
\* the rows with exactly these paths, directories with rows below only if
\* recursive.
Exact(d, P, recursive) ==
    {i \in DOMAIN d.entries : \E p \in P :
        /\ d.entries[i].zone = LocateZone(d, Front(p))
        /\ d.entries[i].rel = Append(RelativePath(d, Front(p)), Last(p))
        /\ \/ recursive \/ d.entries[i].kind # Dir
           \/ {j \in EntriesOf(d, {d.entries[i].zone}) : d.entries[j].dir = d.entries[i].rel} = {}}

RemoveExact(P, recursive, force) ==
    LET gone == Exact(db, P, recursive)
    IN /\ DOMAIN zones # {} /\ Cardinality(P) > 1
       /\ force \/ Cardinality(gone) = Cardinality(P)
       /\ Commit(Reclaim(DeleteEntries(db, gone)))

\* The loop of remove_many: the outcomes of one round, and of two.  A bound
\* of the model, not of the code: the loop is over two paths.
RemoveRound(d, p, recursive, force) ==
    IF force /\ KindOf(d, p) = None THEN {d}
    ELSE IF CanRemove(d, p, recursive) THEN {Removed(d, p, recursive)} ELSE {}

RemoveEach(p, q, recursive, force) ==
    \E d \in RemoveRound(db, p, recursive, force) :
        \E e \in RemoveRound(d, q, recursive, force) : Commit(e)

\* remove_many, of at least two paths; for a single one it is remove.
remove_many(P, recursive, force) ==
    IF \E p \in P : IsZonePath(db, p)
    THEN \E p, q \in P : P = {p, q} /\ p # q /\ RemoveEach(p, q, recursive, force)
    ELSE RemoveExact(P, recursive, force)

-----------------------------------------------------------------------------
(* set_times stores only times, which are not modelled, and a generation.  *)

set_times(p) ==
    /\ KindOf(db, p) # None
    /\ IF RelativePath(db, p) = <<>>
       THEN Commit([db EXCEPT !.zones = [zones EXCEPT ![LocateZone(db, p)].gen = Bump(@)]])
       ELSE Commit(UpdateEntries(db, [i \in EntriesFor(db, p) |->
                                        [entries[i] EXCEPT !.gen = Bump(@)]]))

-----------------------------------------------------------------------------

\* Any sequence of calls of the SQL API.
Next ==
    \/ create_volume
    \/ remove_volume
    \/ \E p \in Paths :
        \/ mkdir(p)
        \/ set_times(p)
        \/ \E body \in Data : write_file(p, body)
        \/ \E body \in Text : import_text(p, body)
        \/ \E tree \in Trees : import(p, tree)
        \/ \E recursive \in BOOLEAN : remove(p, recursive)
        \/ \E q \in Paths : move(p, q) \/ \E recursive \in BOOLEAN : copy(p, q, recursive)
    \/ \E P \in Batches :
        \/ mkdir_parents(P)
        \/ mkdir_many(P)
        \/ \E recursive, force \in BOOLEAN : remove_many(P, recursive, force)

Spec == Init /\ [][Next]_vars

\* The calls of a client that asks for the kind of its targets first, as the
\* kernel does for the mount: it writes only to what is not a directory, and
\* hands a batch only paths that are absent (mkdir) or that have nothing
\* below them (rm).
Bare(p) == ChildEntries(db, p) = {} /\ ChildZones(db, p) = {}

GuardedNext ==
    \/ create_volume
    \/ remove_volume
    \/ \E p \in Paths :
        \/ mkdir(p)
        \/ set_times(p)
        \/ \E body \in Data : KindOf(db, p) # Dir /\ write_file(p, body)
        \/ \E body \in Text : KindOf(db, p) # Dir /\ import_text(p, body)
        \/ \E tree \in Trees : import(p, tree)
        \/ \E recursive \in BOOLEAN : remove(p, recursive)
        \/ \E q \in Paths : move(p, q) \/ \E recursive \in BOOLEAN : copy(p, q, recursive)
    \/ \E P \in Batches :
        \/ mkdir_parents(P)
        \/ (\A p \in P : KindOf(db, p) = None) /\ mkdir_many(P)
        \/ /\ \A p \in P : KindOf(db, p) = Dir => Bare(p)
           /\ \E recursive, force \in BOOLEAN : remove_many(P, recursive, force)

GuardedSpec == Init /\ [][GuardedNext]_vars

-----------------------------------------------------------------------------
(* Invariants of every sequence of calls.                                  *)

\* The columns of a zone; its two counters are CountersExact's concern.
ZoneColumns == {"path", "parent", "dir", "name", "entry_count", "file_bytes", "gen"}

IsZoneRow(r) ==
    /\ DOMAIN r = ZoneColumns
    /\ r.path \in Seq(Names)
    /\ r.parent \in NodeId \cup {None}
    /\ r.dir \in Seq(Names) \cup {None}
    /\ r.name \in Names \cup {None}
    /\ r.gen \in Nat

EntryRows ==
    [zone : NodeId, rel : Seq(Names), dir : Seq(Names), name : Names,
     kind : Kinds, body : Data \cup {None}, obj : ObjectId \cup {None},
     size : Nat, gen : Nat]

ObjectRows == [data : Text, segment : SegmentId \cup {None}]

\* The columns hold values of their types, and an id names one node: zones
\* and zone_entries share node_id_seq.
TypeOK ==
    /\ DOMAIN zones \subseteq NodeId /\ \A z \in DOMAIN zones : IsZoneRow(zones[z])
    /\ DOMAIN entries \subseteq NodeId /\ \A i \in DOMAIN entries : entries[i] \in EntryRows
    /\ DOMAIN zones \cap DOMAIN entries = {}
    /\ DOMAIN objects \subseteq ObjectId
    /\ \A o \in DOMAIN objects : objects[o] \in ObjectRows
    /\ segments \subseteq SegmentId /\ staging \subseteq SegmentId

\* The content a file refers to is always there: a referenced object exists,
\* and so does its segment's partition.  The foreign key on content_object
\* would make the statement fail otherwise; it never has to.
ContentResident ==
    /\ \A i \in DOMAIN entries : entries[i].obj # None => entries[i].obj \in DOMAIN objects
    /\ \A o \in DOMAIN objects : objects[o].segment # None => objects[o].segment \in segments

\* entry_count and file_bytes, which du and move_command report in place of
\* the rows, are exact after every statement trigger of every call.
CountersExact ==
    \A z \in DOMAIN zones :
        /\ zones[z].entry_count = Cardinality(RowsIn(entries, z))
        /\ zones[z].file_bytes = FileBytes(entries, RowsIn(entries, z))

\* Every entry belongs to a zone of the volume: removing a zone never strands
\* rows that no lookup and no later removal can reach.
EntriesHaveZones == \A i \in DOMAIN entries : entries[i].zone \in DOMAIN zones

\* parent_path and name, by which directories are listed, agree with
\* relative_path, by which entries are looked up.
EntriesPlaced ==
    \A i \in DOMAIN entries :
        entries[i].rel # <<>> /\ entries[i].rel = Append(entries[i].dir, entries[i].name)

\* The size a row reports is the size of the content a reader gets, whether
\* it is in the row, in blocks of its own or in a published segment.
SizesAgree ==
    \A i \in DOMAIN entries :
        entries[i].kind = File => entries[i].size = Size[Contents(db, i)]

\* A file is never a directory later, and whoever compares generations, as
\* the kernel does with the inode generation the mount reports, notices
\* every write and every move of the row itself.
GenerationTracks ==
    [][\A i \in DOMAIN entries \cap DOMAIN entries' :
        /\ entries'[i].kind = entries[i].kind
        /\ \/ /\ entries'[i].zone = entries[i].zone /\ entries'[i].rel = entries[i].rel
              /\ Contents(db, i)' = Contents(db, i)
           \/ entries'[i].gen > entries[i].gen \/ entries[i].gen = MaxGeneration]_vars

\* The exception 'not a regular file' of write_file_inline: no file is ever
\* stored at a path that is a directory.  It does not hold where the directory
\* is a zone, whose own path has no row in zone_entries to conflict with.
NoFileAtDirectory ==
    \A i \in DOMAIN entries :
        entries[i].kind = File => KindOf(db, AbsolutePath(db, i)) # Dir

-----------------------------------------------------------------------------
(* Invariants of guarded calls.                                            *)

\* The stored nodes form one tree: the parent of every node is a directory,
\* so removals, moves and imports never leave a node without one.
Connected ==
    /\ \A i \in DOMAIN entries : KindOf(db, Front(AbsolutePath(db, i))) = Dir
    /\ \A z \in DOMAIN zones : zones[z].path # <<>> => KindOf(db, Front(zones[z].path)) = Dir

\* Every node has a path of its own that resolves to it: no entry is hidden
\* by a zone at the same path, or by a zone that took over its part of the
\* tree.
Addressable ==
    \A i \in DOMAIN entries :
        LET p == AbsolutePath(db, i) IN ~IsZonePath(db, p) /\ EntriesFor(db, p) = {i}

\* No text stays in a row between calls: indexed search reads content blocks
\* only and would not see it.
TextInBlocks ==
    \A i \in DOMAIN entries :
        entries[i].kind = File /\ entries[i].body \in Text => entries[i].obj # None

=============================================================================
