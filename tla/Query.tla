-------------------------------- MODULE Query ---------------------------------
(***************************************************************************)
(* The functions that read a volume, and what they must agree on.  Several *)
(* answer one question along two paths: row by row, and from a shortcut    *)
(* (the pointers kept in zones, the counters kept by the triggers, a       *)
(* single-zone query).  Name patterns, hidden names and orderings are left *)
(* out: they select from and lay out the sets below.                       *)
(***************************************************************************)
EXTENDS VolumeTree

\* list and list_output: the children by parent_path and by parent_zone_id,
\* as pairs of path and name.
list(d, p) ==
    {<<AbsolutePath(d, i), d.entries[i].name>> : i \in ChildEntries(d, p)}
    \cup {<<d.zones[z].path, d.zones[z].name>> : z \in ChildZones(d, p)}

\* The zones a recursive query of p reads, and which of them it reports.
SelectedZones(d, p) ==
    {z \in DOMAIN d.zones : z = LocateZone(d, p) \/ p = <<>> \/ LikeWithin(p, d.zones[z].path)}

BrokenFoundZones(d, p) == SelectedZones(d, p)

FoundZones(d, p) ==
    {z \in SelectedZones(d, p) : p = <<>> \/ LikeWithin(p, d.zones[z].path)}

\* relative_root: only the zone p is in is searched below a relative path.
RelativeRoot(d, p, z) == IF z = LocateZone(d, p) THEN RelativePath(d, p) ELSE <<>>

FoundEntries(d, p) ==
    {i \in EntriesOf(d, SelectedZones(d, p)) :
        LET r == RelativeRoot(d, p, d.entries[i].zone)
        IN r = <<>> \/ LikeWithin(r, d.entries[i].rel)}

\* find_paths, find_entries and walk; kind None is no kind_filter.
find_paths(d, p, kind) ==
    {AbsolutePath(d, i) : i \in {j \in FoundEntries(d, p) : kind \in {None, d.entries[j].kind}}}
    \cup IF kind \in {None, Dir} THEN {d.zones[z].path : z \in FoundZones(d, p)} ELSE {}

Broken_find_output(d, p, kind) ==
    LET here == LocateZone(d, p)
        r == RelativePath(d, p)
    IN {AbsolutePath(d, i) : i \in {j \in EntriesOf(d, {here}) :
            d.entries[j].kind = kind /\ (r = <<>> \/ LikeWithin(r, d.entries[j].rel))}}

\* find_output and find_command_output: one zone's rows when there are no
\* nested zones and no directories are asked for.
find_output(d, p, kind) ==
    IF kind \in {File, Symlink} /\ ZonesLike(d, p) = {}
    THEN LET here == LocateZone(d, p)
             r == RelativePath(d, p)
         IN {AbsolutePath(d, i) : i \in {j \in EntriesOf(d, {here}) :
                d.entries[j].kind = kind /\ (r = <<>> \/ LikeWithin(r, d.entries[j].rel))}}
    ELSE find_paths(d, p, kind)

\* disk_usage, of a path that exists.
disk_usage(d, p) ==
    LET r == RelativePath(d, p)
        here == EntriesFor(d, p)
        below == {i \in EntriesOf(d, SelectedZones(d, p)) :
                    LET q == RelativeRoot(d, p, d.entries[i].zone)
                    IN q = <<>> \/ LikeBelow(q, d.entries[i].rel)}
    IN IF r # <<>> /\ \E i \in here : d.entries[i].kind = File
       THEN FileBytes(d.entries, here)
       ELSE FileBytes(d.entries, below)

\* disk_usage_fast: for a zone, the sum of the zones' file_bytes.
disk_usage_fast(d, p) ==
    IF RelativePath(d, p) # <<>> THEN disk_usage(d, p)
    ELSE MapThenSumSet(LAMBDA z : d.zones[z].file_bytes,
                       {z \in DOMAIN d.zones : LikeWithin(p, d.zones[z].path)})

\* The count that move_command returns for a zone.
moved_count(d, p) ==
    LET moved == {z \in DOMAIN d.zones : LikeWithin(p, d.zones[z].path)}
    IN Cardinality(moved) + MapThenSumSet(LAMBDA z : d.zones[z].entry_count, moved)

-----------------------------------------------------------------------------

\* What lies at and below p in the tree.
Subtree(p) == {q \in DOMAIN tree : IsPrefix(p, q)}

Bytes(p) ==
    MapThenSumSet(LAMBDA q : Size[tree[q].body], {q \in Subtree(p) : tree[q].kind = File})

\* A directory lists exactly the nodes directly below it, each by its own
\* name, whether it finds them by parent_path or by parent_zone_id: the
\* pointers survive every move, copy and removal of what they point to.
ListAgrees ==
    \A p \in DOMAIN tree : tree[p].kind = Dir =>
        list(db, p) = {<<q, Last(q)>> : q \in {r \in DOMAIN tree : r # <<>> /\ Front(r) = p}}

\* A recursive query finds exactly the nodes at and below its path, across
\* every zone below it, and none of the zone above that holds it.
WalkAgrees ==
    \A p \in DOMAIN tree : \A kind \in Kinds \cup {None} :
        find_paths(db, p, kind) = {q \in Subtree(p) : kind \in {None, tree[q].kind}}

\* The accelerated queries answer like the rows they stand for, below the
\* root: find's single-zone query, du's and mv's counters.
FastPathsAgree ==
    \A p \in DOMAIN tree \ {<<>>} :
        /\ \A kind \in Kinds : find_output(db, p, kind) = find_paths(db, p, kind)
        /\ disk_usage(db, p) = Bytes(p) /\ disk_usage_fast(db, p) = Bytes(p)
        /\ IsZonePath(db, p) => moved_count(db, p) = Cardinality(Subtree(p))

\* The same of find and du at the root of the volume, where they omit every
\* nested zone.
FindRootAgrees ==
    DOMAIN zones # {} =>
        \A kind \in Kinds : find_output(db, <<>>, kind) = find_paths(db, <<>>, kind)

UsageRootAgrees ==
    DOMAIN zones # {} => disk_usage_fast(db, <<>>) = disk_usage(db, <<>>)

=============================================================================
