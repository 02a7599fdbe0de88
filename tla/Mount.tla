--------------------------------- MODULE Mount --------------------------------
(***************************************************************************)
(* pgos-mount: the requests that the kernel sends to the FUSE adapter,     *)
(* served by several threads over two shared maps, while other clients     *)
(* change the same volume.                                                 *)
(*                                                                         *)
(* A request takes a step for each call of the client and each access to a *)
(* map.  The volume is what Volume implements, with the ids of its rows,   *)
(* which a move keeps; each call of the client is one transaction there.   *)
(***************************************************************************)
EXTENDS Integers, Sequences, FiniteSets, SequencesExt

CONSTANTS
    Threads,     \* n_threads = 8
    NameOrder,   \* names of entries, in the order of COLLATE "C"
    Tree,        \* the volume when it is mounted: a function from ids to nodes
    Workloads,   \* what goes on in the life of a mount: [ops, changes], the kinds
                 \* of request that each thread serves and the number of changes
    Bytes,
    Buffer,      \* directory entries in one answer
    MaxDepth, MaxIds, MaxHandles,  \* bounds of the model
    None

Names == Range(NameOrder)
Root == 0
Ids == 0..MaxIds
File == 1
Dir == 2
Zero == 0

ASSUME MountAssumption ==
    /\ Root \in DOMAIN Tree /\ DOMAIN Tree \subseteq Ids
    /\ Tree[Root] = [path |-> <<>>, kind |-> Dir, data |-> <<>>]
    /\ NameOrder \in Seq(Names)
    /\ Bytes \subseteq Nat \ {Zero}
    /\ Buffer \in Nat \ {0}
    /\ None \notin Threads \cup {File, Dir} /\ None \notin {"read", "write", "readdir"}

\* Every node has a path of its own, in directories.
ASSUME TreeAssumption ==
    /\ \A i \in DOMAIN Tree :
          /\ DOMAIN Tree[i] = {"path", "kind", "data"}
          /\ Tree[i].path \in Seq(Names) /\ Tree[i].kind \in {File, Dir}
          /\ Tree[i].data \in Seq(Nat)
          /\ \A j \in DOMAIN Tree : Tree[i].path = Tree[j].path => i = j
          /\ \A n \in 0..(Len(Tree[i].path) - 1) : \E j \in DOMAIN Tree :
                Tree[j].path = SubSeq(Tree[i].path, 1, n) /\ Tree[j].kind = Dir

VARIABLES
    nodes,        \* the volume: ids to [path, kind, data]
    inode_paths, open_files, next_handle,
    known,        \* inodes the kernel has been told of
    files,        \* the kernel's open files: pairs of a handle and an inode
    request,      \* what each thread is doing
    ops,          \* the kinds of request that each thread serves
    changes,      \* changes that are left, by requests and by other clients
    past          \* every path an id has had

mount == <<inode_paths, open_files, next_handle>>
kernel == <<known, files>>
vars == <<nodes, mount, kernel, request, ops, changes, past>>

Idle == [op |-> None, step |-> "idle"]

Init ==
    /\ nodes = Tree
    /\ inode_paths = [i \in {Root} |-> <<>>]
    /\ open_files = [h \in {} |-> <<>>] /\ next_handle = 1
    /\ known = {Root} /\ files = {}
    /\ request = [t \in Threads |-> Idle]
    /\ \E w \in Workloads : ops = w.ops /\ changes = w.changes
    /\ past = [i \in Ids |-> IF i \in DOMAIN Tree THEN {Tree[i].path} ELSE {}]

-----------------------------------------------------------------------------
(* The volume's functions.                                                 *)

IdsAt(p) == {i \in DOMAIN nodes : nodes[i].path = p}
Exists(p) == IdsAt(p) # {}
IdAt(p) == CHOOSE i \in DOMAIN nodes : nodes[i].path = p
KindAt(p) == IF Exists(p) THEN nodes[IdAt(p)].kind ELSE None
Below(p) == {i \in DOMAIN nodes : IsStrictPrefix(p, nodes[i].path)}
ParentIsDir(p) == p # <<>> /\ KindAt(Front(p)) = Dir
\* node_id_seq: a number that no row has had.
Fresh == {i \in Ids : past[i] = {} /\ \A j \in 0..(i - 1) : past[j] # {}}

WithNode(i, node) == [j \in DOMAIN nodes \cup {i} |-> IF j = i THEN node ELSE nodes[j]]

CanWrite(p) == ParentIsDir(p) /\ KindAt(p) \in {None, File}
AfterWrite(i, p, data) == WithNode(i, [path |-> p, kind |-> File, data |-> data])
\* The row that a write makes or updates.
Written(p) == IF Exists(p) THEN IdsAt(p) ELSE Fresh

CanMkdir(p) == ParentIsDir(p) /\ KindAt(p) = None

CanMove(p, q) ==
    /\ p # <<>> /\ ~IsPrefix(p, q) /\ Exists(p)
    /\ ParentIsDir(q) /\ KindAt(q) # Dir
AfterMove(p, q) ==
    [i \in DOMAIN nodes \ IdsAt(q) |->
        IF IsPrefix(p, nodes[i].path)
        THEN [nodes[i] EXCEPT !.path = q \o SubSeq(@, Len(p) + 1, Len(@))] ELSE nodes[i]]

CanRemove(p) == p # <<>> /\ Exists(p) /\ (KindAt(p) = Dir => Below(p) = {})
AfterRemove(p) == [i \in DOMAIN nodes \ IdsAt(p) |-> nodes[i]]

\* The entry in place j has j - 1 before it.
Listing(p) ==
    LET there == {k \in DOMAIN NameOrder : Exists(Append(p, NameOrder[k]))}
    IN [j \in 1..Cardinality(there) |->
          NameOrder[CHOOSE k \in there : Cardinality({l \in there : l <= k}) = j]]

-----------------------------------------------------------------------------
(* Steps of a thread.                                                      *)

\* Thread t goes on with record r; a change of the volume spoils what every
\* other thread has read of it.
Becomes(t, r, after) ==
    /\ nodes' = after
    /\ past' = [i \in Ids |-> IF i \in DOMAIN after THEN past[i] \cup {after[i].path} ELSE past[i]]
    /\ request' = [u \in Threads |->
          IF u = t THEN r
          ELSE IF after # nodes /\ request[u].op # None THEN [request[u] EXCEPT !.alone = FALSE]
          ELSE request[u]]

Goes(t, r) == Becomes(t, r, nodes)
Failed(t) == Goes(t, Idle)
At(t, step) == request[t].step = step
To(t, step) == [request[t] EXCEPT !.step = step]

Spend == changes > 0 /\ changes' = changes - 1 /\ UNCHANGED ops
Free == UNCHANGED <<changes, ops>>

NewRequest(op, ino, step) ==
    [op |-> op, step |-> step, ino |-> ino, alone |-> TRUE, name |-> None, ino2 |-> Root,
     name2 |-> None, handle |-> 0, trunc |-> FALSE, offset |-> 0, byte |-> Zero,
     path |-> <<>>, to |-> <<>>, entry |-> None, data |-> <<>>, seen |-> <<>>]

Changing == {"create", "mkdir", "remove", "rename", "write", "setattr"}

\* The kernel sends a request for an inode that it knows.
Request(t, op, ino) ==
    /\ At(t, "idle") /\ op \in ops[t] /\ ino \in known
    /\ op # "open" => IF op \in Changing THEN Spend ELSE Free
    /\ LET new(step) == NewRequest(op, ino, step)
       IN \/ /\ op \in {"lookup", "create", "mkdir", "remove"}
             /\ op = "create" => next_handle <= MaxHandles
             /\ \E n \in Names : Goes(t, [new("path") EXCEPT !.name = n])
          \/ /\ op = "rename"
             /\ \E n, m \in Names, j \in known :
                   Goes(t, [new("path") EXCEPT !.name = n, !.ino2 = j, !.name2 = m])
          \/ /\ op \in {"getattr", "setattr", "readdir"}
             /\ Goes(t, new("entry"))
          \/ /\ op = "open" /\ next_handle <= MaxHandles
             /\ \E trunc \in BOOLEAN :
                   /\ IF trunc THEN Spend ELSE Free
                   /\ Goes(t, [new("entry") EXCEPT !.trunc = trunc])
          \/ /\ op = "read"
             /\ \E f \in files :
                   f[2] = ino /\ Goes(t, [new("read") EXCEPT !.handle = f[1]])
          \/ /\ op = "write"
             /\ \E f \in files, b \in Bytes, offset \in 0..1 :
                   /\ f[2] = ino
                   /\ Goes(t, [new("entry") EXCEPT !.handle = f[1], !.byte = b, !.offset = offset])
    /\ UNCHANGED <<mount, kernel>>

\* release: the kernel has closed the last reference to the file.
Release(f) ==
    /\ f \in files
    /\ \A t \in Threads :
          request[t].op # None => <<request[t].handle, request[t].ino>> # f
    /\ open_files' = [g \in DOMAIN open_files \ {f[1]} |-> open_files[g]]
    /\ files' = files \ {f}
    /\ UNCHANGED <<nodes, inode_paths, next_handle, known, request, ops, changes, past>>

\* child_path of the first, and for rename of the second name: the parent's
\* path is in the map (Resolvable), so no call is made.
ChildPath(t) ==
    /\ At(t, "path")
    /\ LET r == request[t]
       IN Goes(t, [r EXCEPT !.path = Append(inode_paths[r.ino], r.name),
                            !.step = IF r.op = "rename" THEN "path2" ELSE "call"])
    /\ Free /\ UNCHANGED <<mount, kernel>>

Destination(r) == Append(inode_paths[r.ino2], r.name2)

SecondPath(t) ==
    /\ At(t, "path2")
    /\ LET r == request[t]
       IN Goes(t, [r EXCEPT !.step = "call", !.to = Destination(r)])
    /\ Free /\ UNCHANGED <<mount, kernel>>

\* The start of entry: stat("/") for the root, inode(id) for the others.
Entry(t) ==
    /\ At(t, "entry")
    /\ LET r == request[t]
       IN IF r.ino \in DOMAIN nodes
          THEN Goes(t, [r EXCEPT !.entry = [id |-> r.ino, path |-> nodes[r.ino].path,
                                            kind |-> nodes[r.ino].kind],
                                 !.step = "remember"])
          ELSE Failed(t)
    /\ Free /\ UNCHANGED <<mount, kernel>>

\* The client's call of lookup, create, mkdir, remove and rename.
Call(t) ==
    /\ At(t, "call")
    /\ LET r == request[t]
           p == r.path
           Got(i, after) ==
                Becomes(t, [r EXCEPT !.entry = [id |-> i, path |-> p, kind |-> after[i].kind],
                                     !.step = "remember"], after)
       IN CASE r.op = "lookup" -> IF Exists(p) THEN Got(IdAt(p), nodes) ELSE Failed(t)
            [] r.op = "create" ->
                 IF CanWrite(p) THEN \E i \in Written(p) : Got(i, AfterWrite(i, p, <<>>)) ELSE Failed(t)
            [] r.op = "mkdir" ->
                 IF CanMkdir(p)
                 THEN \E i \in Fresh : Got(i, WithNode(i, [path |-> p, kind |-> Dir, data |-> <<>>]))
                 ELSE Failed(t)
            [] r.op = "remove" ->
                 IF CanRemove(p) THEN Becomes(t, Idle, AfterRemove(p)) ELSE Failed(t)
            [] r.op = "rename" ->
                 IF CanMove(p, r.to) THEN Becomes(t, Idle, AfterMove(p, r.to)) ELSE Failed(t)
    /\ Free /\ UNCHANGED <<mount, kernel>>

BrokenRemembered(e) ==
    [i \in DOMAIN inode_paths \cup {e.id} |->
        IF i \in DOMAIN inode_paths THEN inode_paths[i] ELSE e.path]

Remembered(e) ==
    [i \in DOMAIN inode_paths \cup {e.id} |-> IF i = e.id THEN e.path ELSE inode_paths[i]]

\* remember, and the answer when it is the last thing the request does.
Remember(t) ==
    /\ At(t, "remember")
    /\ LET r == request[t]
       IN /\ inode_paths' = Remembered(r.entry)
          /\ CASE r.op \in {"lookup", "mkdir", "getattr"} -> Goes(t, Idle)
               [] r.op = "open" ->
                    IF r.entry.kind # File THEN Failed(t)
                    ELSE Goes(t, To(t, IF r.trunc THEN "truncate" ELSE "handle"))
               [] r.op = "create" -> Goes(t, To(t, "handle"))
               [] r.op = "write" -> Goes(t, To(t, "load"))
               [] r.op = "setattr" -> Goes(t, To(t, "times"))
               [] r.op = "readdir" -> Goes(t, To(t, "list"))
          /\ known' = IF r.op \in {"lookup", "mkdir"} THEN known \cup {r.entry.id} ELSE known
    /\ Free /\ UNCHANGED <<open_files, next_handle, files>>

\* open with O_TRUNC writes an empty file where the entry was.
Truncate(t) ==
    /\ At(t, "truncate")
    /\ LET r == request[t]
           p == r.entry.path
       IN IF CanWrite(p)
          THEN \E i \in Written(p) : Becomes(t, To(t, "handle"), AfterWrite(i, p, <<>>))
          ELSE Failed(t)
    /\ Free /\ UNCHANGED <<mount, kernel>>

BrokenHandleAfter(h) == h
HandleAfter(h) == h + 1

\* allocate_handle and the answer to open and create.
AllocateHandle(t) ==
    /\ At(t, "handle")
    /\ LET r == request[t]
           h == next_handle
       IN /\ next_handle' = HandleAfter(h)
          /\ open_files' = [g \in DOMAIN open_files \cup {h} |->
                                IF g = h THEN r.entry.path ELSE open_files[g]]
          /\ files' = files \cup {<<h, r.entry.id>>}
          /\ known' = known \cup {r.entry.id}
          /\ Goes(t, Idle)
    /\ Free /\ UNCHANGED inode_paths

\* open_path: by handle, else by inode.
OpenPath(h, ino) == IF h \in DOMAIN open_files THEN open_files[h] ELSE inode_paths[ino]

ReadPath(t) ==
    /\ At(t, "read")
    /\ LET r == request[t]
       IN Goes(t, [r EXCEPT !.path = OpenPath(r.handle, r.ino), !.step = "range"])
    /\ Free /\ UNCHANGED <<mount, kernel>>

ReadRange(t) ==
    /\ At(t, "range")
    /\ LET p == request[t].path
       IN IF KindAt(p) = File
          THEN Goes(t, [request[t] EXCEPT !.data = nodes[IdAt(p)].data, !.step = "answer"])
          ELSE Failed(t)
    /\ Free /\ UNCHANGED <<mount, kernel>>

\* write: the whole file is read, changed and written back.
Load(t) ==
    /\ At(t, "load")
    /\ LET p == request[t].entry.path
       IN IF KindAt(p) = File
          THEN Goes(t, [request[t] EXCEPT !.data = nodes[IdAt(p)].data, !.step = "save"])
          ELSE Failed(t)
    /\ Free /\ UNCHANGED <<mount, kernel>>

BrokenPatched(data, offset, byte) ==
    [k \in 1..(offset + 1) |->
        IF k = offset + 1 THEN byte ELSE IF k <= Len(data) THEN data[k] ELSE Zero]

Patched(data, offset, byte) ==
    [k \in 1..(IF Len(data) < offset + 1 THEN offset + 1 ELSE Len(data)) |->
        IF k = offset + 1 THEN byte ELSE IF k <= Len(data) THEN data[k] ELSE Zero]

Save(t) ==
    /\ At(t, "save")
    /\ LET r == request[t]
           p == r.entry.path
       IN IF CanWrite(p)
          THEN \E i \in Written(p) :
                  Becomes(t, Idle, AfterWrite(i, p, Patched(r.data, r.offset, r.byte)))
          ELSE Failed(t)
    /\ Free /\ UNCHANGED <<mount, kernel>>

\* set_times of the entry's path, which answers with the entry there; EIO when
\* nothing is there, or a time is one that timestamp does not convert (Times).
SetTimes(t) ==
    /\ At(t, "times")
    /\ LET p == request[t].entry.path
       IN \/ /\ Exists(p)
             /\ Goes(t, [request[t] EXCEPT !.entry = [id |-> IdAt(p), path |-> p, kind |-> KindAt(p)],
                                           !.op = "getattr", !.step = "remember"])
          \/ Failed(t)
    /\ Free /\ UNCHANGED <<mount, kernel>>

\* The offset that goes with the entry in place k.
BrokenNextOffset(k) == k + 1
NextOffset(k) == k

\* readdir lists the directory anew for each answer and skips to the offset;
\* the kernel asks again until an answer is empty.
List(t) ==
    /\ At(t, "list")
    /\ LET r == request[t]
           p == r.entry.path
           entries == <<".", "..">> \o Listing(p)
           end == IF r.offset + Buffer <= Len(entries) THEN r.offset + Buffer ELSE Len(entries)
       IN IF KindAt(p) # Dir THEN Failed(t)
          ELSE IF end <= r.offset THEN Goes(t, To(t, "answer"))
          ELSE Goes(t, [r EXCEPT !.seen = @ \o SubSeq(entries, r.offset + 1, end),
                                 !.offset = NextOffset(end), !.step = "entry"])
    /\ Free /\ UNCHANGED <<mount, kernel>>

Answer(t) ==
    /\ At(t, "answer")
    /\ Goes(t, Idle)
    /\ Free /\ UNCHANGED <<mount, kernel>>

\* Another client of the volume: whole functions, without this mount.
Others ==
    /\ Spend
    /\ \E p \in UNION {[1..n -> Names] : n \in 1..MaxDepth} :
          \/ \E i \in Written(p), b \in Bytes : CanWrite(p) /\ Becomes(None, Idle, AfterWrite(i, p, <<b>>))
          \/ CanRemove(p) /\ Becomes(None, Idle, AfterRemove(p))
          \/ \E q \in UNION {[1..n -> Names] : n \in 1..MaxDepth} :
                CanMove(p, q) /\ Becomes(None, Idle, AfterMove(p, q))
    /\ UNCHANGED <<mount, kernel>>

Work(t) ==
    \/ ChildPath(t) \/ SecondPath(t) \/ Entry(t) \/ Call(t) \/ Remember(t)
    \/ Truncate(t) \/ AllocateHandle(t) \/ ReadPath(t) \/ ReadRange(t)
    \/ Load(t) \/ Save(t) \/ SetTimes(t) \/ List(t) \/ Answer(t)

Next ==
    \/ \E t \in Threads : Work(t) \/ \E op \in ops[t], ino \in known : Request(t, op, ino)
    \/ \E f \in files : Release(f)
    \/ Others

Spec == Init /\ [][Next]_vars

-----------------------------------------------------------------------------
(* Safety.                                                                 *)

\* The maps have every inode and every file that the kernel can ask for, so
\* inode_path and open_path never fall back to another path (and never call).
Resolvable ==
    /\ known \subseteq DOMAIN inode_paths
    /\ \A f \in files : f[1] \in DOMAIN open_files /\ f[2] \in known

\* A read through a file that is still where it always was answers with that
\* file's contents, whatever else was moved, replaced or opened: no handle is
\* ever given to two files (allocate_handle, open_path).
ReadsOwnUnlessMoved ==
    [][\A t \in Threads :
          LET r == request[t]
          IN /\ r.op = "read" /\ r.step = "range" /\ request'[t].step # "range"
             /\ r.ino \in DOMAIN nodes /\ Cardinality(past[r.ino]) = 1
             => request'[t].step = "answer" /\ request'[t].data = nodes[r.ino].data]_vars

\* A write during which nobody else changes the volume changes its own bytes of
\* its own file, pads with zeros and leaves every other byte alone, wherever
\* the file has been moved since the kernel looked it up (write).
AloneWriteExact ==
    [][\A t \in Threads :
          LET r == request[t]
              old == nodes[r.ino].data
              new == nodes'[r.ino].data
          IN r.op = "write" /\ r.step = "save" /\ request'[t] = Idle /\ r.alone =>
                /\ DOMAIN nodes' = DOMAIN nodes
                /\ \A i \in DOMAIN nodes \ {r.ino} : nodes'[i] = nodes[i]
                /\ Len(new) >= r.offset + 1 /\ new[r.offset + 1] = r.byte
                /\ \A k \in DOMAIN old \ {r.offset + 1} : k \in DOMAIN new /\ new[k] = old[k]
                /\ \A k \in DOMAIN new \ DOMAIN old : k = r.offset + 1 \/ new[k] = Zero]_vars

\* A directory that nobody changes while it is read is listed completely, each
\* name once, however many answers that takes (readdir and its offsets).
ListingExact ==
    \A t \in Threads :
        LET r == request[t]
        IN r.op = "readdir" /\ r.step = "answer" /\ r.alone =>
              r.seen = <<".", "..">> \o Listing(nodes[r.ino].path)

-----------------------------------------------------------------------------
(* The cache.  The kernel drops its attributes after TTL, 250 ms, and asks *)
(* for those of an inode in use again (getattr); requests are served.      *)

Revalidate(ino) == \E t \in Threads : Request(t, "getattr", ino)

FairSpec ==
    /\ Spec
    /\ \A t \in Threads : WF_vars(Work(t))
    /\ \A ino \in Ids : SF_vars(Revalidate(ino))

\* Changes come to an end here (changes); from some time on the map then
\* has the true path of every inode the kernel uses that is still there, though
\* answers may be remembered in another order than they were given.
CacheSettles ==
    <>[](\A i \in known \cap DOMAIN nodes : inode_paths[i] = nodes[i].path)

=============================================================================
