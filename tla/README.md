# A verification project for PostgreOS

PostgreOS keeps directory trees in PostgreSQL and serves them through SQL
functions, a Rust client library, a daemon on a Unix socket, a command line
and a FUSE mount. This directory holds TLA+ modules of its core, TLC
configurations that check them on small instances, and TLAPS proofs about them
for instances of any size. Paths below are relative to the repository root.

## 1. The system

| part | source | state it keeps | operations |
| --- | --- | --- | --- |
| Volume storage | `src/postgres/sql/001_initial.sql`, schemas `pgos` and `pgos_private` | tables `volumes`, `zones`, `zone_entries`, `content_objects`, `content_blocks` and one partition per `content_segments` row; staging schemas of running imports | `create_volume`, `remove_volume`, `mkdir`, `mkdir_many`, `write_file`, `import` (prepare, stage, apply), `import_text`, `copy`, `move`, `remove`, `remove_many`, `set_times`, and the triggers that keep a zone's counters |
| Volume queries | the same file | none | `stat`, `list`, `walk`, `find_paths`, `find_output`, `disk_usage`, `disk_usage_fast`, `read_range`, `search_*` |
| Content blocks | the same file, `src/postgres/blocks.rs` | none; blocks once written are not changed | `split_text_blocks`, the block writer of `import_text` |
| Database client | `src/postgres/mod.rs` | a connection pool | one method per SQL function; `import` and `import_text` are transactions of several statements |
| Paths and search core | `src/core/` | none | normalization of paths; conclusions from patterns (literals, words, runs of letters), translation of GNU patterns, matching of blocks |
| Daemon | `src/bin/pgosd.rs` | one map, shared by all connections, of the volume ids resolved in the last 30 seconds; the bound socket; per connection a response buffer | one thread per connection, requests answered in order |
| Protocol and client | `src/protocol.rs`, `src/client.rs` | one stream behind a mutex | framed requests and replies with a size limit, streamed search replies |
| Mount | `src/bin/pgos-mount.rs` | map from inode to path, open handles | kernel requests on eight threads, each one or more client calls |
| Command line | `src/bin/pgos/` | none | maps arguments to client calls; as `cp`, `rm`, `find` and `grep` it decides whether the database or Debian's command answers |
| Deployment | `scripts/`, `Dockerfile` | none | the entry point starts the daemon, waits for its socket and mounts |

How they interact: the command line and the mount call the client; the client
sends a frame to the daemon; the daemon calls the database client; it calls
one SQL function per request, as one transaction. The SQL functions are the
only code that changes the tables, and they call each other
(`write_file` blockizes a zone and then reclaims segments; `remove` reclaims;
`move` deletes a file at its destination), with statement triggers adding to
the counters of the zones. So the volume is the core of the system, and the
rest forwards to it or caches what it said.

Which behaviours are hard, part by part:

- *Volume storage.* A node has two representations: a directory may be a row of
  `zones` or a row of `zone_entries`. One absolute path resolves through the
  deepest zone above it; a move rewrites zone paths by prefix and leaves
  parent pointers; subtrees are chosen by `LIKE`; content is shared by copies
  and dropped by reference; counters stand in for rows. A long legal sequence
  of calls must keep all of these in agreement. Correct means: every node sits
  in a directory, has one path and is found there, counters and sizes are
  exact, shared content survives as long as it is used, and each call does to
  the tree what its name says.
- *Overlapping transactions.* The functions check before they write and take few
  locks; under READ COMMITTED two of them can pass their checks together. Correct
  means: whatever overlaps, no entry loses its content, counters stay exact, and a
  call changes only what it was asked to.
- *Volume queries.* Fast paths (`find_output`, `disk_usage_fast`) must answer
  what the slow ones answer.
- *Search.* Lines are left out by the database before anybody matches them, on the
  strength of what a pattern is concluded to require; and a pattern written for
  one regular expression engine is given to another. Correct means: grep prints
  exactly what GNU grep prints, or GNU grep is run.
- *Content blocks.* Block boundaries, line numbers and byte ranges must cover a
  text once.
- *Daemon, protocol.* Several threads share one stream without request numbers, so
  the two ends must never disagree on whose answer the next frame is, also when
  a frame is over the limit, a caller's pipe breaks in the middle of an answer, or
  either end dies. Correct means: answers are whole and go to their callers,
  every call returns, and a call's outcome is true of the database. A daemon that
  starts finds the socket file of one that died, or of one that lives; volume ids
  in its cache may be stale. Correct means: a start takes no live socket away and
  ends up serving, and no request runs in a volume of another name.
- *Mount.* Cached paths that go stale after a rename; a write request is three
  client calls, so two of them on one file can lose an update; a directory is
  listed in several answers. Correct means: the cache settles on the true paths,
  a handle stays with its file, and a request that nobody disturbs is exact.
- *Links.* `cp`, `rm`, `find` and `grep` stand in for Debian's commands, which walk a path
  through the tree where the links read it as text. Correct means: whatever
  reports success did what Debian's command would have done.

`PROJECT.json` lists these hazards at their lines, each with the properties
that would catch it going wrong, or with the reason why none does.

## 2. The modules

`A -> B` means that A EXTENDS or INSTANCEs B.

    MCVolume -> Query -> VolumeTree -> Volume -> Namespace      VolumeTree -> FileTree
    MCTransactions -> Transactions
    MCBlocks -> Blocks                     MCTimes -> Times
    MCChannel -> Channel -> RemoteCall     MCMount -> Mount
    MCDaemon -> Daemon -> Startup, VolumeCache
    MCGrep -> Grep -> Patterns -> Search   MCLinks -> Links
    FileTreeProofs -> TreeProofs -> VolumeProofs -> Volume    TreeProofs -> Query
    ChannelProofs -> Channel      TransactionsProofs -> Transactions
    BlocksProofs -> Blocks        DaemonProofs -> Daemon      MountProofs -> Mount

### The volume

**`Namespace.tla`** - how a volume stores a tree, as operators over a database
state `d`, a record of five tables: `zones` and `entries` (functions from node
ids to rows), `objects` (content objects with their text and segment),
`segments` and `staging`. A path is a sequence of names, `<<>>` is `/`. It
defines lookup (`LocateZone`, `KindOf`, `EntriesFor`), the `LIKE` test
(`LikeBelow`), statements on `zone_entries` with the triggers they fire
(`InsertEntries`, `UpdateEntries`, `DeleteEntries`), rows, blockization and
reclamation. The `LIKE` pattern of a subtree is the path itself, unescaped: a path with a
backslash in it, `Escaped`, has a pattern that misses what is below it, and `Wild` holds the
pairs of paths that match all the same because of a wildcard or an escape. Both are empty except
where a run is about such names; `PlainPaths` says so, and is the assumption of the theorems on subtrees.

**`Volume.tla`** - one volume. Each SQL function that changes it is an action of
the same name, standing for the whole transaction: checks, statements, trigger
updates, blockization, reclamation, then `Commit`, which needs the unique
indexes to hold. A function that raises is an action that is not enabled,
since the exception undoes the transaction. `Spec` allows any call with any
arguments at any time. `GuardedSpec` restricts it to callers that look at the
kind of their targets first, as the kernel does before it calls the mount: no
write to a directory, no batch `mkdir` over an existing path, no batch removal
of a directory that holds something. The invariants that the repository's own
commands can break without these checks are stated for `GuardedSpec`.

**`FileTree.tla`** - the promise: a file tree is a function from paths to nodes, and
a call makes directories, puts a file, grafts a tree, copies, moves or prunes
a subtree. **`VolumeTree.tla`** maps a volume's tables to such a tree (the node a
lookup of each path finds, with the contents a reader gets) and states that
every call implements one of these operations (`Refines`).

**`Query.tla`** - the read-only functions and what they promise: a listing shows the
directory's children, a recursive query the subtree, and the fast paths answer
as the slow ones.

**`Transactions.tla`** - calls that overlap. `Volume` takes each function in one step;
here a call takes one for each statement: the checks (`CheckTarget`,
`CheckParent`, ...), the rows a DELETE or UPDATE finds (`Select`) and, after waiting for
whoever has changed them, the rows it then changes (`Matched`: the condition is
tested again on the new row), inserts and upserts, the trigger's update of the
zone's counter, the two halves of reclamation, `Commit`, or an exception or a
deadlock's victim (`Abort`). `Blockers` says whom a statement waits for. A
statement sees what is committed and its own transaction's changes (`View`). All
entries are in one zone, the root, so a row has one path.

**`Blocks.tla`** - how a text becomes blocks and how a range of it is read back, byte
by byte: `write_blocks` of the database client (`ReadLine`, `LineTooLong`,
`WriteBlock`, `InvalidBlock`) and `split_text_blocks` of the database (`SplitBlock`).

**`Times.tla`** - the mount's `setattr` of one time, which reads the other and writes
both, with the units of every conversion between. The numbers of units in a second
are parameters.

### Daemon and client

**`RemoteCall.tla`** - what a caller may rely on when it sends operations through
the daemon: each runs at most once and only while its caller waits; success
means committed; an error from the daemon means that nothing changed, or that
the daemon itself could not learn the end; a call whose connection was lost, or
whose own output broke, may have run or not.

**`Channel.tla`** - one connection: a `Client` shared by threads, the socket, the
daemon's thread and the database's part in each operation. `Lock` is the mutex;
`Send`, `RequestTooLarge`, `SendFails` are `write_frame` of the request; `ReadError`,
`ReadAnswer`, `ReadData`, `ReadDone`, `BreakPipe` and `LostReply` are what `call` and
`stream_output` do with `read_frame`; `ReadRequest` to `WriteFails` are
`serve_connection`, with `ResponseBuffer` in `Produce` and `Flush`; `Commit`, `Abort` and
`Orphan` are the ends of an operation in the database, which come on their own
once the daemon has hung up; `Crash` is the daemon's death. Output is
counted in units, a data frame carries a range of them, and a frame names its call
only for the properties. Whether a request or an answer is over the size
limit, and whether an operation fails, is left open. The database behind it is
reduced to what becomes of each operation; `Volume` is what an operation does.

**`Startup.tla`** - daemons that take a socket's path, one system call at a time
(`Stat`, `Connect`, `Remove`, `Bind`, `Listen`, `Permit`), die at any of them and leave their
file behind; and the container's entry point, which starts one, waits for the file and
mounts (`Stop` is the end of the container, by the script's own `exit 1` or otherwise). A restart is the start of another daemon. Nothing keeps two of them from starting at once,
and then each may take the path from the other, after it has listened too (`TakesNoneAlive` is false,
section 5); `crossed` records whose starts overlapped, and the properties say what is true of all others,
beside whatever the crossed ones do.

**`VolumeCache.tla`** - the map of volume names to ids that the threads of all
connections share, while volumes are removed and made again under their names. A
thread that misses asks the database and stores what it heard in a later step. Age
is counted in ticks.

**`Daemon.tla`** - the two together. Each process has a map and threads of its own, which begin empty and
end with it, while the volumes and the socket's file outlive it. Two processes can serve at once, one
with connections from before its path was taken; they share nothing but the database, so
the map and the threads of one of them are followed, `Observed`, which can be any.

### Mount, links and search

**`Mount.tla`** - the kernel's requests on several threads over the map of inodes and
the open files, each request a sequence of client calls and accesses to the maps;
other clients change the volume between any two of them. The volume is the tree
that `Volume` implements (`Refines`), with the ids of its rows. The kernel sends
requests for inodes that it was told of; which kinds of request each thread
serves, and the number of changes, come from a set `Workloads`, one of them per
behaviour. `past` remembers every path an id has had, for the properties.

**`Links.tla`** - the links named `cp`, `rm` and `find`: what they accept, what they run instead
otherwise, how they read a path, and beside it what Debian's commands do with the
same arguments. Debian's commands are not in the repository; they are modelled by
the documented behaviour of GNU coreutils and findutils, and marked external.

**`Search.tla`** - what `core/search.rs` concludes from a pattern: the literals one of
which is in every match, the word, the run of letters, and the translation for the
Rust engine or its refusal. A pattern is the tree that the parser of the `regex_syntax` crate
makes of it; `Matches` says what both engines mean by it (the engines themselves are
external). **`Patterns.tla`** builds every pattern up to a number of operators. **`Grep.tla`**
is one run of grep on top: the choice between the four ways to answer (`Reference`,
`Stream`, `File`, `Tree`), the rows that the database sends, and what is printed of them,
with `Expected` for what GNU grep prints. This tower uses recursive operators and is
only model-checked.

**`MC*.tla`** - values for the constants. **`*Proofs.tla`** - the theorems.

A definition whose name starts with `Broken` is a variant of the operator it
precedes, with a mistake that such code plausibly could have. It is used to see
that the properties notice the mistake and is no part of any specification.

What is abstracted: names, contents and ids are model values; sizes are
numbers assigned to contents; owners, modes and link targets are left
out, as no modelled property depends on them. `Volume` has one volume, because every
statement is restricted to one volume id. Ids of deleted rows may be used
again in it, which PostgreSQL's sequence and uuids would not do; this adds behaviours
and keeps the sets of ids small. `Mount` does give each row a new id, since an inode
that came back would be another matter.

## 3. What is checked

All runs are exhaustive for their bounds. Deadlock is checked in the runs of `Volume`;
the others come to an end by their bounds (calls, changes, commands), or when a
program has exited.

| run | specification, bounds | question and answer |
| --- | --- | --- |
| `volume` | `Spec`; paths `/`, `/a`, `/b`, `/a/a`, 3 node ids, 3 objects, 2 segments, generations up to 3 | Any sequence of calls, whatever their callers looked at, keeps rows typed and placed, counters exact, sizes true and referenced content present, and generations rise with every change. |
| `deep` | `GuardedSpec`; 6 node ids, two branches three levels deep, text contents only | Zones inside zones and entries below them are imported, moved, copied and removed: every node has a directory and one path that resolves to it, text is in blocks, no entry outlives its zone, every call implements `FileTree`, and listings, recursive queries and fast paths agree with the tree. |
| `transactions` | 2 clients, 4 calls of mkdir, write, copy, move, remove, remove_many, remove_volume over `/a`, `/a/b`, `/c` | No overlap costs an entry its content or the counter its truth, and a removal deletes nothing that has moved away. |
| `blocks` | all texts of up to 8 bytes of a letter, a newline and an invalid byte; blocks of 3, lines of at most 4 | Both writers store the whole text in true, aligned blocks, and every range reads as those bytes. |
| `channel` | 3 calls, two of them streaming, 4 units of output in frames of 2, room for 2 frames | Whatever fails and wherever, a usable connection carries one conversation, callers get their own answers in order and whole, every call returns, and the connection implements `RemoteCall`. |
| `daemon` | 3 daemons, 2 threads, 2 names, 2 ids, lifetime of 1 tick, 2 changes of volumes; any file left at the path | Daemons start at any time and die anywhere: those whose starts do not overlap take only stale sockets, come to serve and stay reachable, whatever the others do; a stale id reaches no other volume and dies out. |
| `mount` | `FairSpec`; 2 threads, `/a` and `/a/b`, 2 handles, 2 entries per answer, 1 or 2 changes | The map settles on true paths, no handle is shared, an undisturbed write is exact, and an undisturbed listing complete. |
| `links` | 2 names, paths of 2 names, 4 commands or other changes; `..` and `.` only in the arguments of `MapsAsKernel` | What the links report as success is what Debian's commands would have done. |
| `grep` | patterns of up to 3 operators over 7 atoms, lines of up to 3 chunks; 8 patterns with all options, 2 files of which one may be binary, 2 volumes, blocks of 1, 2 and 4 lines | Narrowing loses no match, a translated pattern selects the same lines, and of text files grep prints what GNU grep prints, has GNU grep print it, or fails. |
| `batch_removal`, `like_wildcard`, `touch_one` | as named | What the repository says and the code does not do; section 5. |

Why the bounds are enough for what they are for. *Volume:* the smallest interesting
configurations are a zone inside a zone with an entry below (three levels, `deep`),
two entries that share an object, an overwrite of one of the two, and a segment that
loses its last reference (`volume`). Three objects are a shared old content and two
new ones. A generation counter stops at `MaxGeneration`, and `GenerationTracks` exempts
that value; 3 lets two consecutive changes be seen. `WithinBounds` stops actions that
would place a node outside `Paths`. *Transactions:* every pair of calls overlaps in every
order of statements, and with four calls each client makes a second one on what the
first left. *Blocks:* eight bytes are more than two blocks, so the last, a full and a
middle block all occur, with lines shorter and longer than a block and than
`MaxLine`. *Channel:* an answer of up to 4 units is none, a part of a frame, one or two
full frames, or a full and a partial one, and with the final frame it exceeds the
socket's room, so the daemon has to wait for the reader; three calls are one that fails
or breaks its pipe, one that follows it on the connection, and one that waits
for the mutex meanwhile. *Daemon:* three daemons are two whose starts overlap and a third before,
beside or after them, or a daemon and two restarts; the second is the one whose threads are followed, so that it has
others before and after it. Processes are numbered as they start, which leaves out no behaviour but their
renaming. Two changes are a volume removed and made again under its name with another id, or one volume
removed and another made; two threads store the answers of two queries in the wrong order around a
change, or stale ones, one after the other. *Mount:* two entries per answer make a directory of
`.`, `..` and two names three answers long; two handles are one that is closed and one
that follows. The eight threads of the program interact through the maps and the volume only, two
steps at a time. *Grep:* `MinRun` is 8 as in the code, `MaxRepeat` stands for 255, and
`Long` is a pattern beyond it; a command with it fails.

Fairness. None is assumed of a volume, of transactions, blocks, links and grep, of which
everything stated is safety. In `Channel` each client thread, the daemon's thread and the database's
operations are weakly fair: the first two are threads of running processes that block only
on the mutex and the socket, the third says that a statement ends and that a
caller's writer takes or refuses what it is given. Nothing makes a caller call,
an operation produce output, or the daemon die. Weak fairness of `Lock` is
enough since each call is made once: later the mutex is free for the last
waiter. With threads that call without end, `std::sync::Mutex` promises no turn
to any one of them, and nothing is claimed for that. In `Daemon` a starting process goes on
(`StartFairness`), time passes, and a thread that serves a request goes on
(`CacheFairness`): these are sequential programs whose steps do not block. Nobody has to
start a daemon, and a daemon may die. In `Mount` each thread goes on with the request it
has (`WF_vars(Work(t))`), and the kernel, which forgets attributes after 250 ms, asks again
for every inode it knows whenever a thread keeps becoming free (`SF_vars(Revalidate(ino))`: strong,
since the threads are busy in between). No thread has to be sent any other request. `CacheSettles`
is about the time after the last change; while changes go on nothing is claimed.

Each property is checked not to be vacuous by a mutant (`PROJECT.json`,
`mutants`): a named variant of a modelled operator under which TLC finds the
property violated.

## 4. What is proved

Each theorem holds for every value of the constants that meets the assumptions named
in the modules.

### The volume

`VolumeProofs.tla`, for `Spec` (any set of names, contents, batches and staged trees, any finite
set of node ids, since a sequence of PostgreSQL ends; a `LIKE` match has more names than its
pattern's path; a batch is finite, being an array; a staged file has contents and nothing else has,
as the import stores `NULL` for it):

| theorem | says |
| --- | --- |
| `Invariant` | `Spec => []Good(db)` |
| `TypesKept`, `ContentKept`, `ZonesKept`, `PlacesKept`, `SizesKept` | `TypeOK`, `ContentResident`, `EntriesHaveZones`, `EntriesPlaced`, `SizesAgree` are invariants |
| `CountersKept` | `CountersExact` is an invariant |
| `GenerationsKept` | `Spec => GenerationTracks` |

`GuardedNext` is `Next` with conditions, so all of these hold of `GuardedSpec` too. None of the invariants is
inductive alone. `Good` conjoins what each needs of
the others: an entry's row is typed, belongs to a zone that exists, agrees with
itself (`rel = Append(dir, name)`), refers to an object that exists, and has the
size of its contents; objects refer to published segments; zone and entry ids
are disjoint; and a volume with zones has a zone at `/`. The last part is what
makes every lookup succeed: `LocateZone` chooses a deepest zone above a path,
and that one exists because some zone is above it and the depths below a path
are bounded (`Located`, by well-foundedness). `SizesAgree` needs that
blockization maps files to objects one to one and that new objects have fresh
ids; `ContentResident` that reclamation keeps every segment with a referenced
object; `EntriesPlaced` after copy and move that whatever the `LIKE` pattern
selects has more names than the pattern's path, so its last name survives the
change of prefix (`RebaseGood`).

The proof is laid out in that order: facts about paths; what each SQL
statement leaves in each table (`InsertParts`, ...); preservation of `Good` by each
statement (`InsertGood`, `UpdateGood`, `DeleteGood`, `DeleteZonesGood`, `ReclaimGood`,
`BlockizeGood`, ...); lookups; the rows that calls build; one lemma per action;
the theorems.

`CountersKept` is about sums. The module begins with what is needed of them:
a sum over a finite set of ids is that of the set without one id plus that one (`MapThenSumSet`
is a recursive function, so it can be unfolded), and what follows for disjoint unions,
renamed ids and sums zone by zone. Each is an induction on the size of the set; it is done by
taking a counterexample of the least size, which exists because the numbers are
well-founded, so no induction theorem with an operator parameter is used. With them `Counted`
(every zone's counters are the number and the bytes of its rows) is preserved by each SQL
statement together with its trigger (`AfterInsert`, `AfterDelete`, `AfterUpdate`), and so
by each call, however many statements it makes. `GenerationsKept` is a step property: `Tracks`
compares the state after a statement with the one before the call, for rows that both have.

### The tree

`TreeProofs.tla`, for `GuardedSpec`. A claim about subtrees is false if a name has a `LIKE`
wildcard or escape in it (run `like_wildcard`; `FindEscape.cfg`), so all but the last assume
`PlainPaths`, as the runs that check these properties do (`MCWild`, `MCEscaped`). For any other names,
and any number of nested zones:

| theorem | says |
| --- | --- |
| `TreeInvariance` | `GuardedSpec => []IsTreeOf(db)` |
| `TreeConnected`, `TreeAddressable` | `Connected`, `Addressable` are invariants |
| `ListingsExact`, `WalksExact`, `ShortcutsExact` | `ListAgrees`, `WalkAgrees`, `FastPathsAgree` are invariants |
| `TextIsStored` | `TextInBlocks` is an invariant, whatever the names |

Neither of the first two invariants is inductive. A path is looked up through the deepest zone
above it, and a call that inserts, moves or imports a zone changes which zone that is for
every path below, so one row that a zone lies over is lost to lookups though nothing
about it changed. `IsTreeOf` therefore speaks of the columns: all absolute paths are distinct, over
zones and entries together (`Distinct`); the directory of an entry is a directory of its own zone or
the zone itself (`Rooted`); a zone's `parent` names the entry or zone whose path is one
shorter (`AllAttached`), and the root has none (`RootAlone`); and no zone lies
between an entry and its zone (`Unshadowed`). From this and `Good`, what `LocateZone`
finds for a row's path is the row's zone (`LookupFinds`, `Resolves`), so lookups, and with them
`tree`, are the rows. Then one lemma for each call. A move of a zone rewrites the paths of all
zones below it, and that it leaves `Unshadowed` true needs that nothing was at or below the
destination, which `CanPlace` tests for one path and the tree extends to all; a removal of a
directory takes zones and entries by two statements, and what is left is a tree since whatever
is below something removed is removed too (`PlainPaths` is used here and in moves).

Listings and walks are then sets of rows (`ListAgrees`, `WalkAgrees`), and the shortcuts add
sums: `du` takes the bytes of whole zones from their counters, which by `CountersKept` are sums over
rows, and the sums of the zones below a path are the sum over the subtree
(`SumOfZones`). `TextIsStored` needs none of this: which zone a call writes to and which it
blockizes are both what `LocateZone` says before the call, so `TextStored` follows rows by their ids.

### The volume implements the file tree

`FileTreeProofs.tla`, for `GuardedSpec` and `PlainPaths`, with `Batches` of any size
except where `remove_many` loops (see below):

| theorem | says |
| --- | --- |
| `VolumeImplements` | `GuardedSpec => Refines`: `tree` behaves as `FileTree!Spec` allows |

This is what a volume is for: whatever a call does to zones, rows, counters, objects and
segments, a reader sees one command on the tree or no change. `TreeInvariance` says that
the rows form a tree before and after a step; here the step itself is compared. The
mapping `tree` is a function whose values are found with `CHOOSE` and whose contents are behind
objects that copies share, so it is never computed. Instead `Image(d, t)` says that the function `t` has
a node for each zone and entry of `d`, with its path, kind and contents, and no other node;
rows that form a tree make exactly one such `t` (`TreeImage`, `ImageUnique`), so a call that commits
`d` makes `tree'` equal to any `t` for which `Image(d, t)` is shown (`CommitImage`). What is left is to
show it for the `t` that `FileTree` names, and that is a calculus of three operations on images:

- rows beside the old ones put a tree over the tree (`ImageUnion`): `mkdir` and its batches,
  imports;
- rows whose paths are in a set make the part of the tree in that set (`ImageCut`), so deleted rows
  leave the rest (`LeftImage`): the removals, and what a move clears away first;
- rows that take every path at or below `src` to the same place below `dst`, with contents
  unchanged, plant the subtree there (`ImagePlanted`): copies, and with the cut moves.

Each lemma of a call then shows that the statements of the call pick the right rows.
`ZoneTakes` and `EntryTakes` say so of the two representations: at and below a zone are the zones with its
path as prefix and all their entries; at and below an entry are rows of its own zone, provided that no
zone is attached below, which is why `copy` and `move` look for one and `remove` takes them along.
`RebasedAt` and `ZonesMoved` say that the two rewritings of paths, of `relative_path` in a row and of
`path` in a zone, come to the same shift. Copies share objects; that no later call changes what the
other reads is in `Stays`, which every lemma shows of the rows that it does not name, through
blockization and reclamation (`BlockizedImage`, `ReclaimImage`). `remove_many` needs most: its single
DELETE takes exact rows, which is a prune only because the guard of `GuardedSpec` leaves nothing below
them (`ExactTakes`), and its count of deleted rows equals the count of paths only if every path
exists (`ExactCounts`, by the cardinality of an injective image); without the guard the
claim is false (run `batch_removal`). The loop that `remove_many` runs when a path is a zone is
modelled, and proved, for two paths; the second round sees the tree that the first leaves
(`CutTwice`).

### Overlapping transactions

`TransactionsProofs.tla`, for any clients, calls, finite initial rows and contents, and every
interleaving of statements, including aborts:

| theorem | says |
| --- | --- |
| `Invariance` | `Spec => []IInv` |
| `ContentStaysResident`, `CountStaysExact` | `ContentResident`, `CountExact` are invariants |
| `RemovalStaysWithin` | `Spec => RemovesItsOwn` |

All three speak of what is committed, and a commit writes at once what was
prepared over many steps, so the invariant must say of each open transaction that what it
holds would be right if it committed now, whatever the others do until then. `OwnOK` says it of one
transaction and the stored tables: deleted rows are stored rows, the content of a row it
has put is new, locked by it or the row's own (`Sourced`), no row that it sees has content that it
drops (`DropsOK`), and the counter it has prepared differs from the stored one by the rows
it has added and removed (`Counted`, but for the statement whose trigger comes next). `Apart`
says that two transactions hold different rows, that only one holds the counter, and that
neither drops what the other has locked. A step of one client must preserve `Apart` with
all others, which is where `Blockers` is used; a commit changes the tables under everyone's
`OwnOK`, which is where `Apart` is used.

### The connection

`ChannelProofs.tla`, for any set of calls, frame size, output bound and room of the
socket (all positive, `SizesAssumption`):

| theorem | says |
| --- | --- |
| `Invariant` | `Spec => []Conversation` |
| `FramesTyped` | `TypeOK`: in particular no call ends with an unexpected response |
| `OneAtATime` | `OneConversation` is an invariant |
| `CallsAreHonest` | `Spec => Implements`, the refinement of `RemoteCall` |
| `CallersGetTheirOwn` | `OwnAnswers` is an invariant |

`OneConversation` is not inductive: that the socket is empty when the mutex is
free follows from where the last frame of an answer is. `Conversation` adds
that every frame in the socket but the last is a middle one (data of a streaming
call), that the last one is final exactly if the daemon reads again, that a
request is in the socket only while the daemon reads and no frame is there, that
every frame and the reply in hand are true of the database (`IsTrue`), and that
after a shutdown nobody reads and no operation begins. The last two carry the
refinement: an outcome is copied from a frame, and a call is still open when
its operation begins. `CallersGetTheirOwn` follows a unit of output on its way: what the caller has
been handed, then the frames in the socket, then the buffer make one chain without a gap up to
what the operation has produced (`Follows`, `Handed`, `ToCome`), as long as the connection is
open, and the final frame is at its end.

### Blocks

`BlocksProofs.tla`, for any set of texts, any block size and any longest line:

| theorem | says |
| --- | --- |
| `Invariance` | `Spec => []IInv` |
| `ColumnsTheorem`, `AlignedTheorem`, `StoredTheorem` | `ColumnsTrue`, `LineAligned`, `StoredWhole` are invariants |
| `RangesTheorem` | `RangesExact` is an invariant |

The columns of a block are counters that the writer carries along; that they are true
of the text needs `NextColumns` and `LineCount`, which relate the counters to the
newlines read so far. Both make an exception for the end of the text, and must: a last
line without a newline is counted by `write_blocks` as a line, so after it
`firstLine` is one too high; no block can follow to inherit it. The one fact about
sets behind it is that newlines of adjoining stretches add up (`NewlinesAdd`).

`read_range` takes all blocks from the last that starts at or before the first byte. Over blocks
that follow one another these are the blocks that share a byte with the range (`TakesIs`), and
each contributes what lies between two ends (`PieceIs`). What the aggregate has after a number
of blocks is thereby known in closed form (`OneBlock`), the form solves the recursion (`Solved`),
and the recursion has one solution (`ReadsAgree`): of two, take the least number of blocks
for which they differ. The lemma `RangeRead` says it for every offset and count, where the property
quantifies over those up to one past the end, for TLC.

### The daemon

`DaemonProofs.tla`, for any sets of processes, threads, names and ids:

| theorem | says |
| --- | --- |
| `PathInvariance` | `Spec => []PathInv` |
| `ReachableTheorem`, `TakesOnlyStaleTheorem` | `Spec => []Reachable`, `Spec => TakesOnlyStale` |
| `CacheInvariance`, `RunsInItsVolumeTheorem` | `CacheInv`, and with it `RunsInItsVolume`, are invariants |

A daemon acts on what it saw of the file one or two system calls ago. Of a daemon whose start overlaps with
no other's `PathInv` says that this is still so (`Seen`), because it is alone on its way (`Alone`), and that
once it has bound the path, the file is its own and nobody is about to remove it (`Bound`): who is on the way to
`remove` from then on has found that it does not answer, and it does. So however many daemons start over one another
later, and act on what is no longer true of each other, they cannot reach one that started by itself.
That it may be the other way round, a crossed daemon losing its path, is shown by
`FindDaemons.cfg`. `CacheInv` says that an id in the map or in a
thread once belonged to a volume of that very name; as ids are not given out
twice, it can belong to no other now. How old an entry is does not matter for that, so the
theorem holds for any time to live.

### The mount

`MountProofs.tla`, for any number of threads, any workload, any tree and any changes by
others (the tree is a tree, `TreeAssumption`; `None` is no other value):

| theorem | says |
| --- | --- |
| `Invariance` | `Spec => []Inv` |
| `ResolvableTheorem` | `Resolvable` is an invariant: neither map ever lacks what the kernel may ask for |
| `ReadsOwnTheorem` | `Spec => ReadsOwnUnlessMoved` |
| `ReadingInvariance` | `Spec => []Readings` |
| `ListingTheorem` | `ListingExact` is an invariant |
| `AloneWriteTheorem` | `Spec => AloneWriteExact` |

`FairSpec` implies `Spec`, so all hold for it. A thread acts on what it read several calls
ago, so `Inv` says nothing of where an entry is now: what a request carries was true of a
row at some time (`EntryOK`), and a row that is a file stays one while it exists (`Evolves`,
`FileOK`), since ids are not reused. A handle belongs to one file, at a path which that file
has had (`MapsOK`); if it never had another, that is where it is read. That a path has one
row is needed for the last step, and it is here that a move must be shown to
keep the tree (`MoveGood`): nothing lies below the destination only if every beginning of every
path is a directory (`Rooted`), more than the code's test of the parent says. `Readings` is about
requests that no change has disturbed (`alone`): the entry in hand is the row's, the data in hand
are the file's, and what a listing has shown is the beginning of the directory's list up to
the offset (`AloneOK`). It takes that two such requests cannot both change something
unnoticed: every change ends the `alone` of all other requests.

### What is only model-checked

Of the links, `MapsAsKernel` and `SuccessIsDebians`, which are folds over the names of a
path. All of search and grep, whose recursive operators the prover cannot use. Liveness
(`Returns`, `ComesUp`, `Settles`, `CacheSettles`) is out of the prover's reach.

## 5. Where the code and its documentation differ

Three are runs whose counterexample TLC finds, with the quoted lines in
`PROJECT.json` under `findings`.

1. `batch_removal`: `remove_many` for two or more paths, none of them a zone, deletes
   only the rows of these very paths, also when recursive. Entries below the
   removed directories stay behind without a directory.
2. `like_wildcard`: a `_` or `%` in a directory's name acts as a wildcard when its
   subtree is selected, so a recursive command reaches other directories.
3. `touch_one`: `stat` and `inode` put microseconds into a column called
   `atime_nanoseconds`, and `setattr` writes the time it was not asked to change back
   from there: `touch -a` turns a modification time of .5 s into .0005 s.

Further ones have a configuration beside the modules that is run by hand; TLC finds the
named property violated.

| configuration, module | property | what happens |
| --- | --- | --- |
| `FindShadow.cfg`, `MCVolume` | `NoFileAtDirectory` | Writing to the path of an imported directory stores a file beside the directory at the same path; the code's own exception is `not a regular file`. |
| `FindRoot.cfg`, `MCVolume` | `FindRootAgrees` | `find` of files at the root omits files of imported directories, since the pattern becomes `//%`; `du` at the root omits their bytes for the same reason (`UsageRootAgrees`). |
| `FindOrphan.cfg`, `MCTransactions` | `NoOrphans` | `mkdir` below a directory and the removal of that directory overlap, both commit, and the new directory has no parent (`001_initial.sql:1303`, `:1864`). |
| `FindStray.cfg`, `MCTransactions` | `BatchRemovesItsOwn` | The fast path of `remove_many` deletes by id: an entry that is moved away meanwhile is deleted where it is now (`001_initial.sql:2001`). |
| `FindEscape.cfg`, `MCVolume` | `Refines` | A backslash in a directory's name escapes what follows it in the pattern, so a recursive removal, copy or move misses everything below (`001_initial.sql:1915`; `assert_path`, `:2605`, lets the name through). |
| `FindDaemons.cfg`, `MCDaemon` | `TakesNoneAlive` | Two daemons start over a stale file; the slower one removes the socket that the faster one has just bound (`pgosd.rs:186`). |
| the same | `ReadyAnswers` | The entry point takes the socket file of a killed daemon for the new one's readiness and mounts too early (`postgreos-entrypoint.sh:29`). |
| `FindLetterRun.cfg`, `MCGrep` | `RunGuaranteed` | A repetition multiplies the run of its operand: for `( [a-z]){2}` two letters in a row are required, which ` a b` does not have (`search.rs:320`; smaller limits stand for 8). |
| `FindRequiredWord.cfg`, `MCGrep` | `WordGuaranteed` | With `-w`, a literal that the pattern starts with and one that it ends with make a word even if they are two occurrences: `abc[12]abc` (`search.rs:273`). No match is lost by it today: the word is derived only from a single literal, and a query with one takes a branch that ignores the word (`blocks.rs:178`). |
| `FindSpelling.cfg`, `MCGrep` | `SameMeaning` | `x+?` is an optional repetition for GNU grep and a lazy one for the Rust engine; `[a&&b]` and `[[a]b]` are set operations for Rust only (`search.rs:38`). The class `[[:alpha:]]`, of the locale's letters there and of ASCII here, differs in the same way. |
| `FindLink.cfg`, `MCGrep` | `SupportedNeverFails` | Through the link, a search of a file that is no text fails (`001_initial.sql:2785`) where GNU grep says that the binary file matches or not, and a run of more than 255 letters fails because PostgreSQL cannot count so far (`:213`). "An unsupported invocation must retain the behavior of the installed Debian command" (`multicall.rs:32`), but the link decides by the arguments only. |
| `FindDots.cfg`, `MCLinks` | `SuccessIsDebians` | `rm -r d/..` removes the parent of `d`, which Debian's `rm` refuses (`path.rs:30`). |

By the same models, without a configuration: `find` of a missing path prints nothing and succeeds
(`001_initial.sql:938`), `rm -r` of a missing and an existing path removes neither
(`:2006`), and `cp -r` into a directory that exists fails instead of copying below it (`:563`;
`FindDots.cfg` with `IntoCommands` and the property `LeavesAsDebian` shows it). A recursive grep leaves binary files out without a word, as they have no
blocks to join (`001_initial.sql:2050`), where GNU grep says that they match.

The runs `grep`, `links` and `transactions` are given patterns, arguments and schedules without these cases, and
their properties are to be read with that limit: `SameMeaning` and `LiteralsRequired` for patterns of greedy repetitions and of
classes that both engines read alike (of `[a&&b]|abc` the latter fails too), `OutputExact` for text files and for patterns whose run of letters
is really in every match, `SuccessIsDebians` for paths without dots. `SupportedNeverFails`, which fails
whatever the pattern, is in no listed run. In `daemon` the overlapping starts are there, and the
properties exempt the daemons that took part in one.

## 6. What is not modelled

- Overlapping imports, and overlaps of calls in several zones: `Transactions` has one zone. Owners,
  modes and link targets.
- `search_literal`, `search_literal_files`, `literal_output` and `regex_output` (the subcommands that
  search a whole volume), and name patterns of `find`.
- `blockize_zone_segment`'s compression and the physical layout of partitions.
- The connection pool, `init` and `migrate` of the database client: configuration and
  deployment, run before anything else.
- In `Channel`, a mutex poisoned by a panic, and which bytes of a frame were sent when a
  side ended. In the daemon, the dispatch of each operation to its database method,
  one line each; `Channel` has one operation.
- In the mount, `statfs`, `access` and those fields of a reply that no property tells apart.
- Of the command line, the subcommands that print or forward one call (`du`, `locate`, `sql`, `tools`,
  the volume commands).
- What the engines of regular expressions, GNU coreutils, the kernel and PostgreSQL do inside: each is
  modelled by what the code relies on.
- Images, compose files and tests.

## 7. Plan

Left, in this order:

1. Proofs: the links, by a least counterexample over the names of a path; the loop of
   `remove_many` over any number of paths.
2. `Transactions` with a second zone and overlapping imports, whose staging tables are
   separate but whose `apply` is not.
3. The composition of `Mount` with `Transactions` in place of an atomic tree.
