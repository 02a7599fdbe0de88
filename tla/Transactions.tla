------------------------------ MODULE Transactions ------------------------------
(***************************************************************************)
(* Calls of the SQL functions that overlap.                                *)
(*                                                                         *)
(* Volume runs each call alone.  Here a call is a transaction under READ   *)
(* COMMITTED: it takes a step for each statement of its function, which    *)
(* sees what is committed then and the call's own changes, and waits where *)
(* PostgreSQL makes it wait: for a row that another call has changed, for  *)
(* a path that another call is inserting, for an object that another call  *)
(* refers to, for the zone's counters.                                     *)
(*                                                                         *)
(* One zone, the root, holds every entry, so a row has one path.  A row is *)
(* [path, kind, obj]; obj is the content object of a file, None otherwise. *)
(***************************************************************************)
EXTENDS Integers, Sequences, FiniteSets, SequencesExt, Functions

CONSTANTS
    Clients,
    Calls,       \* what a client may call: records with op, path and more
    Rows,        \* the entries at the start: a function from ids to rows
    Objects,     \* the content objects at the start: ids to segment or None
    RowIds, ObjectIds,   \* node_id_seq and gen_random_uuid()
    MaxCalls,    \* bound of the model: calls made
    None

File == 1
Dir == 2

ASSUME RowsAssumption ==
    /\ DOMAIN Rows \subseteq RowIds /\ DOMAIN Objects \subseteq ObjectIds
    /\ IsFiniteSet(DOMAIN Rows)
    /\ Rows \in [DOMAIN Rows -> [path : Seq(STRING), kind : {File, Dir},
                                obj : DOMAIN Objects \cup {None}]]

ASSUME CallsAssumption ==
    \A c \in Calls :
        /\ c.op \in {"mkdir", "write", "copy", "move", "remove", "remove_many", "remove_volume"}
        /\ c.op = "remove" => c.path \in Seq(STRING)

VARIABLES
    rows, objects, segments, count,   \* committed: entry_count is the zone's
    alive,                            \* the volume and its root zone exist
    txn,                              \* the call of each client
    made                              \* calls made so far

stored == <<rows, objects, segments, count, alive>>
vars == <<stored, txn, made>>

Idle == [step |-> "idle", call |-> None, targets |-> {}, n |-> 0, total |-> 0,
         del |-> {}, ins |-> [i \in {} |-> None], uses |-> {}, new |-> {},
         drops |-> {}, zone |-> FALSE, gone |-> FALSE]

Init ==
    /\ rows = Rows /\ objects = Objects
    /\ segments = {Objects[o] : o \in DOMAIN Objects} \ {None}
    /\ count = Cardinality(DOMAIN Rows) /\ alive = TRUE
    /\ txn = [t \in Clients |-> Idle] /\ made = 0

-----------------------------------------------------------------------------
(* What a statement of t sees.                                             *)

\* new @@ old, written out for the provers.
Over(new, old) ==
    [i \in DOMAIN new \cup DOMAIN old |-> IF i \in DOMAIN new THEN new[i] ELSE old[i]]

View(t) == Over(txn[t].ins, Restrict(rows, DOMAIN rows \ txn[t].del))

Within(t, p) == {i \in DOMAIN View(t) : IsPrefix(p, View(t)[i].path)}
IdsAt(t, p) == {i \in DOMAIN View(t) : View(t)[i].path = p}
Children(t, p) == {i \in DOMAIN View(t) : Front(View(t)[i].path) = p}

KindOf(t, p) ==
    CASE ~alive -> None
      [] alive /\ p = <<>> -> Dir
      [] OTHER -> IF IdsAt(t, p) = {} THEN None ELSE View(t)[CHOOSE i \in IdsAt(t, p) : TRUE].kind

Others(t) == Clients \ {t}
Changed(u) == txn[u].del \cup DOMAIN txn[u].ins

\* u inserts at p, or changes the committed row there: a unique index makes an
\* insert at p wait for u.
Claims(u, p) ==
    \/ \E i \in DOMAIN txn[u].ins : txn[u].ins[i].path = p
    \/ \E i \in Changed(u) \cap DOMAIN rows : rows[i].path = p

SegmentObjects(s) == {o \in DOMAIN objects : objects[o] = s}

\* A row refers to an object of the segment.
Referenced(t, s) == \E i \in DOMAIN View(t) : View(t)[i].obj \in SegmentObjects(s)

BrokenForbidden(t, s) == FALSE
\* zone_entries_content_object_fkey, when the objects of s are deleted.
Forbidden(t, s) == Referenced(t, s)

FreshRows ==
    RowIds \ (DOMAIN rows \cup UNION {DOMAIN txn[u].ins : u \in Clients})
FreshObjects == ObjectIds \ (DOMAIN objects \cup UNION {txn[u].new : u \in Clients})

-----------------------------------------------------------------------------
(* Rows a statement is about.                                              *)

Selected(t) ==
    LET c == txn[t].call
    IN CASE c.op = "remove" -> IF c.recursive THEN Within(t, c.path) ELSE IdsAt(t, c.path)
         [] c.op = "remove_many" ->
              {i \in UNION {IdsAt(t, p) : p \in c.paths} :
                  c.recursive \/ View(t)[i].kind # Dir \/ Children(t, View(t)[i].path) = {}}
         [] c.op = "move" -> Within(t, c.path)
         [] c.op = "remove_volume" -> DOMAIN View(t)

\* Once another call's change of a selected row is committed, the statement's
\* condition is tested on the new row: on its path, except where the rows were
\* selected by id (remove_many) or by volume.
BrokenStillMatches(t, i) == i \in DOMAIN View(t)

StillMatches(t, i) ==
    /\ i \in DOMAIN View(t)
    /\ LET c == txn[t].call
       IN CASE c.op = "remove" /\ ~c.recursive -> View(t)[i].path = c.path
            [] c.op = "remove" /\ c.recursive -> IsPrefix(c.path, View(t)[i].path)
            [] c.op = "move" /\ txn[t].step = "delete" -> View(t)[i].path = c.to
            [] c.op = "move" /\ txn[t].step = "update" -> IsPrefix(c.path, View(t)[i].path)
            [] OTHER -> TRUE

Matched(t) == {i \in txn[t].targets : StillMatches(t, i)}

\* The rows that an INSERT of t adds or overwrites.
Copied(t) == Within(t, txn[t].call.path)
NewPath(c, path) == c.to \o SubSeq(path, Len(c.path) + 1, Len(path))
InsertedPaths(t) ==
    LET c == txn[t].call
    IN IF c.op = "copy" THEN {NewPath(c, View(t)[i].path) : i \in Copied(t)} ELSE {c.path}

BrokenCountFree(t) == {}
\* The statement triggers update the zone's row and hold it until the end.
CountFree(t) == {u \in Others(t) : txn[u].zone}

\* The calls that the next step of t has to wait for.
Blockers(t) ==
    LET r == txn[t]
        Claiming(P) == {u \in Others(t) : \E p \in P : Claims(u, p)}
        Changing(S) == {u \in Others(t) : Changed(u) \cap S # {}}
    IN CASE r.step = "insert" ->
              Claiming(InsertedPaths(t))
              \cup {u \in Others(t) : r.call.op = "write" /\ txn[u].gone}
              \cup {u \in Others(t) : r.call.op = "copy" /\
                       \E i \in Copied(t) : View(t)[i].obj # None /\
                           \/ txn[u].gone
                           \/ View(t)[i].obj \in DOMAIN objects /\ objects[View(t)[i].obj] \in txn[u].drops}
         [] r.step = "delete" -> Changing(r.targets)
         [] r.step = "update" ->
              Changing(r.targets) \cup Claiming({NewPath(r.call, View(t)[i].path) : i \in Matched(t)})
         [] r.step = "count" -> CountFree(t) \cup {u \in Others(t) : txn[u].gone}
         [] r.step = "drop" ->
              {u \in Others(t) : txn[u].gone \/ \E s \in r.targets :
                  s \in txn[u].drops \/ txn[u].uses \cap SegmentObjects(s) # {}}
         [] r.step = "volume" ->
              {u \in Others(t) : txn[u].zone \/ txn[u].gone \/ txn[u].new # {}
                                 \/ txn[u].drops # {} \/ txn[u].uses # {}}
         [] OTHER -> {}

-----------------------------------------------------------------------------
(* Steps.                                                                  *)

Goes(t, r) == txn' = [txn EXCEPT ![t] = r] /\ UNCHANGED <<stored, made>>
To(t, step) == [txn[t] EXCEPT !.step = step]
\* An exception: the transaction's changes are dropped.
Raise(t) == Goes(t, Idle)
Ready(t, step) == txn[t].step = step /\ Blockers(t) = {}

First(op) ==
    CASE op = "mkdir" -> "target"
      [] op = "write" -> "parent"
      [] op = "copy" -> "target"
      [] op = "move" -> "source"
      [] op = "remove" -> "target"
      [] op \in {"remove_many", "remove_volume"} -> "select"

Begin(t, c) ==
    /\ txn[t].step = "idle" /\ made < MaxCalls
    /\ txn' = [txn EXCEPT ![t] = [Idle EXCEPT !.step = First(c.op), !.call = c]]
    /\ made' = made + 1
    /\ UNCHANGED stored

\* kind_of the path that a call is about.
CheckTarget(t) ==
    /\ Ready(t, "target")
    /\ LET c == txn[t].call
       IN CASE c.op = "mkdir" -> IF KindOf(t, c.path) = None THEN Goes(t, To(t, "parent")) ELSE Raise(t)
            [] c.op = "copy" -> IF KindOf(t, c.to) = None THEN Goes(t, To(t, "parent")) ELSE Raise(t)
            [] c.op = "remove" -> IF KindOf(t, c.path) # None THEN Goes(t, To(t, "empty")) ELSE Raise(t)

\* "parent directory does not exist"
CheckParent(t) ==
    /\ Ready(t, "parent")
    /\ LET c == txn[t].call
           p == IF c.op \in {"copy", "move"} THEN c.to ELSE c.path
       IN IF KindOf(t, Front(p)) # Dir THEN Raise(t)
          ELSE Goes(t, To(t, CASE c.op \in {"mkdir", "write"} -> "insert"
                               [] c.op = "copy" -> "source"
                               [] c.op = "move" -> "over"))

CheckSource(t) ==
    /\ Ready(t, "source")
    /\ LET c == txn[t].call
       IN IF KindOf(t, c.path) = None THEN Raise(t)
          ELSE Goes(t, To(t, IF c.op = "copy" THEN "insert" ELSE "parent"))

\* "directory not empty"
CheckEmpty(t) ==
    /\ Ready(t, "empty")
    /\ LET c == txn[t].call
       IN IF KindOf(t, c.path) = Dir /\ ~c.recursive /\ Children(t, c.path) # {}
          THEN Raise(t) ELSE Goes(t, To(t, "select"))

\* move: a file at the destination is deleted.
CheckOver(t) ==
    /\ Ready(t, "over")
    /\ LET q == txn[t].call.to
       IN CASE KindOf(t, q) = Dir -> Raise(t)
            [] KindOf(t, q) = None -> Goes(t, To(t, "select"))
            [] OTHER -> Goes(t, [To(t, "delete") EXCEPT !.targets = IdsAt(t, q)])

\* The rows that a DELETE or UPDATE finds when it starts.
Select(t) ==
    /\ Ready(t, "select")
    /\ Goes(t, [To(t, IF txn[t].call.op = "move" THEN "update" ELSE "delete")
                    EXCEPT !.targets = Selected(t)])

\* What follows a statement that changed n rows.
AfterCount(op) ==
    CASE op \in {"mkdir", "copy"} -> "commit"
      [] op = "move" -> "select"
      [] OTHER -> "reclaim"

Counting(t, n) == [To(t, IF n = 0 THEN AfterCount(txn[t].call.op) ELSE "count") EXCEPT !.n = n]

Delete(t) ==
    /\ Ready(t, "delete")
    /\ LET c == txn[t].call
           S == Matched(t)
           n == Cardinality(S)
       IN IF c.op = "remove_many" /\ ~c.force /\ n # Cardinality(c.paths) THEN Raise(t)
          ELSE Goes(t, [Counting(t, -n) EXCEPT
                           !.del = @ \cup (S \cap DOMAIN rows),
                           !.ins = Restrict(@, DOMAIN @ \ S)])

Update(t) ==
    /\ Ready(t, "update")
    /\ LET S == Matched(t)
           moved == [i \in S |-> [View(t)[i] EXCEPT !.path = NewPath(txn[t].call, @)]]
           taken == {View(t)[i].path : i \in DOMAIN View(t) \ S}
       IN IF \E i \in S : moved[i].path \in taken THEN Raise(t)
          ELSE Goes(t, [To(t, "commit") EXCEPT !.ins = Over(moved, @)])

\* The inserts of mkdir and copy.
Insert(t) ==
    /\ Ready(t, "insert")
    /\ txn[t].call.op \in {"mkdir", "copy"}
    /\ LET c == txn[t].call
           source == IF c.op = "mkdir" THEN {None} ELSE Copied(t)
           Row(i) == IF c.op = "mkdir" THEN [path |-> c.path, kind |-> Dir, obj |-> None]
                     ELSE [View(t)[i] EXCEPT !.path = NewPath(c, @)]
           refers == {Row(i).obj : i \in source} \ {None}
       IN /\ Injection(source, FreshRows) # {}
          /\ IF \/ \E i \in source : IdsAt(t, Row(i).path) # {}
                \/ ~(refers \subseteq DOMAIN objects)
             THEN Raise(t)
             ELSE LET f == CHOOSE g \in Injection(source, FreshRows) : TRUE
                  IN Goes(t, [Counting(t, Cardinality(source)) EXCEPT
                                 !.ins = Over([j \in {f[i] : i \in source} |->
                                                  Row(CHOOSE i \in source : f[i] = j)], @),
                                 !.uses = @ \cup refers])

\* The upsert of write, and blockize_zone of what it wrote.
Upsert(t) ==
    /\ Ready(t, "insert")
    /\ txn[t].call.op = "write" /\ FreshRows # {} /\ FreshObjects # {}
    /\ LET p == txn[t].call.path
           o == CHOOSE x \in FreshObjects : TRUE
           found == IdsAt(t, p)
           i == IF found = {} THEN CHOOSE j \in FreshRows : TRUE ELSE CHOOSE j \in found : TRUE
           row == [path |-> p, kind |-> File, obj |-> o]
           put == [txn[t] EXCEPT !.ins = Over([j \in {i} |-> row], @),
                                 !.new = @ \cup {o}, !.n = IF found = {} THEN 1 ELSE 0]
       IN IF ~alive \/ (found # {} /\ View(t)[i].kind # File) THEN Raise(t)
          ELSE \/ Goes(t, [put EXCEPT !.step = "count"])
               \* the size is the same: the trigger has nothing to add
               \/ found # {} /\ Goes(t, [put EXCEPT !.step = "reclaim"])

\* The trigger's UPDATE of the zone; a zone that is gone has no row to update.
Count(t) ==
    /\ Ready(t, "count")
    /\ LET r == txn[t]
       IN Goes(t, [To(t, AfterCount(r.call.op)) EXCEPT
                      !.zone = alive,
                      !.total = (IF r.zone THEN @ ELSE count) + r.n])

AfterReclaim(op) == IF op = "remove_volume" THEN "volume" ELSE "commit"

\* reclaim_content_segments: the query of its loop ...
Reclaim(t) ==
    /\ Ready(t, "reclaim")
    /\ LET idle == {s \in segments : ~Referenced(t, s)}
       IN Goes(t, [To(t, IF idle = {} THEN AfterReclaim(txn[t].call.op) ELSE "drop")
                       EXCEPT !.targets = idle])

\* ... and its body.  DROP TABLE fails if another call has dropped the table,
\* the DELETE of the objects fails if a row refers to one by now.
DropSegment(t) ==
    /\ Ready(t, "drop")
    /\ \E s \in txn[t].targets :
          IF s \notin segments \/ Forbidden(t, s) THEN Raise(t)
          ELSE Goes(t, [To(t, IF txn[t].targets = {s} THEN AfterReclaim(txn[t].call.op) ELSE "drop")
                            EXCEPT !.drops = @ \cup {s}, !.targets = @ \ {s}])

\* remove_volume's last DELETE: zones, segments and objects go with the volume.
DropVolume(t) ==
    /\ Ready(t, "volume")
    /\ IF \E i \in DOMAIN View(t) : View(t)[i].obj # None THEN Raise(t)
       ELSE Goes(t, [To(t, "commit") EXCEPT !.gone = TRUE])

Commit(t) ==
    /\ Ready(t, "commit")
    /\ LET r == txn[t]
           kept == {o \in DOMAIN objects : ~r.gone /\ objects[o] \notin r.drops}
       IN /\ rows' = View(t)
          /\ objects' = [o \in kept \cup r.new |-> IF o \in kept THEN objects[o] ELSE None]
          /\ segments' = IF r.gone THEN {} ELSE segments \ r.drops
          /\ count' = IF r.zone THEN r.total ELSE count
          /\ alive' = (alive /\ ~r.gone)
          /\ txn' = [txn EXCEPT ![t] = Idle]
          /\ UNCHANGED made

\* The connection is lost, or the call is the victim of a deadlock.
Abort(t) == txn[t].step # "idle" /\ Raise(t)

Step(t) ==
    \/ CheckTarget(t) \/ CheckParent(t) \/ CheckSource(t) \/ CheckEmpty(t) \/ CheckOver(t)
    \/ Select(t) \/ Delete(t) \/ Update(t) \/ Insert(t) \/ Upsert(t) \/ Count(t)
    \/ Reclaim(t) \/ DropSegment(t) \/ DropVolume(t) \/ Commit(t)

Next == \E t \in Clients : Step(t) \/ Abort(t) \/ \E c \in Calls : Begin(t, c)

Spec == Init /\ [][Next]_vars

-----------------------------------------------------------------------------

\* No overlap of copies, overwrites, removals and reclamations leaves a
\* committed entry without its object, or an object without its segment.
ContentResident ==
    /\ \A i \in DOMAIN rows : rows[i].obj \in DOMAIN objects \cup {None}
    /\ \A o \in DOMAIN objects : objects[o] \in segments \cup {None}

\* The zone's entry_count is exact whatever calls overlapped (the triggers).
CountExact == alive => count = Cardinality(DOMAIN rows)

DeletedBy(t, op) ==
    IF txn[t].step = "commit" /\ txn[t].call.op = op /\ txn'[t] = Idle
    THEN DOMAIN rows \ DOMAIN rows' ELSE {}

\* A removal deletes no node that is, by the time it commits, somewhere it was
\* not asked to remove: what another call moved away stays (remove, whose
\* DELETE looks at the paths of the rows that it has waited for).
RemovesItsOwn ==
    [][\A t \in Clients : \A i \in DeletedBy(t, "remove") :
          IsPrefix(txn[t].call.path, rows[i].path)]_vars

\* The same of a batch ("exact entries ... are deleted in one statement"),
\* which deletes rows by id.
BatchRemovesItsOwn ==
    [][\A t \in Clients : \A i \in DeletedBy(t, "remove_many") :
          rows[i].path \in txn[t].call.paths]_vars

\* Every entry is in a directory, and that in the volume ("parent directory
\* does not exist", "directory not empty").
NoOrphans ==
    \A i \in DOMAIN rows :
        /\ alive
        /\ Front(rows[i].path) = <<>>
           \/ \E j \in DOMAIN rows : rows[j].path = Front(rows[i].path) /\ rows[j].kind = Dir

=============================================================================
