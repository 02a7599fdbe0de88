--------------------------- MODULE TransactionsProofs ---------------------------
(***************************************************************************)
(* Theorems about overlapping calls, for any number of clients, any calls  *)
(* and any volume at the start: no entry loses its content, the zone's     *)
(* counter stays exact, a removal removes what it was asked to.            *)
(*                                                                         *)
(* PostgreSQL's locks last until the transaction ends, so what a call has  *)
(* done is described against the committed state of the moment (OwnOK), as *)
(* if nothing else ran, and what keeps that true while the other calls     *)
(* commit is that no two of them hold the same thing (Apart).              *)
(***************************************************************************)
EXTENDS Transactions, FiniteSetTheorems, TLAPS

-----------------------------------------------------------------------------
(* The inductive invariant.                                                *)

RowFields == {"path", "kind", "obj"}
Fields == DOMAIN Idle

\* The steps that a call passes through.
StepsOf(op) ==
    CASE op = "mkdir" -> {"target", "parent", "insert", "count", "commit"}
      [] op = "write" -> {"parent", "insert", "count", "reclaim", "drop", "commit"}
      [] op = "copy" -> {"target", "parent", "source", "insert", "count", "commit"}
      [] op = "move" -> {"source", "parent", "over", "select", "delete", "update", "count", "commit"}
      [] op = "remove" -> {"target", "empty", "select", "delete", "count", "reclaim", "drop", "commit"}
      [] op = "remove_many" -> {"select", "delete", "count", "reclaim", "drop", "commit"}
      [] op = "remove_volume" ->
           {"select", "delete", "count", "reclaim", "drop", "volume", "commit"}

\* What transaction r sees of the committed rows R.
Seen(R, r) ==
    [i \in (DOMAIN R \ r.del) \cup DOMAIN r.ins |->
        IF i \in DOMAIN r.ins THEN r.ins[i] ELSE R[i]]

Touched(r) == r.del \cup DOMAIN r.ins

\* Where the content of a row that r has put comes from: r made it, r locked
\* it when it copied the row, or it is the content the row had.
Sourced(r, i, R) ==
    LET o == r.ins[i].obj
    IN o \in r.new \cup r.uses \cup {None} \/ (i \in DOMAIN R /\ R[i].obj = o)

Added(r, R) == DOMAIN r.ins \ DOMAIN R
Change(r, R) == Cardinality(Added(r, R)) - Cardinality(r.del)

\* The statement triggers have counted what r has changed, but for the
\* statement whose trigger is the next step.
Counted(r, R, k) ==
    (IF r.zone THEN r.total ELSE k) + (IF r.step = "count" THEN r.n ELSE 0) = k + Change(r, R)

Shape(r) ==
    /\ DOMAIN r = Fields /\ r.call \in Calls /\ r.step \in StepsOf(r.call.op)
    /\ r.n \in Int /\ r.total \in Int /\ r.zone \in BOOLEAN /\ r.gone \in BOOLEAN
    /\ IsFiniteSet(r.del) /\ IsFiniteSet(DOMAIN r.ins)

RowsOK(r, R, O) ==
    /\ r.del \subseteq DOMAIN R /\ r.del \cap DOMAIN r.ins = {}
    /\ \A i \in DOMAIN r.ins : DOMAIN r.ins[i] = RowFields /\ Sourced(r, i, R)
    /\ r.uses \subseteq DOMAIN O /\ r.new \cap DOMAIN O = {}

\* No row that r sees has content that r drops.
DropsOK(r, R, O) ==
    /\ r.drops # {} => r.step \in {"drop", "volume", "commit"} /\ None \notin r.drops
    /\ r.gone => r.step = "commit"
    /\ \A i \in DOMAIN Seen(R, r) :
          LET o == Seen(R, r)[i].obj
          IN o # None => ~r.gone /\ (o \in DOMAIN O => O[o] \notin r.drops)

RemovalOK(r, R) ==
    r.call.op = "remove" => DOMAIN r.ins = {} /\ \A i \in r.del : IsPrefix(r.call.path, R[i].path)

OwnOK(r, R, O, k, live) ==
    r = Idle \/ /\ Shape(r) /\ RowsOK(r, R, O) /\ DropsOK(r, R, O)
                /\ (live => Counted(r, R, k)) /\ RemovalOK(r, R)

\* What one transaction must leave to another.
Leaves(r, q, O) ==
    /\ \A o \in q.uses : O[o] \notin r.drops
    /\ r.gone => q.uses = {} /\ q.new = {}

Apart(r, q, O) ==
    /\ Touched(r) \cap Touched(q) = {} /\ r.new \cap q.new = {} /\ ~(r.zone /\ q.zone)
    /\ Leaves(r, q, O) /\ Leaves(q, r, O)

Resident(R, O, S) ==
    /\ \A i \in DOMAIN R : R[i].obj \in DOMAIN O \cup {None}
    /\ \A o \in DOMAIN O : O[o] \in S \cup {None}

Exact(R, k, live) == live => k = Cardinality(DOMAIN R)

StoredOK(R, O, S, k, live) ==
    /\ Resident(R, O, S) /\ Exact(R, k, live) /\ k \in Int
    /\ IsFiniteSet(DOMAIN R) /\ \A i \in DOMAIN R : DOMAIN R[i] = RowFields
    /\ None \notin S /\ live \in BOOLEAN

IInv ==
    /\ DOMAIN txn = Clients
    /\ StoredOK(rows, objects, segments, count, alive)
    /\ \A t \in Clients : OwnOK(txn[t], rows, objects, count, alive)
    /\ \A t \in Clients : \A u \in Others(t) : Apart(txn[t], txn[u], objects)

-----------------------------------------------------------------------------
(* A step of one call.                                                     *)

LEMMA IdleOK ==
  ASSUME NEW R, NEW O, NEW k, NEW live
  PROVE  /\ OwnOK(Idle, R, O, k, live)
         /\ Touched(Idle) = {} /\ Idle.new = {} /\ Idle.uses = {} /\ Idle.drops = {}
         /\ Idle.zone = FALSE /\ Idle.gone = FALSE /\ Idle.step = "idle"
BY DEF OwnOK, Idle, Touched

LEMMA IdleApart ==
  ASSUME NEW O, NEW q
  PROVE  Apart(Idle, q, O) /\ Apart(q, Idle, O)
BY IdleOK DEF Apart, Leaves

LEMMA ApartSymmetric ==
  ASSUME NEW O, NEW r, NEW q, Apart(r, q, O)
  PROVE  Apart(q, r, O)
BY DEF Apart

\* A client goes on to q, which is sound on its own and keeps away from the others.
LEMMA GoesOn ==
  ASSUME IInv, NEW t \in Clients, NEW q, txn' = [txn EXCEPT ![t] = q], UNCHANGED stored,
         OwnOK(q, rows, objects, count, alive),
         \A u \in Others(t) : Apart(q, txn[u], objects)
  PROVE  IInv'
<1>1. /\ DOMAIN txn' = Clients /\ txn'[t] = q /\ \A u \in Others(t) : txn'[u] = txn[u]
      /\ UNCHANGED <<rows, objects, segments, count, alive>>
  BY DEF IInv, Others, stored
<1>2. StoredOK(rows, objects, segments, count, alive)'
  BY <1>1 DEF IInv
<1>3. ASSUME NEW u \in Clients
      PROVE  OwnOK(txn'[u], rows', objects', count', alive')
  <2>1. OwnOK(txn[u], rows, objects, count, alive)
    BY DEF IInv
  <2> QED
    BY <1>1, <2>1 DEF Others
<1>4. ASSUME NEW u \in Clients, NEW v \in Others(u)
      PROVE  Apart(txn'[u], txn'[v], objects')
  <2>1. u # t /\ v # t => Apart(txn[u], txn[v], objects)
    BY DEF IInv
  <2>2. v # t => Apart(q, txn[v], objects)
    BY DEF Others
  <2>3. u # t => Apart(q, txn[u], objects)
    BY DEF Others
  <2>4. u # t => Apart(txn[u], q, objects)
    BY <2>3, ApartSymmetric
  <2> QED
    BY <1>1, <2>1, <2>2, <2>4 DEF Others
<1>5. (\A u \in Clients : OwnOK(txn[u], rows, objects, count, alive))'
  BY <1>3
<1>6. (\A u \in Clients : \A v \in Others(u) : Apart(txn[u], txn[v], objects))'
  BY <1>4 DEF Others
<1> QED
  BY <1>1, <1>2, <1>5, <1>6 DEF IInv

LEMMA Raised ==
  ASSUME IInv, NEW t \in Clients, Raise(t)
  PROVE  IInv'
BY IdleOK, IdleApart, GoesOn DEF Raise, Goes

\* A call that is under way.
LEMMA Running ==
  ASSUME IInv, NEW t \in Clients, txn[t].step # "idle"
  PROVE  /\ txn[t] # Idle /\ Shape(txn[t]) /\ RowsOK(txn[t], rows, objects)
         /\ DropsOK(txn[t], rows, objects) /\ (alive => Counted(txn[t], rows, count))
         /\ RemovalOK(txn[t], rows)
         /\ \A u \in Others(t) : Apart(txn[t], txn[u], objects)
<1>1. OwnOK(txn[t], rows, objects, count, alive)
  BY DEF IInv
<1> QED
  BY <1>1, IdleOK DEF OwnOK, IInv

Ops == {"mkdir", "write", "copy", "move", "remove", "remove_many", "remove_volume"}

LEMMA OpOf ==
  ASSUME NEW r, Shape(r)
  PROVE  r.call.op \in Ops
BY CallsAssumption DEF Shape, Ops

\* q has done what r has done.
Same(q, r) ==
    /\ q.del = r.del /\ q.ins = r.ins /\ q.uses = r.uses /\ q.new = r.new
    /\ q.drops = r.drops /\ q.zone = r.zone /\ q.gone = r.gone
    /\ q.call = r.call /\ q.n = r.n /\ q.total = r.total

\* A check or a selection: a step that changes nothing.
LEMMA Passed ==
  ASSUME IInv, NEW t \in Clients, NEW q, Goes(t, q),
         txn[t].step \notin {"idle", "count", "commit"},
         DOMAIN q = Fields, Same(q, txn[t]), q.step \in StepsOf(q.call.op), q.step # "count",
         txn[t].step = "drop" => q.step \in {"drop", "volume", "commit"}, txn[t].step # "volume"
  PROVE  IInv'
<1> DEFINE r == txn[t]
<1>1. /\ Shape(r) /\ RowsOK(r, rows, objects) /\ DropsOK(r, rows, objects)
      /\ (alive => Counted(r, rows, count)) /\ RemovalOK(r, rows)
      /\ \A u \in Others(t) : Apart(r, txn[u], objects)
  BY Running
<1>2. r.step \notin {"count", "commit"} /\ Same(q, r)
      /\ (r.step \in {"drop", "volume"} => q.step \in {"drop", "volume", "commit"})
  OBVIOUS
<1> HIDE DEF r
<1>3. Shape(q)
  BY <1>1, <1>2 DEF Shape, Same
<1>4. RowsOK(q, rows, objects)
  BY <1>1, <1>2 DEF RowsOK, Same, Sourced
<1>5. DropsOK(q, rows, objects)
  <2>1. Seen(rows, q) = Seen(rows, r)
    BY <1>2 DEF Seen, Same
  <2> QED
    BY <1>1, <1>2, <2>1 DEF DropsOK, Same
<1>6. alive => Counted(q, rows, count)
  BY <1>1, <1>2 DEF Counted, Change, Added, Same
<1>7. RemovalOK(q, rows)
  BY <1>1, <1>2 DEF RemovalOK, Same
<1>8. \A u \in Others(t) : Apart(q, txn[u], objects)
  BY <1>1, <1>2 DEF Apart, Leaves, Touched, Same
<1> QED
  BY <1>3, <1>4, <1>5, <1>6, <1>7, <1>8, GoesOn DEF OwnOK, Goes

LEMMA ToStep ==
  ASSUME IInv, NEW t \in Clients, txn[t].step # "idle", NEW s, NEW S
  PROVE  /\ DOMAIN To(t, s) = Fields /\ Same(To(t, s), txn[t]) /\ To(t, s).step = s
         /\ LET q == [To(t, s) EXCEPT !.targets = S]
            IN DOMAIN q = Fields /\ Same(q, txn[t]) /\ q.step = s
BY Running, ZenonT(30) DEF To, Same, Shape, Fields, Idle

\* A step that goes on to step s of the same function and changes nothing.
LEMMA GoesTo ==
  ASSUME IInv, NEW t \in Clients, txn[t].step \notin {"idle", "count", "commit", "drop", "volume"},
         NEW s, s \in StepsOf(txn[t].call.op), s # "count",
         Goes(t, To(t, s)) \/ \E S : Goes(t, [To(t, s) EXCEPT !.targets = S])
  PROVE  IInv'
<1>1. CASE Goes(t, To(t, s))
  <2> DEFINE q == To(t, s)
  <2>1. DOMAIN q = Fields /\ Same(q, txn[t]) /\ q.step = s
    BY ToStep
  <2>2. q.step \in StepsOf(q.call.op)
    BY <2>1 DEF Same
  <2> QED
    BY <1>1, <2>1, <2>2, Passed
<1>2. ASSUME NEW S, Goes(t, [To(t, s) EXCEPT !.targets = S])
      PROVE  IInv'
  <2> DEFINE q == [To(t, s) EXCEPT !.targets = S]
  <2>1. DOMAIN q = Fields /\ Same(q, txn[t]) /\ q.step = s
    BY ToStep
  <2>2. q.step \in StepsOf(q.call.op)
    BY <2>1 DEF Same
  <2> QED
    BY <1>2, <2>1, <2>2, Passed
<1> QED
  BY <1>1, <1>2

\* What may come after a step that only looks, by the function.
LEMMA NextSteps ==
  ASSUME IInv, NEW t \in Clients, txn[t].step # "idle"
  PROVE  LET op == txn[t].call.op
             step == txn[t].step
         IN /\ op \in Ops /\ step \in StepsOf(op)
            /\ step = "target" => op \in {"mkdir", "copy", "remove"}
            /\ step = "parent" => op \in {"mkdir", "write", "copy", "move"}
            /\ step = "source" => op \in {"copy", "move"}
            /\ step = "empty" => op = "remove"
            /\ step = "over" => op = "move"
            /\ step = "select" => op \in {"move", "remove", "remove_many", "remove_volume"}
            /\ step = "delete" => op \in {"move", "remove", "remove_many", "remove_volume"}
            /\ step = "update" => op = "move"
            /\ step = "insert" => op \in {"mkdir", "write", "copy"}
            /\ step \in {"reclaim", "drop"} => op \in {"write", "remove", "remove_many", "remove_volume"}
            /\ step = "volume" => op = "remove_volume"
<1> DEFINE op == txn[t].call.op
           step == txn[t].step
<1>1. op \in Ops /\ step \in StepsOf(op)
  BY Running, OpOf DEF Shape
<1> HIDE DEF op, step
<1>2. /\ step = "target" => op \in {"mkdir", "copy", "remove"}
      /\ step = "parent" => op \in {"mkdir", "write", "copy", "move"}
      /\ step = "source" => op \in {"copy", "move"}
      /\ step = "empty" => op = "remove"
      /\ step = "over" => op = "move"
      /\ step = "select" => op \in {"move", "remove", "remove_many", "remove_volume"}
      /\ step = "delete" => op \in {"move", "remove", "remove_many", "remove_volume"}
      /\ step = "update" => op = "move"
      /\ step = "insert" => op \in {"mkdir", "write", "copy"}
      /\ step \in {"reclaim", "drop"} => op \in {"write", "remove", "remove_many", "remove_volume"}
      /\ step = "volume" => op = "remove_volume"
  BY <1>1 DEF StepsOf, Ops
<1> QED
  BY <1>1, <1>2 DEF op, step

LEMMA ChecksOK ==
  ASSUME IInv, NEW t \in Clients,
         \/ CheckTarget(t) \/ CheckParent(t) \/ CheckSource(t) \/ CheckEmpty(t) \/ CheckOver(t)
         \/ Select(t)
  PROVE  IInv'
<1> DEFINE op == txn[t].call.op
           step == txn[t].step
<1>1. step \in {"target", "parent", "source", "empty", "over", "select"}
  BY DEF CheckTarget, CheckParent, CheckSource, CheckEmpty, CheckOver, Select, Ready
<1>2. CASE CheckTarget(t)
  <2>1. step = "target"
    BY <1>2 DEF CheckTarget, Ready
  <2>2. op \in {"mkdir", "copy", "remove"}
    BY <2>1, NextSteps
  <2>3. \/ Raise(t)
        \/ op \in {"mkdir", "copy"} /\ Goes(t, To(t, "parent"))
        \/ op = "remove" /\ Goes(t, To(t, "empty"))
    BY <1>2, <2>2 DEF CheckTarget
  <2> QED
    BY <2>1, <2>3, Raised, GoesTo DEF StepsOf
<1>3. CASE CheckParent(t)
  <2>1. step = "parent"
    BY <1>3 DEF CheckParent, Ready
  <2>2. op \in {"mkdir", "write", "copy", "move"}
    BY <2>1, NextSteps
  <2>3. \/ Raise(t)
        \/ op \in {"mkdir", "write"} /\ Goes(t, To(t, "insert"))
        \/ op = "copy" /\ Goes(t, To(t, "source"))
        \/ op = "move" /\ Goes(t, To(t, "over"))
    BY <1>3, <2>2 DEF CheckParent
  <2> QED
    BY <2>1, <2>3, Raised, GoesTo DEF StepsOf
<1>4. CASE CheckSource(t)
  <2>1. step = "source"
    BY <1>4 DEF CheckSource, Ready
  <2>2. op \in {"copy", "move"}
    BY <2>1, NextSteps
  <2>3. \/ Raise(t)
        \/ op = "copy" /\ Goes(t, To(t, "insert"))
        \/ op = "move" /\ Goes(t, To(t, "parent"))
    BY <1>4, <2>2 DEF CheckSource
  <2> QED
    BY <2>1, <2>3, Raised, GoesTo DEF StepsOf
<1>5. CASE CheckEmpty(t)
  <2>1. step = "empty" /\ op = "remove"
    BY <1>5, NextSteps DEF CheckEmpty, Ready
  <2>2. Raise(t) \/ Goes(t, To(t, "select"))
    BY <1>5 DEF CheckEmpty
  <2> QED
    BY <2>1, <2>2, Raised, GoesTo DEF StepsOf
<1>6. CASE CheckOver(t)
  <2>1. step = "over" /\ op = "move"
    BY <1>6, NextSteps DEF CheckOver, Ready
  <2>2. \/ Raise(t) \/ Goes(t, To(t, "select"))
        \/ Goes(t, [To(t, "delete") EXCEPT !.targets = IdsAt(t, txn[t].call.to)])
    BY <1>6 DEF CheckOver
  <2> QED
    BY <2>1, <2>2, Raised, GoesTo DEF StepsOf
<1>7. CASE Select(t)
  <2>1. step = "select" /\ op \in {"move", "remove", "remove_many", "remove_volume"}
    BY <1>7, NextSteps DEF Select, Ready
  <2>2. Goes(t, [To(t, IF op = "move" THEN "update" ELSE "delete") EXCEPT !.targets = Selected(t)])
    BY <1>7 DEF Select
  <2> QED
    BY <2>1, <2>2, GoesTo DEF StepsOf
<1> QED
  BY <1>2, <1>3, <1>4, <1>5, <1>6, <1>7

LEMMA ReclaimOK ==
  ASSUME IInv, NEW t \in Clients, Reclaim(t)
  PROVE  IInv'
<1> DEFINE op == txn[t].call.op
           idle == {s \in segments : ~Referenced(t, s)}
           next == IF idle = {} THEN AfterReclaim(op) ELSE "drop"
<1>1. txn[t].step = "reclaim" /\ op \in {"write", "remove", "remove_many", "remove_volume"}
  BY NextSteps DEF Reclaim, Ready
<1>2. Goes(t, [To(t, next) EXCEPT !.targets = idle])
  BY DEF Reclaim
<1>3. next \in StepsOf(op) /\ next # "count"
  BY <1>1 DEF StepsOf, AfterReclaim
<1> QED
  BY <1>1, <1>2, <1>3, GoesTo

\* What a step has waited for.
LEMMA Waited ==
  ASSUME NEW t \in Clients, Blockers(t) = {}, NEW u \in Others(t)
  PROVE  LET r == txn[t]
         IN /\ r.step = "count" => ~txn[u].zone /\ ~txn[u].gone
            /\ r.step = "drop" =>
                  ~txn[u].gone /\ \A s \in r.targets : txn[u].uses \cap SegmentObjects(s) = {}
            /\ r.step = "volume" => txn[u].new = {} /\ txn[u].uses = {}
            /\ r.step \in {"delete", "update"} => Changed(u) \cap r.targets = {}
            /\ r.step = "insert" => \A p \in InsertedPaths(t) : ~Claims(u, p)
            /\ r.step = "insert" /\ r.call.op = "write" => ~txn[u].gone
            /\ r.step = "insert" /\ r.call.op = "copy" =>
                  \A i \in Copied(t) :
                      LET o == View(t)[i].obj
                      IN o # None => ~txn[u].gone /\ (o \in DOMAIN objects => objects[o] \notin txn[u].drops)
<1> DEFINE r == txn[t]
           step == r.step
<1>1. step = "count" => ~txn[u].zone /\ ~txn[u].gone
  BY DEF Blockers, CountFree
<1>2. step = "drop" => ~txn[u].gone /\ \A s \in r.targets : txn[u].uses \cap SegmentObjects(s) = {}
  BY DEF Blockers
<1>3. step = "volume" => txn[u].new = {} /\ txn[u].uses = {}
  BY DEF Blockers
<1>4. step \in {"delete", "update"} => Changed(u) \cap r.targets = {}
  BY DEF Blockers
<1>5. step = "insert" => \A p \in InsertedPaths(t) : ~Claims(u, p)
  BY DEF Blockers
<1>6. step = "insert" /\ r.call.op = "write" => ~txn[u].gone
  BY DEF Blockers
<1>7. ASSUME step = "insert", r.call.op = "copy", NEW i \in Copied(t), View(t)[i].obj # None
      PROVE  /\ ~txn[u].gone
             /\ View(t)[i].obj \in DOMAIN objects => objects[View(t)[i].obj] \notin txn[u].drops
  BY <1>7 DEF Blockers
<1> QED
  BY <1>1, <1>2, <1>3, <1>4, <1>5, <1>6, <1>7

LEMMA SeenIsView ==
  ASSUME NEW t
  PROVE  View(t) = Seen(rows, txn[t])
BY DEF View, Seen, Over, Restrict

LEMMA BeginOK ==
  ASSUME IInv, NEW t \in Clients, NEW c \in Calls, Begin(t, c)
  PROVE  IInv'
<1> DEFINE q == [Idle EXCEPT !.step = First(c.op), !.call = c]
<1>1. txn' = [txn EXCEPT ![t] = q] /\ UNCHANGED stored
  BY DEF Begin
<1>2. /\ DOMAIN q = Fields /\ q.step = First(c.op) /\ q.call = c /\ q.n = 0 /\ q.total = 0
      /\ q.del = {} /\ DOMAIN q.ins = {} /\ q.uses = {} /\ q.new = {} /\ q.drops = {}
      /\ q.zone = FALSE /\ q.gone = FALSE
  BY DEF Idle, Fields
<1> HIDE DEF q
<1>3. q.step \in StepsOf(c.op) /\ q.step # "count"
  BY <1>2, CallsAssumption DEF First, StepsOf
<1>4. IsFiniteSet({}) /\ Cardinality({}) = 0
  BY FS_EmptySet
<1>5. Shape(q)
  <2>1. q.call \in Calls /\ q.step \in StepsOf(q.call.op) /\ q.n \in Int /\ q.total \in Int
    BY <1>2, <1>3
  <2>2. q.zone \in BOOLEAN /\ q.gone \in BOOLEAN
    BY <1>2
  <2>3. IsFiniteSet(q.del) /\ IsFiniteSet(DOMAIN q.ins)
    BY <1>2, <1>4
  <2> QED
    BY <1>2, <2>1, <2>2, <2>3 DEF Shape
<1>5a. RowsOK(q, rows, objects) /\ RemovalOK(q, rows)
  BY <1>2 DEF RowsOK, RemovalOK
<1>6. DropsOK(q, rows, objects)
  BY <1>2 DEF DropsOK
<1>7. Added(q, rows) = {}
  BY <1>2 DEF Added
<1>8. alive => Counted(q, rows, count)
  BY <1>2, <1>3, <1>4, <1>7 DEF Counted, Change, IInv, StoredOK
<1>9. \A u \in Others(t) : Apart(q, txn[u], objects)
  BY <1>2 DEF Apart, Leaves, Touched
<1> QED
  BY <1>1, <1>5, <1>5a, <1>6, <1>8, <1>9, GoesOn DEF OwnOK

LEMMA CountOK ==
  ASSUME IInv, NEW t \in Clients, Count(t)
  PROVE  IInv'
<1> DEFINE r == txn[t]
           q == [To(t, AfterCount(r.call.op)) EXCEPT
                    !.zone = alive, !.total = (IF r.zone THEN @ ELSE count) + r.n]
<1>1. r.step = "count" /\ Goes(t, q) /\ Blockers(t) = {}
  BY DEF Count, Ready
<1>2. /\ Shape(r) /\ RowsOK(r, rows, objects) /\ DropsOK(r, rows, objects)
      /\ (alive => Counted(r, rows, count)) /\ RemovalOK(r, rows)
      /\ \A u \in Others(t) : Apart(r, txn[u], objects)
  BY <1>1, Running
<1>3. /\ DOMAIN q = Fields /\ q.step = AfterCount(r.call.op) /\ q.call = r.call
      /\ q.del = r.del /\ q.ins = r.ins /\ q.uses = r.uses /\ q.new = r.new
      /\ q.drops = r.drops /\ q.gone = r.gone /\ q.n = r.n
      /\ q.zone = alive /\ q.total = (IF r.zone THEN r.total ELSE count) + r.n
  BY <1>2 DEF Shape, Fields, Idle, To
<1>4. \A u \in Others(t) : ~txn[u].zone
  BY <1>1, Waited
<1>5. count \in Int /\ alive \in BOOLEAN /\ r.call.op \in Ops
  BY <1>2, OpOf DEF IInv, StoredOK
<1> HIDE DEF r, q
<1>6. q.step \in StepsOf(q.call.op) /\ q.step # "count"
  BY <1>1, <1>2, <1>3, <1>5 DEF AfterCount, StepsOf, Shape, Ops
<1>7. Shape(q)
  BY <1>2, <1>3, <1>5, <1>6 DEF Shape
<1>8. RowsOK(q, rows, objects) /\ RemovalOK(q, rows)
  BY <1>2, <1>3 DEF RowsOK, RemovalOK, Sourced
<1>9. DropsOK(q, rows, objects)
  <2>1. Seen(rows, q) = Seen(rows, r)
    BY <1>3 DEF Seen
  <2>2. r.drops = {} /\ ~r.gone
    BY <1>1, <1>2 DEF DropsOK
  <2> QED
    BY <1>2, <1>3, <2>1, <2>2 DEF DropsOK
<1>10. alive => Counted(q, rows, count)
  BY <1>1, <1>2, <1>3, <1>5, <1>6 DEF Counted, Change, Added, Shape
<1>11. \A u \in Others(t) : Apart(q, txn[u], objects)
  BY <1>2, <1>3, <1>4 DEF Apart, Leaves, Touched
<1> QED
  BY <1>1, <1>7, <1>8, <1>9, <1>10, <1>11, GoesOn DEF OwnOK, Goes

LEMMA DropSegmentOK ==
  ASSUME IInv, NEW t \in Clients, DropSegment(t)
  PROVE  IInv'
<1> DEFINE r == txn[t]
<1>1. r.step = "drop" /\ Blockers(t) = {}
  BY DEF DropSegment, Ready
<1>2. PICK s \in r.targets :
         IF s \notin segments \/ Forbidden(t, s) THEN Raise(t)
         ELSE Goes(t, [To(t, IF r.targets = {s} THEN AfterReclaim(r.call.op) ELSE "drop")
                           EXCEPT !.drops = @ \cup {s}, !.targets = @ \ {s}])
  BY DEF DropSegment
<1>3. CASE Raise(t)
  BY <1>3, Raised
<1>4. CASE /\ s \in segments /\ ~Forbidden(t, s)
           /\ Goes(t, [To(t, IF r.targets = {s} THEN AfterReclaim(r.call.op) ELSE "drop")
                           EXCEPT !.drops = @ \cup {s}, !.targets = @ \ {s}])
  <2> DEFINE next == IF r.targets = {s} THEN AfterReclaim(r.call.op) ELSE "drop"
             q == [To(t, next) EXCEPT !.drops = @ \cup {s}, !.targets = @ \ {s}]
  <2>1. /\ Shape(r) /\ RowsOK(r, rows, objects) /\ DropsOK(r, rows, objects)
        /\ (alive => Counted(r, rows, count)) /\ RemovalOK(r, rows)
        /\ \A u \in Others(t) : Apart(r, txn[u], objects)
    BY <1>1, Running
  <2>2. /\ DOMAIN q = Fields /\ q.step = next /\ q.call = r.call
        /\ q.del = r.del /\ q.ins = r.ins /\ q.uses = r.uses /\ q.new = r.new
        /\ q.drops = r.drops \cup {s} /\ q.gone = r.gone /\ q.n = r.n
        /\ q.zone = r.zone /\ q.total = r.total
    BY <2>1 DEF Shape, Fields, Idle, To
  <2>3. r.call.op \in {"write", "remove", "remove_many", "remove_volume"}
    BY <1>1, NextSteps
  <2>4. next \in {"drop", "volume", "commit"} /\ next \in StepsOf(r.call.op)
    BY <2>3 DEF AfterReclaim, StepsOf
  <2>5. s # None
    BY <1>4 DEF IInv, StoredOK
  <2>6. \A i \in DOMAIN Seen(rows, r) : LET o == Seen(rows, r)[i].obj
                                        IN o \in DOMAIN objects => objects[o] # s
    BY <1>4, SeenIsView DEF Forbidden, Referenced, SegmentObjects
  <2>7. \A u \in Others(t) : \A o \in txn[u].uses : o \in DOMAIN objects => objects[o] # s
    BY <1>1, Waited DEF SegmentObjects
  <2>8. \A u \in Others(t) : txn[u].uses \subseteq DOMAIN objects
    BY IdleOK DEF IInv, OwnOK, RowsOK, Others
  <2>9. Goes(t, q)
    BY <1>4
  <2> HIDE DEF r, q, next
  <2>10. Shape(q)
    BY <2>1, <2>2, <2>4 DEF Shape
  <2>11. RowsOK(q, rows, objects) /\ RemovalOK(q, rows)
    BY <2>1, <2>2 DEF RowsOK, RemovalOK, Sourced
  <2>12. DropsOK(q, rows, objects)
    <3>1. Seen(rows, q) = Seen(rows, r)
      BY <2>2 DEF Seen
    <3>2. None \notin q.drops /\ ~r.gone
      BY <1>1, <2>1, <2>2, <2>5 DEF DropsOK, r
    <3> QED
      BY <2>1, <2>2, <2>4, <2>6, <3>1, <3>2 DEF DropsOK
  <2>13. alive => Counted(q, rows, count)
    <3>1. r.step # "count" /\ q.step # "count"
      BY <1>1, <2>2, <2>4 DEF r
    <3> QED
      BY <2>1, <2>2, <3>1 DEF Counted, Change, Added
  <2>14. ASSUME NEW u \in Others(t)
         PROVE  Apart(q, txn[u], objects)
    <3>1. Apart(r, txn[u], objects) /\ \A o \in txn[u].uses : objects[o] # s
      BY <2>1, <2>7, <2>8
    <3> QED
      BY <2>2, <3>1 DEF Apart, Leaves, Touched
  <2> QED
    BY <2>9, <2>10, <2>11, <2>12, <2>13, <2>14, GoesOn DEF OwnOK, Goes
<1> QED
  BY <1>2, <1>3, <1>4

LEMMA DropVolumeOK ==
  ASSUME IInv, NEW t \in Clients, DropVolume(t)
  PROVE  IInv'
<1> DEFINE r == txn[t]
           q == [To(t, "commit") EXCEPT !.gone = TRUE]
<1>1. r.step = "volume" /\ Blockers(t) = {}
  BY DEF DropVolume, Ready
<1>2. CASE Raise(t)
  BY <1>2, Raised
<1>3. CASE Goes(t, q) /\ \A i \in DOMAIN View(t) : View(t)[i].obj = None
  <2>1. /\ Shape(r) /\ RowsOK(r, rows, objects) /\ DropsOK(r, rows, objects)
        /\ (alive => Counted(r, rows, count)) /\ RemovalOK(r, rows)
        /\ \A u \in Others(t) : Apart(r, txn[u], objects)
    BY <1>1, Running
  <2>2. /\ DOMAIN q = Fields /\ q.step = "commit" /\ q.call = r.call
        /\ q.del = r.del /\ q.ins = r.ins /\ q.uses = r.uses /\ q.new = r.new
        /\ q.drops = r.drops /\ q.gone = TRUE /\ q.n = r.n
        /\ q.zone = r.zone /\ q.total = r.total
    BY <2>1 DEF Shape, Fields, Idle, To
  <2>3. r.call.op = "remove_volume"
    BY <1>1, NextSteps
  <2>4. \A u \in Others(t) : txn[u].uses = {} /\ txn[u].new = {}
    BY <1>1, Waited
  <2>5. \A i \in DOMAIN Seen(rows, r) : Seen(rows, r)[i].obj = None
    BY <1>3, SeenIsView
  <2>6. r.step # "count"
    BY <1>1
  <2> HIDE DEF r, q
  <2>7. Shape(q)
    BY <2>1, <2>2, <2>3 DEF Shape, StepsOf
  <2>8. RowsOK(q, rows, objects) /\ RemovalOK(q, rows)
    BY <2>1, <2>2 DEF RowsOK, RemovalOK, Sourced
  <2>9. DropsOK(q, rows, objects)
    <3>1. Seen(rows, q) = Seen(rows, r)
      BY <2>2 DEF Seen
    <3> QED
      BY <2>1, <2>2, <2>5, <3>1 DEF DropsOK
  <2>10. alive => Counted(q, rows, count)
    BY <2>1, <2>2, <2>6 DEF Counted, Change, Added
  <2>11. \A u \in Others(t) : Apart(q, txn[u], objects)
    BY <2>1, <2>2, <2>4 DEF Apart, Leaves, Touched
  <2> QED
    BY <1>3, <2>7, <2>8, <2>9, <2>10, <2>11, GoesOn DEF OwnOK, Goes
<1> QED
  BY <1>2, <1>3 DEF DropVolume

-----------------------------------------------------------------------------
(* The steps that change rows.                                             *)

\* A statement of t that drops nothing: what it must show.
LEMMA Acted ==
  ASSUME IInv, NEW t \in Clients, NEW q, Goes(t, q),
         txn[t].step \notin {"idle", "drop", "volume", "commit"},
         q.drops = txn[t].drops, q.gone = txn[t].gone, q.zone = txn[t].zone,
         Shape(q), RowsOK(q, rows, objects), alive => Counted(q, rows, count), RemovalOK(q, rows),
         \A u \in Others(t) :
             /\ Touched(q) \cap Touched(txn[u]) = {} /\ q.new \cap txn[u].new = {}
             /\ \A o \in q.uses \ txn[t].uses : objects[o] \notin txn[u].drops
             /\ txn[u].gone => q.uses \subseteq txn[t].uses /\ q.new \subseteq txn[t].new
  PROVE  IInv'
<1> DEFINE r == txn[t]
<1>1. DropsOK(r, rows, objects) /\ \A u \in Others(t) : Apart(r, txn[u], objects)
  BY Running
<1>2. r.drops = {} /\ ~r.gone
  BY <1>1 DEF DropsOK
<1>3. DropsOK(q, rows, objects)
  BY <1>2 DEF DropsOK
<1>4. ASSUME NEW u \in Others(t)
      PROVE  Apart(q, txn[u], objects)
  <2>1. Apart(r, txn[u], objects)
    BY <1>1
  <2> QED
    BY <1>2, <2>1 DEF Apart, Leaves
<1> QED
  BY <1>3, <1>4, GoesOn DEF OwnOK, Goes

\* The rows that a statement of t sees.
LEMMA Visible ==
  ASSUME IInv, NEW t \in Clients, txn[t].step # "idle", NEW i \in DOMAIN View(t)
  PROVE  /\ DOMAIN View(t)[i] = RowFields
         /\ i \in DOMAIN txn[t].ins => View(t)[i] = txn[t].ins[i]
         /\ i \notin DOMAIN txn[t].ins => i \in DOMAIN rows /\ View(t)[i] = rows[i]
         /\ i \notin txn[t].del
<1>1. RowsOK(txn[t], rows, objects) /\ \A j \in DOMAIN rows : DOMAIN rows[j] = RowFields
  BY Running DEF IInv, StoredOK
<1>2. View(t) = Seen(rows, txn[t])
  BY SeenIsView
<1> QED
  BY <1>1, <1>2 DEF Seen, RowsOK

LEMMA DisjointCount ==
  ASSUME NEW S, NEW T, NEW U, IsFiniteSet(S), IsFiniteSet(T), S \cap T = {}, U = S \cup T
  PROVE  /\ IsFiniteSet(U) /\ Cardinality(S) \in Nat /\ Cardinality(T) \in Nat
         /\ Cardinality(U) = Cardinality(S) + Cardinality(T)
<1> DEFINE E == S \cap T
<1>1. Cardinality(E) = 0
  BY FS_EmptySet
<1>2. IsFiniteSet(S \cup T) /\ Cardinality(S \cup T) = Cardinality(S) + Cardinality(T) - Cardinality(E)
  BY FS_Union
<1>3. Cardinality(S) \in Nat /\ Cardinality(T) \in Nat
  BY FS_CardinalityType
<1> HIDE DEF E
<1> QED
  BY <1>1, <1>2, <1>3

\* What DELETE of the rows S makes of the two sets, D and I, that Change compares.
Deletes(S, R, D, I, D2, I2) ==
    /\ IsFiniteSet(R) /\ IsFiniteSet(D) /\ IsFiniteSet(I) /\ D \subseteq R /\ D \cap I = {}
    /\ S \subseteq (R \ D) \cup I
    /\ D2 = D \cup (S \cap R) /\ I2 = I \ S

LEMMA DeletedCount ==
  ASSUME NEW S, NEW R, NEW D, NEW I, NEW D2, NEW I2, Deletes(S, R, D, I, D2, I2)
  PROVE  /\ IsFiniteSet(D2) /\ IsFiniteSet(I2) /\ Cardinality(S) \in Nat
         /\ Cardinality(I2 \ R) - Cardinality(D2)
               = Cardinality(I \ R) - Cardinality(D) - Cardinality(S)
<1> DEFINE A == I \ R
           B == S \cap R
           C == S \ R
           A2 == I2 \ R
<1>0. /\ IsFiniteSet(R) /\ IsFiniteSet(D) /\ IsFiniteSet(I) /\ D \subseteq R /\ D \cap I = {}
      /\ S \subseteq (R \ D) \cup I
      /\ D2 = D \cup (S \cap R) /\ I2 = I \ S
  BY DEF Deletes
<1>1. IsFiniteSet(R \cup I)
  BY <1>0, FS_Union
<1>2. IsFiniteSet(S)
  BY <1>0, <1>1, FS_Subset
<1>3. IsFiniteSet(B) /\ IsFiniteSet(C) /\ IsFiniteSet(I2)
  BY <1>0, <1>2, FS_Difference, FS_Intersection
<1>4. IsFiniteSet(A2)
  BY <1>3, FS_Difference
<1>5. /\ S = B \cup C /\ B \cap C = {} /\ D \cap B = {} /\ A = A2 \cup C /\ A2 \cap C = {}
      /\ D2 = D \cup B
  BY <1>0
<1> HIDE DEF A, B, C, A2
<1>6. /\ Cardinality(S) = Cardinality(B) + Cardinality(C)
      /\ Cardinality(B) \in Nat /\ Cardinality(C) \in Nat
  BY <1>0, <1>3, <1>5, DisjointCount
<1>7. /\ IsFiniteSet(D2) /\ Cardinality(D2) = Cardinality(D) + Cardinality(B)
      /\ Cardinality(D) \in Nat
  BY <1>0, <1>3, <1>5, DisjointCount
<1>8. Cardinality(A) = Cardinality(A2) + Cardinality(C) /\ Cardinality(A2) \in Nat
  BY <1>3, <1>4, <1>5, DisjointCount
<1>9. /\ Cardinality(S) \in Nat
      /\ Cardinality(A2) - Cardinality(D2) = Cardinality(A) - Cardinality(D) - Cardinality(S)
  BY <1>6, <1>7, <1>8
<1> QED
  BY <1>3, <1>7, <1>9 DEF A, A2

LEMMA InsertedCount ==
  ASSUME NEW R, NEW I, NEW N, IsFiniteSet(I), IsFiniteSet(N), N \cap R = {}, N \cap I = {}
  PROVE  /\ IsFiniteSet(N \cup I) /\ Cardinality(N) \in Nat
         /\ Cardinality((N \cup I) \ R) = Cardinality(I \ R) + Cardinality(N)
<1> DEFINE A == I \ R
           U == (N \cup I) \ R
<1>1. IsFiniteSet(A) /\ IsFiniteSet(N \cup I)
  BY FS_Difference, FS_Union
<1>2. U = A \cup N /\ A \cap N = {}
  OBVIOUS
<1> HIDE DEF A, U
<1>3. Cardinality(U) = Cardinality(A) + Cardinality(N) /\ Cardinality(N) \in Nat
  BY <1>1, <1>2, DisjointCount
<1> QED
  BY <1>1, <1>3 DEF A, U

LEMMA CommittedCount ==
  ASSUME NEW R, NEW D, NEW I, IsFiniteSet(R), IsFiniteSet(D), IsFiniteSet(I),
         D \subseteq R, D \cap I = {}
  PROVE  /\ IsFiniteSet((R \ D) \cup I)
         /\ Cardinality((R \ D) \cup I) = Cardinality(R) + Cardinality(I \ R) - Cardinality(D)
<1> DEFINE K == R \ D
           A == I \ R
           U == (R \ D) \cup I
<1>1. IsFiniteSet(K) /\ IsFiniteSet(A)
  BY FS_Difference
<1>2. U = K \cup A /\ K \cap A = {} /\ R = K \cup D /\ K \cap D = {}
  OBVIOUS
<1> HIDE DEF K, A, U
<1>3. IsFiniteSet(U) /\ Cardinality(U) = Cardinality(K) + Cardinality(A) /\ Cardinality(K) \in Nat
  BY <1>1, <1>2, DisjointCount
<1>4. Cardinality(R) = Cardinality(K) + Cardinality(D) /\ Cardinality(D) \in Nat
  BY <1>1, <1>2, DisjointCount
<1>5. Cardinality(A) \in Nat
  BY <1>1, FS_CardinalityType
<1>6. Cardinality(U) = Cardinality(R) + Cardinality(A) - Cardinality(D)
  BY <1>3, <1>4, <1>5
<1> QED
  BY <1>3, <1>6 DEF A, U

LEMMA DeleteOK ==
  ASSUME IInv, NEW t \in Clients, Delete(t)
  PROVE  IInv'
<1> DEFINE r == txn[t]
           S == Matched(t)
           n == Cardinality(S)
           q == [Counting(t, -n) EXCEPT
                    !.del = @ \cup (S \cap DOMAIN rows), !.ins = Restrict(@, DOMAIN @ \ S)]
<1>1. r.step = "delete" /\ Blockers(t) = {} /\ (Raise(t) \/ Goes(t, q))
  BY DEF Delete, Ready
<1>2. /\ Shape(r) /\ RowsOK(r, rows, objects) /\ (alive => Counted(r, rows, count))
      /\ RemovalOK(r, rows) /\ \A u \in Others(t) : Apart(r, txn[u], objects)
  BY <1>1, Running
<1>3. /\ DOMAIN q = Fields /\ q.step = (IF -n = 0 THEN AfterCount(r.call.op) ELSE "count")
      /\ q.n = -n /\ q.call = r.call /\ q.del = r.del \cup (S \cap DOMAIN rows)
      /\ q.ins = Restrict(r.ins, DOMAIN r.ins \ S) /\ q.uses = r.uses /\ q.new = r.new
      /\ q.drops = r.drops /\ q.gone = r.gone /\ q.zone = r.zone /\ q.total = r.total
  BY <1>2 DEF Shape, Fields, Idle, To, Counting
<1>4. DOMAIN q.ins = DOMAIN r.ins \ S /\ \A i \in DOMAIN q.ins : q.ins[i] = r.ins[i]
  BY <1>3 DEF Restrict
<1>5. S \subseteq r.targets /\ S \subseteq DOMAIN View(t)
  BY DEF Matched, StillMatches
<1>6. DOMAIN View(t) = (DOMAIN rows \ r.del) \cup DOMAIN r.ins
  BY SeenIsView DEF Seen
<1>7. /\ IsFiniteSet(q.del) /\ IsFiniteSet(DOMAIN q.ins) /\ n \in Nat
      /\ Change(q, rows) = Change(r, rows) - n
  <2> DEFINE D == r.del
             I == DOMAIN r.ins
             R == DOMAIN rows
             D2 == q.del
             I2 == DOMAIN q.ins
  <2>1. IsFiniteSet(R) /\ IsFiniteSet(D) /\ IsFiniteSet(I)
    BY <1>2 DEF IInv, StoredOK, Shape
  <2>2. D \subseteq R /\ D \cap I = {}
    BY <1>2 DEF RowsOK
  <2>3. S \subseteq (R \ D) \cup I
    BY <1>5, <1>6
  <2>4. D2 = D \cup (S \cap R) /\ I2 = I \ S
    BY <1>3, <1>4
  <2>5. /\ Change(q, rows) = Cardinality(I2 \ R) - Cardinality(D2)
        /\ Change(r, rows) = Cardinality(I \ R) - Cardinality(D)
    BY DEF Change, Added
  <2>6. Deletes(S, R, D, I, D2, I2)
    <3> HIDE DEF S, R, D, I, D2, I2
    <3> QED
      BY <2>1, <2>2, <2>3, <2>4 DEF Deletes
  <2>7. /\ IsFiniteSet(D2) /\ IsFiniteSet(I2) /\ n \in Nat
        /\ Cardinality(I2 \ R) - Cardinality(D2) = Cardinality(I \ R) - Cardinality(D) - n
    <3> HIDE DEF S, R, D, I, D2, I2
    <3> QED
      BY <2>6, DeletedCount
  <2> QED
    BY <2>5, <2>7
<1>8. r.call.op \in {"move", "remove", "remove_many", "remove_volume"}
  BY <1>1, NextSteps
<1>9. q.step \in StepsOf(r.call.op) /\ AfterCount(r.call.op) # "count"
  BY <1>3, <1>8 DEF StepsOf, AfterCount
<1>10. \A u \in Others(t) : Touched(txn[u]) \cap r.targets = {}
  BY <1>1, Waited DEF Changed, Touched
<1>11. r.call.op = "remove" => \A i \in S \cap DOMAIN rows : IsPrefix(r.call.path, rows[i].path)
  <2> SUFFICES ASSUME r.call.op = "remove", NEW i \in S \cap DOMAIN rows
               PROVE  IsPrefix(r.call.path, rows[i].path)
    OBVIOUS
  <2>1. View(t)[i] = rows[i]
    BY <1>1, <1>2, <1>5, Visible DEF RemovalOK
  <2>2. rows[i].path = r.call.path \/ IsPrefix(r.call.path, rows[i].path)
    BY <2>1 DEF Matched, StillMatches
  <2>3. r.call.path \in Seq(STRING)
    BY <1>2, CallsAssumption DEF Shape
  <2>4. IsPrefix(r.call.path, r.call.path)
    BY <2>3 DEF IsPrefix
  <2> QED
    BY <2>2, <2>4
<1>12. CASE Raise(t)
  BY <1>12, Raised
<1>13. CASE Goes(t, q)
  <2> HIDE DEF r, q, S, n
  <2>1. Shape(q)
    BY <1>2, <1>3, <1>7, <1>9 DEF Shape
  <2>2. RowsOK(q, rows, objects)
    BY <1>2, <1>3, <1>4 DEF RowsOK, Sourced
  <2>3. alive => Counted(q, rows, count)
    <3>1. r.step # "count" /\ Change(r, rows) \in Int /\ count \in Int
      <4>1. IsFiniteSet(r.del) /\ IsFiniteSet(Added(r, rows))
        BY <1>2, FS_Difference DEF Shape, Added
      <4>2. Cardinality(r.del) \in Nat /\ Cardinality(Added(r, rows)) \in Nat
        BY <4>1, FS_CardinalityType
      <4> QED
        BY <1>1, <4>2 DEF r, IInv, StoredOK, Change
    <3> QED
      BY <1>2, <1>3, <1>7, <1>9, <3>1 DEF Counted, Shape
  <2>4. RemovalOK(q, rows)
    BY <1>2, <1>3, <1>4, <1>11 DEF RemovalOK
  <2>5. ASSUME NEW u \in Others(t)
        PROVE  Touched(q) \cap Touched(txn[u]) = {} /\ q.new \cap txn[u].new = {}
    <3>1. Apart(r, txn[u], objects) /\ Touched(txn[u]) \cap r.targets = {}
      BY <1>2, <1>10
    <3>2. Touched(q) \subseteq Touched(r) \cup r.targets
      BY <1>3, <1>4, <1>5 DEF Touched
    <3> QED
      BY <1>3, <3>1, <3>2 DEF Apart
  <2>6. r.step \notin {"idle", "drop", "volume", "commit"}
    BY <1>1
  <2> QED
    BY <1>3, <1>13, <2>1, <2>2, <2>3, <2>4, <2>5, <2>6, Acted DEF r
<1> QED
  BY <1>1, <1>12, <1>13

LEMMA ChangeType ==
  ASSUME IInv, NEW t \in Clients, txn[t].step # "idle"
  PROVE  Change(txn[t], rows) \in Int /\ count \in Int
<1>1. IsFiniteSet(txn[t].del) /\ IsFiniteSet(Added(txn[t], rows))
  BY Running, FS_Difference DEF Shape, Added
<1>2. Cardinality(txn[t].del) \in Nat /\ Cardinality(Added(txn[t], rows)) \in Nat
  BY <1>1, FS_CardinalityType
<1> QED
  BY <1>2 DEF IInv, StoredOK, Change

LEMMA UpdateOK ==
  ASSUME IInv, NEW t \in Clients, Update(t)
  PROVE  IInv'
<1> DEFINE r == txn[t]
           S == Matched(t)
           moved == [i \in S |-> [View(t)[i] EXCEPT !.path = NewPath(r.call, @)]]
           q == [To(t, "commit") EXCEPT !.ins = Over(moved, @)]
<1>1. r.step = "update" /\ Blockers(t) = {} /\ (Raise(t) \/ Goes(t, q))
  BY DEF Update, Ready
<1>2. /\ Shape(r) /\ RowsOK(r, rows, objects) /\ (alive => Counted(r, rows, count))
      /\ RemovalOK(r, rows) /\ \A u \in Others(t) : Apart(r, txn[u], objects)
  BY <1>1, Running
<1>3. /\ DOMAIN q = Fields /\ q.step = "commit" /\ q.n = r.n /\ q.call = r.call /\ q.del = r.del
      /\ q.ins = Over(moved, r.ins) /\ q.uses = r.uses /\ q.new = r.new
      /\ q.drops = r.drops /\ q.gone = r.gone /\ q.zone = r.zone /\ q.total = r.total
  BY <1>2 DEF Shape, Fields, Idle, To
<1>4. S \subseteq r.targets /\ S \subseteq DOMAIN View(t)
  BY DEF Matched, StillMatches
<1>5. \A i \in S : DOMAIN moved[i] = RowFields /\ moved[i].obj = View(t)[i].obj
  BY <1>1, <1>4, Visible DEF RowFields
<1>6. DOMAIN moved = S
  OBVIOUS
<1>7. r.call.op = "move"
  BY <1>1, NextSteps
<1>8. \A u \in Others(t) : Touched(txn[u]) \cap r.targets = {}
  BY <1>1, Waited DEF Changed, Touched
<1>9. \A i \in S : (i \in DOMAIN rows \/ i \in DOMAIN r.ins) /\ i \notin r.del
  BY <1>1, <1>4, Visible
<1>10. CASE Raise(t)
  BY <1>10, Raised
<1>11. CASE Goes(t, q)
  <2>1. IsFiniteSet(S)
    <3>1. IsFiniteSet(DOMAIN rows \cup DOMAIN r.ins)
      BY <1>2, FS_Union DEF IInv, StoredOK, Shape
    <3> QED
      BY <1>9, <3>1, FS_Subset
  <2>2. \A i \in S : \/ i \in DOMAIN r.ins /\ View(t)[i].obj = r.ins[i].obj
                     \/ i \in DOMAIN rows /\ View(t)[i].obj = rows[i].obj
    BY <1>1, <1>4, Visible
  <2>3. Change(r, rows) \in Int /\ count \in Int
    BY <1>1, ChangeType
  <2>4. r.step \notin {"idle", "count", "drop", "volume", "commit"}
    BY <1>1
  <2> HIDE DEF r, q, S, moved
  <2>5. /\ DOMAIN q.ins = S \cup DOMAIN r.ins
        /\ \A i \in S : q.ins[i] = moved[i]
        /\ \A i \in DOMAIN r.ins \ S : q.ins[i] = r.ins[i]
    BY <1>3, <1>6 DEF Over
  <2>6. Shape(q)
    <3>1. IsFiniteSet(S \cup DOMAIN r.ins)
      BY <1>2, <2>1, FS_Union DEF Shape
    <3>2. "commit" \in StepsOf(r.call.op)
      BY <1>7 DEF StepsOf
    <3> QED
      BY <1>2, <1>3, <2>5, <3>1, <3>2 DEF Shape
  <2>7. RowsOK(q, rows, objects)
    <3>1. q.del \subseteq DOMAIN rows /\ q.del \cap DOMAIN q.ins = {}
      BY <1>2, <1>3, <1>9, <2>5 DEF RowsOK
    <3>2. ASSUME NEW i \in DOMAIN q.ins
          PROVE  DOMAIN q.ins[i] = RowFields /\ Sourced(q, i, rows)
      <4>1. CASE i \in S
        BY <1>2, <1>3, <1>5, <2>2, <2>5, <4>1 DEF RowsOK, Sourced
      <4>2. CASE i \notin S
        BY <1>2, <1>3, <2>5, <4>2 DEF RowsOK, Sourced
      <4> QED
        BY <4>1, <4>2
    <3> QED
      BY <1>2, <1>3, <3>1, <3>2 DEF RowsOK
  <2>8. alive => Counted(q, rows, count)
    <3>1. Added(q, rows) = Added(r, rows)
      BY <1>9, <2>5 DEF Added
    <3> QED
      BY <1>2, <1>3, <2>4, <3>1 DEF Counted, Change
  <2>9. RemovalOK(q, rows)
    BY <1>3, <1>7 DEF RemovalOK
  <2>10. ASSUME NEW u \in Others(t)
         PROVE  Touched(q) \cap Touched(txn[u]) = {} /\ q.new \cap txn[u].new = {}
    <3>1. Apart(r, txn[u], objects) /\ Touched(txn[u]) \cap r.targets = {}
      BY <1>2, <1>8
    <3>2. Touched(q) \subseteq Touched(r) \cup r.targets
      BY <1>3, <1>4, <2>5 DEF Touched
    <3> QED
      BY <1>3, <3>1, <3>2 DEF Apart
  <2> QED
    BY <1>3, <1>11, <2>4, <2>6, <2>7, <2>8, <2>9, <2>10, Acted DEF r
<1> QED
  BY <1>1, <1>10, <1>11

\* An insert: the rows N that r adds, none of them anybody's, with their contents.
LEMMA Inserted ==
  ASSUME IInv, NEW t \in Clients, txn[t].step = "insert",
         NEW rowsNew, NEW q, Goes(t, q), DOMAIN q = Fields,
         IsFiniteSet(DOMAIN rowsNew), DOMAIN rowsNew \subseteq FreshRows,
         \A j \in DOMAIN rowsNew : DOMAIN rowsNew[j] = RowFields
                                   /\ rowsNew[j].obj \in q.new \cup q.uses \cup {None},
         q.ins = Over(rowsNew, txn[t].ins), q.del = txn[t].del, q.call = txn[t].call,
         txn[t].uses \subseteq q.uses, q.uses \subseteq DOMAIN objects,
         txn[t].new \subseteq q.new, q.new \ txn[t].new \subseteq FreshObjects,
         q.n = Cardinality(DOMAIN rowsNew), q.total = txn[t].total,
         q.step \in StepsOf(q.call.op), q.n # 0 => q.step = "count", q.n = 0 => q.step # "count",
         q.drops = txn[t].drops, q.zone = txn[t].zone, q.gone = txn[t].gone,
         \A u \in Others(t) :
             /\ \A o \in q.uses \ txn[t].uses : objects[o] \notin txn[u].drops
             /\ txn[u].gone => q.uses \subseteq txn[t].uses /\ q.new \subseteq txn[t].new
  PROVE  IInv'
<1> DEFINE r == txn[t]
           N == DOMAIN rowsNew
<1>1. /\ Shape(r) /\ RowsOK(r, rows, objects) /\ (alive => Counted(r, rows, count))
      /\ RemovalOK(r, rows) /\ \A u \in Others(t) : Apart(r, txn[u], objects)
  BY Running
<1>2. N \cap DOMAIN rows = {} /\ \A u \in Clients : N \cap DOMAIN txn[u].ins = {}
  BY DEF FreshRows
<1>3. \A u \in Clients : txn[u].del \subseteq DOMAIN rows
  BY IdleOK DEF IInv, OwnOK, RowsOK, Touched
<1>4. \A u \in Clients : N \cap Touched(txn[u]) = {}
  BY <1>2, <1>3 DEF Touched
<1>5. r.call.op \in {"mkdir", "write", "copy"}
  BY NextSteps
<1>6. /\ DOMAIN q.ins = N \cup DOMAIN r.ins
      /\ \A j \in N : q.ins[j] = rowsNew[j]
      /\ \A j \in DOMAIN r.ins \ N : q.ins[j] = r.ins[j]
  BY DEF Over
<1>7. Change(r, rows) \in Int /\ count \in Int
  BY ChangeType
<1>8. N \cap DOMAIN r.ins = {} /\ r.step = "insert"
  BY <1>2
<1> HIDE DEF r
<1>9. /\ IsFiniteSet(DOMAIN q.ins) /\ q.n \in Nat
      /\ Change(q, rows) = Change(r, rows) + q.n
  <2> DEFINE I == DOMAIN r.ins
             R == DOMAIN rows
             C == Cardinality(r.del)
  <2>1. IsFiniteSet(I) /\ IsFiniteSet(r.del)
    BY <1>1 DEF Shape
  <2>2. N \cap R = {} /\ N \cap I = {} /\ IsFiniteSet(N)
    BY <1>2, <1>8
  <2>3. C \in Nat /\ Cardinality(I \ R) \in Nat
    BY <2>1, FS_CardinalityType, FS_Difference
  <2>4. /\ Change(q, rows) = Cardinality(DOMAIN q.ins \ R) - C
        /\ Change(r, rows) = Cardinality(I \ R) - C
        /\ DOMAIN q.ins = N \cup I /\ q.n = Cardinality(N)
    BY <1>6 DEF Change, Added, r
  <2> HIDE DEF N, I, R, C
  <2>5. /\ IsFiniteSet(N \cup I) /\ Cardinality(N) \in Nat
        /\ Cardinality((N \cup I) \ R) = Cardinality(I \ R) + Cardinality(N)
    BY <2>1, <2>2, InsertedCount
  <2> QED
    BY <2>3, <2>4, <2>5
<1>10. Shape(q)
  BY <1>1, <1>9 DEF Shape, r
<1>11. RowsOK(q, rows, objects)
  <2>1. q.del \subseteq DOMAIN rows /\ q.del \cap DOMAIN q.ins = {}
    BY <1>1, <1>2, <1>6 DEF RowsOK, r
  <2>2. ASSUME NEW i \in DOMAIN q.ins
        PROVE  DOMAIN q.ins[i] = RowFields /\ Sourced(q, i, rows)
    BY <1>1, <1>6 DEF RowsOK, Sourced, r
  <2>3. q.new \cap DOMAIN objects = {}
    BY <1>1 DEF RowsOK, FreshObjects, r
  <2> QED
    BY <2>1, <2>2, <2>3 DEF RowsOK
<1>12. alive => Counted(q, rows, count)
  BY <1>1, <1>7, <1>8, <1>9 DEF Counted, Shape, r
<1>13. RemovalOK(q, rows)
  BY <1>5 DEF RemovalOK, r
<1>14. ASSUME NEW u \in Others(t)
       PROVE  Touched(q) \cap Touched(txn[u]) = {} /\ q.new \cap txn[u].new = {}
  <2>1. Apart(r, txn[u], objects) /\ u \in Clients
    BY <1>1 DEF Others
  <2>2. Touched(q) = Touched(r) \cup N
    BY <1>6 DEF Touched, r
  <2>3. (q.new \ r.new) \cap txn[u].new = {}
    BY <2>1 DEF FreshObjects, r
  <2> QED
    BY <1>4, <2>1, <2>2, <2>3 DEF Apart
<1> QED
  BY <1>10, <1>11, <1>12, <1>13, <1>14, Acted

LEMMA InsertOK ==
  ASSUME IInv, NEW t \in Clients, Insert(t)
  PROVE  IInv'
<1> DEFINE r == txn[t]
           c == r.call
           source == IF c.op = "mkdir" THEN {None} ELSE Copied(t)
           Row(i) == IF c.op = "mkdir" THEN [path |-> c.path, kind |-> Dir, obj |-> None]
                     ELSE [View(t)[i] EXCEPT !.path = NewPath(c, @)]
           refers == {Row(i).obj : i \in source} \ {None}
           f == CHOOSE g \in Injection(source, FreshRows) : TRUE
           rowsNew == [j \in {f[i] : i \in source} |-> Row(CHOOSE i \in source : f[i] = j)]
           n == Cardinality(source)
           q == [Counting(t, n) EXCEPT !.ins = Over(rowsNew, @), !.uses = @ \cup refers]
<1>1. r.step = "insert" /\ Blockers(t) = {} /\ c.op \in {"mkdir", "copy"}
  BY DEF Insert, Ready
<1>2. Injection(source, FreshRows) # {} /\ (Raise(t) \/ (refers \subseteq DOMAIN objects /\ Goes(t, q)))
  BY DEF Insert
<1>3. CASE Raise(t)
  BY <1>3, Raised
<1>4. CASE refers \subseteq DOMAIN objects /\ Goes(t, q)
  <2>1. Shape(r) /\ RowsOK(r, rows, objects)
    BY <1>1, Running
  <2>2. /\ DOMAIN q = Fields /\ q.step = (IF n = 0 THEN AfterCount(c.op) ELSE "count") /\ q.n = n
        /\ q.call = c /\ q.del = r.del /\ q.ins = Over(rowsNew, r.ins)
        /\ q.uses = r.uses \cup refers /\ q.new = r.new
        /\ q.drops = r.drops /\ q.gone = r.gone /\ q.zone = r.zone /\ q.total = r.total
    BY <2>1 DEF Shape, Fields, Idle, To, Counting
  <2>3. IsFiniteSet(source)
    <3>1. DOMAIN View(t) \subseteq DOMAIN rows \cup DOMAIN r.ins
      BY SeenIsView DEF Seen
    <3>2. IsFiniteSet(DOMAIN rows \cup DOMAIN r.ins)
      BY <2>1, FS_Union DEF IInv, StoredOK, Shape
    <3>3. Copied(t) \subseteq DOMAIN View(t)
      BY DEF Copied, Within
    <3>4. IsFiniteSet(Copied(t))
      BY <3>1, <3>2, <3>3, FS_Subset
    <3> QED
      BY <3>4, FS_Singleton
  <2>4. \A i \in source : /\ DOMAIN Row(i) = RowFields
                          /\ c.op = "copy" => i \in Copied(t) /\ Row(i).obj = View(t)[i].obj
                          /\ c.op = "mkdir" => Row(i).obj = None
    <3>1. CASE c.op = "mkdir"
      BY <3>1 DEF RowFields
    <3>2. CASE c.op = "copy"
      <4>1. \A i \in source : i \in Copied(t) /\ i \in DOMAIN View(t)
        BY <3>2 DEF Copied, Within
      <4>2. \A i \in source : DOMAIN View(t)[i] = RowFields
        BY <1>1, <4>1, Visible
      <4>3. \A i \in source : Row(i) = [View(t)[i] EXCEPT !.path = NewPath(c, @)]
        BY <3>2
      <4> QED
        BY <3>2, <4>1, <4>2, <4>3 DEF RowFields
    <3> QED
      BY <1>1, <3>1, <3>2
  <2>5. f \in Injection(source, FreshRows)
    BY <1>2
  <2> HIDE DEF f, source, Row
  <2> DEFINE N == {f[i] : i \in source}
  <2>6. N \subseteq FreshRows /\ IsFiniteSet(N) /\ Cardinality(N) = n
    <3>1. f \in [source -> FreshRows] /\ \A a, b \in source : f[a] = f[b] => a = b
      BY <2>5 DEF Injection, IsInjective
    <3>2. f \in [source -> N] /\ \A j \in N : \E i \in source : f[i] = j
      BY <3>1
    <3>3. f \in Surjection(source, N) /\ f \in Injection(source, N)
      BY <3>1, <3>2 DEF Surjection, Injection, IsInjective
    <3>4. IsFiniteSet(N) /\ Cardinality(N) = Cardinality(source)
      BY <2>3, <3>3, FS_Surjection
    <3> QED
      BY <3>1, <3>4
  <2>7. /\ DOMAIN rowsNew = N
        /\ \A j \in N : \E i \in source : rowsNew[j] = Row(i)
    OBVIOUS
  <2>8. \A j \in N : DOMAIN rowsNew[j] = RowFields /\ rowsNew[j].obj \in refers \cup {None}
    BY <2>4, <2>7
  <2>9. ASSUME NEW u \in Others(t)
        PROVE  /\ \A o \in refers : objects[o] \notin txn[u].drops
               /\ txn[u].gone => refers = {}
    <3>1. \A i \in source : c.op = "copy" /\ View(t)[i].obj # None =>
              /\ ~txn[u].gone
              /\ View(t)[i].obj \in DOMAIN objects => objects[View(t)[i].obj] \notin txn[u].drops
      BY <1>1, <2>4, Waited
    <3>2. \A o \in refers : \E i \in source : o = Row(i).obj /\ o # None /\ o \in DOMAIN objects
      BY <1>4
    <3> QED
      BY <1>1, <2>4, <3>1, <3>2
  <2>10. q.step \in StepsOf(c.op) /\ (n = 0 => q.step # "count")
    BY <1>1, <2>2 DEF StepsOf, AfterCount
  <2>11. r.uses \subseteq q.uses /\ q.uses \subseteq DOMAIN objects /\ q.uses \ r.uses \subseteq refers
    BY <1>4, <2>1, <2>2 DEF RowsOK
  <2> HIDE DEF q, rowsNew, refers, N, n
  <2>12. \A j \in DOMAIN rowsNew : /\ DOMAIN rowsNew[j] = RowFields
                                   /\ rowsNew[j].obj \in q.new \cup q.uses \cup {None}
    BY <2>2, <2>7, <2>8
  <2>13. \A u \in Others(t) :
             /\ \A o \in q.uses \ r.uses : objects[o] \notin txn[u].drops
             /\ txn[u].gone => q.uses \subseteq r.uses /\ q.new \subseteq r.new
    BY <2>2, <2>9, <2>11
  <2>14. /\ IsFiniteSet(DOMAIN rowsNew) /\ DOMAIN rowsNew \subseteq FreshRows
         /\ q.n = Cardinality(DOMAIN rowsNew)
    BY <2>2, <2>6, <2>7
  <2> QED
    BY <1>1, <1>4, <2>2, <2>10, <2>11, <2>12, <2>13, <2>14, Inserted
<1> QED
  BY <1>2, <1>3, <1>4

LEMMA UpsertOK ==
  ASSUME IInv, NEW t \in Clients, Upsert(t)
  PROVE  IInv'
<1> DEFINE r == txn[t]
           p == r.call.path
           o == CHOOSE x \in FreshObjects : TRUE
           found == IdsAt(t, p)
           i == IF found = {} THEN CHOOSE j \in FreshRows : TRUE ELSE CHOOSE j \in found : TRUE
           row == [path |-> p, kind |-> File, obj |-> o]
           rowsNew == [j \in {i} |-> row]
           put == [r EXCEPT !.ins = Over(rowsNew, @),
                            !.new = @ \cup {o}, !.n = IF found = {} THEN 1 ELSE 0]
           counts == [put EXCEPT !.step = "count"]
           same == [put EXCEPT !.step = "reclaim"]
<1>1. /\ r.step = "insert" /\ Blockers(t) = {} /\ r.call.op = "write"
      /\ FreshRows # {} /\ FreshObjects # {}
      /\ Raise(t) \/ Goes(t, counts) \/ (found # {} /\ Goes(t, same))
  BY DEF Upsert, Ready
<1>2. /\ Shape(r) /\ RowsOK(r, rows, objects) /\ (alive => Counted(r, rows, count))
      /\ RemovalOK(r, rows) /\ \A u \in Others(t) : Apart(r, txn[u], objects)
  BY <1>1, Running
<1>3. \A u \in Others(t) : ~txn[u].gone
  BY <1>1, Waited
<1>4. CASE Raise(t)
  BY <1>4, Raised
<1>5. ASSUME NEW q \in {counts, same}, Goes(t, q), q = same => found # {}
      PROVE  IInv'
  <2>1. /\ DOMAIN q = Fields /\ q.n = (IF found = {} THEN 1 ELSE 0)
        /\ q.step \in {"count", "reclaim"} /\ (found = {} => q.step = "count")
        /\ q.call = r.call /\ q.del = r.del /\ q.ins = Over(rowsNew, r.ins)
        /\ q.uses = r.uses /\ q.new = r.new \cup {o}
        /\ q.drops = r.drops /\ q.gone = r.gone /\ q.zone = r.zone /\ q.total = r.total
    BY <1>2, <1>5 DEF Shape, Fields, Idle
  <2>2. q.step \in StepsOf(q.call.op)
    BY <1>1, <2>1 DEF StepsOf
  <2>3. o \in FreshObjects
    BY <1>1
  <2>4. DOMAIN row = RowFields /\ row.obj = o
    BY DEF RowFields
  <2>5. DOMAIN rowsNew = {i} /\ rowsNew[i] = row
    OBVIOUS
  <2>6. /\ found = {} => i \in FreshRows
        /\ found # {} => i \in found
    BY <1>1
  <2> HIDE DEF r, o, i, row, rowsNew, put, counts, same
  <2>7. IsFiniteSet({i}) /\ Cardinality({i}) = 1
    BY FS_Singleton
  <2>8. CASE found = {}
    <3>1. \A j \in DOMAIN rowsNew : /\ DOMAIN rowsNew[j] = RowFields
                                    /\ rowsNew[j].obj \in q.new \cup q.uses \cup {None}
      BY <2>1, <2>4, <2>5
    <3>2. /\ IsFiniteSet(DOMAIN rowsNew) /\ DOMAIN rowsNew \subseteq FreshRows
          /\ q.n = Cardinality(DOMAIN rowsNew)
      BY <2>1, <2>5, <2>6, <2>7, <2>8
    <3>3. /\ r.uses \subseteq q.uses /\ q.uses \subseteq DOMAIN objects
          /\ r.new \subseteq q.new /\ q.new \ r.new \subseteq FreshObjects
          /\ q.n = 1 /\ q.step = "count"
      BY <1>2, <2>1, <2>3, <2>8 DEF RowsOK
    <3> QED
      BY <1>1, <1>3, <1>5, <2>1, <2>2, <3>1, <3>2, <3>3, Inserted DEF r
  <2>9. CASE found # {}
    <3>1. i \in DOMAIN View(t) /\ View(t)[i].path = p
      BY <2>6, <2>9 DEF IdsAt
    <3>2. /\ i \in DOMAIN rows \/ i \in DOMAIN r.ins
          /\ i \notin DOMAIN r.ins => View(t)[i] = rows[i]
          /\ i \notin r.del
      BY <1>1, <3>1, Visible DEF r
    <3>3. ASSUME NEW u \in Others(t)
          PROVE  i \notin Touched(txn[u])
      <4>1. Apart(r, txn[u], objects) /\ ~Claims(u, p)
        BY <1>1, <1>2, Waited DEF r, InsertedPaths
      <4>2. CASE i \in DOMAIN r.ins
        BY <4>1, <4>2 DEF Apart, Touched
      <4>3. CASE i \notin DOMAIN r.ins
        BY <3>1, <3>2, <4>1, <4>3 DEF Claims, Changed, Touched
      <4> QED
        BY <4>2, <4>3
    <3>4. /\ DOMAIN q.ins = {i} \cup DOMAIN r.ins /\ q.ins[i] = row
          /\ \A j \in DOMAIN r.ins \ {i} : q.ins[j] = r.ins[j]
      BY <2>1, <2>5 DEF Over
    <3>5. Shape(q)
      <4>1. IsFiniteSet({i} \cup DOMAIN r.ins)
        BY <1>2, <2>7, FS_Union DEF Shape
      <4> QED
        BY <1>2, <2>1, <2>2, <3>4, <4>1 DEF Shape
    <3>6. RowsOK(q, rows, objects)
      <4>1. q.del \subseteq DOMAIN rows /\ q.del \cap DOMAIN q.ins = {}
        BY <1>2, <2>1, <3>2, <3>4 DEF RowsOK
      <4>2. ASSUME NEW j \in DOMAIN q.ins
            PROVE  DOMAIN q.ins[j] = RowFields /\ Sourced(q, j, rows)
        <5>1. CASE j = i
          BY <2>1, <2>4, <3>4, <5>1 DEF Sourced
        <5>2. CASE j # i
          BY <1>2, <2>1, <3>4, <5>2 DEF RowsOK, Sourced
        <5> QED
          BY <5>1, <5>2
      <4>3. q.uses \subseteq DOMAIN objects /\ q.new \cap DOMAIN objects = {}
        BY <1>2, <2>1, <2>3 DEF RowsOK, FreshObjects
      <4> QED
        BY <4>1, <4>2, <4>3 DEF RowsOK
    <3>7. alive => Counted(q, rows, count)
      <4>1. Added(q, rows) = Added(r, rows)
        BY <3>2, <3>4 DEF Added
      <4>2. Change(r, rows) \in Int /\ count \in Int
        BY <1>1, ChangeType DEF r
      <4> QED
        BY <1>1, <1>2, <2>1, <2>9, <4>1, <4>2 DEF Counted, Change, Shape
    <3>8. RemovalOK(q, rows)
      BY <1>1, <2>1 DEF RemovalOK
    <3>9. ASSUME NEW u \in Others(t)
          PROVE  /\ Touched(q) \cap Touched(txn[u]) = {} /\ q.new \cap txn[u].new = {}
                 /\ \A x \in q.uses \ r.uses : objects[x] \notin txn[u].drops
      <4>1. Apart(r, txn[u], objects) /\ u \in Clients
        BY <1>2 DEF Others
      <4>2. Touched(q) = Touched(r) \cup {i}
        BY <2>1, <3>4 DEF Touched
      <4>3. o \notin txn[u].new
        BY <2>3, <4>1 DEF FreshObjects
      <4> QED
        BY <2>1, <3>3, <4>1, <4>2, <4>3 DEF Apart
    <3> QED
      BY <1>1, <1>3, <1>5, <2>1, <3>5, <3>6, <3>7, <3>8, <3>9, Acted DEF r
  <2> QED
    BY <2>8, <2>9
<1>6. CASE Goes(t, counts)
  <2>1. counts.step = "count" /\ same.step = "reclaim"
    BY <1>2 DEF Shape, Fields, Idle
  <2> QED
    BY <1>5, <1>6, <2>1
<1>7. CASE found # {} /\ Goes(t, same)
  BY <1>5, <1>7
<1> HIDE DEF counts, same, found
<1> QED
  BY <1>1, <1>4, <1>6, <1>7

-----------------------------------------------------------------------------
(* Commit.                                                                 *)

Kept(r, O) == {o \in DOMAIN O : ~r.gone /\ O[o] \notin r.drops}
ObjectsAfter(r, O) == [o \in Kept(r, O) \cup r.new |-> IF o \in Kept(r, O) THEN O[o] ELSE None]

\* What the commit of r leaves of the objects, and of the contents of its rows.
LEMMA ContentKept ==
  ASSUME NEW r, NEW R, NEW O, NEW S, Resident(R, O, S), RowsOK(r, R, O), DropsOK(r, R, O),
         NEW i \in DOMAIN Seen(R, r)
  PROVE  Seen(R, r)[i].obj \in DOMAIN ObjectsAfter(r, O) \cup {None}
<1> DEFINE o == Seen(R, r)[i].obj
<1>1. o # None => ~r.gone /\ (o \in DOMAIN O => O[o] \notin r.drops)
  BY DEF DropsOK
<1>2. o \in DOMAIN O \cup r.new \cup {None}
  <2>1. CASE i \in DOMAIN r.ins
    <3>1. o = r.ins[i].obj
      BY <2>1 DEF Seen
    <3>2. Sourced(r, i, R) /\ r.uses \subseteq DOMAIN O
      BY <2>1 DEF RowsOK
    <3> HIDE DEF o
    <3>3. o \in r.new \cup r.uses \cup {None} \/ (i \in DOMAIN R /\ R[i].obj = o)
      BY <3>1, <3>2 DEF Sourced
    <3> QED
      BY <3>2, <3>3 DEF Resident
  <2>2. CASE i \notin DOMAIN r.ins
    BY <2>2 DEF Seen, Resident
  <2> QED
    BY <2>1, <2>2
<1> HIDE DEF o
<1>3. DOMAIN ObjectsAfter(r, O) = Kept(r, O) \cup r.new
  BY DEF ObjectsAfter
<1>4. o \in DOMAIN ObjectsAfter(r, O) \cup {None}
  BY <1>1, <1>2, <1>3 DEF Kept
<1> QED
  BY <1>4 DEF o

LEMMA ObjectsKept ==
  ASSUME NEW r, NEW O, NEW o
  PROVE  LET O2 == ObjectsAfter(r, O)
         IN /\ o \in DOMAIN O2 => O2[o] = None \/ (o \in DOMAIN O /\ O2[o] = O[o])
            /\ o \in DOMAIN O2 => o \in r.new \/ (o \in DOMAIN O /\ ~r.gone /\ O[o] \notin r.drops)
            /\ (o \in DOMAIN O /\ ~r.gone /\ O[o] \notin r.drops) => o \in DOMAIN O2 /\ O2[o] = O[o]
BY DEF ObjectsAfter, Kept

\* A row that q has touched, r has not: its commit leaves the row.
LEMMA RowKept ==
  ASSUME NEW r, NEW R, NEW i, i \notin Touched(r)
  PROVE  /\ i \in DOMAIN Seen(R, r) <=> i \in DOMAIN R
         /\ i \in DOMAIN R => Seen(R, r)[i] = R[i]
BY DEF Seen, Touched

LEMMA StoredKept ==
  ASSUME NEW r, NEW R, NEW O, NEW S, NEW k, NEW live, StoredOK(R, O, S, k, live), r.step = "commit",
         Shape(r), RowsOK(r, R, O), DropsOK(r, R, O), live => Counted(r, R, k)
  PROVE  StoredOK(Seen(R, r), ObjectsAfter(r, O), IF r.gone THEN {} ELSE S \ r.drops,
                  IF r.zone THEN r.total ELSE k, live /\ ~r.gone)
<1> DEFINE R2 == Seen(R, r)
           O2 == ObjectsAfter(r, O)
           S2 == IF r.gone THEN {} ELSE S \ r.drops
           k2 == IF r.zone THEN r.total ELSE k
           live2 == live /\ ~r.gone
<1>1. Resident(R2, O2, S2)
  <2>1. \A i \in DOMAIN R2 : R2[i].obj \in DOMAIN O2 \cup {None}
    BY ContentKept DEF StoredOK
  <2>2. ASSUME NEW o \in DOMAIN O2
        PROVE  O2[o] \in S2 \cup {None}
    <3>1. DOMAIN O2 = Kept(r, O) \cup r.new
          /\ O2[o] = IF o \in Kept(r, O) THEN O[o] ELSE None
      BY <2>2 DEF ObjectsAfter
    <3> QED
      BY <3>1 DEF Kept, StoredOK, Resident
  <2> QED
    BY <2>1, <2>2 DEF Resident
<1>2. DOMAIN R2 = (DOMAIN R \ r.del) \cup DOMAIN r.ins
  BY DEF Seen
<1>3. IsFiniteSet(DOMAIN R2) /\ (live => k2 = Cardinality(DOMAIN R2))
  <2> DEFINE D == r.del
             I == DOMAIN r.ins
             K == DOMAIN R
             all == DOMAIN R2
  <2>1. IsFiniteSet(K) /\ IsFiniteSet(D) /\ IsFiniteSet(I) /\ D \subseteq K /\ D \cap I = {}
    BY DEF StoredOK, Shape, RowsOK
  <2>2. all = (K \ D) \cup I
    BY <1>2
  <2>3. IsFiniteSet(all) /\ Cardinality(all) = Cardinality(K) + Cardinality(I \ K) - Cardinality(D)
    <3> HIDE DEF D, I, K, all
    <3>1. /\ IsFiniteSet((K \ D) \cup I)
          /\ Cardinality((K \ D) \cup I) = Cardinality(K) + Cardinality(I \ K) - Cardinality(D)
      BY <2>1, CommittedCount
    <3> QED
      BY <2>2, <3>1
  <2>4. live => k = Cardinality(K)
    BY DEF StoredOK, Exact
  <2>5. live => k2 = k + (Cardinality(I \ K) - Cardinality(D))
    <3>1. k2 \in Int
      BY DEF StoredOK, Shape
    <3>2. live => k2 + 0 = k + (Cardinality(I \ K) - Cardinality(D))
      BY DEF Counted, Change, Added
    <3> QED
      BY <3>1, <3>2
  <2>6. Cardinality(K) \in Nat /\ Cardinality(D) \in Nat /\ Cardinality(I \ K) \in Nat
    BY <2>1, FS_CardinalityType, FS_Difference
  <2> HIDE DEF D, I, K, k2
  <2>7. live => k2 = Cardinality(all)
    BY <2>3, <2>4, <2>5, <2>6
  <2> QED
    BY <2>3, <2>7
<1>4. k2 \in Int /\ live2 \in BOOLEAN /\ None \notin S2
  BY DEF StoredOK, Shape
<1>5. \A i \in DOMAIN R2 : DOMAIN R2[i] = RowFields
  BY DEF StoredOK, RowsOK, Seen
<1> HIDE DEF R2, O2, S2, k2
<1>6. StoredOK(R2, O2, S2, k2, live2)
  BY <1>1, <1>3, <1>4, <1>5 DEF StoredOK, Exact
<1> QED
  BY <1>6 DEF R2, O2, S2, k2

\* What the commit of r leaves of another transaction q.
LEMMA OtherRows ==
  ASSUME NEW r, NEW q, NEW R, NEW O, RowsOK(r, R, O), RowsOK(q, R, O), Apart(r, q, O)
  PROVE  RowsOK(q, Seen(R, r), ObjectsAfter(r, O))
<1> DEFINE R2 == Seen(R, r)
           O2 == ObjectsAfter(r, O)
<1>1. \A i \in Touched(q) : /\ i \in DOMAIN R2 <=> i \in DOMAIN R
                            /\ i \in DOMAIN R => R2[i] = R[i]
  BY RowKept DEF Apart
<1>2. \A o \in q.uses : o \in DOMAIN O /\ O[o] \notin r.drops /\ ~r.gone
  BY DEF RowsOK, Apart, Leaves
<1>3. q.uses \subseteq DOMAIN O2
  BY <1>2, ObjectsKept
<1>4. q.new \cap DOMAIN O2 = {}
  BY ObjectsKept DEF RowsOK, Apart
<1> HIDE DEF R2, O2
<1>5. q.del \subseteq DOMAIN R2 /\ q.del \cap DOMAIN q.ins = {}
  BY <1>1 DEF RowsOK, Touched
<1>6. \A i \in DOMAIN q.ins : DOMAIN q.ins[i] = RowFields /\ Sourced(q, i, R2)
  BY <1>1 DEF RowsOK, Touched, Sourced
<1>7. RowsOK(q, R2, O2)
  BY <1>3, <1>4, <1>5, <1>6 DEF RowsOK
<1> QED
  BY <1>7 DEF R2, O2

LEMMA OtherDrops ==
  ASSUME NEW r, NEW q, NEW R, NEW O, RowsOK(r, R, O), RowsOK(q, R, O), DropsOK(q, R, O),
         Apart(r, q, O)
  PROVE  DropsOK(q, Seen(R, r), ObjectsAfter(r, O))
<1> DEFINE R2 == Seen(R, r)
           O2 == ObjectsAfter(r, O)
           Safe(o, P) == o # None => ~q.gone /\ (o \in DOMAIN P => P[o] \notin q.drops)
<1>1. \A i \in DOMAIN Seen(R, q) : Safe(Seen(R, q)[i].obj, O)
  BY DEF DropsOK
<1>2. None \notin q.drops
  BY DEF DropsOK
<1>3. ASSUME NEW o, Safe(o, O)
      PROVE  Safe(o, O2)
  BY <1>2, <1>3, ObjectsKept
<1>4. ASSUME NEW i \in DOMAIN Seen(R2, q)
      PROVE  Safe(Seen(R2, q)[i].obj, O2)
  <2>1. CASE i \in DOMAIN q.ins
    <3>1. i \in DOMAIN Seen(R, q) /\ Seen(R2, q)[i] = Seen(R, q)[i]
      BY <2>1 DEF Seen
    <3> QED
      BY <1>1, <1>3, <3>1
  <2>2. CASE i \notin DOMAIN q.ins
    <3>1. i \in DOMAIN R2 /\ i \notin q.del /\ Seen(R2, q)[i] = R2[i]
      BY <1>4, <2>2 DEF Seen
    <3>2. ASSUME i \in DOMAIN R
          PROVE  i \in DOMAIN Seen(R, q) /\ Seen(R, q)[i] = R[i]
      BY <2>2, <3>1, <3>2 DEF Seen
    <3>3. CASE i \notin DOMAIN r.ins
      <4>1. i \in DOMAIN R /\ R2[i] = R[i]
        BY <3>1, <3>3 DEF Seen
      <4> QED
        BY <1>1, <1>3, <3>1, <3>2, <4>1
    <3>4. CASE i \in DOMAIN r.ins
      <4> DEFINE o == r.ins[i].obj
      <4>1. Seen(R2, q)[i].obj = o
        BY <3>1, <3>4 DEF Seen
      <4>2. o \in r.new \cup r.uses \cup {None} \/ (i \in DOMAIN R /\ R[i].obj = o)
        BY <3>4 DEF RowsOK, Sourced
      <4>3. ASSUME o \in r.new
            PROVE  Safe(o, O)
        BY <4>3 DEF RowsOK, Apart, Leaves
      <4>4. ASSUME o \in r.uses
            PROVE  Safe(o, O)
        BY <4>4 DEF RowsOK, Apart, Leaves
      <4>5. ASSUME i \in DOMAIN R, R[i].obj = o
            PROVE  Safe(o, O)
        BY <1>1, <3>2, <4>5
      <4>6. Safe(o, O)
        BY <4>2, <4>3, <4>4, <4>5
      <4> QED
        BY <1>3, <4>1, <4>6
    <3> QED
      BY <3>3, <3>4
  <2> QED
    BY <2>1, <2>2
<1> QED
  BY <1>4 DEF DropsOK

LEMMA OtherKept ==
  ASSUME NEW r, NEW q, NEW R, NEW O, NEW S, NEW k, NEW live, StoredOK(R, O, S, k, live),
         Shape(r), RowsOK(r, R, O), DropsOK(r, R, O), OwnOK(q, R, O, k, live), Apart(r, q, O)
  PROVE  OwnOK(q, Seen(R, r), ObjectsAfter(r, O), IF r.zone THEN r.total ELSE k, live /\ ~r.gone)
<1> DEFINE R2 == Seen(R, r)
           O2 == ObjectsAfter(r, O)
           k2 == IF r.zone THEN r.total ELSE k
           live2 == live /\ ~r.gone
<1>1. CASE q = Idle
  BY <1>1, IdleOK
<1>2. CASE q # Idle
  <2>1. /\ Shape(q) /\ RowsOK(q, R, O) /\ DropsOK(q, R, O) /\ (live => Counted(q, R, k))
        /\ RemovalOK(q, R)
    BY <1>2 DEF OwnOK
  <2>2. RowsOK(q, R2, O2) /\ DropsOK(q, R2, O2)
    BY <2>1, OtherRows, OtherDrops
  <2>3. \A i \in Touched(q) : /\ i \in DOMAIN R2 <=> i \in DOMAIN R
                              /\ i \in DOMAIN R => R2[i] = R[i]
    BY RowKept DEF Apart
  <2>4. k \in Int /\ k2 \in Int
    BY DEF StoredOK, Shape
  <2>5. r.zone => ~q.zone
    BY DEF Apart
  <2>6. ~r.zone => k2 = k
    OBVIOUS
  <2> HIDE DEF R2, O2, k2
  <2>7. RemovalOK(q, R2)
    BY <2>1, <2>3 DEF RemovalOK, RowsOK, Touched
  <2>8. Change(q, R2) = Change(q, R) /\ Change(q, R) \in Int
    <3>1. Added(q, R2) = Added(q, R)
      BY <2>3 DEF Added, Touched
    <3>2. IsFiniteSet(q.del) /\ IsFiniteSet(Added(q, R))
      BY <2>1, FS_Difference DEF Shape, Added
    <3>3. Cardinality(q.del) \in Nat /\ Cardinality(Added(q, R)) \in Nat
      BY <3>2, FS_CardinalityType
    <3> QED
      BY <3>1, <3>3 DEF Change
  <2>9. live2 => Counted(q, R2, k2)
    <3> DEFINE n == IF q.step = "count" THEN q.n ELSE 0
    <3>1. n \in Int /\ q.total \in Int /\ q.zone \in BOOLEAN /\ r.zone \in BOOLEAN
      BY <2>1 DEF Shape
    <3>2. live => (IF q.zone THEN q.total ELSE k) + n = k + Change(q, R)
      BY <2>1 DEF Counted
    <3> HIDE DEF n
    <3>3. live => (IF q.zone THEN q.total ELSE k2) + n = k2 + Change(q, R2)
      BY <2>4, <2>5, <2>6, <2>8, <3>1, <3>2
    <3> QED
      BY <3>3 DEF Counted, n
  <2>10. OwnOK(q, R2, O2, k2, live2)
    BY <2>1, <2>2, <2>7, <2>9 DEF OwnOK
  <2> QED
    BY <2>10 DEF R2, O2, k2
<1> QED
  BY <1>1, <1>2

LEMMA PairKept ==
  ASSUME NEW r, NEW p, NEW q, NEW O, Apart(p, q, O), Apart(r, p, O), Apart(r, q, O),
         p.uses \subseteq DOMAIN O, q.uses \subseteq DOMAIN O
  PROVE  Apart(p, q, ObjectsAfter(r, O))
<1> DEFINE O2 == ObjectsAfter(r, O)
<1>1. \A o \in p.uses \cup q.uses : O2[o] = O[o]
  <2>1. \A o \in p.uses \cup q.uses : o \in DOMAIN O /\ ~r.gone /\ O[o] \notin r.drops
    BY DEF Apart, Leaves
  <2> QED
    BY <2>1, ObjectsKept
<1> HIDE DEF O2
<1>2. Apart(p, q, O2)
  BY <1>1 DEF Apart, Leaves
<1> QED
  BY <1>2 DEF O2

LEMMA CommitOK ==
  ASSUME IInv, NEW t \in Clients, Commit(t)
  PROVE  IInv'
<1> DEFINE r == txn[t]
           R2 == Seen(rows, r)
           O2 == ObjectsAfter(r, objects)
           S2 == IF r.gone THEN {} ELSE segments \ r.drops
           k2 == IF r.zone THEN r.total ELSE count
           live2 == alive /\ ~r.gone
<1>1. r.step = "commit" /\ txn' = [txn EXCEPT ![t] = Idle]
  BY DEF Commit, Ready
<1>2. rows' = R2 /\ objects' = O2 /\ segments' = S2 /\ count' = k2 /\ alive' = live2
  BY SeenIsView DEF Commit, ObjectsAfter, Kept
<1>3. /\ Shape(r) /\ RowsOK(r, rows, objects) /\ DropsOK(r, rows, objects)
      /\ (alive => Counted(r, rows, count)) /\ \A u \in Others(t) : Apart(r, txn[u], objects)
  BY <1>1, Running
<1>4. StoredOK(rows, objects, segments, count, alive)
  BY DEF IInv
<1>5. DOMAIN txn' = Clients /\ txn'[t] = Idle /\ \A u \in Others(t) : txn'[u] = txn[u]
  BY <1>1 DEF IInv, Others
<1>6. StoredOK(R2, O2, S2, k2, live2)
  BY <1>1, <1>3, <1>4, StoredKept
<1>7. ASSUME NEW u \in Clients
      PROVE  OwnOK(txn'[u], R2, O2, k2, live2)
  <2>1. CASE u = t
    BY <1>5, <2>1, IdleOK
  <2>2. CASE u # t
    <3>1. OwnOK(txn[u], rows, objects, count, alive) /\ Apart(r, txn[u], objects)
      BY <1>3, <2>2 DEF IInv, Others
    <3> QED
      BY <1>3, <1>4, <1>5, <2>2, <3>1, OtherKept DEF Others
  <2> QED
    BY <2>1, <2>2
<1>8. ASSUME NEW u \in Clients, NEW v \in Others(u)
      PROVE  Apart(txn'[u], txn'[v], O2)
  <2>1. CASE u = t \/ v = t
    BY <1>5, <2>1, IdleApart
  <2>2. CASE u # t /\ v # t
    <3>1. \A x \in Clients : txn[x].uses \subseteq DOMAIN objects
      BY IdleOK DEF IInv, OwnOK, RowsOK
    <3>2. /\ Apart(txn[u], txn[v], objects) /\ Apart(r, txn[u], objects)
          /\ Apart(r, txn[v], objects) /\ txn'[u] = txn[u] /\ txn'[v] = txn[v]
      BY <1>3, <1>5, <2>2 DEF IInv, Others
    <3> QED
      BY <3>1, <3>2, PairKept DEF Others
  <2> QED
    BY <2>1, <2>2
<1> HIDE DEF R2, O2, S2, k2, live2
<1>9. StoredOK(rows, objects, segments, count, alive)'
  BY <1>2, <1>6
<1>10. (\A u \in Clients : OwnOK(txn[u], rows, objects, count, alive))'
  BY <1>2, <1>7
<1>11. (\A u \in Clients : \A v \in Others(u) : Apart(txn[u], txn[v], objects))'
  BY <1>2, <1>8 DEF Others
<1> QED
  BY <1>5, <1>9, <1>10, <1>11 DEF IInv

-----------------------------------------------------------------------------
(* Theorems.                                                               *)

LEMMA InitOK ==
  ASSUME Init
  PROVE  IInv
<1>1. txn = [t \in Clients |-> Idle] /\ rows = Rows /\ objects = Objects /\ alive = TRUE
      /\ count = Cardinality(DOMAIN Rows) /\ segments = {Objects[o] : o \in DOMAIN Objects} \ {None}
  BY DEF Init
<1>2. StoredOK(rows, objects, segments, count, alive)
  <2>1. IsFiniteSet(DOMAIN rows) /\ count = Cardinality(DOMAIN rows)
    BY <1>1, RowsAssumption
  <2>2. count \in Int
    BY <2>1, FS_CardinalityType
  <2>3. \A i \in DOMAIN rows :
            rows[i] \in [path : Seq(STRING), kind : {File, Dir}, obj : DOMAIN objects \cup {None}]
    BY <1>1, RowsAssumption
  <2>4. \A i \in DOMAIN rows : DOMAIN rows[i] = RowFields /\ rows[i].obj \in DOMAIN objects \cup {None}
    BY <2>3 DEF RowFields
  <2>5. \A o \in DOMAIN objects : objects[o] \in segments \cup {None}
    BY <1>1
  <2>6. None \notin segments /\ alive \in BOOLEAN
    BY <1>1
  <2> QED
    BY <2>1, <2>2, <2>4, <2>5, <2>6 DEF StoredOK, Resident, Exact
<1>3. \A t \in Clients : OwnOK(txn[t], rows, objects, count, alive)
  BY <1>1, IdleOK
<1>4. \A t \in Clients : \A u \in Others(t) : Apart(txn[t], txn[u], objects)
  BY <1>1, IdleApart DEF Others
<1> QED
  BY <1>1, <1>2, <1>3, <1>4 DEF IInv

LEMMA NextOK ==
  ASSUME IInv, [Next]_vars
  PROVE  IInv'
<1>1. CASE UNCHANGED vars
  <2>1. UNCHANGED <<rows, objects, segments, count, alive, txn>>
    BY <1>1 DEF vars, stored
  <2> QED
    BY <2>1 DEF IInv, Others
<1>2. ASSUME NEW t \in Clients, Step(t) \/ Abort(t) \/ \E c \in Calls : Begin(t, c)
      PROVE  IInv'
  <2>1. CASE Step(t)
    BY <2>1, ChecksOK, DeleteOK, UpdateOK, InsertOK, UpsertOK, CountOK, ReclaimOK, DropSegmentOK,
       DropVolumeOK, CommitOK DEF Step
  <2>2. CASE Abort(t)
    BY <2>2, Raised DEF Abort
  <2>3. CASE \E c \in Calls : Begin(t, c)
    BY <2>3, BeginOK
  <2> QED
    BY <1>2, <2>1, <2>2, <2>3
<1> QED
  BY <1>1, <1>2 DEF Next

THEOREM Invariance == Spec => []IInv
<1>1. IInv /\ [Next]_vars => IInv'
  BY NextOK
<1> QED
  BY <1>1, InitOK, PTL DEF Spec

\* No overlap of calls leaves a committed entry without its content object,
\* or an object without its segment: a removal that drops a segment has seen no
\* row of it, and the locks keep any from being committed until it ends.
THEOREM ContentStaysResident == Spec => []ContentResident
<1>1. IInv => ContentResident
  BY DEF IInv, StoredOK, Resident, ContentResident
<1> QED
  BY <1>1, Invariance, PTL

\* The zone's entry_count is the number of its entries whatever calls
\* overlapped: the triggers count under the zone's lock what the statements of
\* a call have changed, and the rows that a call has changed are its own.
THEOREM CountStaysExact == Spec => []CountExact
<1>1. IInv => CountExact
  BY DEF IInv, StoredOK, Exact, CountExact
<1> QED
  BY <1>1, Invariance, PTL

\* Nothing is committed but by Commit.
LEMMA OnlyCommit ==
  ASSUME IInv, NEW t \in Clients, Step(t) \/ Abort(t) \/ \E c \in Calls : Begin(t, c), ~Commit(t)
  PROVE  UNCHANGED stored
<1>1. \A q : Goes(t, q) => UNCHANGED stored
  BY DEF Goes
<1>2. Raise(t) => UNCHANGED stored
  BY DEF Raise, Goes
<1>3. CASE CheckTarget(t)
  <2>1. txn[t].call.op \in {"mkdir", "copy", "remove"}
    BY <1>3, NextSteps DEF CheckTarget, Ready
  <2> QED
    BY <1>1, <1>2, <1>3, <2>1 DEF CheckTarget
<1>4. CASE CheckParent(t) \/ CheckSource(t) \/ CheckEmpty(t)
  BY <1>1, <1>2, <1>4 DEF CheckParent, CheckSource, CheckEmpty
<1>5. CASE CheckOver(t)
  BY <1>1, <1>2, <1>5 DEF CheckOver
<1>6. CASE Select(t) \/ Update(t)
  BY <1>1, <1>2, <1>6 DEF Select, Update
<1>7. CASE Delete(t)
  BY <1>1, <1>2, <1>7 DEF Delete
<1>8. CASE Insert(t)
  BY <1>1, <1>2, <1>8 DEF Insert
<1>9. CASE Upsert(t)
  BY <1>1, <1>2, <1>9 DEF Upsert
<1>10. CASE Count(t) \/ Reclaim(t) \/ DropSegment(t) \/ DropVolume(t)
  BY <1>1, <1>2, <1>10 DEF Count, Reclaim, DropSegment, DropVolume
<1>11. CASE Abort(t) \/ \E c \in Calls : Begin(t, c)
  BY <1>2, <1>11 DEF Abort, Begin
<1> QED
  BY <1>3, <1>4, <1>5, <1>6, <1>7, <1>8, <1>9, <1>10, <1>11 DEF Step

LEMMA RemovalStep ==
  ASSUME IInv, [Next]_vars, NEW t \in Clients, NEW i \in DeletedBy(t, "remove")
  PROVE  IsPrefix(txn[t].call.path, rows[i].path)
<1>1. /\ txn[t].step = "commit" /\ txn[t].call.op = "remove" /\ txn'[t] = Idle
      /\ i \in DOMAIN rows /\ i \notin DOMAIN rows'
  BY DEF DeletedBy
<1>2. PICK u \in Clients : Step(u) \/ Abort(u) \/ \E c \in Calls : Begin(u, c)
  <2>1. rows' # rows
    BY <1>1
  <2> QED
    BY <2>1 DEF Next, vars, stored
<1>3. CASE Commit(u)
  <2>1. u = t
    <3>1. txn' = [txn EXCEPT ![u] = Idle] /\ DOMAIN txn = Clients
      BY <1>3 DEF Commit, IInv
    <3> QED
      BY <1>1, <3>1, IdleOK
  <2>2. rows' = Seen(rows, txn[t])
    BY <1>3, <2>1, SeenIsView DEF Commit
  <2>3. i \in txn[t].del
    BY <1>1, <2>2 DEF Seen
  <2>4. RemovalOK(txn[t], rows)
    BY <1>1, Running
  <2> QED
    BY <1>1, <2>3, <2>4 DEF RemovalOK
<1>4. CASE ~Commit(u)
  <2>1. rows' = rows
    BY <1>2, <1>4, OnlyCommit DEF stored
  <2> QED
    BY <1>1, <2>1
<1> QED
  BY <1>3, <1>4

\* remove deletes no node that another call has moved elsewhere by the time its
\* DELETE finds the row free: the paths are tested on the rows as they are then,
\* and the locked rows keep them until the commit.
THEOREM RemovalStaysWithin == Spec => RemovesItsOwn
<1>1. IInv /\ [Next]_vars =>
          [\A t \in Clients : \A i \in DeletedBy(t, "remove") :
               IsPrefix(txn[t].call.path, rows[i].path)]_vars
  BY RemovalStep
<1>2. Spec => [][\A t \in Clients : \A i \in DeletedBy(t, "remove") :
                     IsPrefix(txn[t].call.path, rows[i].path)]_vars
  BY <1>1, Invariance, PTL DEF Spec
<1> QED
  BY <1>2 DEF RemovesItsOwn

=============================================================================
