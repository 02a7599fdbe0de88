------------------------------- MODULE FileTree -------------------------------
(***************************************************************************)
(* What a volume promises to whoever uses it: one tree of directories and  *)
(* files, changed by whole commands.  Nothing here knows of zones, rows,   *)
(* content objects or segments; VolumeTree shows that Volume implements    *)
(* this specification.                                                     *)
(***************************************************************************)
EXTENDS Naturals, Sequences, SequencesExt

CONSTANTS
    Paths,      \* the paths a command can name
    Batches,    \* sets of paths that one command can name
    Data,       \* contents of files
    Trees,      \* trees that can be imported: functions from relative path to node
    File, Dir,  \* kinds of node; there are others
    None        \* the kind of what does not exist, the body of what is not a file

VARIABLE tree   \* function from the paths that exist to nodes [kind, body]

Nothing == [x \in {} |-> x]
Directory == [kind |-> Dir, body |-> None]

\* The one node at p; the nodes of s put over those of t.
Alone(p, node) == [q \in {p} |-> node]

Over(s, t) ==
    [q \in DOMAIN s \cup DOMAIN t |-> IF q \in DOMAIN s THEN s[q] ELSE t[q]]

Kind(p) == IF p \in DOMAIN tree THEN tree[p].kind ELSE None
Within(p) == {q \in DOMAIN tree : IsPrefix(p, q)}
Children(p) == {q \in DOMAIN tree : q # <<>> /\ Front(q) = p}

\* p can be given to a new node: it has a name and a directory to be in.
CanHold(p) == p # <<>> /\ Kind(Front(p)) = Dir

\* t has a root, and every other node of it is in a directory.
IsTree(t) ==
    /\ <<>> \in DOMAIN t
    /\ \A p \in DOMAIN t : p # <<>> => Front(p) \in DOMAIN t /\ t[Front(p)].kind = Dir

Without(P) == [q \in DOMAIN tree \ P |-> tree[q]]

\* t with its root at p, and the part of the tree below p as such a t.
At(p, t) == [q \in {p \o r : r \in DOMAIN t} |-> t[SubSeq(q, Len(p) + 1, Len(q))]]
Subtree(p) == [r \in {SubSeq(q, Len(p) + 1, Len(q)) : q \in Within(p)} |-> tree[p \o r]]

-----------------------------------------------------------------------------

Init == tree = Nothing

Format == tree = Nothing /\ tree' = Alone(<<>>, Directory)

Drop == tree # Nothing /\ tree' = Nothing

\* Make the directories of P that do not exist, together.
MakeDirs(P) ==
    /\ tree # Nothing
    /\ \A p \in P : Kind(p) \in {None, Dir}
    /\ \A p \in P : p # <<>> => Front(p) \in P \/ Kind(Front(p)) = Dir
    /\ tree' = Over([p \in P \ DOMAIN tree |-> Directory], tree)

\* Write the file p, new or not.
Put(p, body) ==
    /\ CanHold(p) /\ Kind(p) \in {None, File}
    /\ tree' = Over(Alone(p, [kind |-> File, body |-> body]), tree)

\* Put a whole tree at p, where nothing is.
Graft(p, t) ==
    /\ CanHold(p) /\ Kind(p) = None
    /\ IsTree(t)
    /\ tree' = Over(At(p, t), tree)

Copy(src, dst) ==
    /\ src # <<>> /\ Kind(src) # None /\ ~IsPrefix(src, dst)
    /\ Graft(dst, Subtree(src))

\* Move what is at src, over a file if one is at dst.
Move(src, dst) ==
    /\ src # <<>> /\ Kind(src) # None /\ ~IsPrefix(src, dst)
    /\ CanHold(dst) /\ Kind(dst) # Dir
    /\ tree' = Over(At(dst, Subtree(src)), Without(Within(src) \cup {dst}))

\* Remove the nodes of P with everything below them.
Prune(P, recursive, force) ==
    /\ <<>> \notin P
    /\ force \/ P \subseteq DOMAIN tree
    /\ recursive \/ \A p \in P : Kind(p) = Dir => Children(p) = {}
    /\ tree' = Without(UNION {Within(p) : p \in P})

Next ==
    \/ Format
    \/ Drop
    \/ \E p \in Paths :
        \/ MakeDirs({p})
        \/ \E body \in Data : Put(p, body)
        \/ \E t \in Trees : Graft(p, t)
        \/ \E recursive \in BOOLEAN : Prune({p}, recursive, FALSE)
        \/ \E q \in Paths : Copy(p, q) \/ Move(p, q)
    \/ \E P \in Batches :
        \/ MakeDirs(P)
        \/ MakeDirs(UNION {Prefixes(p) : p \in P})
        \/ \E recursive, force \in BOOLEAN : Prune(P, recursive, force)

Spec == Init /\ [][Next]_tree

\* There is no volume, or one tree with a directory as its root: no command
\* leaves a node without its directory.
WellFormed == tree = Nothing \/ (IsTree(tree) /\ tree[<<>>].kind = Dir)

=============================================================================
