------------------------------ MODULE VolumeTree ------------------------------
(***************************************************************************)
(* The tree a volume stores, as its readers see it, and the claim that     *)
(* every call changes it the way FileTree says.                            *)
(***************************************************************************)
EXTENDS Volume

\* Each zone is a directory at its path; each entry is a node at the path of
\* its zone followed by its own.  A file's body is what read_file returns.
NodeAt(p) ==
    IF IsZonePath(db, p) THEN [kind |-> Dir, body |-> None]
    ELSE LET i == CHOOSE i \in DOMAIN entries : AbsolutePath(db, i) = p
         IN [kind |-> entries[i].kind, body |-> Contents(db, i)]

tree ==
    [p \in {zones[z].path : z \in DOMAIN zones} \cup {AbsolutePath(db, i) : i \in DOMAIN entries}
        |-> NodeAt(p)]

Abstract == INSTANCE FileTree

\* Guarded calls implement the file tree: zones, content objects, segments,
\* triggers and reclamation never show.  In particular a move or a copy of a
\* zone, of an entry or of a shared object changes exactly the nodes named,
\* and a failed call changes nothing.
Refines == Abstract!Spec

=============================================================================
