------------------------------- MODULE MCVolume -------------------------------
(* Small volumes for TLC: two names, paths of two names, a few ids.         *)
EXTENDS Query

CONSTANTS a, b, t1, t0, b1

MCNames == {a, b}
MCPaths == {<<>>} \cup {<<x>> : x \in MCNames} \cup {<<x, y>> : x, y \in MCNames}
MCText == {t0, t1}
MCBinary == {b1}
MCSize == [x \in Data |-> CASE x = t0 -> 0 [] x = t1 -> 2 [] x = b1 -> 1]
MCWild == {}
MCEscaped == {}

AFile(body) == [kind |-> File, body |-> body]
ADir == [kind |-> Dir, body |-> None]
ALink == [kind |-> Symlink, body |-> None]

\* Staged imports: a text file, a symlink, an empty directory, a directory
\* with a text or binary file, and a batch whose file has no staged parent.
MCTrees ==
    {<<>> :> AFile(t1), <<>> :> ALink, <<>> :> ADir,
     <<>> :> ADir @@ <<a>> :> AFile(t1),
     <<>> :> ADir @@ <<a>> :> AFile(b1),
     <<>> :> ADir @@ <<a, b>> :> AFile(t1)}

\* A single target; two siblings; a path with the one below it.
MCBatches == {{<<a>>}, {<<a>>, <<b>>}, {<<a>>, <<a, b>>}, {<<a, a>>, <<a, b>>}, {<<b>>, <<a, a>>}}

\* The deep instance: two branches of paths of three names, and room for a
\* directory import to be copied, moved and nested.
MCDeepPaths == Prefixes(<<a, a, a>>) \cup Prefixes(<<b, a, a>>)
MCDeepTrees == {<<>> :> AFile(t1), <<>> :> ADir @@ <<a>> :> AFile(t1), <<>> :> ADir @@ <<a>> :> ADir}
MCDeepBatches == {{<<a>>, <<b, a>>}, {<<a, a>>, <<b, a>>}, {<<a, a, a>>, <<b>>}}
MCNoBinary == {}

\* The volume instance: one branch, more objects, segments and generations.
MCBranchPaths == {<<>>, <<a>>, <<b>>, <<a, a>>}
MCBranchBatches == {{<<a>>, <<b>>}, {<<a>>, <<a, a>>}}
MCBranchTrees == {<<>> :> AFile(t1), <<>> :> AFile(b1), <<>> :> ADir @@ <<a>> :> AFile(t1)}

\* Only single targets.
MCSingles == {{p} : p \in MCPaths}

\* The name a is "_", which LIKE takes for any one character; b is "b".
MCUnderscore == {<<<<a>>, <<b, x>>>> : x \in MCNames}

\* The name a is "x\y".
MCBackslash == {p \in MCPaths : \E i \in DOMAIN p : p[i] = a}

Symmetry == Permutations(NodeId) \cup Permutations(ObjectId) \cup Permutations(SegmentId)

=============================================================================
