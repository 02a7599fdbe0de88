--------------------------------- MODULE Links ---------------------------------
(***************************************************************************)
(* The links named cp, rm and find: recursive commands on paths below the  *)
(* mount become one call of the database, all others run the command of    *)
(* the Debian image on the mount (multicall.rs, commands/files.rs).        *)
(*                                                                         *)
(* What Debian's commands do is not in the repository.  They walk a path   *)
(* through the mount component by component; the links read it as text.    *)
(* An argument is [mounted, parts]: the mount's own path or another, and   *)
(* the components after it.  Each command is one step, because the         *)
(* database runs it as one transaction.                                    *)
(***************************************************************************)
EXTENDS Integers, Sequences, FiniteSets, SequencesExt

CONSTANTS
    Names,
    Arguments,   \* the spellings that are tried
    Commands,    \* [tool, recursive, force, args]
    MaxDepth, MaxSteps,  \* bounds of the model
    None

File == 1
Dir == 2
Dot == "."
DotDot == ".."

ASSUME NamesAssumption == Names \cap {Dot, DotDot} = {}

VARIABLES
    nodes,     \* paths below the mount to kinds
    imported,  \* directories that are zones, <<>> is always one
    result,    \* of the last command: [command, status, printed]
    steps

vars == <<nodes, imported, result, steps>>

Init ==
    /\ nodes = [p \in {<<>>} |-> Dir] /\ imported = {<<>>}
    /\ result = None /\ steps = 0

Within(p) == {q \in DOMAIN nodes : IsPrefix(p, q)}
Below(p) == Within(p) \ {p}
KindAt(at, p) == IF p \in DOMAIN at THEN at[p] ELSE None
Without(at, P) == [q \in DOMAIN at \ P |-> at[q]]

\* A command ends well or not, leaves these nodes, prints these paths.
Ends(status, left, printed) == [status |-> status, nodes |-> left, printed |-> printed]
Fails == Ends("bad", nodes, {})

-----------------------------------------------------------------------------
(* Debian: the kernel's walk, rm, cp and find.                             *)

Outside == "outside"
Missing == "missing"

\* Where a path leads: to a node, to a free name in a directory, or nowhere.
Walk(at, arg) ==
    LET Step(here, part) ==
            IF here \in {<<Outside>>, <<Missing>>} THEN here
            ELSE IF KindAt(at, here) # Dir THEN <<Missing>>
            ELSE CASE part = Dot -> here
                   [] part = DotDot -> IF here = <<>> THEN <<Outside>> ELSE Front(here)
                   [] OTHER -> Append(here, part)
    IN  IF arg.mounted THEN FoldLeft(Step, <<>>, arg.parts) ELSE <<Outside>>

Is(at, arg) == Walk(at, arg) \in DOMAIN at

\* rm refuses . and .. and goes on after every failure.
RmOne(so, arg, force) ==
    LET p == Walk(so.nodes, arg)
        refused == arg.parts # <<>> /\ Last(arg.parts) \in {Dot, DotDot}
        emptied == {q \in DOMAIN so.nodes : IsStrictPrefix(p, q)}
    IN  CASE refused -> [so EXCEPT !.status = "bad"]
          [] ~refused /\ ~Is(so.nodes, arg) -> IF force THEN so ELSE [so EXCEPT !.status = "bad"]
          [] ~refused /\ p = <<>> -> Ends("bad", Without(so.nodes, emptied), {})
          [] OTHER -> [so EXCEPT !.nodes = Without(@, emptied \cup {p})]

\* Into a directory that exists, under the source's name; else as the new name.
DebianCp(c) ==
    LET p == Walk(nodes, c.args[1])
        d == Walk(nodes, c.args[2])
        q == IF KindAt(nodes, d) = Dir THEN Append(d, Last(p)) ELSE d
        moved(r) == q \o SubSeq(r, Len(p) + 1, Len(r))
        copied == {moved(r) : r \in Within(p)}
        source(s) == p \o SubSeq(s, Len(q) + 1, Len(s))
        clashes == \E s \in copied : KindAt(nodes, s) \notin {None, nodes[source(s)]}
    IN  IF p \notin DOMAIN nodes \/ p = <<>> \/ KindAt(nodes, Front(q)) # Dir
           \/ IsPrefix(p, q) \/ clashes
        THEN Fails
        ELSE Ends("ok", [s \in DOMAIN nodes \cup copied |->
                            IF s \in copied THEN nodes[source(s)] ELSE nodes[s]], {})

Debian(c) ==
    CASE c.tool = "rm" ->
            FoldLeft(LAMBDA so, arg : RmOne(so, arg, c.force), Ends("ok", nodes, {}), c.args)
      [] c.tool = "cp" -> DebianCp(c)
      [] c.tool = "find" ->
            IF Is(nodes, c.args[1]) THEN Ends("ok", nodes, Within(Walk(nodes, c.args[1]))) ELSE Fails

-----------------------------------------------------------------------------
(* The links.                                                              *)

\* command_paths_are_mounted: the text of the path begins with the mount's.
Accepted(c) ==
    /\ c.tool \in {"cp", "rm"} => c.recursive
    /\ \A i \in DOMAIN c.args : c.args[i].mounted

BrokenNormalize(parts) ==
    FoldLeft(LAMBDA at, part :
                CASE part = Dot -> at
                  [] part = DotDot -> IF at = <<>> THEN at ELSE Front(at)
                  [] OTHER -> Append(at, part),
             <<>>, parts)

\* normalize of what follows the mount; <<None>> for "path escapes the volume root".
Normalize(parts) ==
    FoldLeft(LAMBDA at, part :
                CASE at = <<None>> \/ part = Dot -> at
                  [] at # <<None>> /\ part = DotDot -> IF at = <<>> THEN <<None>> ELSE Front(at)
                  [] OTHER -> Append(at, part),
             <<>>, parts)

MapPath(arg) == Normalize(arg.parts)

\* pgos.remove, recursive.
RemovePath(so, p) ==
    IF so.status = "bad" \/ p = <<>> \/ p \notin DOMAIN so.nodes THEN Fails
    ELSE Ends("ok", Without(so.nodes, Within(p)), {})

\* pgos.remove_many: paths of which none is a zone are deleted by one statement.
RemoveMany(paths, force) ==
    LET asked == Range(paths)
        found == asked \cap DOMAIN nodes
        Next1(so, p) == IF force /\ p \notin DOMAIN so.nodes THEN so ELSE RemovePath(so, p)
    IN  IF Len(paths) > 1 /\ asked \cap imported = {}
        THEN IF ~force /\ Cardinality(found) # Len(paths) THEN Fails
             ELSE Ends("ok", Without(nodes, found), {})
        ELSE FoldLeft(Next1, Ends("ok", nodes, {}), paths)

BrokenCopy(p, q) ==
    IF p \notin DOMAIN nodes \/ IsPrefix(p, q)
       \/ KindAt(nodes, Front(q)) # Dir \/ Below(p) \cap imported # {}
    THEN Fails
    ELSE LET copied == {q \o SubSeq(r, Len(p) + 1, Len(r)) : r \in Within(p)}
         IN  Ends("ok", [s \in DOMAIN nodes \cup copied |->
                            IF s \in copied THEN nodes[p \o SubSeq(s, Len(q) + 1, Len(s))]
                            ELSE nodes[s]], {})

\* pgos.copy, recursive.
Copy(p, q) ==
    IF p \notin DOMAIN nodes \/ IsPrefix(p, q) \/ q \in DOMAIN nodes
       \/ KindAt(nodes, Front(q)) # Dir \/ Below(p) \cap imported # {}
    THEN Fails
    ELSE LET copied == {q \o SubSeq(r, Len(p) + 1, Len(r)) : r \in Within(p)}
         IN  Ends("ok", [s \in DOMAIN nodes \cup copied |->
                            IF s \in copied THEN nodes[p \o SubSeq(s, Len(q) + 1, Len(s))]
                            ELSE nodes[s]], {})

\* run_file_command.
Accelerated(c) ==
    LET paths == [i \in DOMAIN c.args |-> MapPath(c.args[i])]
    IN  CASE <<None>> \in Range(paths) -> Fails
          [] <<None>> \notin Range(paths) /\ c.tool = "rm" -> RemoveMany(paths, c.force)
          [] <<None>> \notin Range(paths) /\ c.tool = "cp" -> Copy(paths[1], paths[2])
          [] OTHER -> Ends("ok", nodes, Within(paths[1]))

-----------------------------------------------------------------------------

Spend == steps < MaxSteps /\ steps' = steps + 1

Did(c, r) ==
    /\ nodes' = r.nodes
    /\ result' = [command |-> c, status |-> r.status, printed |-> r.printed, at |-> steps']

Accelerate(c) ==
    /\ Spend /\ Accepted(c)
    /\ Did(c, Accelerated(c))
    /\ LET p == MapPath(c.args[1])
       IN imported' = (imported \cup
              {MapPath(c.args[i]) : i \in {j \in {2} : c.tool = "cp" /\ p \in imported}})
              \cap DOMAIN nodes'

\* run_reference
Reference(c) ==
    /\ Spend /\ ~Accepted(c)
    /\ Did(c, Debian(c))
    /\ imported' = imported \cap DOMAIN nodes'

\* Other commands make files and directories, pgos import makes zones.
Make(p, kind) ==
    /\ Spend /\ p \notin DOMAIN nodes /\ KindAt(nodes, Front(p)) = Dir
    /\ nodes' = [q \in DOMAIN nodes \cup {p} |-> IF q = p THEN kind ELSE nodes[q]]
    /\ \/ UNCHANGED imported
       \/ kind = Dir /\ imported' = imported \cup {p}
    /\ UNCHANGED result

Next ==
    \/ \E c \in Commands : Accelerate(c) \/ Reference(c)
    \/ \E p \in UNION {[1..n -> Names] : n \in 1..MaxDepth}, kind \in {File, Dir} : Make(p, kind)

Spec == Init /\ [][Next]_vars

-----------------------------------------------------------------------------

\* However a path is spelled: where the kernel finds a node or a free name
\* below the mount, map_path names the same one, and where the path leaves the
\* mount it names none (strip_prefix and normalize, which look at no directory).
MapsAsKernel ==
    \A arg \in Arguments :
        LET p == Walk(nodes, arg)
        IN arg.mounted =>
            CASE p = <<Missing>> -> TRUE
              [] p = <<Outside>> -> MapPath(arg) = <<None>>
              [] OTHER -> MapPath(arg) = p

\* A command that reports success has left and printed what Debian's would
\* have, which would have succeeded too.
SuccessIsDebians ==
    [][result' # result /\ result'.status = "ok" =>
          LET d == Debian(result'.command)
          IN d.status = "ok" /\ nodes' = d.nodes /\ result'.printed = d.printed]_vars

\* Success or not, a command leaves the files that Debian's would have left.
LeavesAsDebian == [][result' # result => nodes' = Debian(result'.command).nodes]_vars

=============================================================================
