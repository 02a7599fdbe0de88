--------------------------------- MODULE Startup ---------------------------------
(***************************************************************************)
(* How pgosd takes its socket's path, and how the container's entry point  *)
(* waits for it.                                                           *)
(*                                                                         *)
(* A socket file outlives the process that bound it.  A daemon that starts *)
(* looks at the file, tries to connect to it, removes it when nobody       *)
(* answers, and binds; each is a system call of its own.  A daemon stands  *)
(* for one process, numbered in the order of their starts: a restart is    *)
(* the start of another.  Nothing keeps two from starting at the same time.*)
(***************************************************************************)
EXTENDS Naturals, FiniteSets

CONSTANTS
    Daemons,
    Left,       \* what may be at the path at first
    Foreign,    \* a file that is not a socket
    Stale,      \* a socket whose process is long gone
    None        \* no file

ASSUME DaemonsAssumption == Daemons \subseteq Nat

ASSUME LeftAssumption == Left \subseteq {None, Stale, Foreign}

ASSUME FileAssumption ==
    /\ None \notin Daemons \cup {Stale, Foreign}
    /\ Foreign \notin Daemons \cup {Stale}
    /\ Stale \notin Daemons

VARIABLES
    file,       \* at the socket's path: None, Foreign, Stale or who bound it
    at,         \* where each daemon is
    entrypoint, \* where the script is
    crossed     \* the daemons whose starts overlapped, kept for the properties

startVars == <<file, at, entrypoint, crossed>>

Listening == {d \in Daemons : at[d] \in {"listening", "serving"}}
Starting == {d \in Daemons : at[d] \in {"stat", "connect", "remove", "bind", "bound", "listening"}}
Alive == Starting \cup Listening

StartInit ==
    /\ file \in Left
    /\ at = [d \in Daemons |-> "off"]
    /\ entrypoint = "off"
    /\ crossed = {}

Moves(d, step) == at' = [at EXCEPT ![d] = step] /\ UNCHANGED <<entrypoint, crossed>>

-----------------------------------------------------------------------------
(* pgosd.                                                                  *)

\* A process is started, whatever other processes are doing.
SetsOut(d) ==
    /\ at[d] = "off" /\ \A e \in Daemons : e < d => at[e] # "off"
    /\ at' = [at EXCEPT ![d] = "stat"]
    /\ crossed' = IF Starting = {} THEN crossed ELSE crossed \cup Starting \cup {d}
    /\ UNCHANGED file

Start(d) == SetsOut(d) /\ UNCHANGED entrypoint

\* prepare_socket_path: symlink_metadata
Stat(d) ==
    /\ at[d] = "stat"
    /\ Moves(d, CASE file = None -> "bind" [] file = Foreign -> "failed" [] OTHER -> "connect")
    /\ UNCHANGED file

BrokenAnswers == FALSE
\* A connection to the path is accepted.
Answers == file \in Listening

\* UnixStream::connect; refused and not found mean the same.
Connect(d) ==
    /\ at[d] = "connect"
    /\ Moves(d, IF Answers THEN "failed" ELSE "remove")
    /\ UNCHANGED file

BrokenWithout == file
Without == None

\* remove_file, which fails if the file is gone.
Remove(d) ==
    /\ at[d] = "remove"
    /\ IF file = None THEN Moves(d, "failed") /\ UNCHANGED file
       ELSE Moves(d, "bind") /\ file' = Without

\* UnixListener::bind makes the file, then listens.
Bind(d) ==
    /\ at[d] = "bind"
    /\ IF file # None THEN Moves(d, "failed") /\ UNCHANGED file
       ELSE Moves(d, "bound") /\ file' = d

Listen(d) == at[d] = "bound" /\ Moves(d, "listening") /\ UNCHANGED file

\* set_permissions, which fails if the file is gone.
Permit(d) ==
    /\ at[d] = "listening"
    /\ Moves(d, IF file = None THEN "failed" ELSE "serving")
    /\ UNCHANGED file

Crash(d) == d \in Alive /\ Moves(d, "dead") /\ UNCHANGED file

-----------------------------------------------------------------------------
(* postgreos-entrypoint.sh                                                 *)

Launch ==
    /\ entrypoint = "off" /\ entrypoint' = "waiting"
    /\ \E d \in Daemons : SetsOut(d)

\* until [ -S "$PGOS_SOCKET" ]; then pgos-mount, which connects.
Ready ==
    /\ entrypoint = "waiting" /\ file \in Daemons \cup {Stale}
    /\ entrypoint' = "mounting"
    /\ UNCHANGED <<file, at, crossed>>

\* The script exits, "daemon did not become ready" or "filesystem did not become
\* ready", or what it has started does: the container stops, with all its
\* processes; the file stays.
Stop ==
    /\ entrypoint # "off" /\ entrypoint' = "off"
    /\ at' = [d \in Daemons |-> IF d \in Alive THEN "dead" ELSE at[d]]
    /\ UNCHANGED <<file, crossed>>

Starts(d) == Stat(d) \/ Connect(d) \/ Remove(d) \/ Bind(d) \/ Listen(d) \/ Permit(d)

StartNext ==
    \/ \E d \in Daemons : Start(d) \/ Starts(d) \/ Crash(d)
    \/ Launch \/ Ready \/ Stop

StartFairness == \A d \in Daemons : WF_startVars(Starts(d))

StartSpec == StartInit /\ [][StartNext]_startVars /\ StartFairness

-----------------------------------------------------------------------------

\* A daemon takes away nothing but a socket that nobody listens on: no other
\* file, and not the path of a daemon that listens, unless that one's own start
\* overlapped with another's (prepare_socket_path).
TakesOnlyStale ==
    [][file' # file /\ file # None =>
          file \notin {Foreign} \cup (Listening \ crossed)]_startVars

\* A daemon that serves is the one that clients of the path reach, whoever has
\* started since, unless its own start overlapped with another's.
Reachable == \A d \in Daemons \ crossed : at[d] = "serving" => file = d

\* Whatever file an earlier daemon left when it died, a daemon that starts
\* comes to serve, unless it dies, finds another one listening or a file that is
\* no socket, or its start overlaps with another's.
ComesUp ==
    \A d \in Daemons :
        at[d] = "stat" ~> \/ at[d] \in {"serving", "dead"} \/ d \in crossed
                          \/ at[d] = "failed" /\ (file \in Listening \/ file = Foreign)

\* "a pgosd process is already listening": two starts that overlap can take the
\* path of the one that listens.
TakesNoneAlive == [][file' # file => file \notin Listening]_startVars

\* The script goes on when its daemon answers ("daemon did not become ready").
ReadyAnswers == [][entrypoint = "waiting" /\ entrypoint' = "mounting" => Answers]_startVars

=============================================================================
