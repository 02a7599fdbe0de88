-------------------------------- MODULE Daemon --------------------------------
(***************************************************************************)
(* The life of pgosd: Startup and VolumeCache together.  Each process has  *)
(* a map of volume names and threads of its own, which start empty with it *)
(* and end with it, while the volumes and the socket's file outlive it.    *)
(* Processes share nothing else, so the map and the threads of one of them *)
(* are followed, Observed, which may be any: the first or a restarted one, *)
(* alone or beside others that serve.                                      *)
(***************************************************************************)
EXTENDS Startup, VolumeCache

CONSTANT Observed

ASSUME ObservedAssumption == Observed \in Daemons

vars == <<startVars, cacheVars>>

Serving == at[Observed] = "serving"

Init == StartInit /\ CacheInit

\* A process that ends takes its State with it.
Forgets == cache' = [n \in {} |-> NoId] /\ thread' = [t \in Threads |-> Idle]

\* A step of a process that starts or dies, or of the entry point.
Processes ==
    /\ StartNext
    /\ IF Serving /\ ~Serving' THEN Forgets ELSE UNCHANGED <<cache, thread>>
    /\ UNCHANGED <<volumes, spent, changes>>

\* serve_connection, on the connections of the process, which stay when its
\* path is taken.
Connections ==
    /\ Serving
    /\ \E t \in Threads : Serves(t) \/ \E n \in Names : Request(t, n)
    /\ UNCHANGED startVars

Environment ==
    /\ Tick \/ \E n \in Names : Create(n) \/ RemoveVolume(n)
    /\ UNCHANGED startVars

Next == Processes \/ Connections \/ Environment

Spec == Init /\ [][Next]_vars /\ StartFairness /\ CacheFairness

=============================================================================
