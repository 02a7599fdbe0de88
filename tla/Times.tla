--------------------------------- MODULE Times ---------------------------------
(***************************************************************************)
(* The access and modification time of a node of the mount: how they are   *)
(* stored, how getattr reports them, and how setattr, which is asked for   *)
(* one of them, reads the other and writes both.                           *)
(*                                                                         *)
(* PostgreSQL counts microseconds, the kernel nanoseconds, and the fields  *)
(* of an Entry seconds and nanoseconds; time 0 is the Unix epoch.          *)
(***************************************************************************)
EXTENDS Integers, TLC

CONSTANTS
    Threads,
    Stored,      \* times the node may have at first, in microseconds
    Asked,       \* times that are asked for, in nanoseconds
    PerSecond,   \* 1000000 microseconds
    Factor,      \* 1000 nanoseconds in a microsecond
    MaxChanges,  \* bound of the model: requests and writes
    None

Fields == {"atime", "mtime"}

VARIABLES
    stored,   \* the columns of the node's row, in microseconds
    request,  \* what each thread is doing
    changes

vars == <<stored, request, changes>>

Idle == [step |-> "idle"]

Init ==
    /\ stored \in [Fields -> Stored]
    /\ request = [t \in Threads |-> Idle]
    /\ changes = 0

-----------------------------------------------------------------------------
(* Conversions.                                                            *)

\* The columns of stat and inode: floor(extract(epoch)), and the microseconds
\* of the second as the nanoseconds.
Reported(micros) == [seconds |-> micros \div PerSecond, nanoseconds |-> micros % PerSecond]

\* system_time, in nanoseconds.
SystemTime(r) ==
    IF r.seconds >= 0 THEN r.seconds * PerSecond * Factor + r.nanoseconds
    ELSE r.seconds * PerSecond * Factor - r.nanoseconds

\* timestamp: "timestamps before the Unix epoch are not supported"
Representable(nanos) == nanos >= 0

\* to_timestamp rounds to microseconds.
ToTimestamp(nanos) == (2 * nanos + Factor) \div (2 * Factor)

-----------------------------------------------------------------------------

Change(t, r, after) ==
    /\ stored' = after
    /\ request' = [u \in Threads |->
          IF u = t THEN r
          ELSE IF after # stored /\ request[u] # Idle THEN [request[u] EXCEPT !.alone = FALSE]
          ELSE request[u]]

Spend == changes < MaxChanges /\ changes' = changes + 1

\* setattr for some times; what is asked for is a time or the present one.
Setattr(t, asked) ==
    /\ request[t] = Idle /\ Spend
    /\ Change(t, [step |-> "entry", asked |-> asked, alone |-> TRUE], stored)

\* entry: the time that is not asked for is the one the node has now.
Load(t) ==
    /\ request[t].step = "entry"
    /\ LET r == request[t]
           both == [f \in Fields |->
                       IF f \in DOMAIN r.asked THEN r.asked[f] ELSE SystemTime(Reported(stored[f]))]
       IN Change(t, [r EXCEPT !.step = "set"] @@ [times |-> both], stored)
    /\ UNCHANGED changes

\* set_times writes both, or setattr fails with EIO.
SetTimes(t) ==
    /\ request[t].step = "set"
    /\ LET times == request[t].times
       IN IF \A f \in Fields : Representable(times[f])
          THEN Change(t, Idle, [f \in Fields |-> ToTimestamp(times[f])])
          ELSE Change(t, Idle, stored)
    /\ UNCHANGED changes

\* Another client writes the file.
Write ==
    /\ Spend
    /\ \E now \in Stored : Change(None, Idle, [stored EXCEPT !["mtime"] = now])

Next ==
    \/ \E t \in Threads : Load(t) \/ SetTimes(t)
    \/ \E t \in Threads, F \in SUBSET Fields \ {{}} :
          \E asked \in [F -> Asked] : Setattr(t, asked)
    \/ Write

Spec == Init /\ [][Next]_vars

-----------------------------------------------------------------------------

Sets(t) == request[t].step = "set" /\ stored' # stored /\ request'[t] = Idle

\* setattr of one time, when nobody else changes the node, leaves the other one
\* as it is: "FUSE resolves exact attributes through `stat` or `inode`", and GNU
\* touch -a must not change the modification time.
UnaskedKept ==
    [][\A t \in Threads : Sets(t) /\ request[t].alone =>
          \A f \in Fields \ DOMAIN request[t].asked : stored'[f] = stored[f]]_vars

=============================================================================
