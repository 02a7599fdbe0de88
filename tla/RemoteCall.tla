------------------------------ MODULE RemoteCall ------------------------------
(***************************************************************************)
(* What a caller may rely on when it sends operations to a volume through  *)
(* the daemon: an operation runs at most once, only while its caller       *)
(* waits for it or after it began to, and what the caller is told about it *)
(* is true.  A call whose connection was lost may have run or not.         *)
(***************************************************************************)
CONSTANT Calls      \* calls of the client library, each made once

VARIABLES
    open,           \* the calls made that have not returned
    effect,         \* what became of each call's operation in the database
    outcome         \* what each call returned; "none" until then

vars == <<open, effect, outcome>>

Init ==
    /\ open = {}
    /\ effect = [c \in Calls |-> "none"]
    /\ outcome = [c \in Calls |-> "none"]

Call(c) ==
    /\ c \notin open /\ outcome[c] = "none"
    /\ open' = open \cup {c}
    /\ UNCHANGED <<effect, outcome>>

\* The database starts the operation of a caller that is waiting.
Begin(c) ==
    /\ c \in open /\ effect[c] = "none"
    /\ effect' = [effect EXCEPT ![c] = "running"]
    /\ UNCHANGED <<open, outcome>>

\* It commits or rolls back, whoever still waits, or does one of the two and
\* nobody learns which.
End(c) ==
    /\ effect[c] = "running"
    /\ \E e \in {"committed", "failed", "unknown"} : effect' = [effect EXCEPT ![c] = e]
    /\ UNCHANGED <<open, outcome>>

Return(c, o) ==
    /\ c \in open
    /\ open' = open \ {c}
    /\ outcome' = [outcome EXCEPT ![c] = o]
    /\ UNCHANGED effect

Succeed(c) == effect[c] = "committed" /\ Return(c, "ok")

\* The daemon or the database refused and nothing was changed, or cannot tell.
Refused(c) == effect[c] \in {"none", "failed", "unknown"} /\ Return(c, "remote")

\* The request was never sent, or the two ends speak different versions.
NotSent(c) == effect[c] = "none" /\ \E o \in {"too_large", "version"} : Return(c, o)

\* The connection, or the caller's own output, is broken.
Lost(c) == \E o \in {"lost", "broken_pipe"} : Return(c, o)

Next ==
    \E c \in Calls :
        Call(c) \/ Begin(c) \/ End(c) \/ Succeed(c) \/ Refused(c) \/ NotSent(c) \/ Lost(c)

Spec == Init /\ [][Next]_vars

=============================================================================
