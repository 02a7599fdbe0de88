------------------------------- MODULE MCDaemon -------------------------------
EXTENDS Daemon

MCLeft == {None, Stale, Foreign}
MCIds == 1..2

\* One of two volumes exists at first.
MCNames == {"src", "doc"}
MCExisting == [n \in MCNames |-> IF n = "src" THEN 1 ELSE NoId]
NoVolumes == [n \in {"src"} |-> NoId]

=============================================================================
