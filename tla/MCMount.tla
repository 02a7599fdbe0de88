-------------------------------- MODULE MCMount --------------------------------
EXTENDS Mount

CONSTANTS t1, t2

MCNames == <<"a", "b">>

MCNode(path, kind, data) == [path |-> path, kind |-> kind, data |-> data]

\* /a is a directory with a file b.
MCTree ==
    [i \in 0..2 |-> CASE i = 0 -> MCNode(<<>>, Dir, <<>>)
                      [] i = 1 -> MCNode(<<"a">>, Dir, <<>>)
                      [] i = 2 -> MCNode(<<"a", "b">>, File, <<7, 7>>)]

Workload(first, second, n) == [ops |-> [t \in Threads |-> IF t = t1 THEN first ELSE second], changes |-> n]

\* Files are opened, read and written by two threads; directories are made,
\* renamed, removed and listed by one; paths are looked up while others rename.
MCWorkloads == {
    Workload({"lookup", "getattr", "open", "read"}, {"create", "write"}, 1),
    Workload({"lookup", "getattr", "setattr", "mkdir", "remove", "rename", "readdir"}, {}, 2),
    Workload({"lookup", "getattr"}, {"getattr", "rename"}, 2)}

=============================================================================
