---------------------------- MODULE MCTransactions ----------------------------
EXTENDS Transactions

\* /a and /c are directories; /a/b is a file of an imported segment.
MCRows ==
    [i \in 1..3 |-> CASE i = 1 -> [path |-> <<"a">>, kind |-> Dir, obj |-> None]
                      [] i = 2 -> [path |-> <<"a", "b">>, kind |-> File, obj |-> 1]
                      [] i = 3 -> [path |-> <<"c">>, kind |-> Dir, obj |-> None]]
MCObjects == [o \in {1} |-> "segment"]
MCRowIds == 1..5
MCObjectIds == 1..3

A == <<"a">>
B == <<"a", "b">>
C == <<"c">>
D == <<"c", "b">>

Removal(p, recursive) == [op |-> "remove", path |-> p, recursive |-> recursive]

Creations ==
    {[op |-> "mkdir", path |-> <<"a", "d">>], [op |-> "write", path |-> B],
     [op |-> "write", path |-> D], [op |-> "copy", path |-> B, to |-> D],
     [op |-> "copy", path |-> A, to |-> <<"d">>]}
Moves == {[op |-> "move", path |-> B, to |-> D], [op |-> "move", path |-> D, to |-> B]}
Removals == {Removal(A, TRUE), Removal(B, FALSE), Removal(D, FALSE), [op |-> "remove_volume"]}

Batch == [op |-> "remove_many", paths |-> {B, C}, recursive |-> FALSE, force |-> TRUE]
MCCalls == Creations \cup Moves \cup Removals \cup {Batch}
BatchCalls == {Batch} \cup Moves
OrphanCalls == {[op |-> "mkdir", path |-> D], Removal(C, FALSE)}

=============================================================================
