-------------------------------- MODULE MCLinks --------------------------------
EXTENDS Links

MCNames == {"a", "b"}

Below1(parts) == [mounted |-> TRUE, parts |-> parts]
Plain == {Below1(p) : p \in UNION {[1..n -> MCNames] : n \in 1..2}}

MCArguments == {Below1(p) : p \in UNION {[1..n -> MCNames \cup {Dot, DotDot}] : n \in 0..3}}

Elsewhere == [mounted |-> FALSE, parts |-> <<"a">>]

Command(tool, force, args) == [tool |-> tool, recursive |-> TRUE, force |-> force, args |-> args]

\* One operand of rm, a new name for cp, find of the whole mount; without -r
\* and outside the mount Debian's commands.
MCCommands ==
    {Command("rm", force, <<p>>) : force \in BOOLEAN, p \in Plain \cup {Elsewhere}}
    \cup {[Command("rm", FALSE, <<p>>) EXCEPT !.recursive = FALSE] : p \in {Elsewhere}}
    \cup {Command("cp", FALSE, <<p, q>>) : p, q \in Plain}
    \cup {Command("find", FALSE, <<Below1(<<>>)>>)}

A == Below1(<<"a">>)
B == Below1(<<"b">>)

DotsCommands == {Command("rm", FALSE, <<Below1(<<"a", "b", "..">>)>>)}
IntoCommands == {Command("cp", FALSE, <<A, B>>)}

=============================================================================
