-------------------------------- MODULE MCGrep --------------------------------
EXTENDS Grep

CONSTANTS Chunks, MaxChunks, Searched

(* Patterns over a few literals and classes, lines of up to three chunks.  *)
abc == <<97, 98, 99>>
x == <<120>>

Letters == Class({<<97, 122>>})
Digit == Class({<<49, 50>>})

MCAtoms == {Literal(abc), Literal(x), Letters, Digit, Perl("w"), Literal(<<32>>), Look("end")}

MCCounts == {<<0, 1, TRUE>>, <<1, Unbounded, TRUE>>, <<2, 2, TRUE>>, <<2, 3, TRUE>>}

Greedy == {<<2, 2, TRUE>>}

\* What gnu_pattern lets through and the two engines read differently.
Lazy == {<<1, Unbounded, TRUE>>, <<1, Unbounded, FALSE>>}
SpellingAtoms == MCAtoms \union {Perl("and"), Perl("nested")}

MCChunks == {abc, x, <<49>>, <<32>>, <<95>>}

MCLines == UNION {{FlattenSeq(w) : w \in [1..n -> Chunks]} : n \in 0..MaxChunks}

(* Patterns and commands of the runs of grep.                              *)
xyz == <<120, 121, 122>>
eightLetters == [i \in 1..8 |-> 97]

Digits == Repeat(Class({<<48, 57>>}), 1, Unbounded, TRUE)
Words == Repeat(Perl("w"), 1, Unbounded, TRUE)

\* A run longer than MaxRepeat.
Long == Repeat(Letters, 11, 11, TRUE)

MCPatterns == {
    Literal(abc),
    Concat(<<Literal(abc), Repeat(Literal(<<49>>), 1, Unbounded, TRUE)>>),
    Concat(<<Words, Literal(<<32>> \o abc)>>),
    Concat(<<Literal(abc), Repeat(AnyChar, 0, Unbounded, TRUE)>>),
    Alternation(<<Literal(abc), Literal(xyz \o <<49>>)>>),
    Repeat(Letters, 8, 8, TRUE),
    Digits,
    Long}

LongPatterns == {Long}

MCCommands(p) ==
    {c \in [pattern : {p} \cap Searched, fixed : BOOLEAN, extended : BOOLEAN, word : BOOLEAN,
            number : BOOLEAN, recursive : BOOLEAN, includes : {{}, {".c"}, {"[ch]"}},
            utf8 : BOOLEAN, multicall : BOOLEAN] :
        /\ ~(c.fixed /\ c.extended)
        /\ c.utf8 \/ (c.multicall /\ c.word)
        /\ c.includes # {} => c.recursive}

MCFiles == <<"a.c", "b.h">>
MCSuffixOf == [p \in {"a.c", "b.h"} |-> IF p = "a.c" THEN ".c" ELSE ".h"]

MCTexts == {
    [p \in {"a.c", "b.h"} |->
        IF p = "a.c" THEN <<abc \o <<49>>, <<95>> \o abc, <<120, 32>> \o abc, xyz \o <<49>>>>
        ELSE <<eightLetters, abc, <<49, 50>>>>],
    [p \in {"a.c", "b.h"} |->
        IF p = "a.c" THEN <<eightLetters, abc \o <<49, 43>>, <<>>, <<49>>>>
        ELSE <<abc \o <<49, 32>> \o abc>>]}

MCBinaries == {{}, {"a.c"}, {"b.h"}}
NoBinaries == {{}}

=============================================================================
