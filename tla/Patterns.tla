------------------------------- MODULE Patterns -------------------------------
(***************************************************************************)
(* Every pattern up to a size, built operator by operator, against what    *)
(* core/search.rs concludes from it: a conclusion is right if it is true   *)
(* of every line that the pattern matches.                                 *)
(***************************************************************************)
EXTENDS Search

CONSTANTS
    Atoms,       \* the expressions a pattern starts from and is extended with
    Given,       \* patterns that are there as a whole
    Counts,      \* the repetitions, as <<min, max, greedy>>
    Lines,       \* the lines it is tried on
    MaxSize      \* operators in a pattern

ASSUME SizeAssumption == MaxSize \in Nat

VARIABLES pattern, size

typed == <<pattern, size>>

\* A pattern is typed bit by bit, until a command takes it and there is None.
TypeFirst == (pattern \in Atoms /\ size = 1) \/ (pattern \in Given /\ size = MaxSize)

\* Hir::concat joins nested concatenations and adjacent literals.
Parts(h) == IF h.op = "concat" THEN h.parts ELSE <<h>>

Joined(g, h) ==
    LET l == Parts(g)
        r == Parts(h)
        a == Last(l)
        b == Head(r)
        parts == IF a.op = "literal" /\ b.op = "literal"
                 THEN Front(l) \o <<Literal(a.text \o b.text)>> \o Tail(r)
                 ELSE l \o r
    IN  IF Len(parts) = 1 THEN Head(parts) ELSE Concat(parts)

\* What a repetition that is typed next repeats; of [[a]b], for GNU, the last
\* bracket only, so that is not tried.
Closed(h) ==
    \/ h.op \in {"class", "perl", "capture"} /\ h # Perl("nested")
    \/ h.op = "literal" /\ Len(h.text) = 1

Extend == \E a \in Atoms : pattern.op # "alternation" /\ pattern' = Joined(pattern, a)

Prepend == \E a \in Atoms : pattern.op # "alternation" /\ pattern' = Joined(a, pattern)

Alternate ==
    \E a \in Atoms :
        /\ a.op = "literal" /\ Len(a.text) > 1
        /\ pattern.op # "alternation" /\ pattern # a
        /\ pattern' = Alternation(<<pattern, a>>)

Group == pattern.op # "capture" /\ pattern' = Capture(pattern)

Again ==
    \E c \in Counts : Closed(pattern) /\ pattern' = Repeat(pattern, c[1], c[2], c[3])

TypeNext ==
    /\ pattern # None /\ size < MaxSize
    /\ size' = size + 1
    /\ (Extend \/ Prepend \/ Alternate \/ Group \/ Again)

-----------------------------------------------------------------------------
\* The lines GNU grep -E selects, without and with -w.
Selects(word) ==
    LET h == GnuReading(pattern)
    IN  {line \in Lines : IF word THEN MatchesWord(h, line) ELSE Matches(h, line)}

\* Every line that GNU grep selects holds one of the literals that the search
\* is narrowed to (gnu_required_literals; for the Rust engine required_literals
\* of the translated pattern, grep_regex_output in pgosd.rs), so no match is lost.
LiteralsRequired ==
    pattern # None =>
    LET gnu == GnuRequiredLiterals(pattern, FALSE, TRUE)
        Holds(lits, line) == lits = None \/ \E s \in lits : HasText(line, s)
    IN  /\ \A line \in Selects(FALSE) : Holds(gnu, line)
        /\ \A word \in BOOLEAN :
              LET h == GnuPattern(pattern, FALSE, TRUE, word)
              IN  h # None => \A line \in Lines :
                                Matches(h, line) => Holds(RequiredLiterals(h), line)

\* A pattern that is given to the Rust engine selects the lines there that GNU
\* grep selects, with -w too (gnu_pattern).
SameMeaning ==
    pattern # None =>
    \A word \in BOOLEAN :
        LET h == GnuPattern(pattern, FALSE, TRUE, word)
        IN  h # None => {line \in Lines : Matches(h, line)} = Selects(word)

\* minimum_ascii_letter_run: "the minimum contiguous ASCII-letter run
\* guaranteed by every match" is in every line that GNU grep selects.
RunGuaranteed ==
    pattern # None =>
    LET run == MinimumLetterRun(pattern, FALSE, TRUE)
    IN  run # None => \A line \in Selects(FALSE) : HasLetterRun(line, run)

\* required_word: "a complete ASCII word with boundaries established by a
\* mandatory literal or the whole-word constraint" is in every selected line.
\* No row depends on it: it needs one literal, and candidate_word_text asks for
\* a word only without (TextRows of Grep).
WordGuaranteed ==
    pattern # None =>
    \A word \in BOOLEAN :
        LET w == RequiredWord(pattern, GnuRequiredLiterals(pattern, FALSE, TRUE), word)
        IN  w # None => \A line \in Selects(word) : HasWord(line, w)

=============================================================================
