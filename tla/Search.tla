-------------------------------- MODULE Search --------------------------------
(***************************************************************************)
(* What src/core/search.rs concludes from a pattern, so that the database  *)
(* can leave out lines before they are matched.                            *)
(*                                                                         *)
(* A pattern is the regular expression that regex_syntax parses it to      *)
(* (its Hir), characters are their ASCII codes, a line is a sequence of    *)
(* them.  The two engines that decide about a line, GNU grep and the Rust  *)
(* regex engine, are not in the repository; Ends says what both of them    *)
(* mean by an expression.                                                  *)
(***************************************************************************)
EXTENDS Integers, SequencesExt

CONSTANTS
    MinLiteral, \* 3: shorter literals are not searched for
    MaxWord,    \* 128: longer words are not looked up
    MinRun,     \* 8: shorter runs of letters are not searched for
    MaxClass,   \* the extractor gives up on classes with more characters
    None

ASSUME LimitsAssumption ==
    MinLiteral \in Nat \ {0} /\ MaxWord \in Nat /\ MinRun \in Nat \ {0} /\ MaxClass \in Nat

IsLetter(c) == c \in 65..90 \/ c \in 97..122
IsDigit(c) == c \in 48..57
IsAlnum(c) == IsLetter(c) \/ IsDigit(c)
IsAsciiWord(c) == IsAlnum(c) \/ c = 95
\* Both engines know more letters than ASCII has; 233 stands for them.
IsWordChar(c) == IsAsciiWord(c) \/ c = 233

-----------------------------------------------------------------------------
(* Hir nodes.  Unbounded is the upper end of * and +.                      *)

Unbounded == 99

Empty == [op |-> "empty"]
Look(at) == [op |-> "look", at |-> at]
Literal(s) == [op |-> "literal", text |-> s]
Class(ranges) == [op |-> "class", ranges |-> ranges]
Perl(name) == [op |-> "perl", name |-> name]
Repeat(h, min, max, greedy) ==
    [op |-> "repetition", sub |-> h, min |-> min, max |-> max, greedy |-> greedy]
Capture(h) == [op |-> "capture", sub |-> h]
Concat(parts) == [op |-> "concat", parts |-> parts]
Alternation(parts) == [op |-> "alternation", parts |-> parts]

\* What Rust reads for ., \w, \s, \S, [[:alpha:]] and for class syntax of its
\* own, an intersection [a&&b] and a nested class [[a]b], over the characters
\* used here.
PerlRanges(name) ==
    CASE name = "any" -> {<<0, 9>>, <<11, 255>>}
      [] name = "w" -> {<<48, 57>>, <<65, 90>>, <<95, 95>>, <<97, 122>>, <<233, 233>>}
      [] name = "s" -> {<<9, 9>>, <<11, 13>>, <<32, 32>>}
      [] name = "S" -> {<<0, 8>>, <<14, 31>>, <<33, 255>>}
      [] name = "alpha" -> {<<65, 90>>, <<97, 122>>}
      [] name = "and" -> {}
      [] name = "nested" -> {<<97, 98>>}

RustSyntax == {"and", "nested"}

AnyChar == Perl("any")

InRanges(c, ranges) == \E r \in ranges : c \in r[1]..r[2]

WordAt(line, i) == i \in DOMAIN line /\ IsWordChar(line[i])

LookHolds(at, line, i) ==
    CASE at = "start" -> i = 0
      [] at = "end" -> i = Len(line)
      [] at = "word" -> WordAt(line, i) # WordAt(line, i + 1)

TextAt(line, i, s) == i + Len(s) <= Len(line) /\ SubSeq(line, i + 1, i + Len(s)) = s

HasText(line, s) == \E i \in 0..Len(line) : TextAt(line, i, s)

\* The places where a match of h may end that starts after i characters.
RECURSIVE Ends(_, _, _)
Ends(h, line, i) ==
    LET Then(from, g) == UNION {Ends(g, line, j) : j \in from}
    IN  CASE h.op = "empty" -> {i}
          [] h.op = "look" -> IF LookHolds(h.at, line, i) THEN {i} ELSE {}
          [] h.op = "literal" ->
                IF TextAt(line, i, h.text) THEN {i + Len(h.text)} ELSE {}
          [] h.op = "class" ->
                IF i < Len(line) /\ InRanges(line[i + 1], h.ranges) THEN {i + 1} ELSE {}
          [] h.op = "perl" -> Ends(Class(PerlRanges(h.name)), line, i)
          [] h.op = "capture" -> Ends(h.sub, line, i)
          [] h.op = "alternation" -> UNION {Ends(p, line, i) : p \in Range(h.parts)}
          [] h.op = "concat" -> FoldLeft(Then, {i}, h.parts)
          [] h.op = "repetition" ->
                LET times[n \in 0..(Len(line) + h.min + 1)] ==
                        IF n = 0 THEN {i} ELSE Then(times[n - 1], h.sub)
                IN  UNION {times[n] : n \in {k \in DOMAIN times : h.min <= k /\ k <= h.max}}

Matches(h, line) == \E i \in 0..Len(line) : Ends(h, line, i) # {}

\* grep -w: a match whose neighbours are no word characters.
MatchesWord(h, line) ==
    \E i \in 0..Len(line) : \E j \in Ends(h, line, i) :
        ~WordAt(line, i) /\ ~WordAt(line, j + 1)

\* What GNU grep -E reads where it differs: a lazy repetition is a second
\* operator on the first, [[:alpha:]] has all the letters of the locale, & and [
\* are characters of a class like any other, and its first ] ends it.
RECURSIVE GnuReading(_)
GnuReading(h) ==
    CASE h.op = "perl" /\ h.name = "alpha" -> Class(PerlRanges("alpha") \union {<<233, 233>>})
      [] h.op = "perl" /\ h.name = "and" -> Class({<<97, 98>>, <<38, 38>>})
      [] h.op = "perl" /\ h.name = "nested" ->
            Concat(<<Class({<<91, 91>>, <<97, 97>>}), Literal(<<98, 93>>)>>)
      [] h.op = "repetition" ->
            LET plain == [h EXCEPT !.sub = GnuReading(@), !.greedy = TRUE]
            IN  IF h.greedy THEN plain ELSE Repeat(plain, 0, 1, TRUE)
      [] h.op = "capture" -> Capture(GnuReading(h.sub))
      [] h.op \in {"concat", "alternation"} ->
            [h EXCEPT !.parts = [i \in DOMAIN @ |-> GnuReading(@[i])]]
      [] OTHER -> h

\* ^ $ \b . \w \s \S, [[:alpha:]] with its middle left out, [a&&b] and [[a]b]
Spelling == [start |-> <<94>>, end |-> <<36>>, word |-> <<92, 98>>, any |-> <<46>>,
             w |-> <<92, 119>>, s |-> <<92, 115>>, S |-> <<92, 83>>,
             alpha |-> <<91, 91, 58, 58, 93, 93>>,
             and |-> <<91, 97, 38, 38, 98, 93>>, nested |-> <<91, 91, 97, 93, 98, 93>>]

\* The pattern as it is typed.
RECURSIVE Text(_)
Text(h) ==
    LET Count(n) == <<48 + n>>
        Joined(parts, mark) ==
            FoldLeft(LAMBDA s, p : (IF s = <<>> THEN s ELSE s \o mark) \o Text(p), <<>>, parts)
        Marks == IF h.min = 0 /\ h.max = Unbounded THEN <<42>>
                 ELSE IF h.min = 1 /\ h.max = Unbounded THEN <<43>>
                 ELSE IF h.min = 0 /\ h.max = 1 THEN <<63>>
                 ELSE <<123>> \o Count(h.min) \o <<44>> \o Count(h.max) \o <<125>>
    IN  CASE h.op = "empty" -> <<>>
          [] h.op = "literal" -> h.text
          [] h.op = "class" -> <<91>> \o FlattenSeq(SetToSeq({<<r[1], 45, r[2]>> : r \in h.ranges})) \o <<93>>
          [] h.op \in {"look", "perl"} -> Spelling[IF h.op = "look" THEN h.at ELSE h.name]
          [] h.op = "repetition" -> Text(h.sub) \o Marks \o (IF h.greedy THEN <<>> ELSE <<63>>)
          [] h.op = "capture" -> <<40>> \o Text(h.sub) \o <<41>>
          [] h.op = "concat" -> Joined(h.parts, <<>>)
          [] h.op = "alternation" -> Joined(h.parts, <<124>>)

-----------------------------------------------------------------------------
(* Facts that regex_syntax computes about an expression.                   *)

Lesser(S) == CHOOSE x \in S : \A y \in S : x <= y
Greater(S) == CHOOSE x \in S : \A y \in S : y <= x

RECURSIVE MinLen(_)
MinLen(h) ==
    CASE h.op \in {"empty", "look"} -> 0
      [] h.op = "literal" -> Len(h.text)
      [] h.op \in {"class", "perl"} -> 1
      [] h.op = "capture" -> MinLen(h.sub)
      [] h.op = "repetition" -> h.min * MinLen(h.sub)
      [] h.op = "concat" -> FoldLeft(LAMBDA n, p : n + MinLen(p), 0, h.parts)
      [] h.op = "alternation" -> Lesser({MinLen(p) : p \in Range(h.parts)})

Exact(s) == [text |-> s, exact |-> TRUE]
Inexact(lits) == IF lits = None THEN None ELSE {[l EXCEPT !.exact = FALSE] : l \in lits}

\* Two sequences of literals, the one after the other.
Cross(a, b) ==
    IF a = None THEN None
    ELSE IF b = None THEN IF \E l \in a : l.text = <<>> THEN None ELSE Inexact(a)
    ELSE {l \in a : ~l.exact}
            \union {[m EXCEPT !.text = l.text \o @] : l \in {k \in a : k.exact}, m \in b}

\* The literals a match can start with (ExtractKind::Prefix), None for too many.
RECURSIVE PrefixLiterals(_)
PrefixLiterals(h) ==
    CASE h.op \in {"empty", "look"} -> {Exact(<<>>)}
      [] h.op = "literal" -> {Exact(h.text)}
      [] h.op = "class" ->
            LET chars == UNION {r[1]..r[2] : r \in h.ranges}
            IN  IF Cardinality(chars) > MaxClass THEN None ELSE {Exact(<<c>>) : c \in chars}
      [] h.op = "perl" ->
            IF h.name \in RustSyntax THEN PrefixLiterals(Class(PerlRanges(h.name))) ELSE None
      [] h.op = "capture" -> PrefixLiterals(h.sub)
      [] h.op = "concat" -> FoldLeft(LAMBDA a, p : Cross(a, PrefixLiterals(p)), {Exact(<<>>)}, h.parts)
      [] h.op = "alternation" ->
            LET all == {PrefixLiterals(p) : p \in Range(h.parts)}
            IN  IF None \in all THEN None ELSE UNION all
      [] h.op = "repetition" ->
            LET once == PrefixLiterals(h.sub)
                some == IF h.max = 1 THEN once ELSE Inexact(once)
                times == FoldLeft(LAMBDA a, i : Cross(a, once), once, [i \in 1..(h.min - 1) |-> i])
            IN  IF h.min = 0 THEN IF some = None THEN None ELSE some \union {Exact(<<>>)}
                ELSE IF h.min = h.max THEN times ELSE Inexact(times)

RECURSIVE Mirror(_)
Mirror(h) ==
    CASE h.op = "literal" -> Literal(Reverse(h.text))
      [] h.op \in {"capture", "repetition"} -> [h EXCEPT !.sub = Mirror(@)]
      [] h.op = "concat" -> Concat([i \in DOMAIN h.parts |-> Mirror(h.parts[Len(h.parts) + 1 - i])])
      [] h.op = "alternation" -> Alternation([i \in DOMAIN h.parts |-> Mirror(h.parts[i])])
      [] OTHER -> h

SuffixLiterals(h) ==
    LET found == PrefixLiterals(Mirror(h))
    IN  IF found = None THEN None ELSE {[l EXCEPT !.text = Reverse(@)] : l \in found}

-----------------------------------------------------------------------------
(* core/search.rs.                                                         *)

RECURSIVE AsciiWordExpression(_)
AsciiWordExpression(h) ==
    CASE h.op \in {"empty", "look"} -> TRUE
      [] h.op = "literal" -> \A c \in Range(h.text) : IsAsciiWord(c)
      [] h.op = "class" -> \A r \in h.ranges : \A c \in r[1]..r[2] : IsAsciiWord(c)
      [] h.op = "perl" -> \A r \in PerlRanges(h.name) : \A c \in r[1]..r[2] : IsAsciiWord(c)
      [] h.op \in {"capture", "repetition"} -> AsciiWordExpression(h.sub)
      [] h.op \in {"concat", "alternation"} -> \A p \in Range(h.parts) : AsciiWordExpression(p)

BrokenWordPattern(h) == Concat(<<Look("word"), h>>)
WordPattern(h) == Concat(<<Look("word"), h, Look("word")>>)

\* The expression the Rust engine may search for, None to leave it to GNU grep.
GnuPattern(h, fixed, extended, word) ==
    LET typed == Text(h)
        special == IF fixed THEN {}
                   ELSE IF extended THEN {92}
                   ELSE {92, 46, 91, 42, 94, 36}   \* \ . [ * ^ $
        translated == IF extended /\ ~fixed THEN h ELSE Literal(typed)
    IN  IF \/ \E c \in special : c \in Range(typed)
           \/ extended /\ ~fixed /\ ~AsciiWordExpression(h)
           \/ word /\ (~AsciiWordExpression(translated) \/ MinLen(translated) = 0)
        THEN None
        ELSE IF word THEN WordPattern(translated) ELSE translated

ShortestOf(lits) == IF lits = {} THEN 0 ELSE Lesser({Len(l) : l \in lits})

BrokenMandatory(h) == TRUE
Mandatory(h) == h.min > 0

RECURSIVE RequiredInterior(_)
RequiredInterior(h) ==
    CASE h.op = "literal" /\ Len(h.text) >= MinLiteral -> {h.text}
      [] h.op = "capture" -> RequiredInterior(h.sub)
      [] h.op = "repetition" /\ Mandatory(h) -> RequiredInterior(h.sub)
      [] h.op = "concat" ->
            FoldLeft(LAMBDA best, p :
                        LET found == RequiredInterior(p)
                        IN  IF found # None /\ (best = None \/ ShortestOf(found) >= ShortestOf(best))
                            THEN found ELSE best,
                     None, h.parts)
      [] h.op = "alternation" ->
            LET all == {RequiredInterior(p) : p \in Range(h.parts)}
            IN  IF None \in all THEN None ELSE UNION all
      [] OTHER -> None

\* The literals of an extraction, when each is long enough to search for.
Usable(found) ==
    LET lits == {l.text : l \in found}
    IN  IF found = None THEN None
        ELSE IF lits = {} \/ ShortestOf(lits) < MinLiteral THEN None
        ELSE lits

\* Fewest literals first, then the longest shortest one, then the first found.
RequiredLiterals(h) ==
    FoldLeft(LAMBDA best, found :
                IF /\ found # None
                   /\ best # None => \/ Cardinality(found) < Cardinality(best)
                                     \/ /\ Cardinality(found) = Cardinality(best)
                                        /\ ShortestOf(found) > ShortestOf(best)
                THEN found ELSE best,
             None,
             <<Usable(PrefixLiterals(h)), Usable(SuffixLiterals(h)), RequiredInterior(h)>>)

\* \w, \s and \S become any character; no other escape is understood, and no "[[".
RECURSIVE Superset(_)
Superset(h) ==
    CASE h.op = "perl" /\ h.name \in {"alpha", "nested"} -> None
      [] h.op = "perl" /\ h.name \in {"any", "w", "s", "S"} -> AnyChar
      [] h.op = "look" /\ h.at = "word" -> None
      [] h.op \in {"capture", "repetition"} ->
            LET sub == Superset(h.sub) IN IF sub = None THEN None ELSE [h EXCEPT !.sub = sub]
      [] h.op \in {"concat", "alternation"} ->
            LET parts == [i \in DOMAIN h.parts |-> Superset(h.parts[i])]
            IN  IF None \in Range(parts) THEN None ELSE [h EXCEPT !.parts = parts]
      [] OTHER -> h

GnuRequiredLiterals(h, fixed, extended) ==
    LET read == IF fixed THEN Literal(Text(h))
                ELSE IF extended THEN Superset(h)
                ELSE GnuPattern(h, FALSE, FALSE, FALSE)
    IN  IF read = None THEN None ELSE RequiredLiterals(read)

\* The longest word of the literal that has a boundary on both sides; the
\* first of them on a tie.
RequiredWord(pattern, literals, wholeWord) ==
    LET s == CHOOSE l \in literals : TRUE
        Alnum(i) == i \in DOMAIN s /\ IsAlnum(s[i])
        runs == {r \in (DOMAIN s) \X (DOMAIN s) :
                    /\ \A i \in r[1]..r[2] : Alnum(i)
                    /\ r[1] <= r[2] /\ ~Alnum(r[1] - 1) /\ ~Alnum(r[2] + 1)}
        left(r) == r[1] > 1 \/ (wholeWord /\ IsPrefix(s, Text(pattern)))
        right(r) == r[2] < Len(s) \/ (wholeWord /\ IsSuffix(s, Text(pattern)))
        Size(r) == r[2] - r[1] + 1
        good == {r \in runs : left(r) /\ right(r) /\ Size(r) \in MinLiteral..MaxWord}
        best == CHOOSE r \in good : \A q \in good :
                    Size(q) < Size(r) \/ (Size(q) = Size(r) /\ r[1] <= q[1])
    IN  IF literals = None THEN None
        ELSE IF Cardinality(literals) # 1 \/ good = {} THEN None
        ELSE SubSeq(s, best[1], best[2])

RECURSIVE GuaranteedRun(_)
GuaranteedRun(h) ==
    CASE h.op = "literal" -> IF \A c \in Range(h.text) : IsLetter(c) THEN Len(h.text) ELSE None
      [] h.op \in {"class", "perl"} ->
            LET ranges == IF h.op = "class" THEN h.ranges ELSE PerlRanges(h.name)
            IN  IF \A r \in ranges : IsLetter(r[1]) /\ IsLetter(r[2]) THEN 1 ELSE None
      [] h.op = "capture" -> GuaranteedRun(h.sub)
      [] h.op = "repetition" ->
            LET sub == GuaranteedRun(h.sub) IN IF sub = None THEN None ELSE sub * h.min
      [] h.op = "concat" ->
            LET runs == {GuaranteedRun(p) : p \in Range(h.parts)} \ {None}
            IN  IF runs = {} THEN None ELSE Greater(runs)
      [] h.op = "alternation" ->
            LET runs == {GuaranteedRun(p) : p \in Range(h.parts)}
            IN  IF None \in runs THEN None ELSE Lesser(runs)
      [] OTHER -> None

MinimumLetterRun(h, fixed, extended) ==
    LET run == GuaranteedRun(h)
    IN  IF fixed \/ ~extended \/ run = None THEN None
        ELSE IF run >= MinRun THEN run ELSE None

HasLetterRun(line, n) ==
    \E i \in 0..(Len(line) - n) : \A k \in (i + 1)..(i + n) : IsLetter(line[k])

\* w stands in the line as a complete word of letters and digits.
HasWord(line, w) ==
    LET Alnum(i) == i \in DOMAIN line /\ IsAlnum(line[i])
    IN  \E i \in 0..Len(line) :
            TextAt(line, i, w) /\ ~Alnum(i) /\ ~Alnum(i + Len(w) + 1)

=============================================================================
