--------------------------------- MODULE Grep ---------------------------------
(***************************************************************************)
(* One run of pgos grep, or of grep through its link: which program        *)
(* answers it (multicall.rs, commands/search.rs), which rows the database  *)
(* sends (blocks.rs and the search functions of 001_initial.sql), and what *)
(* is printed of each row.                                                 *)
(*                                                                         *)
(* A text file is a sequence of lines, stored in blocks of whole lines,    *)
(* each with the number of its first line, as Blocks writes them; a binary *)
(* file has no blocks.  The query is one statement, so it sees one state   *)
(* of the volume.                                                          *)
(***************************************************************************)
EXTENDS Patterns

CONSTANTS
    Commands(_),  \* the commands given with a pattern, as records [pattern,
               \* fixed, extended, word, number, recursive, includes, utf8, multicall]
    Files,     \* the paths, in the order of COLLATE "C"
    Texts,     \* what they may hold: functions from paths to sequences of lines
    SuffixOf,  \* the suffix of each path
    Binaries,  \* which of the files may be binary: sets of paths
    Cuts,      \* the sizes a block may have, in lines
    MaxRepeat  \* 255, the largest repetition of a PostgreSQL regular expression

VARIABLES
    cmd, text,
    binary,       \* the files that are not text
    cut,          \* lines in a block
    descendants,  \* zones under the one searched (has_descendants)
    phase, reader, rows, output, found

vars == <<typed, cmd, text, binary, cut, descendants, phase, reader, rows, output, found>>
store == <<typed, cmd, text, binary, cut, descendants>>

Paths == Range(Files)
\* Without -r the argument is the first file.
Scope == IF cmd.recursive THEN Files ELSE <<Head(Files)>>

\* include_suffixes: only suffixes of letters and digits, written *.suffix.
IncludeSuffixes(includes) == IF "[ch]" \in includes THEN None ELSE includes

-----------------------------------------------------------------------------
(* GNU grep.                                                               *)

GnuExpression ==
    LET basic == GnuPattern(cmd.pattern, FALSE, FALSE, FALSE)
    IN  IF cmd.fixed THEN Literal(Text(cmd.pattern))
        ELSE IF cmd.extended \/ basic = None THEN GnuReading(cmd.pattern)
        ELSE basic

GnuSelects(line) ==
    IF cmd.word THEN MatchesWord(GnuExpression, line) ELSE Matches(GnuExpression, line)

Included(path) == cmd.includes = {} \/ SuffixOf[path] \in cmd.includes

Printed(path, n, line) == <<path, IF cmd.number THEN n ELSE 0, line>>

\* What GNU grep prints of a file; of a binary one that "binary file matches".
Expected(path) ==
    LET lines == [n \in DOMAIN text[path] |-> <<n, text[path][n]>>]
        chosen == SelectSeq(lines, LAMBDA l : GnuSelects(l[2]))
    IN  IF ~Included(path) \/ chosen = <<>> THEN <<>>
        ELSE IF path \in binary THEN <<Printed(path, 0, None)>>
        ELSE [i \in DOMAIN chosen |-> Printed(path, chosen[i][1], chosen[i][2])]

-----------------------------------------------------------------------------
(* The database.                                                           *)

Blocks(path) ==
    LET lines == text[path]
        count == (Len(lines) + cut - 1) \div cut
    IN  [b \in 1..count |->
            [path |-> path, first |-> (b - 1) * cut + 1,
             lines |-> SubSeq(lines, (b - 1) * cut + 1, Lesser({b * cut, Len(lines)}))]]

HoldsAny(lits, line) == \E s \in lits : HasText(line, s)

Filled(seq) == SelectSeq(seq, LAMBDA row : row.lines # <<>>)

\* One row for each line, numbered from the first line of its block.
PerLine(row) == [k \in DOMAIN row.lines |->
                    [row EXCEPT !.first = @ + k - 1, !.lines = <<row.lines[k]>>]]

\* candidate_word_text, and the filter for literals of stream_candidate_rows.
TextRows(path, lits, run) ==
    LET blocks == Blocks(path)
        holding == SelectSeq(blocks, LAMBDA b : \E l \in Range(b.lines) : HoldsAny(lits, l))
        Filtered(seq, Test(_)) ==
            Filled([b \in DOMAIN seq |-> [seq[b] EXCEPT !.lines = SelectSeq(@, Test)]])
    IN  IF lits # None THEN Filtered(holding, LAMBDA l : HoldsAny(lits, l))
        ELSE IF run # None THEN Filtered(blocks, LAMBDA l : HasLetterRun(l, run))
        ELSE blocks

\* file_content: "not a text file"
NoText(path) == path \in binary

\* candidate_blocks: whole blocks from the zone's own query, lines for one
\* literal from search_candidate_blocks, else whole blocks from that.
TreeRows(path, lits) ==
    LET blocks == Blocks(path)
        holding == IF lits = None THEN blocks
                   ELSE SelectSeq(blocks, LAMBDA b : \E l \in Range(b.lines) : HoldsAny(lits, l))
        single == lits # None /\ Cardinality(lits) = 1
    IN  IF single /\ descendants
        THEN SelectSeq(FlattenSeq([b \in DOMAIN holding |-> PerLine(holding[b])]),
                       LAMBDA row : HoldsAny(lits, row.lines[1]))
        ELSE holding

-----------------------------------------------------------------------------
Init ==
    /\ TypeFirst
    /\ cmd = None /\ text = None /\ binary = {} /\ cut = 1 /\ descendants = FALSE
    /\ phase = "type" /\ reader = None /\ rows = <<>> /\ output = <<>> /\ found = FALSE

Type ==
    /\ phase = "type" /\ TypeNext
    /\ UNCHANGED <<cmd, text, binary, cut, descendants, phase, reader, rows, output, found>>

\* The command starts, in some volume.
Enter ==
    /\ phase = "type" /\ phase' = "start"
    /\ cmd' \in Commands(pattern)
    /\ text' \in Texts /\ binary' \in Binaries
    /\ cut' \in Cuts /\ descendants' \in BOOLEAN
    /\ pattern' = None /\ size' = 0
    /\ UNCHANGED <<reader, rows, output, found>>

Translated == GnuPattern(cmd.pattern, cmd.fixed, cmd.extended, cmd.word)
Literals == GnuRequiredLiterals(cmd.pattern, cmd.fixed, cmd.extended)
LetterRun == MinimumLetterRun(cmd.pattern, cmd.fixed, cmd.extended)

Streams == ~cmd.recursive /\ ~cmd.number /\ cmd.includes = {}

\* command_paths_are_mounted, for a target that is mounted and of the kind
\* that -r, or its absence, calls for.
Supported ==
    /\ cmd.recursive \/ cmd.includes = {}
    /\ cmd.word => cmd.utf8
    /\ IncludeSuffixes(cmd.includes) # None
    /\ (Streams /\ Literals # None) \/ Translated # None

\* run_reference: exec of GNU grep, the database is not opened.
Reference ==
    /\ phase = "start" /\ cmd.multicall /\ ~Supported
    /\ output' = FlattenSeq([i \in DOMAIN Scope |-> Expected(Scope[i])])
    /\ found' = (output' # <<>>)
    /\ phase' = "done"
    /\ UNCHANGED <<store, reader, rows>>

Taken == phase = "start" /\ (cmd.multicall => Supported)

\* The expression that decides about the rows, and the rows.
Query(expression, result) ==
    /\ reader' = expression
    /\ rows' = result
    /\ phase' = "rows"
    /\ UNCHANGED <<store, output, found>>

\* file_content raises "not a text file" for the file of a search without -r.
NotText == ~cmd.recursive /\ NoText(Head(Files))

\* For one literal of up to three bytes it is called where the planner puts the
\* comparison with the object, so perhaps never.
MayNotAsk == Literals # None /\ Cardinality(Literals) = 1 /\ \A l \in Literals : Len(l) <= 3

\* The largest repetition of a PostgreSQL regular expression.
Countable == Literals = None /\ LetterRun # None => LetterRun <= MaxRepeat

\* grep_text_stream: GNU grep reads the rows from a pipe.
Stream ==
    /\ Taken /\ Streams /\ Countable
    /\ \/ ~NotText /\ Query(GnuExpression, TextRows(Head(Files), Literals, LetterRun))
       \/ NotText /\ MayNotAsk /\ Query(GnuExpression, <<>>)

\* grep_file: every block, for a matcher that counts lines.
File ==
    /\ Taken /\ ~Streams /\ ~cmd.recursive /\ Translated # None /\ ~NotText
    /\ Query(Translated, Blocks(Head(Files)))

\* grep_regex_output; a binary file has no block to join.
Tree ==
    /\ Taken /\ cmd.recursive
    /\ Translated # None /\ IncludeSuffixes(cmd.includes) # None
    /\ LET lits == RequiredLiterals(Translated)
           Rows(path) == IF Included(path) /\ ~NoText(path) THEN TreeRows(path, lits) ELSE <<>>
       IN  Query(Translated, FlattenSeq([i \in DOMAIN Files |-> Rows(Files[i])]))

\* "pattern requires GNU grep", "include pattern requires GNU grep", and the
\* database's errors: a repetition it cannot count to, a file that is no text.
Fail ==
    /\ Taken
    /\ \/ ~Streams /\ Translated = None
       \/ cmd.recursive /\ IncludeSuffixes(cmd.includes) = None
       \/ Streams /\ ~Countable
       \/ NotText
    /\ phase' = "failed"
    /\ UNCHANGED <<store, reader, rows, output, found>>

BrokenLineNumber(row, k) == k
LineNumber(row, k) == row.first + k - 1

\* BlockOutput::matched for each line that the matcher finds in the row; GNU
\* grep, behind the pipe, for the lines of a stream.
NextRow ==
    /\ phase = "rows" /\ rows # <<>>
    /\ LET row == Head(rows)
           Hit(line) == IF Streams THEN GnuSelects(line) ELSE Matches(reader, line)
           numbered == [k \in DOMAIN row.lines |->
                            Printed(row.path, LineNumber(row, k), row.lines[k])]
           hits == SelectSeq(numbered, LAMBDA l : Hit(l[3]))
       IN  /\ output' = output \o hits
           /\ found' = (found \/ hits # <<>>)
    /\ rows' = Tail(rows)
    /\ UNCHANGED <<store, phase, reader>>

Finish ==
    /\ phase = "rows" /\ rows = <<>>
    /\ phase' = "done"
    /\ UNCHANGED <<store, reader, rows, output, found>>

Next == Type \/ Enter \/ Reference \/ Stream \/ File \/ Tree \/ Fail \/ NextRow \/ Finish

Spec == Init /\ [][Next]_vars

-----------------------------------------------------------------------------
OutputOf(path) == SelectSeq(output, LAMBDA l : l[1] = path)

\* What is printed of each text file is always the beginning of what GNU grep
\* prints of it, with GNU's line numbers, and in the end all of it, with its exit
\* status; whatever the cut into blocks, the zones and the narrowing of the query.
OutputExact ==
    phase # "type" => \A path \in Paths \ binary :
        LET expected == IF path \in Range(Scope) THEN Expected(path) ELSE <<>>
        IN  /\ IsPrefix(OutputOf(path), expected)
            /\ phase = "done" => OutputOf(path) = expected /\ (expected # <<>> => found)
            /\ found => output # <<>>

\* "Fall back before opening PostgreSQL. An unsupported invocation must retain
\* the behavior of the installed Debian command" (multicall.rs): a command
\* through the link that the database cannot answer runs GNU grep instead.
SupportedNeverFails == phase = "failed" => ~cmd.multicall

=============================================================================
