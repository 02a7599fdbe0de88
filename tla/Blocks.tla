-------------------------------- MODULE Blocks --------------------------------
(***************************************************************************)
(* How a text becomes content blocks, and how a range of it is read back.  *)
(*                                                                         *)
(* Two writers cut a text: write_blocks of import_text, which reads lines  *)
(* until a block has BLOCK_BYTES or more, and split_text_blocks, with      *)
(* which PostgreSQL blockizes the rows of smaller files.  A block is a     *)
(* record of the columns the writer fills in and of the part of the text   *)
(* it holds: the bytes after the first `from' and up to `to'.  A text is a *)
(* sequence of bytes.                                                      *)
(***************************************************************************)
EXTENDS Integers, Sequences, FiniteSets, FiniteSetsExt

CONSTANTS
    Bytes,      \* what a text is made of
    Texts,      \* the texts that may be stored
    Newline,    \* the byte that ends a line
    Invalid,    \* bytes that make a block no UTF-8 text, and NUL
    BlockBytes, \* BLOCK_BYTES of import_text, target_bytes of split_text_blocks
    MaxLine     \* MAX_LINE_BYTES

ASSUME TextsAssumption == Texts \subseteq Seq(Bytes)

ASSUME BytesAssumption ==
    BlockBytes \in Nat \ {0} /\ MaxLine \in Nat \ {0}

VARIABLES
    text,       \* what is written
    writer,     \* the function that cuts it
    phase,      \* cutting, stored (the transaction commits), refused
    position,   \* bytes of the text that have been read
    from,       \* where the current block starts
    lines,      \* lines in the current block
    ordinal, offset, firstLine,     \* the columns of the next block
    blocks      \* the blocks made so far

vars == <<text, writer, phase, position, from, lines, ordinal, offset, firstLine, blocks>>

Writers == {"write_blocks", "split_text_blocks"}
Size == Len(text)
Init ==
    /\ text \in Texts
    /\ writer \in {w \in Writers : w = "write_blocks" \/ ~\E i \in DOMAIN text : text[i] \in Invalid}
    /\ phase = "cutting"
    /\ position = 0 /\ from = 0 /\ lines = 0
    /\ ordinal = 0 /\ offset = 0 /\ firstLine = 1
    /\ blocks = <<>>

\* The newlines among the bytes after m and up to n, by their positions.
NewlinesIn(m, n) == {i \in (m + 1)..n : text[i] = Newline}

\* Where a reader that starts after the first n bytes finds the end of a line.
IsLineEnd(n, e) ==
    /\ e \in (n + 1)..Size
    /\ NewlinesIn(n, e - 1) = {}
    /\ text[e] = Newline \/ e = Size

\* The block of the bytes after m and up to n, with the current columns.
Block(m, n) ==
    [ordinal |-> ordinal, byte_offset |-> offset, first_line |-> firstLine, from |-> m, to |-> n]

-----------------------------------------------------------------------------
(* write_blocks: read_until takes one byte more than a line may have, so a *)
(* longer line shows.                                                      *)

BlockFull == position - from >= BlockBytes \/ position = Size

ReadLine ==
    /\ writer = "write_blocks" /\ phase = "cutting" /\ ~BlockFull
    /\ \E e \in 1..Size :
        /\ IsLineEnd(position, e)
        /\ e - position <= MaxLine
        /\ position' = e
    /\ lines' = lines + 1
    /\ UNCHANGED <<text, writer, phase, from, ordinal, offset, firstLine, blocks>>

LineTooLong ==
    /\ writer = "write_blocks" /\ phase = "cutting" /\ ~BlockFull
    /\ \E e \in 1..Size : IsLineEnd(position, e) /\ e - position > MaxLine
    /\ phase' = "refused"
    /\ UNCHANGED <<text, writer, position, from, lines, ordinal, offset, firstLine, blocks>>

HoldsInvalid == \E i \in (from + 1)..position : text[i] \in Invalid

BrokenWriteBlock ==
    /\ writer = "write_blocks" /\ phase = "cutting" /\ BlockFull
    /\ from < position /\ ~HoldsInvalid
    /\ blocks' = Append(blocks, Block(from, position))
    /\ ordinal' = ordinal + 1
    /\ offset' = offset + (position - from)
    /\ firstLine' = firstLine + lines
    /\ from' = position
    /\ UNCHANGED <<text, writer, phase, position, lines>>

WriteBlock ==
    /\ writer = "write_blocks" /\ phase = "cutting" /\ BlockFull
    /\ from < position /\ ~HoldsInvalid
    /\ blocks' = Append(blocks, Block(from, position))
    /\ ordinal' = ordinal + 1
    /\ offset' = offset + (position - from)
    /\ firstLine' = firstLine + lines
    /\ from' = position
    /\ lines' = 0
    /\ UNCHANGED <<text, writer, phase, position>>

InvalidBlock ==
    /\ writer = "write_blocks" /\ phase = "cutting" /\ BlockFull
    /\ from < position /\ HoldsInvalid
    /\ phase' = "refused"
    /\ UNCHANGED <<text, writer, position, from, lines, ordinal, offset, firstLine, blocks>>

-----------------------------------------------------------------------------
(* split_text_blocks: what remains is one block if it fits, else it is cut *)
(* after the first newline beyond target_bytes.                            *)

BrokenCut(e) ==
    IF Size - position <= BlockBytes
    THEN e = Size
    ELSE e = position + BlockBytes

Cut(e) ==
    IF Size - position <= BlockBytes
    THEN e = Size
    ELSE IsLineEnd(position + BlockBytes, e)

SplitBlock ==
    /\ writer = "split_text_blocks" /\ phase = "cutting" /\ position < Size
    /\ \E e \in 1..Size :
        /\ Cut(e)
        /\ blocks' = Append(blocks, Block(position, e))
        /\ offset' = offset + (e - position)
        /\ firstLine' = firstLine + Cardinality(NewlinesIn(position, e))
        /\ position' = e /\ from' = e
    /\ ordinal' = ordinal + 1
    /\ UNCHANGED <<text, writer, phase, lines>>

BrokenFinish ==
    /\ phase = "cutting" /\ position = Size
    /\ phase' = "stored"
    /\ UNCHANGED <<text, writer, position, from, lines, ordinal, offset, firstLine, blocks>>

Finish ==
    /\ phase = "cutting" /\ position = Size /\ from = position
    /\ phase' = "stored"
    /\ UNCHANGED <<text, writer, position, from, lines, ordinal, offset, firstLine, blocks>>

Next ==
    \/ ReadLine \/ LineTooLong \/ WriteBlock \/ InvalidBlock
    \/ SplitBlock
    \/ Finish

Spec == Init /\ [][Next]_vars

-----------------------------------------------------------------------------
(* read_range of a stored file whose size is the number of bytes written.  *)

Body(b) == SubSeq(text, b.from + 1, b.to)

\* The last block that starts at or before a byte, by its offset.
BrokenFirstOffset(start) == start
FirstOffset(start) ==
    Max({blocks[i].byte_offset : i \in {j \in DOMAIN blocks : blocks[j].byte_offset <= start}})

Piece(b, start, end) ==
    LET skipped == IF start > b.byte_offset THEN start - b.byte_offset ELSE 0
        last == Min({end - b.byte_offset, b.to - b.from})
    IN  SubSeq(Body(b), skipped + 1, last)

\* What the blocks picked for a range contribute, one after the other by ordinal.
ReadRange(start, count) ==
    IF start >= offset \/ count = 0
    THEN <<>>
    ELSE LET end == start + Min({count, offset - start})
             Picked(b) == b.byte_offset >= FirstOffset(start) /\ b.byte_offset < end
             read[i \in 0..Len(blocks)] ==
                 IF i = 0 THEN <<>>
                 ELSE IF Picked(blocks[i]) THEN read[i - 1] \o Piece(blocks[i], start, end)
                 ELSE read[i - 1]
         IN  read[Len(blocks)]

-----------------------------------------------------------------------------

\* The state is typed, and every block holds some part of the text.
TypeOK ==
    /\ text \in Texts /\ writer \in Writers
    /\ phase \in {"cutting", "stored", "refused"}
    /\ from \in 0..Size /\ position \in from..Size
    /\ lines \in Nat /\ ordinal \in Nat /\ offset \in Nat /\ firstLine \in Nat
    /\ blocks \in Seq([ordinal : Nat, byte_offset : Nat, first_line : Nat,
                       from : 0..Size, to : 0..Size])

\* The columns of a block say where in the text it lies: how many bytes and how
\* many lines come before it.  read_range finds blocks by byte_offset, and grep
\* numbers a match from first_line.
ColumnsTrue ==
    \A i \in DOMAIN blocks :
        /\ blocks[i].ordinal = i - 1
        /\ blocks[i].byte_offset = blocks[i].from
        /\ blocks[i].first_line = 1 + Cardinality(NewlinesIn(0, blocks[i].from))

\* Blocks follow one another without a gap and none is empty.
Contiguous ==
    /\ \A i \in DOMAIN blocks :
        /\ blocks[i].from = IF i = 1 THEN 0 ELSE blocks[i - 1].to
        /\ blocks[i].from < blocks[i].to
    /\ from = IF blocks = <<>> THEN 0 ELSE blocks[Len(blocks)].to

\* No line is in two blocks: the database filters lines block by block.
LineAligned ==
    \A i \in DOMAIN blocks : blocks[i].to = Size \/ text[blocks[i].to] = Newline

\* A stored text is all there, in order and without gaps or empty blocks, and
\* publish_content is told its length.
StoredWhole == Contiguous /\ (phase = "stored" => from = Size /\ offset = Size)

\* Any range of a stored text reads as those bytes of it, up to its end.
RangesExact ==
    phase = "stored" =>
        \A start \in 0..(Size + 1), count \in 0..(Size + 1) :
            ReadRange(start, count) = SubSeq(text, start + 1, Min({start + count, Size}))

=============================================================================
