------------------------------ MODULE BlocksProofs ------------------------------
(* Theorems about the cutting of a text, for any text and any block size.  *)
EXTENDS Blocks, FiniteSetTheorems, WellFoundedInduction, SequenceTheorems, TLAPS

(***************************************************************************)
(* The strengthening.  A cut is only ever made after a whole line, and the *)
(* columns of the next block count what lies before it.  A last line that  *)
(* has no newline is counted as a line too, but no block follows it.       *)
(***************************************************************************)
AtLine(n) == n = 0 \/ n = Size \/ text[n] = Newline

\* Both writers have read up to the end of a line, and cut where they had read to.
Lines == AtLine(from) /\ AtLine(position) /\ (writer = "split_text_blocks" => from = position)

\* The columns of the next block.
NextColumns ==
    /\ ordinal = Len(blocks) /\ offset = from
    /\ from < Size => firstLine = 1 + Cardinality(NewlinesIn(0, from))

\* The lines of the current block, as write_blocks counts them.
LineCount ==
    writer = "write_blocks" /\ position < Size => lines = Cardinality(NewlinesIn(from, position))

IInv == TypeOK /\ Lines /\ NextColumns /\ LineCount /\ ColumnsTrue /\ LineAligned /\ StoredWhole

-----------------------------------------------------------------------------

\* The newlines of a stretch are finitely many, and those of two adjoining
\* stretches add up.
LEMMA NewlinesFinite ==
    ASSUME NEW m \in Nat, NEW n \in Nat
    PROVE  IsFiniteSet(NewlinesIn(m, n)) /\ Cardinality(NewlinesIn(m, n)) \in Nat
<1>1. IsFiniteSet((m + 1)..n)
    BY FS_Interval
<1>2. NewlinesIn(m, n) \in SUBSET ((m + 1)..n)
    BY DEF NewlinesIn
<1> QED
    BY <1>1, <1>2, FS_Subset, FS_CardinalityType

LEMMA NewlinesAdd ==
    ASSUME NEW m \in Nat, NEW n \in Nat, NEW k \in Nat, m <= n, n <= k
    PROVE  Cardinality(NewlinesIn(m, k))
               = Cardinality(NewlinesIn(m, n)) + Cardinality(NewlinesIn(n, k))
<1>1. NewlinesIn(m, k) = NewlinesIn(m, n) \cup NewlinesIn(n, k)
    BY DEF NewlinesIn
<1>2. NewlinesIn(m, n) \cap NewlinesIn(n, k) = {}
    BY DEF NewlinesIn
<1>3. /\ IsFiniteSet(NewlinesIn(m, n)) /\ Cardinality(NewlinesIn(m, n)) \in Nat
      /\ IsFiniteSet(NewlinesIn(n, k)) /\ Cardinality(NewlinesIn(n, k)) \in Nat
    BY NewlinesFinite
<1>4. Cardinality(NewlinesIn(m, n) \cup NewlinesIn(n, k))
        = Cardinality(NewlinesIn(m, n)) + Cardinality(NewlinesIn(n, k)) - Cardinality({})
    BY <1>2, <1>3, FS_Union, Zenon
<1> QED
    BY <1>1, <1>3, <1>4, FS_EmptySet

\* A line that does not reach the end of the text has one newline.
LEMMA NewlineOfLine ==
    ASSUME NEW n \in Nat, NEW e \in Nat, IsLineEnd(n, e), e < Size, Size \in Nat
    PROVE  Cardinality(NewlinesIn(n, e)) = 1
<1>1. NewlinesIn(n, e) = {e}
    BY DEF IsLineEnd, NewlinesIn
<1> QED
    BY <1>1, FS_Singleton

\* No newline lies in an empty stretch.
LEMMA NewlinesNone ==
    ASSUME NEW n \in Nat
    PROVE  Cardinality(NewlinesIn(n, n)) = 0
<1>1. NewlinesIn(n, n) = {}
    BY DEF NewlinesIn
<1> QED
    BY <1>1, FS_EmptySet

LEMMA SizeType ==
    ASSUME text \in Texts
    PROVE  text \in Seq(Bytes) /\ Size \in Nat
BY TextsAssumption DEF Size

LEMMA AppendFacts ==
    ASSUME NEW S, NEW s \in Seq(S), NEW e \in S
    PROVE  /\ Append(s, e) \in Seq(S) /\ Len(Append(s, e)) = Len(s) + 1 /\ Len(s) \in Nat
           /\ Append(s, e)[Len(s) + 1] = e
           /\ \A i \in DOMAIN s : Append(s, e)[i] = s[i]
           /\ \A i \in DOMAIN Append(s, e) : i \in DOMAIN s \/ i = Len(s) + 1
           /\ \A i \in DOMAIN s : i \in Int /\ (i # 1 => i - 1 \in DOMAIN s)
           /\ s # <<>> => Len(s) \in DOMAIN s /\ Len(s) # 0
OBVIOUS

\* What a new block adds to the properties of all of them.
LEMMA BlockAdded ==
    ASSUME IInv, NEW m \in 0..Size, NEW e \in 0..Size,
           m = from, m < e, AtLine(e),
           text' = text, phase = "cutting", phase' = "cutting",
           blocks' = Append(blocks, Block(m, e)), from' = e
    PROVE  /\ blocks' \in Seq([ordinal : Nat, byte_offset : Nat, first_line : Nat,
                               from : 0..Size, to : 0..Size])
           /\ Len(blocks') = Len(blocks) + 1
           /\ ColumnsTrue' /\ LineAligned' /\ StoredWhole'
<1> DEFINE B == [ordinal : Nat, byte_offset : Nat, first_line : Nat,
                 from : 0..Size, to : 0..Size]
           b == Block(m, e)
<1>1. Size \in Nat /\ Size' = Size /\ m \in Nat /\ e \in Nat /\ m < Size
    BY SizeType DEF IInv, TypeOK, Size
<1>2. b \in B /\ blocks \in Seq(B)
    BY DEF IInv, TypeOK, Block
<1>3. /\ b.ordinal = Len(blocks) /\ b.byte_offset = m /\ b.from = m /\ b.to = e
      /\ b.first_line = 1 + Cardinality(NewlinesIn(0, m))
    BY <1>1 DEF IInv, NextColumns, Block
<1> HIDE DEF b
<1>4. blocks' = Append(blocks, b)
    BY DEF b
<1>5. /\ blocks' \in Seq(B) /\ Len(blocks') = Len(blocks) + 1 /\ Len(blocks) \in Nat
      /\ blocks'[Len(blocks) + 1] = b
      /\ \A i \in DOMAIN blocks : blocks'[i] = blocks[i]
      /\ \A i \in DOMAIN blocks' : i \in DOMAIN blocks \/ i = Len(blocks) + 1
      /\ \A i \in DOMAIN blocks : i \in Int /\ (i # 1 => i - 1 \in DOMAIN blocks)
      /\ blocks # <<>> => Len(blocks) \in DOMAIN blocks /\ Len(blocks) # 0
    <2> HIDE DEF B
    <2> QED
        BY <1>2, <1>4, AppendFacts
<1>7. ColumnsTrue'
    <2> SUFFICES ASSUME NEW i \in DOMAIN blocks'
                 PROVE  /\ blocks'[i].ordinal = i - 1
                        /\ blocks'[i].byte_offset = blocks'[i].from
                        /\ blocks'[i].first_line = 1 + Cardinality(NewlinesIn(0, blocks'[i].from))
        <3>1. \A i \in DOMAIN blocks' : NewlinesIn(0, blocks'[i].from) = NewlinesIn(0, blocks[i].from)'
            BY DEF NewlinesIn
        <3> QED
            BY <3>1, Zenon DEF ColumnsTrue
    <2>1. CASE i \in DOMAIN blocks
        BY <2>1, <1>5 DEF IInv, ColumnsTrue
    <2>2. CASE i = Len(blocks) + 1
        BY <2>2, <1>1, <1>3, <1>5
    <2> QED
        BY <2>1, <2>2, <1>5
<1>8. LineAligned'
    <2> SUFFICES ASSUME NEW i \in DOMAIN blocks'
                 PROVE  blocks'[i].to = Size \/ text[blocks'[i].to] = Newline
        BY <1>1 DEF LineAligned
    <2>1. CASE i \in DOMAIN blocks
        BY <2>1, <1>5 DEF IInv, LineAligned
    <2>2. CASE i = Len(blocks) + 1
        BY <2>2, <1>1, <1>3, <1>5 DEF AtLine
    <2> QED
        BY <2>1, <2>2, <1>5
<1>9. StoredWhole'
    <2>1. from = IF blocks = <<>> THEN 0 ELSE blocks[Len(blocks)].to
        BY DEF IInv, StoredWhole, Contiguous
    <2>2. \A i \in DOMAIN blocks' :
            /\ blocks'[i].from = IF i = 1 THEN 0 ELSE blocks'[i - 1].to
            /\ blocks'[i].from < blocks'[i].to
        <3> SUFFICES ASSUME NEW i \in DOMAIN blocks'
                     PROVE  /\ blocks'[i].from = IF i = 1 THEN 0 ELSE blocks'[i - 1].to
                            /\ blocks'[i].from < blocks'[i].to
            OBVIOUS
        <3>1. CASE i \in DOMAIN blocks
            <4>1. /\ blocks[i].from = IF i = 1 THEN 0 ELSE blocks[i - 1].to
                  /\ blocks[i].from < blocks[i].to
                BY <3>1 DEF IInv, StoredWhole, Contiguous
            <4>2. i # 1 => i - 1 \in DOMAIN blocks
                BY <3>1, <1>5
            <4> QED
                BY <3>1, <4>1, <4>2, <1>5
        <3>2. CASE i = Len(blocks) + 1
            <4>1. CASE blocks = <<>>
                BY <3>2, <4>1, <2>1, <1>3, <1>5
            <4>2. CASE blocks # <<>>
                <5>1. Len(blocks) \in DOMAIN blocks /\ i # 1 /\ i - 1 = Len(blocks)
                    BY <3>2, <4>2, <1>5
                <5> QED
                    BY <3>2, <4>2, <5>1, <2>1, <1>3, <1>5, SMTT(20)
            <4> QED
                BY <4>1, <4>2
        <3> QED
            BY <3>1, <3>2, <1>5
    <2>3. from' = IF blocks' = <<>> THEN 0 ELSE blocks'[Len(blocks')].to
        BY <1>3, <1>4, <1>5
    <2> QED
        BY <2>2, <2>3 DEF StoredWhole, Contiguous
<1> QED
    BY <1>5, <1>7, <1>8, <1>9

-----------------------------------------------------------------------------

LEMMA InitIInv == Init => IInv
<1> SUFFICES ASSUME Init PROVE IInv
    OBVIOUS
<1>1. text \in Seq(Bytes) /\ Size \in Nat
    BY SizeType DEF Init
<1>2. Cardinality(NewlinesIn(0, 0)) = 0
    BY NewlinesNone
<1>3. TypeOK
    BY <1>1 DEF Init, TypeOK, Writers
<1>4. Lines /\ NextColumns /\ LineCount
    BY <1>1, <1>2 DEF Init, Lines, AtLine, NextColumns, LineCount
<1>5. ColumnsTrue /\ LineAligned
    BY DEF Init, ColumnsTrue, LineAligned
<1>6. StoredWhole
    BY DEF Init, StoredWhole, Contiguous
<1> QED
    BY <1>3, <1>4, <1>5, <1>6 DEF IInv

LEMMA ReadLineKeeps == IInv /\ ReadLine => IInv'
<1> SUFFICES ASSUME IInv, ReadLine PROVE IInv'
    OBVIOUS
<1>1. Size \in Nat /\ Size' = Size /\ from \in Nat /\ position \in Nat /\ from <= position /\ lines \in Nat
    BY SizeType DEF IInv, TypeOK, ReadLine, Size
<1>2. PICK e \in 1..Size : IsLineEnd(position, e) /\ position' = e
    BY DEF ReadLine
<1>3. e \in Nat /\ position < e /\ e <= Size /\ AtLine(e)
    BY <1>1, <1>2 DEF IsLineEnd, AtLine
<1>4. /\ UNCHANGED <<text, writer, phase, from, ordinal, offset, firstLine, blocks>>
      /\ lines' = lines + 1 /\ writer = "write_blocks"
    BY DEF ReadLine
<1>5. \A m, n : NewlinesIn(m, n)' = NewlinesIn(m, n)
    BY <1>4 DEF NewlinesIn
<1>6. TypeOK'
    BY <1>1, <1>2, <1>3, <1>4 DEF IInv, TypeOK
<1>7. Lines'
    BY <1>1, <1>2, <1>3, <1>4 DEF IInv, Lines, AtLine
<1>8. NextColumns'
    BY <1>1, <1>4, <1>5 DEF IInv, NextColumns
<1>9. LineCount'
    <2> SUFFICES ASSUME e < Size PROVE lines' = Cardinality(NewlinesIn(from, e))
        BY <1>1, <1>2, <1>4, <1>5 DEF LineCount
    <2>1. lines = Cardinality(NewlinesIn(from, position))
        BY <1>1, <1>3, <1>4 DEF IInv, LineCount
    <2>2. Cardinality(NewlinesIn(position, e)) = 1
        BY <1>1, <1>2, <1>3, NewlineOfLine
    <2> QED
        BY <1>1, <1>3, <1>4, <2>1, <2>2, NewlinesAdd
<1>10. ColumnsTrue' /\ LineAligned'
    BY <1>1, <1>4, <1>5 DEF IInv, ColumnsTrue, LineAligned
<1>11. StoredWhole'
    BY <1>1, <1>4 DEF IInv, StoredWhole, Contiguous
<1> QED
    BY <1>6, <1>7, <1>8, <1>9, <1>10, <1>11 DEF IInv

LEMMA WriteBlockKeeps == IInv /\ WriteBlock => IInv'
<1> SUFFICES ASSUME IInv, WriteBlock PROVE IInv'
    OBVIOUS
<1>1. /\ Size \in Nat /\ Size' = Size /\ from \in 0..Size /\ position \in 0..Size
      /\ lines \in Nat /\ firstLine \in Nat /\ offset \in Nat /\ ordinal \in Nat
    BY SizeType DEF IInv, TypeOK, WriteBlock, Size
<1>2. /\ UNCHANGED <<text, writer, phase, position>>
      /\ from < position /\ phase = "cutting" /\ writer = "write_blocks"
      /\ blocks' = Append(blocks, Block(from, position)) /\ from' = position
      /\ ordinal' = ordinal + 1 /\ offset' = offset + (position - from)
      /\ firstLine' = firstLine + lines /\ lines' = 0
    BY DEF WriteBlock
<1>3. AtLine(position)
    BY DEF IInv, Lines
<1>4. /\ blocks' \in Seq([ordinal : Nat, byte_offset : Nat, first_line : Nat,
                          from : 0..Size, to : 0..Size])
      /\ Len(blocks') = Len(blocks) + 1
      /\ ColumnsTrue' /\ LineAligned' /\ StoredWhole'
    BY <1>1, <1>2, <1>3, BlockAdded
<1>5. \A m, n : NewlinesIn(m, n)' = NewlinesIn(m, n)
    BY <1>2 DEF NewlinesIn
<1>6. TypeOK'
    BY <1>1, <1>2, <1>4 DEF IInv, TypeOK
<1>7. Lines'
    BY <1>1, <1>2, <1>3 DEF Lines, AtLine
<1>8. NextColumns'
    <2>1. ordinal' = Len(blocks') /\ offset' = from'
        BY <1>1, <1>2, <1>4 DEF IInv, NextColumns
    <2>2. ASSUME position < Size
          PROVE  firstLine' = 1 + Cardinality(NewlinesIn(0, position))
        <3>1. /\ lines = Cardinality(NewlinesIn(from, position))
              /\ firstLine = 1 + Cardinality(NewlinesIn(0, from))
            BY <1>1, <1>2, <2>2 DEF IInv, LineCount, NextColumns
        <3>0. 0 \in Nat /\ from \in Nat /\ position \in Nat /\ 0 <= from /\ from <= position
            BY <1>1, <1>2
        <3>2. /\ Cardinality(NewlinesIn(0, position))
                    = Cardinality(NewlinesIn(0, from)) + Cardinality(NewlinesIn(from, position))
              /\ Cardinality(NewlinesIn(0, from)) \in Nat
            BY <3>0, NewlinesAdd, NewlinesFinite
        <3> QED
            BY <1>1, <1>2, <3>1, <3>2
    <2> QED
        BY <1>1, <1>2, <1>5, <2>1, <2>2 DEF NextColumns
<1>9. LineCount'
    BY <1>1, <1>2, <1>5, NewlinesNone DEF LineCount
<1> QED
    BY <1>4, <1>6, <1>7, <1>8, <1>9 DEF IInv

LEMMA SplitBlockKeeps == IInv /\ SplitBlock => IInv'
<1> SUFFICES ASSUME IInv, SplitBlock PROVE IInv'
    OBVIOUS
<1>1. /\ Size \in Nat /\ Size' = Size /\ from = position /\ from \in 0..Size /\ position < Size
      /\ lines \in Nat /\ firstLine \in Nat /\ offset \in Nat /\ ordinal \in Nat
    BY SizeType DEF IInv, TypeOK, Lines, SplitBlock, Size
<1>2. PICK e \in 1..Size :
        /\ Cut(e)
        /\ blocks' = Append(blocks, Block(position, e))
        /\ offset' = offset + (e - position)
        /\ firstLine' = firstLine + Cardinality(NewlinesIn(position, e))
        /\ position' = e /\ from' = e
    BY DEF SplitBlock
<1>3. /\ UNCHANGED <<text, writer, phase, lines>> /\ ordinal' = ordinal + 1
      /\ phase = "cutting" /\ writer = "split_text_blocks"
    BY DEF SplitBlock
<1>4. from < e /\ e \in 0..Size /\ AtLine(e)
    <2>1. CASE Size - position <= BlockBytes
        BY <1>1, <1>2, <2>1 DEF Cut, AtLine
    <2>2. CASE ~(Size - position <= BlockBytes)
        BY <1>1, <1>2, <2>2, BytesAssumption DEF Cut, IsLineEnd, AtLine
    <2> QED
        BY <2>1, <2>2
<1>5. /\ blocks' \in Seq([ordinal : Nat, byte_offset : Nat, first_line : Nat,
                          from : 0..Size, to : 0..Size])
      /\ Len(blocks') = Len(blocks) + 1
      /\ ColumnsTrue' /\ LineAligned' /\ StoredWhole'
    BY <1>1, <1>2, <1>3, <1>4, BlockAdded
<1>6. \A m, n : NewlinesIn(m, n)' = NewlinesIn(m, n)
    BY <1>3 DEF NewlinesIn
<1>7. Cardinality(NewlinesIn(position, e)) \in Nat
    <2>1. position \in Nat /\ e \in Nat
        BY <1>1, <1>4
    <2> QED
        BY <2>1, NewlinesFinite
<1>8. TypeOK'
    BY <1>1, <1>2, <1>3, <1>4, <1>5, <1>7 DEF IInv, TypeOK
<1>9. Lines'
    BY <1>1, <1>2, <1>3, <1>4 DEF Lines, AtLine
<1>10. NextColumns'
    <2>1. ordinal' = Len(blocks') /\ offset' = from'
        BY <1>1, <1>2, <1>3, <1>4, <1>5 DEF IInv, NextColumns
    <2>2. firstLine' = 1 + Cardinality(NewlinesIn(0, e))
        <3>1. firstLine = 1 + Cardinality(NewlinesIn(0, from))
            BY <1>1 DEF IInv, NextColumns
        <3>0. 0 \in Nat /\ from \in Nat /\ e \in Nat /\ 0 <= from /\ from <= e
            BY <1>1, <1>4
        <3>2. /\ Cardinality(NewlinesIn(0, e))
                    = Cardinality(NewlinesIn(0, from)) + Cardinality(NewlinesIn(from, e))
              /\ Cardinality(NewlinesIn(0, from)) \in Nat
            BY <3>0, NewlinesAdd, NewlinesFinite
        <3> QED
            BY <1>1, <1>2, <1>7, <3>1, <3>2
    <2> QED
        BY <1>2, <1>6, <2>1, <2>2 DEF NextColumns
<1>11. LineCount'
    BY <1>3 DEF LineCount
<1> QED
    BY <1>5, <1>8, <1>9, <1>10, <1>11 DEF IInv

\* The steps that end the writing, and stuttering, leave the blocks alone.
LEMMA EndsKeep == IInv /\ (LineTooLong \/ InvalidBlock \/ Finish \/ UNCHANGED vars) => IInv'
<1> SUFFICES ASSUME IInv, LineTooLong \/ InvalidBlock \/ Finish \/ UNCHANGED vars
             PROVE  IInv'
    OBVIOUS
<1>1. UNCHANGED <<text, writer, position, from, lines, ordinal, offset, firstLine, blocks>>
    BY DEF LineTooLong, InvalidBlock, Finish, vars
<1>2. \A m, n : NewlinesIn(m, n)' = NewlinesIn(m, n)
    BY <1>1 DEF NewlinesIn
<1>3. Size' = Size
    BY <1>1 DEF Size
<1>4. TypeOK'
    BY <1>1, <1>3 DEF IInv, TypeOK, LineTooLong, InvalidBlock, Finish, vars
<1>5. Lines' /\ NextColumns' /\ LineCount'
    BY <1>1, <1>2, <1>3 DEF IInv, Lines, AtLine, NextColumns, LineCount
<1>6. ColumnsTrue' /\ LineAligned'
    BY <1>1, <1>2, <1>3 DEF IInv, ColumnsTrue, LineAligned
<1>7. Contiguous'
    BY <1>1 DEF IInv, StoredWhole, Contiguous
<1>8. phase' = "stored" => from = Size /\ offset = Size
    <2>1. CASE LineTooLong \/ InvalidBlock
        BY <2>1 DEF LineTooLong, InvalidBlock
    <2>2. CASE Finish
        BY <2>2 DEF Finish, IInv, NextColumns
    <2>3. CASE UNCHANGED vars
        BY <2>3 DEF vars, IInv, StoredWhole
    <2> QED
        BY <2>1, <2>2, <2>3
<1> QED
    BY <1>1, <1>3, <1>4, <1>5, <1>6, <1>7, <1>8 DEF IInv, StoredWhole

-----------------------------------------------------------------------------

\* The strengthening holds throughout, whichever of the two writers cuts the text.
THEOREM Invariance == Spec => []IInv
<1>1. Init => IInv
    BY InitIInv
<1>2. IInv /\ [Next]_vars => IInv'
    BY ReadLineKeeps, WriteBlockKeeps, SplitBlockKeeps, EndsKeep DEF Next
<1> QED
    BY <1>1, <1>2, PTL DEF Spec

\* Every block's columns say which bytes and lines of the text come before it.
THEOREM ColumnsTheorem == Spec => []ColumnsTrue
<1>1. IInv => ColumnsTrue
    BY DEF IInv
<1> QED
    BY <1>1, Invariance, PTL

\* No line is in two blocks, for any text and any block size.
THEOREM AlignedTheorem == Spec => []LineAligned
<1>1. IInv => LineAligned
    BY DEF IInv
<1> QED
    BY <1>1, Invariance, PTL

\* What is stored is the whole text, its blocks without gaps and none of them empty.
THEOREM StoredTheorem == Spec => []StoredWhole
<1>1. IInv => StoredWhole
    BY DEF IInv
<1> QED
    BY <1>1, Invariance, PTL

-----------------------------------------------------------------------------
(***************************************************************************)
(* Reading a range back.  What read_range has put together after i blocks  *)
(* is known in closed form: the bytes of the range up to the end of block  *)
(* i.  That this solves the recursion gives a solution, that no two        *)
(* solutions differ gives what read_range computes.                        *)
(***************************************************************************)

\* A set of numbers has a least one.
LEMMA LeastNumber ==
  ASSUME NEW T \in SUBSET Nat, T # {}
  PROVE  \E x \in T : \A y \in T : x =< y
<1> DEFINE R == OpToRel(<, Nat)
           S == {ss \in Nat \X Nat : ss[1] < ss[2]}
<1>1. IsWellFoundedOn(R, Nat)
  BY NatLessThanWellFounded, Zenon
<1>2. R = S
  BY Zenon DEF OpToRel
<1>3. \A m, n \in Nat : ~(<<m, n>> \in S) => n =< m
  OBVIOUS
<1> HIDE DEF R, S
<1>4. PICK x \in T : \A y \in T : ~(<<y, x>> \in R)
  BY <1>1, WFMin
<1>5. \A y \in T : x =< y
  BY <1>2, <1>3, <1>4
<1> QED
  BY <1>5

LEMMA MinOfTwo ==
  ASSUME NEW a \in Int, NEW b \in Int
  PROVE  Min({a, b}) = IF a =< b THEN a ELSE b
BY DEF Min

LEMMA MaxIs ==
  ASSUME NEW S \in SUBSET Int, NEW x \in S, \A y \in S : x >= y
  PROVE  Max(S) = x
<1>1. Max(S) \in S /\ \A y \in S : Max(S) >= y
  BY Zenon DEF Max
<1>2. Max(S) \in Int /\ x \in Int /\ Max(S) >= x /\ x >= Max(S)
  BY <1>1
<1> QED
  BY <1>2

\* Where a block starts and ends.
Lo(i) == blocks[i].from
Hi(i) == blocks[i].to

\* A text that is stored, block after block.
Stored ==
    /\ Size \in Nat /\ text \in Seq(Bytes) /\ offset = Size
    /\ Len(blocks) \in Nat /\ DOMAIN blocks = 1..Len(blocks)
    /\ Size > 0 => Len(blocks) > 0 /\ Hi(Len(blocks)) = Size
    /\ \A i \in 1..Len(blocks) :
        /\ Lo(i) \in Nat /\ Hi(i) \in Nat /\ Lo(i) < Hi(i) /\ Hi(i) =< Size
        /\ blocks[i].byte_offset = Lo(i)
        /\ Lo(i) = IF i = 1 THEN 0 ELSE Hi(i - 1)

LEMMA IsStored == ASSUME IInv, phase = "stored" PROVE Stored
<1>1. Size \in Nat /\ text \in Seq(Bytes)
  BY TextsAssumption DEF IInv, TypeOK, Size
<1>2. Len(blocks) \in Nat /\ DOMAIN blocks = 1..Len(blocks)
  BY DEF IInv, TypeOK
<1>3. offset = Size /\ from = Size
  BY DEF IInv, StoredWhole
<1>4. Size > 0 => Len(blocks) > 0 /\ Hi(Len(blocks)) = Size
  BY <1>1, <1>2, <1>3 DEF IInv, StoredWhole, Contiguous, Hi, TypeOK
<1>5. ASSUME NEW i \in 1..Len(blocks)
      PROVE  /\ Lo(i) \in Nat /\ Hi(i) \in Nat /\ Lo(i) < Hi(i) /\ Hi(i) =< Size
             /\ blocks[i].byte_offset = Lo(i)
             /\ Lo(i) = IF i = 1 THEN 0 ELSE Hi(i - 1)
  <2>1. blocks[i].from \in 0..Size /\ blocks[i].to \in 0..Size
    <3>1. blocks \in Seq([ordinal : Nat, byte_offset : Nat, first_line : Nat,
                          from : 0..Size, to : 0..Size])
      BY DEF IInv, TypeOK
    <3>2. blocks[i] \in [ordinal : Nat, byte_offset : Nat, first_line : Nat,
                         from : 0..Size, to : 0..Size]
      BY <3>1, <1>2, ElementOfSeq
    <3> QED
      BY <3>2
  <2>2. blocks[i].byte_offset = blocks[i].from
    BY <1>2 DEF IInv, ColumnsTrue
  <2>3. blocks[i].from < blocks[i].to /\ blocks[i].from = IF i = 1 THEN 0 ELSE blocks[i - 1].to
    BY <1>2 DEF IInv, StoredWhole, Contiguous
  <2> QED
    BY <1>1, <2>1, <2>2, <2>3 DEF Lo, Hi
<1> QED
  BY <1>1, <1>2, <1>3, <1>4, <1>5 DEF Stored

\* A later block starts where an earlier one ends, or after that.
LEMMA Ordered ==
  ASSUME Stored, NEW i \in 1..Len(blocks)
  PROVE  \A j \in 1..Len(blocks) : i < j => Hi(i) =< Lo(j)
<1> DEFINE T == {j \in 1..Len(blocks) : i < j /\ ~(Hi(i) =< Lo(j))}
<1>1. ASSUME T # {} PROVE FALSE
  <2>1. T \in SUBSET Nat
    BY DEF Stored
  <2>2. PICK j \in T : \A k \in T : j =< k
    <3> HIDE DEF T
    <3> QED
      BY <1>1, <2>1, LeastNumber
  <2>3. j \in 1..Len(blocks) /\ i < j /\ ~(Hi(i) =< Lo(j)) /\ Len(blocks) \in Nat
    BY <2>2 DEF Stored
  <2>4. Lo(j) = Hi(j - 1) /\ Hi(i) \in Nat
    BY <2>3 DEF Stored
  <2>5. i # j - 1
    BY <2>3, <2>4
  <2>6. j - 1 \in 1..Len(blocks) /\ i < j - 1 /\ ~(j =< j - 1)
    BY <2>3, <2>5
  <2>7. Hi(i) =< Lo(j - 1)
    BY <2>2, <2>6
  <2>8. Lo(j - 1) \in Nat /\ Hi(j - 1) \in Nat /\ Lo(j - 1) < Hi(j - 1)
    BY <2>6 DEF Stored
  <2> QED
    BY <2>3, <2>4, <2>7, <2>8
<1> QED
  BY <1>1

\* A byte of the text lies in one of the blocks.
LEMMA Covered ==
  ASSUME Stored, NEW start \in Nat, start < Size
  PROVE  \E k \in 1..Len(blocks) : Lo(k) =< start /\ start < Hi(k)
<1> DEFINE T == {j \in 1..Len(blocks) : start < Hi(j)}
<1>1. T \in SUBSET Nat
  BY DEF Stored
<1>2. T # {}
  <2>1. Size > 0
    BY DEF Stored
  <2>2. Len(blocks) \in 1..Len(blocks) /\ Hi(Len(blocks)) = Size
    BY <2>1 DEF Stored
  <2> QED
    BY <2>2
<1>3. PICK k \in T : \A j \in T : k =< j
  <2> HIDE DEF T
  <2> QED
    BY <1>1, <1>2, LeastNumber
<1>4. k \in 1..Len(blocks) /\ start < Hi(k) /\ Len(blocks) \in Nat
  BY <1>3 DEF Stored
<1>5. Lo(k) =< start
  <2>1. CASE k = 1
    BY <1>4, <2>1 DEF Stored
  <2>2. CASE k # 1
    <3>1. k - 1 \in 1..Len(blocks) /\ ~(k =< k - 1)
      BY <1>4, <2>2
    <3>2. ~(start < Hi(k - 1))
      BY <1>3, <3>1
    <3>3. Lo(k) = Hi(k - 1) /\ Hi(k - 1) \in Nat
      BY <1>4, <2>2, <3>1 DEF Stored
    <3> QED
      BY <3>2, <3>3
  <2> QED
    BY <2>1, <2>2
<1> QED
  BY <1>4, <1>5

\* The offset that read_range looks up is that of the block with the first byte.
LEMMA FirstIs ==
  ASSUME Stored, NEW start \in Nat, NEW k \in 1..Len(blocks), Lo(k) =< start, start < Hi(k)
  PROVE  FirstOffset(start) = Lo(k)
<1> DEFINE S == {blocks[i].byte_offset : i \in {j \in DOMAIN blocks : blocks[j].byte_offset =< start}}
<1>1. S \in SUBSET Int /\ Lo(k) \in S
  <2>1. k \in DOMAIN blocks /\ blocks[k].byte_offset = Lo(k)
    BY DEF Stored
  <2>2. \A j \in DOMAIN blocks : blocks[j].byte_offset \in Int
    BY DEF Stored
  <2> QED
    BY <2>1, <2>2
<1>2. ASSUME NEW y \in S PROVE Lo(k) >= y
  <2>1. PICK j \in 1..Len(blocks) : y = Lo(j) /\ Lo(j) =< start
    BY DEF Stored
  <2>2. /\ Lo(j) \in Nat /\ Hi(j) \in Nat /\ Lo(j) < Hi(j)
        /\ Lo(k) \in Nat /\ Hi(k) \in Nat /\ Len(blocks) \in Nat
    BY DEF Stored
  <2>3. CASE k < j
    <3>1. Hi(k) =< Lo(j)
      BY <2>3, Ordered
    <3> QED
      BY <2>1, <2>2, <3>1
  <2>4. CASE j < k
    <3>1. Hi(j) =< Lo(k)
      BY <2>4, Ordered
    <3> QED
      BY <2>1, <2>2, <3>1
  <2> QED
    BY <2>1, <2>2, <2>3, <2>4
<1>3. FirstOffset(start) = Max(S)
  BY DEF FirstOffset
<1> HIDE DEF S
<1> QED
  BY <1>1, <1>2, <1>3, MaxIs

-----------------------------------------------------------------------------
\* How far a range from start to end is read when all blocks that end at or
\* before n have been.
Clip(n, start, end) == IF n =< start THEN start ELSE IF n < end THEN n ELSE end

Upto(i, start, end) == IF i = 0 THEN start ELSE Clip(Hi(i), start, end)

\* The blocks that the query picks, and the aggregate over them.
Takes(b, start, end) == b.byte_offset >= FirstOffset(start) /\ b.byte_offset < end

Reads(f, start, end) ==
    f = [i \in 0..Len(blocks) |->
            IF i = 0 THEN <<>>
            ELSE IF Takes(blocks[i], start, end) THEN f[i - 1] \o Piece(blocks[i], start, end)
            ELSE f[i - 1]]

\* A range that lies in the text.
Within(start, end) == start \in Nat /\ end \in Nat /\ start < end /\ end =< Size

LEMMA UptoBefore ==
  ASSUME Stored, NEW start, NEW end, Within(start, end), NEW i \in 1..Len(blocks)
  PROVE  Upto(i - 1, start, end) = Clip(Lo(i), start, end)
<1>1. Len(blocks) \in Nat /\ Lo(i) = IF i = 1 THEN 0 ELSE Hi(i - 1)
  BY DEF Stored
<1>2. CASE i = 1
  BY <1>1, <1>2 DEF Upto, Clip, Within
<1>3. CASE i # 1
  BY <1>1, <1>3 DEF Upto
<1> QED
  BY <1>2, <1>3

LEMMA PieceIs ==
  ASSUME Stored, NEW start, NEW end, Within(start, end), NEW i \in 1..Len(blocks),
         Lo(i) < end, start < Hi(i)
  PROVE  Piece(blocks[i], start, end)
           = SubSeq(text, Clip(Lo(i), start, end) + 1, Clip(Hi(i), start, end))
<1> DEFINE skipped == IF start > Lo(i) THEN start - Lo(i) ELSE 0
           last == IF end - Lo(i) =< Hi(i) - Lo(i) THEN end - Lo(i) ELSE Hi(i) - Lo(i)
<1>1. /\ start \in Nat /\ end \in Nat /\ start < end /\ end =< Size /\ Size \in Nat
      /\ Lo(i) \in Nat /\ Hi(i) \in Nat /\ Lo(i) < Hi(i) /\ Hi(i) =< Size
      /\ blocks[i].byte_offset = Lo(i)
  BY DEF Stored, Within
<1>2. Min({end - Lo(i), Hi(i) - Lo(i)}) = last
  BY <1>1, MinOfTwo
<1>3. Piece(blocks[i], start, end) = SubSeq(SubSeq(text, Lo(i) + 1, Hi(i)), skipped + 1, last)
  BY <1>1, <1>2 DEF Piece, Body, Lo, Hi
<1>4. /\ Clip(Lo(i), start, end) = Lo(i) + skipped
      /\ Clip(Hi(i), start, end) = Lo(i) + last
      /\ skipped \in Nat /\ last \in Nat /\ skipped < last /\ last =< Hi(i) - Lo(i)
  BY <1>1 DEF Clip
<1> HIDE DEF skipped, last
<1> DEFINE first == Lo(i) + 1
           m == skipped + 1
           j == Hi(i)
<1>5. SubSeq(SubSeq(text, first, j), m, last) = SubSeq(text, first+m-1, first+last-1)
  <2>1. text \in Seq(Bytes) /\ Len(text) = Size
    BY DEF Stored, Size
  <2>2. first \in 1 .. Len(text) /\ j \in 1 .. Len(text)
    BY <1>1, <2>1
  <2>3. m \in 1 .. j-first+1 /\ last \in 1 .. j-first+1
    BY <1>1, <1>4
  <2> HIDE DEF first, m, j
  <2> QED
    BY <2>1, <2>2, <2>3, SubSeqOfSubSeq
<1>6. first + m - 1 = Lo(i) + skipped + 1 /\ first + last - 1 = Lo(i) + last
  BY <1>1, <1>4
<1> QED
  BY <1>3, <1>4, <1>5, <1>6

\* The blocks that are picked are those that share a byte with the range.
LEMMA TakesIs ==
  ASSUME Stored, NEW start, NEW end, Within(start, end), NEW i \in 1..Len(blocks)
  PROVE  Takes(blocks[i], start, end) <=> Lo(i) < end /\ start < Hi(i)
<1>1. start \in Nat /\ end \in Nat /\ start < end /\ end =< Size /\ Size \in Nat
  BY DEF Within, Stored
<1>2. PICK k \in 1..Len(blocks) : Lo(k) =< start /\ start < Hi(k)
  BY <1>1, Covered
<1>3. FirstOffset(start) = Lo(k)
  BY <1>1, <1>2, FirstIs
<1>4. /\ Lo(i) \in Nat /\ Hi(i) \in Nat /\ Lo(i) < Hi(i) /\ blocks[i].byte_offset = Lo(i)
      /\ Lo(k) \in Nat /\ Hi(k) \in Nat /\ Lo(k) < Hi(k) /\ Len(blocks) \in Nat
  BY DEF Stored
<1>5. i < k => Hi(i) =< Lo(k)
  BY Ordered
<1>6. k < i => Hi(k) =< Lo(i)
  BY Ordered
<1>7. Takes(blocks[i], start, end) <=> Lo(i) >= Lo(k) /\ Lo(i) < end
  BY <1>3, <1>4 DEF Takes
<1>8. CASE i = k
  BY <1>1, <1>2, <1>4, <1>7, <1>8
<1>9. CASE i < k
  BY <1>1, <1>2, <1>4, <1>5, <1>7, <1>9
<1>10. CASE k < i
  BY <1>1, <1>2, <1>4, <1>6, <1>7, <1>10
<1> QED
  BY <1>4, <1>8, <1>9, <1>10

\* One more block: what it contributes is what lies between two clips.
LEMMA OneBlock ==
  ASSUME Stored, NEW start, NEW end, Within(start, end), NEW i \in 1..Len(blocks)
  PROVE  SubSeq(text, start + 1, Upto(i, start, end))
           = IF Takes(blocks[i], start, end)
             THEN SubSeq(text, start + 1, Upto(i - 1, start, end)) \o Piece(blocks[i], start, end)
             ELSE SubSeq(text, start + 1, Upto(i - 1, start, end))
<1>1. /\ start \in Nat /\ end \in Nat /\ start < end /\ end =< Size /\ Size \in Nat
      /\ Lo(i) \in Nat /\ Hi(i) \in Nat /\ Lo(i) < Hi(i) /\ Len(blocks) \in Nat
  BY DEF Within, Stored
<1>2. Upto(i, start, end) = Clip(Hi(i), start, end)
  BY <1>1 DEF Upto
<1>3. Upto(i - 1, start, end) = Clip(Lo(i), start, end)
  BY UptoBefore
<1>4. CASE Takes(blocks[i], start, end)
  <2>1. Lo(i) < end /\ start < Hi(i)
    BY <1>4, TakesIs
  <2>2. Piece(blocks[i], start, end)
          = SubSeq(text, Clip(Lo(i), start, end) + 1, Clip(Hi(i), start, end))
    BY <2>1, PieceIs
  <2>4. text \in Seq(Bytes) /\ Len(text) = Size
    BY DEF Stored, Size
  <2> DEFINE m == start + 1
             a == Clip(Lo(i), start, end)
             b == Clip(Hi(i), start, end)
  <2>3. m \in 1 .. Size+1 /\ a \in m-1 .. Size /\ b \in a .. Size
    BY <1>1, <2>1 DEF Clip
  <2> HIDE DEF m, a, b
  <2>5. m \in 1 .. Len(text)+1 /\ a \in m-1 .. Len(text) /\ b \in a .. Len(text)
    BY <2>3, <2>4
  <2>6. SubSeq(text, m, a) \o SubSeq(text, a+1, b) = SubSeq(text, m, b)
    BY <2>4, <2>5, ConcatAdjacentSubSeq, Zenon
  <2> QED
    BY <1>2, <1>3, <1>4, <2>2, <2>6 DEF m, a, b
<1>5. CASE ~Takes(blocks[i], start, end)
  <2>1. ~(Lo(i) < end /\ start < Hi(i))
    BY <1>5, TakesIs
  <2>2. Clip(Hi(i), start, end) = Clip(Lo(i), start, end)
    BY <1>1, <2>1 DEF Clip
  <2> QED
    BY <1>2, <1>3, <1>5, <2>2
<1> QED
  BY <1>4, <1>5

\* The closed form solves the recursion of the aggregate.
LEMMA Solved ==
  ASSUME Stored, NEW start, NEW end, Within(start, end)
  PROVE  Reads([i \in 0..Len(blocks) |-> SubSeq(text, start + 1, Upto(i, start, end))], start, end)
<1> DEFINE g == [i \in 0..Len(blocks) |-> SubSeq(text, start + 1, Upto(i, start, end))]
           h(i) == IF i = 0 THEN <<>>
                   ELSE IF Takes(blocks[i], start, end) THEN g[i - 1] \o Piece(blocks[i], start, end)
                   ELSE g[i - 1]
<1>1. ASSUME NEW i \in 0..Len(blocks) PROVE SubSeq(text, start + 1, Upto(i, start, end)) = h(i)
  <2>1. CASE i = 0
    <3>1. Upto(i, start, end) = start /\ start \in Int /\ start + 1 \in Int /\ start < start + 1
      BY <2>1 DEF Upto, Within
    <3> QED
      BY <2>1, <3>1, SubSeqEmpty
  <2>2. CASE i # 0
    <3>1. i \in 1..Len(blocks) /\ i - 1 \in 0..Len(blocks)
      BY <2>2 DEF Stored
    <3>2. g[i - 1] = SubSeq(text, start + 1, Upto(i - 1, start, end))
      BY <3>1
    <3> HIDE DEF g
    <3> QED
      BY <2>2, <3>1, <3>2, OneBlock
  <2> QED
    BY <2>1, <2>2
<1>2. g = [i \in 0..Len(blocks) |-> h(i)]
  BY <1>1
<1> QED
  BY <1>2 DEF Reads

\* The recursion has one solution.
LEMMA ReadsAgree ==
  ASSUME Stored, NEW start, NEW end, NEW f, Reads(f, start, end), NEW g, Reads(g, start, end)
  PROVE  f[Len(blocks)] = g[Len(blocks)]
<1> DEFINE T == {i \in 0..Len(blocks) : f[i] # g[i]}
<1>1. ASSUME T # {} PROVE FALSE
  <2>1. T \in SUBSET Nat
    OBVIOUS
  <2>2. PICK i \in T : \A j \in T : i =< j
    <3> HIDE DEF T
    <3> QED
      BY <1>1, <2>1, LeastNumber
  <2>3. i \in 0..Len(blocks) /\ f[i] # g[i] /\ Len(blocks) \in Nat
    BY <2>2 DEF Stored
  <2>4. /\ f[i] = IF i = 0 THEN <<>>
                  ELSE IF Takes(blocks[i], start, end) THEN f[i - 1] \o Piece(blocks[i], start, end)
                  ELSE f[i - 1]
        /\ g[i] = IF i = 0 THEN <<>>
                  ELSE IF Takes(blocks[i], start, end) THEN g[i - 1] \o Piece(blocks[i], start, end)
                  ELSE g[i - 1]
    BY <2>3 DEF Reads
  <2>5. i # 0
    BY <2>3, <2>4
  <2>6. i - 1 \in 0..Len(blocks) /\ ~(i =< i - 1)
    BY <2>3, <2>5
  <2>7. f[i - 1] = g[i - 1]
    BY <2>2, <2>6
  <2> HIDE DEF T
  <2> QED
    BY <2>3, <2>4, <2>5, <2>7
<1>2. Len(blocks) \in 0..Len(blocks)
  BY DEF Stored
<1> QED
  BY <1>1, <1>2

LEMMA ReadIs ==
  ASSUME NEW start, NEW count, ~(start >= offset \/ count = 0)
  PROVE  ReadRange(start, count)
           = (CHOOSE f : Reads(f, start, start + Min({count, offset - start})))[Len(blocks)]
BY DEF ReadRange, Reads, Takes

\* Reading from anywhere in a stored text.
LEMMA RangeRead ==
  ASSUME Stored, NEW start \in Nat, NEW count \in Nat
  PROVE  ReadRange(start, count) = SubSeq(text, start + 1, Min({start + count, Size}))
<1>1. Size \in Nat /\ offset = Size
  BY DEF Stored
<1>2. Min({start + count, Size}) = IF start + count =< Size THEN start + count ELSE Size
  BY <1>1, MinOfTwo
<1>3. CASE start >= offset \/ count = 0
  <2>1. ReadRange(start, count) = <<>>
    BY <1>3 DEF ReadRange
  <2>2. /\ Min({start + count, Size}) \in Int /\ start + 1 \in Int
        /\ Min({start + count, Size}) < start + 1
    BY <1>1, <1>2, <1>3
  <2> QED
    BY <2>1, <2>2, SubSeqEmpty
<1>4. CASE ~(start >= offset \/ count = 0)
  <2> DEFINE end == start + Min({count, offset - start})
             g == [i \in 0..Len(blocks) |-> SubSeq(text, start + 1, Upto(i, start, end))]
             f == CHOOSE f : Reads(f, start, end)
  <2>1. Min({count, offset - start}) = IF count =< offset - start THEN count ELSE offset - start
    BY <1>1, MinOfTwo
  <2>2. Within(start, end) /\ end = Min({start + count, Size})
    BY <1>1, <1>2, <1>4, <2>1 DEF Within
  <2>3. ReadRange(start, count) = f[Len(blocks)]
    BY <1>4, ReadIs
  <2> HIDE DEF end
  <2>4. Reads(g, start, end)
    BY <2>2, Solved
  <2>5. g[Len(blocks)] = SubSeq(text, start + 1, Upto(Len(blocks), start, end))
    <3>1. Len(blocks) \in 0..Len(blocks)
      BY DEF Stored
    <3> QED
      BY <3>1
  <2>6. Upto(Len(blocks), start, end) = end
    <3>1. start \in Nat /\ end \in Nat /\ start < end /\ end =< Size /\ Size > 0
      BY <1>1, <2>2 DEF Within
    <3>2. Len(blocks) \in Nat /\ Len(blocks) > 0 /\ Hi(Len(blocks)) = Size
      BY <3>1 DEF Stored
    <3> QED
      BY <1>1, <3>1, <3>2 DEF Upto, Clip
  <2> HIDE DEF g
  <2>7. Reads(f, start, end)
    BY <2>4
  <2> HIDE DEF f
  <2>8. f[Len(blocks)] = g[Len(blocks)]
    BY <2>4, <2>7, ReadsAgree
  <2> QED
    BY <2>2, <2>3, <2>5, <2>6, <2>8
<1> QED
  BY <1>3, <1>4

\* read_range gives exactly the bytes of the range that the text has, however the
\* writers cut it into blocks, for any text, block size, offset and count.
THEOREM RangesTheorem == Spec => []RangesExact
<1>1. IInv => RangesExact
  <2>1. ASSUME IInv, phase = "stored",
               NEW start \in 0..(Size + 1), NEW count \in 0..(Size + 1)
        PROVE  ReadRange(start, count) = SubSeq(text, start + 1, Min({start + count, Size}))
    <3>1. Stored
      BY <2>1, IsStored
    <3>2. start \in Nat /\ count \in Nat
      BY <3>1 DEF Stored
    <3> QED
      BY <3>1, <3>2, RangeRead
  <2> QED
    BY <2>1 DEF RangesExact
<1> QED
  BY <1>1, Invariance, PTL

=============================================================================
