------------------------------- MODULE MCBlocks -------------------------------
(* Every text of up to MaxText bytes: letters, newlines and invalid bytes. *)
EXTENDS Blocks

CONSTANTS letter, newline, invalid, MaxText

MCInvalid == {invalid}
MCBytes == {letter, newline, invalid}
MCTexts == UNION {[1..n -> MCBytes] : n \in 0..MaxText}

=============================================================================
