------------------------------- MODULE MCChannel -------------------------------
(* The connection with two streaming calls and a plain one.                *)
EXTENDS Channel

CONSTANTS s1, s2, p1

MCCalls == {s1, s2, p1}
MCStreaming == {s1, s2}

=============================================================================
