------------------------------- MODULE Buffers -------------------------------
(* Lengths and rests of byte sequences.                                     *)
EXTENDS Integers, Sequences

Smaller(a, b) == IF a < b THEN a ELSE b
Take(s, n) == SubSeq(s, 1, n)
Drop(s, n) == SubSeq(s, n + 1, Len(s))
=============================================================================
