---------------------------- MODULE MCCanMessage ----------------------------
(* CanMessage with the values on both sides of every limit.                *)
EXTENDS CanMessage

MCBuses == {0, 1}
MCIds == {-1, 0, 7, 8, 15, 16}
MCDlcs == {-1, 0, 1, 2, 3}
MCBytes == {-1, 0, 255, 256}
=============================================================================
