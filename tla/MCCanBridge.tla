---------------------------- MODULE MCCanBridge ----------------------------
(* Instances of CanBridge small enough for TLC.                            *)
EXTENDS CanBridge

\* 0 is the largest bitrate the code refuses.
MCBitrateFields == {0, 125, 500}

MCBitrateFieldsLive == {0, 500}
=============================================================================
