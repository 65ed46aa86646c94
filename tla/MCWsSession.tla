---------------------------- MODULE MCWsSession ----------------------------
(* WsSession with its connections interchangeable, for the safety runs.    *)
EXTENDS WsSession, TLC

ClientSymmetry == Permutations(Clients)
=============================================================================
