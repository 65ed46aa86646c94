------------------------------- MODULE TxPipe -------------------------------
(***************************************************************************)
(* What the transmit side of the bridge promises, with no thread, lock or  *)
(* queue in sight: a request answered with "queued":true is offered to the *)
(* CAN controller later, once, in the order of the answers, and at most    *)
(* Room accepted frames wait at any time.                                  *)
(***************************************************************************)
EXTENDS Naturals, Sequences

CONSTANTS Frames,    \* the frames a client may ask for
          Room       \* frames accepted and not offered yet, at most

VARIABLES accepted,  \* the frames answered with "queued":true, oldest first
          handed     \* the frames offered to the controller, oldest first

vars == <<accepted, handed>>

Waiting == Len(accepted) - Len(handed)

Init == /\ accepted = <<>>
        /\ handed = <<>>

Accept == /\ Waiting < Room
          /\ \E f \in Frames : accepted' = Append(accepted, f)
          /\ UNCHANGED handed

Hand == /\ Len(handed) < Len(accepted)
        /\ handed' = Append(handed, accepted[Len(handed) + 1])
        /\ UNCHANGED accepted

Next == Accept \/ Hand

Spec == Init /\ [][Next]_vars
=============================================================================
