----------------------------- MODULE Connection ------------------------------
(***************************************************************************)
(* The connection src/http_server.c serves, as its two readers see it:     *)
(* request_body_read for an upload and ws_recv_exact for a WebSocket       *)
(* session.  Both first take what was received behind the header of the    *)
(* request and then read the socket.                                       *)
(***************************************************************************)
EXTENDS Integers, Sequences, Buffers

VARIABLES
  socket,   \* what the client has sent and nobody has received yet
  pending,  \* received behind the header, not consumed yet
  left      \* the client will send no more and has closed

connection == <<socket, pending, left>>

\* A client goes away in order, or with a reset that takes along what was
\* not received.
ClientLeaves ==
  /\ ~left
  /\ left' = TRUE
  /\ socket' \in {socket, <<>>}
  /\ UNCHANGED pending

\* zsock_recv returns 0 or an error.
RecvFails == socket = <<>> /\ left

\* fault: the buffered bytes stay in the buffer as well
RestOfPendingKept(n) == pending
RestOfPending(n) == Drop(pending, Smaller(n, Len(pending)))

\* ws_recv_exact of n bytes, the first n of both.
ExactData(n) == Take(pending \o socket, n)
ws_recv_exact(n) ==
  /\ Len(pending) + Len(socket) >= n
  /\ pending' = RestOfPending(n)
  /\ socket' = Drop(socket, n - Smaller(n, Len(pending)))
  /\ UNCHANGED left

\* The client is gone before n bytes have come.
RecvExactFails(n) == left /\ Len(pending) + Len(socket) < n

\* request_body_read into max_len bytes, of which it fills n.
BodyData(n) == Take(IF pending # <<>> THEN pending ELSE socket, n)
request_body_read(max_len, n) ==
  /\ IF pending # <<>>
       THEN /\ n = Smaller(max_len, Len(pending))
            /\ pending' = RestOfPending(n)
            /\ UNCHANGED socket
       ELSE /\ n \in 1..Smaller(max_len, Len(socket))
            /\ socket' = Drop(socket, n)
            /\ UNCHANGED pending
  /\ UNCHANGED left
=============================================================================
