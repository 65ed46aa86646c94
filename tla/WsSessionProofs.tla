-------------------------- MODULE WsSessionProofs --------------------------
(***************************************************************************)
(* Theorems about WsSession, for every set of connections and descriptors  *)
(* and every queue length.                                                 *)
(***************************************************************************)
EXTENDS WsSession, SequenceTheorems, TLAPS

-----------------------------------------------------------------------------
(* The inductive invariant.                                                *)

Filled == {"purge", "stream_on", "create"}

\* Who has which descriptor: the HTTP thread has one unless it accepts, and
\* never the one of the session.
SocketInv ==
  /\ NoSocketLeak
  /\ client_fd = NoFd <=> httpPc = "accept"
  /\ httpPc \in Filled => ws_client_fd = client_fd
  /\ wsPc \in Serving =>
       /\ ws_client_fd \in Fds
       /\ ws_client_fd # client_fd
       /\ owner[ws_client_fd] = served

\* The stream is on from the upgrade's last step to the session's end, and
\* the queue empty before and after.
StreamInv ==
  /\ can_rx_streaming <=> \/ httpPc = "create"
                          \/ wsPc \in Serving \cup {"stream_off"}
  /\ can_rx_queue # <<>> => \/ httpPc = "create"
                            \/ wsPc \in Serving \cup {"stream_off", "purge"}

\* The last frame this session is through with.
Last == IF httpPc = "create" \/ forwarded = 0 THEN since ELSE forwarded

\* The frame in hand is newer than the last one, those in the queue are newer
\* than both and in order.
Ordered ==
  /\ \A i \in 1..Len(forwarding) : Last < forwarding[i]
  /\ \A i \in 1..Len(can_rx_queue) : Last < can_rx_queue[i]
  /\ \A i \in 1..Len(forwarding), j \in 1..Len(can_rx_queue) :
       forwarding[i] < can_rx_queue[j]
  /\ \A i, j \in 1..Len(can_rx_queue) :
       i < j => can_rx_queue[i] < can_rx_queue[j]

\* So it is from the moment the stream is on to the end of the session.
FreshInv ==
  /\ IF wsPc = "forward" THEN Len(forwarding) = 1 ELSE forwarding = <<>>
  /\ (httpPc = "create" \/ wsPc \in Serving) => Ordered

ControlInv == OneHolder /\ SocketInv /\ StreamInv

IInv == TypeOK /\ ControlInv /\ FreshInv

-----------------------------------------------------------------------------
(* Type correctness.                                                       *)

\* A sequence of numbers up to m is one of numbers up to n.
LEMMA SeqWiden ==
  ASSUME NEW m \in Nat, NEW n \in Nat, m <= n, NEW s \in Seq(1..m)
  PROVE  s \in Seq(1..n)
  OBVIOUS

\* The one element of a sequence of one.
LEMMA HeadOfOne ==
  ASSUME NEW S, NEW s \in Seq(S), Len(s) = 1
  PROVE  Head(s) \in S /\ Head(s) = s[1]
  OBVIOUS

\* The bus delivers a frame.
LEMMA RxTypeOK == ASSUME TypeOK, can_rx_callback PROVE TypeOK'
<1> USE DEF TypeOK
<1>1. /\ arrived' = arrived + 1 /\ arrived \in Nat /\ arrived' \in Nat
      /\ arrived' \in 0..MaxFrames
      /\ UNCHANGED <<can_rx_streaming, since, sockets, httpVars, wsVars,
                     session>>
  BY WsSessionAssumption DEF can_rx_callback
<1>2. since' \in 0..arrived' /\ forwarded' \in 0..arrived'
  BY <1>1 DEF wsVars
<1>3. forwarding' \in Seq(1..arrived') /\ Len(forwarding') <= 1
  BY <1>1, SeqWiden DEF wsVars
<1>4. can_rx_queue \in Seq(1..arrived') /\ arrived' \in 1..arrived'
  BY <1>1, SeqWiden
<1>5. can_rx_queue' \in Seq(1..arrived') /\ Len(can_rx_queue') <= RxQueueLen
  <2>1. CASE UNCHANGED can_rx_queue
    BY <1>4, <2>1
  <2>2. CASE RxRoom /\ can_rx_queue' = Append(can_rx_queue, arrived')
    BY <1>4, <2>2, WsSessionAssumption DEF RxRoom
  <2>3. QED BY <2>1, <2>2 DEF can_rx_callback
<1>6. QED BY <1>1, <1>2, <1>3, <1>5 DEF sockets, httpVars, wsVars, session

\* The HTTP thread.
LEMMA HttpTypeOK == ASSUME TypeOK, SocketInv, http_thread PROVE TypeOK'
<1> USE DEF TypeOK, sockets, httpVars, wsVars, session, rx, HttpPcs, Claiming
<1>1. CASE Accept
  BY <1>1 DEF Accept
<1>2. CASE RecvRequest
  BY <1>2 DEF RecvRequest
<1>3. CASE ServePage
  BY <1>3 DEF ServePage
<1>4. CASE CloseClient
  BY <1>4 DEF CloseClient, zsock_close
<1>5. CASE ClaimSession \/ Handshake \/ HandshakeFails \/ FillClient
  BY <1>5 DEF ClaimSession, AfterRefusal, Handshake, HandshakeFails,
     FillClient
<1>6. CASE StreamOnPurge
  BY <1>6, WsSessionAssumption DEF StreamOnPurge
<1>7. CASE StreamOnSet
  BY <1>7 DEF StreamOnSet
<1>8. CASE CreateThread
  <2>1. served' \in Clients \cup {NoClient}
    BY <1>8 DEF CreateThread, SocketInv
  <2>2. forwarding' \in Seq(1..arrived') /\ Len(forwarding') <= 1
    BY <1>8 DEF CreateThread
  <2>3. forwarded' \in 0..arrived'
    BY <1>8 DEF CreateThread
  <2>4. QED BY <1>8, <2>1, <2>2, <2>3 DEF CreateThread, WsPcs, Serving
<1>9. QED BY <1>1, <1>2, <1>3, <1>4, <1>5, <1>6, <1>7, <1>8
          DEF http_thread, handle_websocket

\* The WebSocket thread.
LEMMA WsTypeOK == ASSUME TypeOK, FreshInv, websocket_thread PROVE TypeOK'
<1> USE DEF TypeOK, sockets, httpVars, wsVars, session, rx, WsPcs, Serving,
            Ending
<1>1. CASE DrainRx
  <2>1. CASE can_rx_queue = <<>>
    BY <1>1, <2>1 DEF DrainRx
  <2>2. CASE can_rx_queue # <<>>
    <3>1. /\ Head(can_rx_queue) \in 1..arrived
          /\ Tail(can_rx_queue) \in Seq(1..arrived)
          /\ Len(Tail(can_rx_queue)) <= RxQueueLen
      BY <2>2, WsSessionAssumption
    <3>2. /\ <<Head(can_rx_queue)>> \in Seq(1..arrived)
          /\ Len(<<Head(can_rx_queue)>>) <= 1
      BY <3>1
    <3>3. QED BY <1>1, <2>2, <3>1, <3>2 DEF DrainRx, RestOfRx
  <2>3. QED BY <2>1, <2>2
<1>2. CASE PollClient \/ HandleText
  BY <1>2 DEF PollClient, HandleText
<1>3. CASE CloseSocket
  BY <1>3 DEF CloseSocket, zsock_close
<1>4. CASE StreamOffClear \/ ReleaseSession \/ ThreadEnds
  BY <1>4 DEF StreamOffClear, ReleaseSession, ThreadEnds
<1>5. CASE StreamOffPurge
  BY <1>5, WsSessionAssumption DEF StreamOffPurge
<1>6. CASE ForwardRx
  <2>1. Head(forwarding) \in 1..arrived
    <3>1. forwarding \in Seq(1..arrived) /\ Len(forwarding) = 1
      BY <1>6 DEF ForwardRx, FreshInv
    <3>2. QED BY <3>1, HeadOfOne
  <2>2. forwarding' \in Seq(1..arrived') /\ Len(forwarding') <= 1
    BY <1>6 DEF ForwardRx
  <2>3. QED BY <1>6, <2>1, <2>2 DEF ForwardRx
<1>7. QED BY <1>1, <1>2, <1>3, <1>4, <1>5, <1>6
          DEF websocket_thread, websocket_echo_loop

\* The clients, and a step that changes nothing.
LEMMA QuietTypeOK == ASSUME TypeOK, Leave \/ UNCHANGED vars PROVE TypeOK'
  BY DEF TypeOK, Leave, vars, sockets, httpVars, wsVars, session, rx

LEMMA InitTypeOK == Init => TypeOK
<1> SUFFICES ASSUME Init PROVE TypeOK
  OBVIOUS
<1>1. arrived = 0 /\ 0 \in 0..MaxFrames /\ since \in 0..0 /\ forwarded \in 0..0
  BY WsSessionAssumption DEF Init
<1>2. /\ forwarding \in Seq(1..arrived) /\ Len(forwarding) <= 1
      /\ can_rx_queue \in Seq(1..arrived) /\ Len(can_rx_queue) <= RxQueueLen
  BY WsSessionAssumption DEF Init
<1>3. owner \in [Fds -> Clients \cup {NoClient}]
  BY DEF Init
<1>4. QED BY <1>1, <1>2, <1>3 DEF Init, TypeOK, HttpPcs, WsPcs

-----------------------------------------------------------------------------
(* Claims, sockets and the stream.                                         *)

LEMMA InitControlInv == Init => ControlInv /\ FreshInv
  BY WsSessionAssumption
  DEF Init, ControlInv, OneHolder, SocketInv, NoSocketLeak, StreamInv,
      FreshInv, Claiming, Serving, Ending, Filled, NoFd

\* The HTTP thread touches neither the socket nor the stream of a running
\* session.
LEMMA HttpControlInv ==
  ASSUME TypeOK, ControlInv, http_thread PROVE ControlInv'
<1> USE WsSessionAssumption
    DEF TypeOK, ControlInv, OneHolder, SocketInv, NoSocketLeak, StreamInv,
        sockets, httpVars, wsVars, session, rx, Claiming, Serving, Ending,
        Filled, NoFd
<1>1. CASE Accept
  BY <1>1 DEF Accept
<1>2. CASE RecvRequest
  BY <1>2 DEF RecvRequest
<1>3. CASE ServePage
  BY <1>3 DEF ServePage
<1>4. CASE CloseClient
  BY <1>4 DEF CloseClient, zsock_close
<1>5. CASE ClaimSession
  BY <1>5 DEF ClaimSession, AfterRefusal
<1>6. CASE Handshake
  BY <1>6 DEF Handshake
<1>7. CASE HandshakeFails
  BY <1>7 DEF HandshakeFails
<1>8. CASE FillClient
  BY <1>8 DEF FillClient
<1>9. CASE StreamOnPurge
  BY <1>9 DEF StreamOnPurge
<1>10. CASE StreamOnSet
  BY <1>10 DEF StreamOnSet
<1>11. CASE CreateThread
  BY <1>11 DEF CreateThread
<1>12. QED BY <1>1, <1>2, <1>3, <1>4, <1>5, <1>6, <1>7, <1>8, <1>9, <1>10,
              <1>11 DEF http_thread, handle_websocket

\* The end of a session undoes its socket, its stream and its claim in turn.
LEMMA WsControlInv ==
  ASSUME TypeOK, ControlInv, websocket_thread PROVE ControlInv'
<1> USE WsSessionAssumption
    DEF TypeOK, ControlInv, OneHolder, SocketInv, NoSocketLeak, StreamInv,
        sockets, httpVars, wsVars, session, rx, Claiming, Serving, Ending,
        Filled, NoFd
<1>1. CASE DrainRx
  BY <1>1 DEF DrainRx, RestOfRx
<1>2. CASE ForwardRx
  BY <1>2 DEF ForwardRx
<1>3. CASE PollClient
  BY <1>3 DEF PollClient
<1>4. CASE HandleText
  BY <1>4 DEF HandleText
<1>5. CASE CloseSocket
  BY <1>5 DEF CloseSocket, zsock_close
<1>6. CASE StreamOffClear
  BY <1>6 DEF StreamOffClear
<1>7. CASE StreamOffPurge
  BY <1>7 DEF StreamOffPurge
<1>8. CASE ReleaseSession
  BY <1>8 DEF ReleaseSession
<1>9. CASE ThreadEnds
  BY <1>9 DEF ThreadEnds
<1>10. QED BY <1>1, <1>2, <1>3, <1>4, <1>5, <1>6, <1>7, <1>8, <1>9
           DEF websocket_thread, websocket_echo_loop

\* A frame is queued for a stream that is on; clients own nothing here.
LEMMA OtherControlInv ==
  ASSUME TypeOK, ControlInv, Environment \/ UNCHANGED vars PROVE ControlInv'
<1> USE DEF ControlInv, OneHolder, SocketInv, NoSocketLeak, StreamInv,
        sockets, httpVars, wsVars, session, rx
<1>1. CASE Leave
  BY <1>1 DEF Leave
<1>2. CASE can_rx_callback
  BY <1>2 DEF can_rx_callback, Serving
<1>3. CASE UNCHANGED vars
  BY <1>3 DEF vars
<1>4. QED BY <1>1, <1>2, <1>3 DEF Environment

-----------------------------------------------------------------------------
(* The frames of a session.                                                *)

\* What an append leaves at each place.
LEMMA AppendedItems ==
  ASSUME NEW a \in Nat, NEW q \in Seq(1..a)
  PROVE  \A i \in 1..Len(Append(q, a + 1)) :
           \/ /\ i \in 1..Len(q)
              /\ Append(q, a + 1)[i] = q[i]
              /\ q[i] \in 1..a
           \/ i = Len(q) + 1 /\ Append(q, a + 1)[i] = a + 1
<1> DEFINE r == Append(q, a + 1)
<1>1. Len(r) = Len(q) + 1 /\ Len(q) \in Nat
  OBVIOUS
<1>2. \A i \in 1..Len(q) : r[i] = q[i] /\ q[i] \in 1..a
  OBVIOUS
<1>3. r[Len(q) + 1] = a + 1
  OBVIOUS
<1>4. QED
  <2> HIDE DEF r
  <2>1. \A i \in 1..Len(r) : i \in 1..Len(q) \/ i = Len(q) + 1
    BY <1>1
  <2>2. QED BY <1>2, <1>3, <2>1 DEF r

\* A frame that arrives is newer than all before it.
LEMMA RxFreshInv ==
  ASSUME TypeOK, FreshInv, can_rx_callback PROVE FreshInv'
<1>1. UNCHANGED <<since, httpPc, wsPc, forwarding, forwarded>>
  BY DEF can_rx_callback, httpVars, wsVars
<1>2. CASE UNCHANGED can_rx_queue
  BY <1>1, <1>2 DEF FreshInv, Ordered, Last
<1>3. CASE can_rx_queue' = Append(can_rx_queue, arrived + 1)
  <2>1. /\ arrived \in Nat /\ since \in 0..arrived /\ forwarded \in 0..arrived
        /\ can_rx_queue \in Seq(1..arrived) /\ forwarding \in Seq(1..arrived)
    BY WsSessionAssumption DEF TypeOK
  <2>2. Last \in 0..arrived /\ Last' = Last
    BY <1>1, <2>1 DEF Last
  <2>3. \A i \in 1..Len(forwarding) : forwarding[i] \in 1..arrived
    BY <2>1
  <2>4. \A i \in 1..Len(can_rx_queue') :
          \/ /\ i \in 1..Len(can_rx_queue)
             /\ can_rx_queue'[i] = can_rx_queue[i]
             /\ can_rx_queue[i] \in 1..arrived
          \/ i = Len(can_rx_queue) + 1 /\ can_rx_queue'[i] = arrived + 1
    BY <1>3, <2>1, AppendedItems
  <2>5. Len(can_rx_queue) \in Nat
    BY <2>1
  <2>6. ASSUME Ordered PROVE Ordered'
    <3>1. \A i \in 1..Len(forwarding) : Last < forwarding[i]
      BY <2>6 DEF Ordered
    <3>2. ASSUME NEW j \in 1..Len(can_rx_queue')
          PROVE  /\ Last < can_rx_queue'[j]
                 /\ \A i \in 1..Len(forwarding) :
                      forwarding[i] < can_rx_queue'[j]
      <4>1. CASE /\ j \in 1..Len(can_rx_queue)
                 /\ can_rx_queue'[j] = can_rx_queue[j]
        BY <2>6, <4>1 DEF Ordered
      <4>2. CASE can_rx_queue'[j] = arrived + 1
        <5> HIDE DEF Last
        <5>1. QED BY <2>1, <2>2, <2>3, <4>2
      <4>3. QED BY <2>4, <4>1, <4>2
    <3>3. ASSUME NEW i \in 1..Len(can_rx_queue'),
                 NEW j \in 1..Len(can_rx_queue'), i < j
          PROVE  can_rx_queue'[i] < can_rx_queue'[j]
      <4>1. /\ i \in 1..Len(can_rx_queue)
            /\ can_rx_queue'[i] = can_rx_queue[i]
            /\ can_rx_queue[i] \in 1..arrived
        BY <2>4, <2>5, <3>3
      <4>2. CASE /\ j \in 1..Len(can_rx_queue)
                 /\ can_rx_queue'[j] = can_rx_queue[j]
        BY <2>6, <3>3, <4>1, <4>2 DEF Ordered
      <4>3. CASE can_rx_queue'[j] = arrived + 1
        BY <2>1, <4>1, <4>3
      <4>4. QED BY <2>4, <4>2, <4>3
    <3>4. QED BY <1>1, <2>2, <3>1, <3>2, <3>3 DEF Ordered
  <2>7. QED BY <1>1, <2>6 DEF FreshInv
<1>4. QED BY <1>2, <1>3 DEF can_rx_callback

\* A session begins with nothing in hand and nothing queued.
LEMMA HttpFreshInv ==
  ASSUME TypeOK, ControlInv, FreshInv, http_thread PROVE FreshInv'
<1> USE DEF sockets, httpVars, wsVars, session, rx
<1>1. CASE \/ Accept \/ RecvRequest \/ ServePage \/ CloseClient \/ ClaimSession
           \/ Handshake \/ HandshakeFails \/ FillClient
  <2>1. /\ httpPc # "create" /\ httpPc' # "create"
        /\ UNCHANGED <<wsPc, forwarding, forwarded, can_rx_queue, since>>
    BY <1>1 DEF Accept, RecvRequest, ServePage, CloseClient, ClaimSession,
       AfterRefusal, Handshake, HandshakeFails, FillClient
  <2>2. QED BY <2>1 DEF FreshInv, Ordered, Last
<1>2. CASE StreamOnPurge
  BY <1>2 DEF StreamOnPurge, FreshInv, ControlInv, OneHolder, Claiming
<1>3. CASE StreamOnSet
  <2>1. forwarding' = <<>> /\ can_rx_queue' = <<>> /\ wsPc' # "forward"
    BY <1>3 DEF StreamOnSet, FreshInv, ControlInv, OneHolder, StreamInv,
       Claiming, Serving, Ending
  <2>2. QED BY <2>1 DEF FreshInv, Ordered
<1>4. CASE CreateThread
  <2>1. /\ forwarding' = <<>> /\ wsPc' = "drain"
        /\ Last' = Last /\ can_rx_queue' = can_rx_queue
    BY <1>4 DEF CreateThread, Last
  <2>2. Ordered
    BY <1>4 DEF CreateThread, FreshInv
  <2>3. QED BY <2>1, <2>2 DEF FreshInv, Ordered
<1>5. QED BY <1>1, <1>2, <1>3, <1>4 DEF http_thread, handle_websocket

\* What the head and the tail of a queue are at each place.
LEMMA HeadAndTail ==
  ASSUME NEW S, NEW q \in Seq(S), q # <<>>
  PROVE  /\ Head(q) = q[1] /\ 1 \in 1..Len(q)
         /\ \A i \in 1..Len(Tail(q)) :
              i + 1 \in 1..Len(q) /\ Tail(q)[i] = q[i + 1]
  OBVIOUS

\* The WebSocket thread takes the oldest frame, and sends the one it took.
LEMMA WsFreshInv ==
  ASSUME TypeOK, ControlInv, FreshInv, websocket_thread PROVE FreshInv'
<1> USE DEF sockets, httpVars, wsVars, session, rx
<1>1. CASE DrainRx
  <2>1. CASE can_rx_queue = <<>>
    BY <1>1, <2>1 DEF DrainRx, FreshInv, Ordered, Last, Serving
  <2>2. CASE can_rx_queue # <<>>
    <3> DEFINE q == can_rx_queue
    <3>1. /\ wsPc' = "forward" /\ forwarding' = <<Head(q)>> /\ Last' = Last
          /\ can_rx_queue' = Tail(q)
      BY <1>1, <2>2 DEF DrainRx, RestOfRx, Last
    <3>2. Ordered
      BY <1>1 DEF DrainRx, FreshInv, Serving
    <3>3. /\ Head(q) = q[1] /\ 1 \in 1..Len(q)
          /\ \A i \in 1..Len(Tail(q)) :
               i + 1 \in 1..Len(q) /\ Tail(q)[i] = q[i + 1]
      <4>1. q \in Seq(1..arrived) /\ q # <<>>
        BY <2>2 DEF TypeOK
      <4>2. QED BY <4>1, HeadAndTail
    <3>4. /\ Len(forwarding') = 1
          /\ \A i \in 1..Len(forwarding') : i = 1 /\ forwarding'[i] = q[1]
      BY <3>1, <3>3
    <3> HIDE DEF q
    <3>5. /\ \A i \in 1..Len(q) : Last < q[i]
          /\ \A i, j \in 1..Len(q) : i < j => q[i] < q[j]
      BY <3>2 DEF Ordered, q
    <3>6. \A i \in 1..Len(Tail(q)) : q[1] < Tail(q)[i]
      <4>1. ASSUME NEW i \in 1..Len(Tail(q)) PROVE q[1] < Tail(q)[i]
        <5>1. 1 < i + 1
          OBVIOUS
        <5>2. QED BY <3>3, <3>5, <5>1
      <4>2. QED BY <4>1
    <3>7. \A i, j \in 1..Len(Tail(q)) : i < j => Tail(q)[i] < Tail(q)[j]
      <4>1. ASSUME NEW i \in 1..Len(Tail(q)), NEW j \in 1..Len(Tail(q)), i < j
            PROVE  Tail(q)[i] < Tail(q)[j]
        <5>1. i + 1 < j + 1
          BY <4>1
        <5>2. QED BY <3>3, <3>5, <5>1
      <4>2. QED BY <4>1
    <3>8. Ordered'
      BY <3>1, <3>3, <3>4, <3>5, <3>6, <3>7 DEF Ordered
    <3>9. QED BY <3>1, <3>4, <3>8 DEF FreshInv
  <2>3. QED BY <2>1, <2>2
<1>2. CASE ForwardRx
  <2>1. /\ forwarding' = <<>> /\ wsPc' # "forward" /\ httpPc' = httpPc
        /\ can_rx_queue' = can_rx_queue /\ since' = since
    BY <1>2 DEF ForwardRx
  <2>2. /\ Ordered /\ Len(forwarding) = 1
        /\ httpPc # "create"
    BY <1>2 DEF ForwardRx, FreshInv, Serving, ControlInv, OneHolder, Claiming
  <2>3. CASE forwarded' = forwarded
    BY <2>1, <2>2, <2>3 DEF FreshInv, Ordered, Last
  <2>4. CASE forwarded' = Head(forwarding)
    <3>1. forwarded' = forwarding[1] /\ forwarded' \in 1..arrived
      BY <2>2, <2>4, HeadOfOne DEF TypeOK
    <3>2. Last' = forwarding[1]
      BY <2>1, <2>2, <3>1 DEF Last
    <3>3. 1 \in 1..Len(forwarding)
      BY <2>2
    <3>4. QED BY <2>1, <2>2, <3>2, <3>3 DEF FreshInv, Ordered
  <2>5. QED BY <1>2, <2>3, <2>4 DEF ForwardRx
<1>3. CASE \/ PollClient \/ HandleText \/ CloseSocket \/ StreamOffClear
           \/ ReleaseSession \/ ThreadEnds
  <2>1. /\ wsPc # "forward" /\ wsPc' # "forward"
        /\ wsPc' \in Serving => wsPc \in Serving
        /\ UNCHANGED <<httpPc, forwarding, forwarded, can_rx_queue, since>>
    BY <1>3 DEF PollClient, HandleText, CloseSocket, StreamOffClear,
       ReleaseSession, ThreadEnds, Serving
  <2>2. QED BY <2>1 DEF FreshInv, Ordered, Last
<1>4. CASE StreamOffPurge
  BY <1>4 DEF StreamOffPurge, FreshInv, Serving, ControlInv, OneHolder,
     Claiming, Ending
<1>5. QED BY <1>1, <1>2, <1>3, <1>4 DEF websocket_thread, websocket_echo_loop

\* The clients, and a step that changes nothing.
LEMMA QuietFreshInv ==
  ASSUME FreshInv, Leave \/ UNCHANGED vars PROVE FreshInv'
  BY DEF FreshInv, Ordered, Last, Leave, vars, sockets, httpVars, wsVars,
     session, rx

-----------------------------------------------------------------------------
(* The theorems.                                                           *)

LEMMA InitIInv == Init => IInv
  BY InitTypeOK, InitControlInv DEF IInv

LEMMA NextIInv == ASSUME IInv, [Next]_vars PROVE IInv'
<1>1. TypeOK /\ ControlInv /\ FreshInv /\ SocketInv
  BY DEF IInv, ControlInv
<1>2. CASE http_thread
  BY <1>1, <1>2, HttpTypeOK, HttpControlInv, HttpFreshInv DEF IInv
<1>3. CASE websocket_thread
  BY <1>1, <1>3, WsTypeOK, WsControlInv, WsFreshInv DEF IInv
<1>4. CASE can_rx_callback
  BY <1>1, <1>4, RxTypeOK, OtherControlInv, RxFreshInv DEF IInv, Environment
<1>5. CASE Leave \/ UNCHANGED vars
  BY <1>1, <1>5, QuietTypeOK, OtherControlInv, QuietFreshInv
     DEF IInv, Environment
<1>6. QED BY <1>2, <1>3, <1>4, <1>5 DEF Next, Environment

\* Whatever its three threads do, in whatever order, the program keeps the
\* invariant.
THEOREM Inductive == Spec => []IInv
  BY InitIInv, NextIInv, PTL DEF Spec

-----------------------------------------------------------------------------
(* What follows from the invariant.                                        *)

\* A sequence of at most one that is not empty.
LEMMA ShortSeq ==
  ASSUME NEW S, NEW s \in Seq(S), Len(s) <= 1, s # <<>>
  PROVE  Len(s) = 1
<1>1. Len(s) \in Nat \ {0}
  BY EmptySeq
<1>2. Len(s) <= 1
  OBVIOUS
<1>3. QED BY <1>1, <1>2

\* Where a place of <<a>> \o f \o q, with f of at most one, comes from.
LEMMA PathItems ==
  ASSUME NEW a \in Nat, NEW f \in Seq(Nat), NEW q \in Seq(Nat), Len(f) <= 1,
         NEW i \in 1..Len(<<a>> \o f \o q)
  PROVE  /\ i = 1 => (<<a>> \o f \o q)[i] = a
         /\ i > 1 => IF f = <<>>
              THEN /\ i - 1 \in 1..Len(q)
                   /\ (<<a>> \o f \o q)[i] = q[i - 1]
              ELSE IF i = 2
                THEN 1 \in 1..Len(f) /\ (<<a>> \o f \o q)[i] = f[1]
                ELSE /\ i - 2 \in 1..Len(q)
                     /\ (<<a>> \o f \o q)[i] = q[i - 2]
<1>1. Len(<<a>>) = 1 /\ <<a>>[1] = a /\ <<a>> \in Seq(Nat)
  OBVIOUS
<1>2. <<a>> \o f \in Seq(Nat) /\ Len(<<a>> \o f) = 1 + Len(f)
  BY <1>1
<1> DEFINE p == <<a>> \o f
<1>4. /\ 1 \in 1..Len(p) /\ p[1] = a
      /\ f # <<>> => Len(f) = 1 /\ 2 \in 1..Len(p) /\ p[2] = f[1]
  <2> DEFINE s == <<a>>
  <2>1. s \in Seq(Nat) /\ Len(s) = 1 /\ s[1] = a
    BY <1>1
  <2> HIDE DEF s
  <2>2. f # <<>> => Len(f) = 1
    BY ShortSeq
  <2>3. /\ 1 \in 1..Len(s \o f) /\ (s \o f)[1] = a
        /\ Len(f) = 1 => 2 \in 1..Len(s \o f) /\ (s \o f)[2] = f[1]
    BY <2>1
  <2>4. QED BY <2>2, <2>3 DEF s
<1>5. ASSUME NEW j \in 1..Len(p \o q)
      PROVE  /\ j <= Len(p) => (p \o q)[j] = p[j]
             /\ j > Len(p) => /\ j - Len(p) \in 1..Len(q)
                              /\ (p \o q)[j] = q[j - Len(p)]
  <2>1. p \in Seq(Nat)
    BY <1>2
  <2> HIDE DEF p
  <2>2. QED BY <2>1
<1>6. Len(p) = IF f = <<>> THEN 1 ELSE 2
  BY <1>2, <1>4
<1> HIDE DEF p
<1>7. i \in 1..Len(p \o q)
  BY DEF p
<1>8. QED BY <1>4, <1>5, <1>6, <1>7 DEF p

\* The path of a frame, from the queue to the client, is in order.
LEMMA OrderedPath == TypeOK /\ ControlInv /\ FreshInv => FreshAndOrdered
<1> SUFFICES ASSUME TypeOK, ControlInv, FreshInv, wsPc \in Serving
             PROVE  FreshAndOrdered
  BY DEF FreshAndOrdered
<1> DEFINE last == IF forwarded = 0 THEN since ELSE forwarded
           path == <<last>> \o forwarding \o can_rx_queue
<1>1. /\ Ordered /\ Last = last
  BY DEF FreshInv, Last, ControlInv, OneHolder, Serving, Claiming
<1>2. /\ last \in Nat /\ forwarding \in Seq(Nat) /\ can_rx_queue \in Seq(Nat)
      /\ Len(forwarding) <= 1
  <2>1. arrived \in Nat /\ \A n \in 0..arrived : n \in Nat
    BY WsSessionAssumption DEF TypeOK
  <2>2. since \in Nat /\ forwarded \in Nat
    BY <2>1 DEF TypeOK
  <2>3. QED BY <2>1, <2>2 DEF TypeOK
<1>3. Len(path) \in Nat
  BY <1>2
<1> HIDE DEF last
<1>4. ASSUME NEW i \in 1..(Len(path) - 1) PROVE path[i] < path[i + 1]
  <2>1. i \in 1..Len(path) /\ i + 1 \in 1..Len(path) /\ i + 1 > 1
    BY <1>3
  <2>2. CASE forwarding = <<>>
    <3>1. i + 1 - 1 \in 1..Len(can_rx_queue)
          /\ path[i + 1] = can_rx_queue[i + 1 - 1]
      BY <1>2, <2>1, <2>2, PathItems
    <3>2. i \in 1..Len(can_rx_queue) /\ path[i + 1] = can_rx_queue[i]
      BY <3>1
    <3>3. CASE i = 1
      BY <1>1, <1>2, <2>1, <3>2, <3>3, PathItems DEF Ordered
    <3>4. CASE i > 1
      <4>1. i - 1 \in 1..Len(can_rx_queue) /\ path[i] = can_rx_queue[i - 1]
        BY <1>2, <2>1, <2>2, <3>4, PathItems
      <4>2. i - 1 < i
        OBVIOUS
      <4>3. QED BY <1>1, <3>2, <4>1, <4>2 DEF Ordered
    <3>5. QED BY <3>3, <3>4
  <2>3. CASE forwarding # <<>>
    <3>1. CASE i = 1
      <4>1. path[i] = last /\ 1 \in 1..Len(forwarding)
            /\ path[i + 1] = forwarding[1]
        BY <1>2, <2>1, <2>3, <3>1, PathItems
      <4>2. QED BY <1>1, <4>1 DEF Ordered
    <3>2. CASE i > 1
      <4>1. i + 1 - 2 \in 1..Len(can_rx_queue)
            /\ path[i + 1] = can_rx_queue[i + 1 - 2]
        BY <1>2, <2>1, <2>3, <3>2, PathItems
      <4>2. i - 1 \in 1..Len(can_rx_queue)
            /\ path[i + 1] = can_rx_queue[i - 1]
        BY <4>1
      <4>3. CASE i = 2
        <5>1. 1 \in 1..Len(forwarding) /\ path[i] = forwarding[1]
          BY <1>2, <2>1, <2>3, <4>3, PathItems
        <5>2. QED BY <1>1, <4>2, <5>1 DEF Ordered
      <4>4. CASE i > 2
        <5>1. i - 2 \in 1..Len(can_rx_queue) /\ path[i] = can_rx_queue[i - 2]
          BY <1>2, <2>1, <2>3, <4>4, PathItems
        <5>2. i - 2 < i - 1
          OBVIOUS
        <5>3. QED BY <1>1, <4>2, <5>1, <5>2 DEF Ordered
      <4>5. QED BY <3>2, <4>3, <4>4
    <3>3. QED BY <3>1, <3>2
  <2>4. QED BY <2>2, <2>3
<1>5. QED BY <1>4 DEF FreshAndOrdered, last

\* ws_active is the claim of one thread at a time (http_server.c:854 and
\* :820): the HTTP thread does not fill ws_client, nor restart ws_thread, under
\* a session that runs.
THEOREM OneHolderAlways == Spec => []OneHolder
<1>1. IInv => OneHolder
  BY DEF IInv, ControlInv
<1>2. QED BY <1>1, Inductive, PTL

\* The descriptor the WebSocket thread reads and writes is that of the client
\* it was created for, and its stream is on, until it closes the one and
\* clears the other itself (http_server.c:816).
THEOREM ServedSessionAlways == Spec => []ServedSession
<1>1. IInv => ServedSession
  BY DEF IInv, ControlInv, SocketInv, StreamInv, ServedSession
<1>2. QED BY <1>1, Inductive, PTL

\* Without a session no frame is queued (can_bridge_set_rx_streaming).
THEOREM IdleQuietAlways == Spec => []IdleQuiet
<1>1. IInv => IdleQuiet
  BY DEF IInv, ControlInv, OneHolder, StreamInv, IdleQuiet, Claiming, Serving,
     Ending
<1>2. QED BY <1>1, Inductive, PTL

\* A client gets frames of its own session only, in bus order, none twice:
\* can_rx_callback appends and can_bridge_format_next_rx takes the oldest.
THEOREM FreshAndOrderedAlways == Spec => []FreshAndOrdered
<1>1. IInv => FreshAndOrdered
  BY OrderedPath DEF IInv
<1>2. QED BY <1>1, Inductive, PTL

\* No path of handle_client, handle_websocket or websocket_thread leaves a
\* descriptor open with no thread to close it.
THEOREM NoSocketLeakAlways == Spec => []NoSocketLeak
<1>1. IInv => NoSocketLeak
  BY DEF IInv, ControlInv, SocketInv
<1>2. QED BY <1>1, Inductive, PTL

\* Every variable keeps its type: can_rx_queue never holds more than
\* CAN_RX_QUEUE_LEN frames, and what the WebSocket thread forwards is a frame
\* it took out.
THEOREM WsTypeCorrect == Spec => []TypeOK
<1>1. IInv => TypeOK
  BY DEF IInv
<1>2. QED BY <1>1, Inductive, PTL
=============================================================================
