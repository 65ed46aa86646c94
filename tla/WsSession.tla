----------------------------- MODULE WsSession -----------------------------
(***************************************************************************)
(* The one WebSocket session of src/http_server.c and the receive side of  *)
(* src/can_bridge.c it switches on and off.                                *)
(*                                                                         *)
(*   http     http_thread: accepts a connection, reads its request, and    *)
(*            serves a page or hands the socket to the WebSocket thread    *)
(*   ws       websocket_thread: created anew for each session, on one      *)
(*            static stack and one static struct websocket_client          *)
(*   driver   the MCP2515 interrupt thread, which calls can_rx_callback;   *)
(*            it is cooperative, so a callback is one step, and may come   *)
(*            between any two steps of the others                          *)
(*                                                                         *)
(* Clients connect, ask, and leave when they like; a connection is used    *)
(* once.  A file descriptor closed is free for the next connection.        *)
(***************************************************************************)
EXTENDS Integers, Sequences

CONSTANTS Clients,     \* connections
          NoClient,    \* marks a free descriptor
          Fds,         \* file descriptors
          RxQueueLen,  \* CAN_RX_QUEUE_LEN
          MaxFrames    \* bound: frames the bus carries in a run

ASSUME WsSessionAssumption ==
  /\ NoClient \notin Clients
  /\ Fds \subseteq Nat
  /\ RxQueueLen \in Nat \ {0}
  /\ MaxFrames \in Nat

VARIABLES
  connected,         \* connections made so far
  gone,              \* connections with nothing left to read but the end
  owner,             \* the descriptor table: whose socket a descriptor is
  httpPc,            \* http_thread
  client_fd,         \* its local client_fd, in handle_client
  ws_active,         \* the claim on the session
  ws_client_fd,      \* ws_client.fd, read by the WebSocket thread
  wsPc,              \* websocket_thread
  forwarding,        \* the frame it took out, a sequence of at most one
  can_rx_streaming,  \* received frames are queued
  can_rx_queue,      \* received frames, oldest first, by number
  arrived,           \* history: frames the bus has carried
  served,            \* history: the client the thread was created for
  since,             \* history: arrived when this session began to stream
  forwarded          \* history: the last frame sent in this session

sockets == <<connected, gone, owner>>
httpVars == <<httpPc, client_fd>>
wsVars == <<wsPc, forwarding, forwarded>>
session == <<ws_active, ws_client_fd, served>>
rx == <<can_rx_streaming, can_rx_queue, arrived, since>>
vars == <<sockets, httpVars, wsVars, session, rx>>

NoFd == -1

Init ==
  /\ connected = {}
  /\ gone = {}
  /\ owner = [fd \in Fds |-> NoClient]
  /\ httpPc = "accept"
  /\ client_fd = NoFd
  /\ ws_active = FALSE
  /\ ws_client_fd = NoFd
  /\ wsPc = "dead"
  /\ forwarding = <<>>
  /\ can_rx_streaming = FALSE
  /\ can_rx_queue = <<>>
  /\ arrived = 0
  /\ served = NoClient
  /\ since = 0
  /\ forwarded = 0

zsock_close(fd) == owner' = [owner EXCEPT ![fd] = NoClient]

-----------------------------------------------------------------------------
(* The clients and the bus.  A client that leaves is seen when the last of  *)
(* what it sent has been read.                                             *)

Leave ==
  /\ \E c \in connected \ gone : gone' = gone \cup {c}
  /\ UNCHANGED <<connected, owner, httpVars, wsVars, session, rx>>

\* Zephyr's can_frame_matches_filter, with a mask of 0: the frame format is
\* compared all the same.
MatchesFilter(frameFlags, filterFlags) ==
  ("IDE" \in frameFlags) = ("IDE" \in filterFlags)

CatchAllFlags == {}

\* fault: one frame too many
RxRoomForOneMore == Len(can_rx_queue) <= RxQueueLen
RxRoom == Len(can_rx_queue) < RxQueueLen

\* A frame the filter passes is queued while a session streams, or dropped
\* when the queue is full (k_msgq_put with K_NO_WAIT).
can_rx_callback ==
  /\ arrived < MaxFrames
  /\ arrived' = arrived + 1
  /\ \E flags \in SUBSET {"IDE"} :
       IF /\ MatchesFilter(flags, CatchAllFlags)
          /\ can_rx_streaming
          /\ RxRoom
         THEN can_rx_queue' = Append(can_rx_queue, arrived')
         ELSE UNCHANGED can_rx_queue
  /\ UNCHANGED <<can_rx_streaming, since, sockets, httpVars, wsVars, session>>

Environment == Leave \/ can_rx_callback

-----------------------------------------------------------------------------
(* http_thread and handle_client.                                          *)

Accept ==
  /\ httpPc = "accept"
  /\ \E c \in Clients \ connected, fd \in Fds :
       /\ owner[fd] = NoClient
       /\ owner' = [owner EXCEPT ![fd] = c]
       /\ connected' = connected \cup {c}
       /\ client_fd' = fd
  /\ httpPc' = "recv"
  /\ UNCHANGED <<gone, wsVars, session, rx>>

\* zsock_recv until the header is whole.  A client that left, an error and a
\* header too large end in a close; a silent client is waited for.
RecvRequest ==
  /\ httpPc = "recv"
  /\ httpPc' \in (IF owner[client_fd] \in gone
                    THEN {"close"} ELSE {"close", "page", "upgrade"})
  /\ UNCHANGED <<sockets, client_fd, wsVars, session, rx>>

\* Every other request is answered, or its answer fails, and closed.
ServePage ==
  /\ httpPc = "page"
  /\ httpPc' = "close"
  /\ UNCHANGED <<sockets, client_fd, wsVars, session, rx>>

CloseClient ==
  /\ httpPc = "close"
  /\ zsock_close(client_fd)
  /\ client_fd' = NoFd
  /\ httpPc' = "accept"
  /\ UNCHANGED <<connected, gone, wsVars, session, rx>>

(* handle_websocket.                                                       *)

\* fault: a refused upgrade returns with its socket open
AfterRefusalForgetful == "accept"
\* fault: a refused upgrade goes on all the same
AfterRefusalProceeds == "handshake"
AfterRefusal == "close"

\* atomic_cas on ws_active; -EBUSY makes handle_client close the socket.
ClaimSession ==
  /\ httpPc = "upgrade"
  /\ httpPc' = IF ws_active THEN AfterRefusal ELSE "handshake"
  /\ ws_active' = TRUE
  /\ UNCHANGED <<ws_client_fd, served, sockets, client_fd, wsVars, rx>>

Handshake ==
  /\ httpPc = "handshake"
  /\ httpPc' = "fill"
  /\ UNCHANGED <<sockets, client_fd, wsVars, session, rx>>

\* fault: an upgrade that fails keeps the session
HandshakeFailsClaimed ==
  /\ httpPc = "handshake"
  /\ httpPc' = "close"
  /\ UNCHANGED <<session, sockets, client_fd, wsVars, rx>>

\* No Sec-WebSocket-Key, or the 101 response could not be sent.
HandshakeFails ==
  /\ httpPc = "handshake"
  /\ ws_active' = FALSE
  /\ httpPc' = "close"
  /\ UNCHANGED <<ws_client_fd, served, sockets, client_fd, wsVars, rx>>

FillClient ==
  /\ httpPc = "fill"
  /\ ws_client_fd' = client_fd
  /\ httpPc' = "purge"
  /\ UNCHANGED <<ws_active, served, sockets, client_fd, wsVars, rx>>

\* can_bridge_set_rx_streaming(true): purge, then set.
StreamOnPurge ==
  /\ httpPc = "purge"
  /\ can_rx_queue' = <<>>
  /\ httpPc' = "stream_on"
  /\ UNCHANGED <<can_rx_streaming, arrived, since, sockets, client_fd, wsVars,
                 session>>

StreamOnSet ==
  /\ httpPc = "stream_on"
  /\ can_rx_streaming' = TRUE
  /\ since' = arrived
  /\ httpPc' = "create"
  /\ UNCHANGED <<can_rx_queue, arrived, sockets, client_fd, wsVars, session>>

\* k_thread_create; a thread that has not ended yet is overwritten.
CreateThread ==
  /\ httpPc = "create"
  /\ wsPc' = "drain"
  /\ served' = owner[client_fd]
  /\ forwarding' = <<>>
  /\ forwarded' = 0
  /\ client_fd' = NoFd
  /\ httpPc' = "accept"
  /\ UNCHANGED <<ws_active, ws_client_fd, sockets, rx>>

handle_websocket ==
  \/ ClaimSession \/ Handshake \/ HandshakeFails \/ FillClient
  \/ StreamOnPurge \/ StreamOnSet \/ CreateThread

http_thread == Accept \/ RecvRequest \/ ServePage \/ CloseClient
               \/ handle_websocket

-----------------------------------------------------------------------------
(* websocket_thread and websocket_echo_loop.                               *)

\* fault: the frame stays in the queue
RestOfRxKept == can_rx_queue
RestOfRx == Tail(can_rx_queue)

\* can_bridge_format_next_rx: k_msgq_get with K_NO_WAIT.
DrainRx ==
  /\ wsPc = "drain"
  /\ IF can_rx_queue = <<>>
       THEN /\ wsPc' = "poll"
            /\ UNCHANGED <<can_rx_queue, forwarding>>
       ELSE /\ wsPc' = "forward"
            /\ forwarding' = <<Head(can_rx_queue)>>
            /\ can_rx_queue' = RestOfRx
  /\ UNCHANGED <<forwarded, can_rx_streaming, arrived, since, sockets,
                 httpVars, session>>

ForwardRx ==
  /\ wsPc = "forward"
  /\ \/ /\ forwarded' = Head(forwarding)
        /\ wsPc' = "drain"
     \/ /\ UNCHANGED forwarded
        /\ wsPc' = "close"
  /\ forwarding' = <<>>
  /\ UNCHANGED <<sockets, httpVars, session, rx>>

\* The poll times out after 100 ms, or the client has sent something, or it
\* has left.  A close frame, a frame that is not supported and a failed
\* receive end the session; a ping is answered.
PollClient ==
  /\ wsPc = "poll"
  /\ wsPc' \in (IF owner[ws_client_fd] \in gone
                  THEN {"close"} ELSE {"drain", "handle", "close"})
  /\ UNCHANGED <<forwarding, forwarded, sockets, httpVars, session, rx>>

\* can_bridge_handle_ws_text (module CanBridge), and its reply is sent.
HandleText ==
  /\ wsPc = "handle"
  /\ wsPc' \in {"drain", "close"}
  /\ UNCHANGED <<forwarding, forwarded, sockets, httpVars, session, rx>>

\* fault: lets the next client in before it has finished with the stream
CloseAndRelease ==
  /\ wsPc = "close"
  /\ zsock_close(ws_client_fd)
  /\ ws_active' = FALSE
  /\ wsPc' = "stream_off"
  /\ UNCHANGED <<connected, gone, forwarding, forwarded, httpVars,
                 ws_client_fd, served, rx>>

CloseSocket ==
  /\ wsPc = "close"
  /\ zsock_close(ws_client_fd)
  /\ wsPc' = "stream_off"
  /\ UNCHANGED <<connected, gone, forwarding, forwarded, httpVars, session, rx>>

\* can_bridge_set_rx_streaming(false): clear, then purge.
StreamOffClear ==
  /\ wsPc = "stream_off"
  /\ can_rx_streaming' = FALSE
  /\ wsPc' = "purge"
  /\ UNCHANGED <<can_rx_queue, arrived, since, forwarding, forwarded, sockets,
                 httpVars, session>>

\* fault: switches the stream off without the purge
StreamOffOnly ==
  /\ wsPc = "purge"
  /\ wsPc' = "release"
  /\ UNCHANGED <<forwarding, forwarded, sockets, httpVars, session, rx>>

StreamOffPurge ==
  /\ wsPc = "purge"
  /\ can_rx_queue' = <<>>
  /\ wsPc' = "release"
  /\ UNCHANGED <<can_rx_streaming, arrived, since, forwarding, forwarded,
                 sockets, httpVars, session>>

\* fault: the session is never given back
ReleaseNothing ==
  /\ wsPc = "release"
  /\ wsPc' = "return"
  /\ UNCHANGED <<forwarding, forwarded, sockets, httpVars, session, rx>>

ReleaseSession ==
  /\ wsPc = "release"
  /\ ws_active' = FALSE
  /\ wsPc' = "return"
  /\ UNCHANGED <<ws_client_fd, served, forwarding, forwarded, sockets,
                 httpVars, rx>>

\* The thread function returns and the kernel ends the thread.
ThreadEnds ==
  /\ wsPc = "return"
  /\ wsPc' = "dead"
  /\ UNCHANGED <<forwarding, forwarded, sockets, httpVars, session, rx>>

websocket_echo_loop == DrainRx \/ ForwardRx \/ PollClient \/ HandleText

websocket_thread == \/ websocket_echo_loop \/ CloseSocket \/ StreamOffClear
                    \/ StreamOffPurge \/ ReleaseSession \/ ThreadEnds

-----------------------------------------------------------------------------
Next == Environment \/ http_thread \/ websocket_thread

Spec == Init /\ [][Next]_vars

-----------------------------------------------------------------------------
(* Properties.                                                             *)

Claiming == {"handshake", "fill", "purge", "stream_on", "create"}
Serving  == {"drain", "forward", "poll", "handle", "close"}
Ending   == {"stream_off", "purge", "release"}
HttpPcs  == Claiming \cup {"accept", "recv", "page", "close", "upgrade"}
WsPcs    == Serving \cup Ending \cup {"dead", "return"}

\* The type of every variable; the receive queue keeps to its size.
TypeOK ==
  /\ connected \subseteq Clients
  /\ gone \subseteq connected
  /\ owner \in [Fds -> Clients \cup {NoClient}]
  /\ httpPc \in HttpPcs
  /\ client_fd \in Fds \cup {NoFd}
  /\ ws_active \in BOOLEAN
  /\ ws_client_fd \in Fds \cup {NoFd}
  /\ wsPc \in WsPcs
  /\ forwarding \in Seq(1..arrived) /\ Len(forwarding) <= 1
  /\ can_rx_streaming \in BOOLEAN
  /\ can_rx_queue \in Seq(1..arrived) /\ Len(can_rx_queue) <= RxQueueLen
  /\ arrived \in 0..MaxFrames
  /\ served \in Clients \cup {NoClient}
  /\ since \in 0..arrived
  /\ forwarded \in 0..arrived

\* ws_active is the claim of exactly one thread, from the compare-and-swap to
\* the failure of the handshake or the end of the session; so ws_client is
\* never filled (http_server.c:859) while the WebSocket thread reads it.
OneHolder ==
  /\ ws_active <=> (httpPc \in Claiming \/ wsPc \in Serving \cup Ending)
  /\ ~(httpPc \in Claiming /\ wsPc \in Serving \cup Ending)

\* Until it closes it, the WebSocket thread talks to the client it was created
\* for, and that client receives: no later connection was given the same
\* descriptor, and no session that ended before switched this one's stream
\* off.
ServedSession ==
  wsPc \in Serving => owner[ws_client_fd] = served /\ can_rx_streaming

\* With no session nothing is queued, so no client ever finds frames of the
\* time before it (can_bridge.c:183 on both of its paths).
IdleQuiet == ~ws_active => ~can_rx_streaming /\ can_rx_queue = <<>>

\* What a client gets are frames that came after its session began to
\* stream, in the order of the bus, none twice.
FreshAndOrdered ==
  wsPc \in Serving =>
    LET last == IF forwarded = 0 THEN since ELSE forwarded
        path == <<last>> \o forwarding \o can_rx_queue
    IN  \A i \in 1..(Len(path) - 1) : path[i] < path[i + 1]

\* Every open descriptor has a thread that will close it: no error path of
\* handle_client, handle_websocket or websocket_thread leaves one behind, and
\* none is closed by both.
NoSocketLeak ==
  \A fd \in Fds :
    (owner[fd] # NoClient) <=> \/ fd = client_fd
                               \/ fd = ws_client_fd /\ wsPc \in Serving

\* docs/sdd.md: the bridge uses "a catch-all RX filter".  Violated: the filter
\* (can_bridge.c:244) has no CAN_FILTER_IDE, so frames with an extended
\* identifier never reach the callback.
CatchAll ==
  [][(arrived' # arrived /\ can_rx_streaming /\ Len(can_rx_queue) < RxQueueLen)
       => can_rx_queue' = Append(can_rx_queue, arrived')]_vars
=============================================================================
