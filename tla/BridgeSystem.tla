---------------------------- MODULE BridgeSystem ----------------------------
(***************************************************************************)
(* The bridge between its two sides: the WebSocket session (WsSession) and  *)
(* the CAN controller (CanBridge).  They meet in two places.               *)
(*                                                                         *)
(*   the WebSocket thread calls can_bridge_handle_ws_text for a text frame *)
(*   (src/http_server.c:795) and does nothing else before it has sent the  *)
(*   answer; what is one opaque step in WsSession is all of CanBridge's    *)
(*   request here, in which the thread waits for can_lock                  *)
(*                                                                         *)
(*   frames are received while the controller is on the bus and the filter *)
(*   has been added                                                        *)
(***************************************************************************)
EXTENDS Integers, Sequences, FiniteSets

CONSTANTS Frames, BitrateFields, DefaultBitrate, TxQueueLen, MaxAccepted,
          Clients, NoClient, Fds, RxQueueLen, MaxFrames

ASSUME BridgeSystemAssumption ==
  IsFiniteSet(Clients) /\ Clients = 1..Cardinality(Clients)

VARIABLES
  started, hwMode, hwBitrate, can_ready, current_mode, current_bitrate,
  can_tx_queue, can_lock, mainPc, request, cfg, reply, txPc, in_hand,
  accepted, handed,
  connected, gone, owner, httpPc, client_fd, ws_active, ws_client_fd, wsPc,
  forwarding, can_rx_streaming, can_rx_queue, arrived, served, since,
  forwarded,
  requestPc,  \* where in a request the WebSocket thread is
  asker       \* history: the client whose request it serves

CB == INSTANCE CanBridge WITH wsPc <- requestPc
WS == INSTANCE WsSession

\* What each side asks of the configuration.
ASSUME SidesAssumption == CB!CanBridgeAssumption /\ WS!WsSessionAssumption

bridge  == <<started, hwMode, hwBitrate, can_ready, current_mode,
             current_bitrate, can_tx_queue, can_lock, mainPc, requestPc,
             request, cfg, reply, txPc, in_hand, accepted, handed>>
session == <<connected, gone, owner, httpPc, client_fd, ws_active,
             ws_client_fd, wsPc, forwarding, can_rx_streaming, can_rx_queue,
             arrived, served, since, forwarded>>
vars == <<bridge, session, asker>>

Init == CB!Init /\ WS!Init /\ asker = NoClient

-----------------------------------------------------------------------------
\* The threads that have nothing to do with the session.
Main     == CB!can_bridge_init /\ UNCHANGED <<session, asker>>
TxThread == CB!can_tx_thread /\ UNCHANGED <<session, asker>>

\* A text frame from the client.
TextFrame ==
  /\ wsPc = "handle"
  /\ CB!ReceiveRequest
  /\ asker' = served
  /\ UNCHANGED session

\* The request under way.
Request ==
  /\ \/ CB!TxPut
     \/ CB!can_bridge_format_status
     \/ CB!handle_can_config_set
  /\ UNCHANGED <<session, asker>>

\* The answer goes out, or sending it fails and ends the session.
Reply ==
  /\ CB!SendReply
  /\ WS!HandleText
  /\ asker' = NoClient

WebSocketThread ==
  \/ TextFrame \/ Request \/ Reply
  \/ /\ \/ WS!DrainRx \/ WS!ForwardRx \/ WS!PollClient \/ WS!CloseSocket
        \/ WS!StreamOffClear \/ WS!StreamOffPurge \/ WS!ReleaseSession
        \/ WS!ThreadEnds
     /\ UNCHANGED <<bridge, asker>>

\* Connections are numbered as they are accepted.
Numbered == connected' = 1..Cardinality(connected')

\* Reading a request waits for the client, the rest does not.
HttpWaits == /\ (WS!Accept /\ Numbered) \/ WS!RecvRequest
             /\ UNCHANGED <<bridge, asker>>
HttpRuns  == /\ WS!handle_websocket \/ WS!ServePage \/ WS!CloseClient
             /\ UNCHANGED <<bridge, asker>>

Listening == started /\ mainPc \in {"set_ready", "create_thread", "running"}

Bus == Listening /\ WS!can_rx_callback /\ UNCHANGED <<bridge, asker>>

Client == WS!Leave /\ UNCHANGED <<bridge, asker>>

Next == \/ Main \/ TxThread \/ WebSocketThread \/ HttpWaits \/ HttpRuns
        \/ Bus \/ Client

-----------------------------------------------------------------------------
\* The fairness of the two modules: a thread runs when it can, one that waits
\* for a mutex released again and again gets it, and a frame being sent ends.
Fairness ==
  /\ SF_vars(WebSocketThread)
  /\ SF_vars(TxThread)
  /\ WF_vars(Main)
  /\ WF_vars(HttpRuns)

Spec == Init /\ [][Next]_vars /\ Fairness

-----------------------------------------------------------------------------
(* Properties.                                                             *)

\* A request belongs to a session from its text frame to its answer: the
\* answer goes to the client that asked, although its descriptor could be
\* closed and used again, or the thread created anew, while the request waits
\* for the controller.
AnsweredToAsker ==
  requestPc # "idle" => /\ wsPc = "handle" /\ ws_active
                        /\ asker = served
                        /\ owner[ws_client_fd] = asker

\* Whichever way a session ends, it takes neither can_lock nor half a change
\* of the settings with it into the time of the next one.
NothingLeftBehind ==
  wsPc # "handle" =>
    /\ can_lock # "ws"
    /\ mainPc = "running" => can_ready = started

\* The one session is never kept for nobody: a claim that has not become a
\* session yet, a session whose client has left, also in the middle of a
\* request, and one that is being ended, all come to an end, unless the
\* transmit thread is stuck with the lock.
Live == wsPc \in WS!Serving /\ served \notin gone

SessionReleased ==
  (ws_active /\ ~Live) ~> (~ws_active \/ Live \/ CB!TxStuck)

\* Every request is answered, whichever driver call fails and whatever comes
\* from the bus meanwhile, unless the transmit thread is stuck.
EveryRequestAnswered == CB!EveryRequestAnswered

\* Every accepted frame reaches can_send, also when the client that sent it
\* has left, unless the transmit thread is stuck.
EveryFrameHanded == CB!EveryFrameHanded
=============================================================================
