------------------------- MODULE BridgeSystemProofs -------------------------
(***************************************************************************)
(* Theorems about BridgeSystem: every behaviour of the two sides together   *)
(* is one of each side alone, so what CanBridgeProofs and WsSessionProofs   *)
(* prove of a side holds in the system, and what only both together         *)
(* promise.                                                                *)
(***************************************************************************)
EXTENDS BridgeSystem, TLAPS

CBP == INSTANCE CanBridgeProofs WITH wsPc <- requestPc
WSP == INSTANCE WsSessionProofs

-----------------------------------------------------------------------------
(* The definitions of a side read the same through its proof module.       *)

LEMMA SameInit ==
  CB!Init <=> CBP!Init
  BY DEF CB!Init, CBP!Init, CB!NoCfg, CBP!NoCfg, CB!NoReply, CBP!NoReply

LEMMA SameMain ==
  CB!can_bridge_init <=> CBP!can_bridge_init
  BY DEF CB!can_bridge_init, CBP!can_bridge_init, CB!InitSetMode,
     CBP!InitSetMode, CB!InitStart, CBP!InitStart, CB!InitAddFilter,
     CBP!InitAddFilter, CB!InitSetReady, CBP!InitSetReady,
     CB!InitCreateThread, CBP!InitCreateThread, CB!AfterInitCall,
     CBP!AfterInitCall, CB!can_set_mode, CBP!can_set_mode, CB!can_start,
     CBP!can_start, CB!Returns, CBP!Returns, CB!controller,
     CBP!controller, CB!settings, CBP!settings, CB!txState, CBP!txState,
     CB!wsLocals, CBP!wsLocals

LEMMA SameReceive ==
  CB!ReceiveRequest <=> CBP!ReceiveRequest
  BY DEF CB!ReceiveRequest, CBP!ReceiveRequest, CB!RejectNotReady,
     CBP!RejectNotReady, CB!RejectMalformed, CBP!RejectMalformed,
     CB!ReceiveStatus, CBP!ReceiveStatus, CB!ReceiveTx, CBP!ReceiveTx,
     CB!ReceiveConfig, CBP!ReceiveConfig, CB!Receive, CBP!Receive,
     CB!Error, CBP!Error, CB!Answer, CBP!Answer, CB!BadBitrate,
     CBP!BadBitrate, CB!Requests, CBP!Requests, CB!Modes, CBP!Modes,
     CB!ModeNames, CBP!ModeNames, CB!controller, CBP!controller,
     CB!settings, CBP!settings, CB!txState, CBP!txState, CB!wsLocals,
     CBP!wsLocals

LEMMA SameTxPut ==
  CB!TxPut <=> CBP!TxPut
  BY DEF CB!TxPut, CBP!TxPut, CB!Answer, CBP!Answer, CB!Error, CBP!Error,
     CB!controller, CBP!controller, CB!settings, CBP!settings, CB!txState,
     CBP!txState, CB!wsLocals, CBP!wsLocals

LEMMA SameStatus ==
  CB!can_bridge_format_status <=> CBP!can_bridge_format_status
  BY DEF CB!can_bridge_format_status, CBP!can_bridge_format_status,
     CB!StatusLock, CBP!StatusLock, CB!StatusRead, CBP!StatusRead,
     CB!StatusFormat, CBP!StatusFormat, CB!Take, CBP!Take, CB!Release,
     CBP!Release, CB!Answer, CBP!Answer, CB!Error, CBP!Error,
     CB!controller, CBP!controller, CB!settings, CBP!settings, CB!txState,
     CBP!txState, CB!wsLocals, CBP!wsLocals

LEMMA SameConfig ==
  CB!handle_can_config_set <=> CBP!handle_can_config_set
  BY DEF CB!handle_can_config_set, CBP!handle_can_config_set,
     CB!ConfigClear, CBP!ConfigClear, CB!ConfigLock, CBP!ConfigLock,
     CB!ConfigStop, CBP!ConfigStop, CB!ConfigMode, CBP!ConfigMode,
     CB!ConfigBitrate, CBP!ConfigBitrate, CB!ConfigStart, CBP!ConfigStart,
     CB!ConfigCommit, CBP!ConfigCommit, CB!ConfigAbort, CBP!ConfigAbort,
     CB!ConfigRelock, CBP!ConfigRelock, CB!ConfigRestart,
     CBP!ConfigRestart, CB!AfterConfigCall, CBP!AfterConfigCall,
     CB!can_stop, CBP!can_stop, CB!can_start, CBP!can_start,
     CB!can_set_mode, CBP!can_set_mode, CB!can_set_bitrate,
     CBP!can_set_bitrate, CB!Returns, CBP!Returns, CB!RecordSettings,
     CBP!RecordSettings, CB!ReadyAfter, CBP!ReadyAfter, CB!Take, CBP!Take,
     CB!Release, CBP!Release, CB!Answer, CBP!Answer, CB!Error, CBP!Error,
     CB!controller, CBP!controller, CB!settings, CBP!settings, CB!txState,
     CBP!txState, CB!wsLocals, CBP!wsLocals

LEMMA SameReply ==
  CB!SendReply <=> CBP!SendReply
  BY DEF CB!SendReply, CBP!SendReply, CB!NoCfg, CBP!NoCfg, CB!NoReply,
     CBP!NoReply, CB!controller, CBP!controller, CB!settings,
     CBP!settings, CB!txState, CBP!txState, CB!wsLocals, CBP!wsLocals

LEMMA SameTx ==
  CB!can_tx_thread <=> CBP!can_tx_thread
  BY DEF CB!can_tx_thread, CBP!can_tx_thread, CB!TxGet, CBP!TxGet,
     CB!TxLock, CBP!TxLock, CB!TxSend, CBP!TxSend, CB!TxDone, CBP!TxDone,
     CB!TxUnlock, CBP!TxUnlock, CB!AfterSend, CBP!AfterSend, CB!Take,
     CBP!Take, CB!Release, CBP!Release, CB!controller, CBP!controller,
     CB!settings, CBP!settings, CB!txState, CBP!txState, CB!wsLocals,
     CBP!wsLocals

LEMMA SameBridge == [CB!Next]_(CB!vars) <=> [CBP!Next]_(CBP!vars)
  BY SameMain, SameReceive, SameTxPut, SameStatus, SameConfig, SameReply,
     SameTx
     DEF CB!Next, CBP!Next, CB!can_bridge_handle_ws_text,
     CBP!can_bridge_handle_ws_text, CB!vars, CBP!vars, CB!controller,
     CBP!controller, CB!settings, CBP!settings, CB!txState, CBP!txState,
     CB!wsLocals, CBP!wsLocals

LEMMA SameSessionInit ==
  WS!Init <=> WSP!Init
  BY DEF WS!Init, WSP!Init, WS!NoFd, WSP!NoFd

LEMMA SameAccept ==
  WS!Accept <=> WSP!Accept
  BY DEF WS!Accept, WSP!Accept, WS!sockets, WSP!sockets, WS!httpVars,
     WSP!httpVars, WS!wsVars, WSP!wsVars, WS!session, WSP!session, WS!rx,
     WSP!rx

LEMMA SameRequestRead ==
  WS!RecvRequest <=> WSP!RecvRequest
  BY DEF WS!RecvRequest, WSP!RecvRequest, WS!sockets, WSP!sockets,
     WS!httpVars, WSP!httpVars, WS!wsVars, WSP!wsVars, WS!session,
     WSP!session, WS!rx, WSP!rx

LEMMA SamePage ==
  WS!ServePage <=> WSP!ServePage
  BY DEF WS!ServePage, WSP!ServePage, WS!sockets, WSP!sockets,
     WS!httpVars, WSP!httpVars, WS!wsVars, WSP!wsVars, WS!session,
     WSP!session, WS!rx, WSP!rx

LEMMA SameClose ==
  WS!CloseClient <=> WSP!CloseClient
  BY DEF WS!CloseClient, WSP!CloseClient, WS!zsock_close, WSP!zsock_close,
     WS!NoFd, WSP!NoFd, WS!sockets, WSP!sockets, WS!httpVars,
     WSP!httpVars, WS!wsVars, WSP!wsVars, WS!session, WSP!session, WS!rx,
     WSP!rx

LEMMA SameUpgrade ==
  WS!handle_websocket <=> WSP!handle_websocket
  BY DEF WS!handle_websocket, WSP!handle_websocket, WS!ClaimSession,
     WSP!ClaimSession, WS!AfterRefusal, WSP!AfterRefusal, WS!Handshake,
     WSP!Handshake, WS!HandshakeFails, WSP!HandshakeFails, WS!FillClient,
     WSP!FillClient, WS!StreamOnPurge, WSP!StreamOnPurge, WS!StreamOnSet,
     WSP!StreamOnSet, WS!CreateThread, WSP!CreateThread, WS!NoFd,
     WSP!NoFd, WS!sockets, WSP!sockets, WS!httpVars, WSP!httpVars,
     WS!wsVars, WSP!wsVars, WS!session, WSP!session, WS!rx, WSP!rx

LEMMA SameThread ==
  WS!websocket_thread <=> WSP!websocket_thread
  BY DEF WS!websocket_thread, WSP!websocket_thread,
     WS!websocket_echo_loop, WSP!websocket_echo_loop, WS!DrainRx,
     WSP!DrainRx, WS!RestOfRx, WSP!RestOfRx, WS!ForwardRx, WSP!ForwardRx,
     WS!PollClient, WSP!PollClient, WS!HandleText, WSP!HandleText,
     WS!CloseSocket, WSP!CloseSocket, WS!zsock_close, WSP!zsock_close,
     WS!StreamOffClear, WSP!StreamOffClear, WS!StreamOffPurge,
     WSP!StreamOffPurge, WS!ReleaseSession, WSP!ReleaseSession,
     WS!ThreadEnds, WSP!ThreadEnds, WS!sockets, WSP!sockets, WS!httpVars,
     WSP!httpVars, WS!wsVars, WSP!wsVars, WS!session, WSP!session, WS!rx,
     WSP!rx

LEMMA SameEnvironment ==
  WS!Environment <=> WSP!Environment
  BY DEF WS!Environment, WSP!Environment, WS!Leave, WSP!Leave,
     WS!can_rx_callback, WSP!can_rx_callback, WS!MatchesFilter,
     WSP!MatchesFilter, WS!CatchAllFlags, WSP!CatchAllFlags, WS!RxRoom,
     WSP!RxRoom, WS!sockets, WSP!sockets, WS!httpVars, WSP!httpVars,
     WS!wsVars, WSP!wsVars, WS!session, WSP!session, WS!rx, WSP!rx

LEMMA SameSession == [WS!Next]_(WS!vars) <=> [WSP!Next]_(WSP!vars)
<1>1. WS!http_thread <=> WSP!http_thread
  BY SameAccept, SameRequestRead, SamePage, SameClose, SameUpgrade
     DEF WS!http_thread, WSP!http_thread
<1>2. UNCHANGED WS!vars <=> UNCHANGED WSP!vars
  BY DEF WS!vars, WSP!vars, WS!sockets, WSP!sockets, WS!httpVars,
     WSP!httpVars, WS!wsVars, WSP!wsVars, WS!session, WSP!session, WS!rx,
     WSP!rx
<1>3. QED
  BY <1>1, <1>2, SameThread, SameEnvironment DEF WS!Next, WSP!Next

-----------------------------------------------------------------------------
(* The system implements its sides: each of its steps is one of a side, or  *)
(* none of its business.                                                   *)

LEMMA BridgeStep == ASSUME [Next]_vars PROVE [CB!Next]_(CB!vars)
<1>1. CASE UNCHANGED bridge
  BY <1>1 DEF bridge, CB!vars, CB!controller, CB!settings, CB!txState,
     CB!wsLocals
<1>2. CASE Main \/ TxThread \/ TextFrame \/ Request \/ Reply
  BY <1>2 DEF Main, TxThread, TextFrame, Request, Reply, CB!Next,
     CB!can_bridge_handle_ws_text
<1>3. QED
  BY <1>1, <1>2 DEF Next, vars, WebSocketThread, HttpWaits, HttpRuns, Bus,
     Client

LEMMA SessionStep == ASSUME [Next]_vars PROVE [WS!Next]_(WS!vars)
<1>1. CASE UNCHANGED session
  BY <1>1 DEF session, WS!vars, WS!sockets, WS!httpVars, WS!wsVars,
     WS!session, WS!rx
<1>2. CASE Reply
  BY <1>2 DEF Reply, WS!Next, WS!websocket_thread, WS!websocket_echo_loop
<1>3. CASE \/ WS!DrainRx \/ WS!ForwardRx \/ WS!PollClient \/ WS!CloseSocket
           \/ WS!StreamOffClear \/ WS!StreamOffPurge \/ WS!ReleaseSession
           \/ WS!ThreadEnds
  BY <1>3 DEF WS!Next, WS!websocket_thread, WS!websocket_echo_loop
<1>4. CASE HttpWaits \/ HttpRuns
  BY <1>4 DEF HttpWaits, HttpRuns, WS!Next, WS!http_thread
<1>5. CASE Bus \/ Client
  BY <1>5 DEF Bus, Client, WS!Next, WS!Environment
<1>6. QED
  BY <1>1, <1>2, <1>3, <1>4, <1>5 DEF Next, vars, WebSocketThread, Main,
     TxThread, TextFrame, Request

\* What the two threads of can_bridge.c and the WebSocket thread inside
\* can_bridge_handle_ws_text (can_bridge.c:475) do in the system is what
\* CanBridge lets them do: all its safety theorems hold of the whole bridge.
THEOREM ImplementsBridge == Spec => CB!Spec
<1>1. Init => CB!Init
  BY DEF Init
<1>2. QED BY <1>1, BridgeStep, PTL DEF Spec, CB!Spec

\* A session in which every text frame is a request of many steps
\* (http_server.c:795) is still a session as WsSession describes it, where
\* that is one step.
THEOREM ImplementsSession == Spec => WS!Spec
<1>1. Init => WS!Init
  BY DEF Init
<1>2. QED BY <1>1, SessionStep, PTL DEF Spec, WS!Spec

-----------------------------------------------------------------------------
(* The inductive invariant: those of the sides, and a request belongs to    *)
(* the session that is handling a text frame.                              *)

RequestInv == requestPc # "idle" => wsPc = "handle" /\ asker = served

SystemInv == CBP!IInv /\ WSP!IInv /\ RequestInv

LEMMA InitSystemInv == Init => SystemInv
<1> SUFFICES ASSUME Init PROVE SystemInv
  OBVIOUS
<1>1. CBP!IInv
  BY SidesAssumption, SameInit, CBP!InitIInv
     DEF Init, CB!CanBridgeAssumption, CBP!CanBridgeAssumption
<1>2. WSP!IInv
  BY SidesAssumption, SameSessionInit, WSP!InitIInv
     DEF Init, WS!WsSessionAssumption, WSP!WsSessionAssumption
<1>3. RequestInv
  BY DEF Init, CB!Init, RequestInv
<1>4. QED BY <1>1, <1>2, <1>3 DEF SystemInv

\* A step of the session itself, while no request is under way or the text
\* frame is still being handled.
LEMMA SessionRequestInv ==
  ASSUME WSP!IInv, RequestInv, UNCHANGED <<bridge, asker>>,
         \/ WS!http_thread \/ WS!Environment
         \/ WS!DrainRx \/ WS!ForwardRx \/ WS!PollClient \/ WS!CloseSocket
         \/ WS!StreamOffClear \/ WS!StreamOffPurge \/ WS!ReleaseSession
         \/ WS!ThreadEnds
  PROVE  RequestInv'
<1> SUFFICES ASSUME requestPc # "idle" PROVE wsPc' = "handle" /\ asker' = served'
  BY DEF RequestInv, bridge
<1>1. wsPc = "handle" /\ asker = served /\ asker' = asker
  BY DEF RequestInv
<1>2. httpPc # "create"
  BY <1>1 DEF WSP!IInv, WSP!ControlInv, WSP!OneHolder, WSP!Claiming,
     WSP!Serving
<1>3. UNCHANGED <<wsPc, served>>
  <2>1. CASE WS!http_thread
    BY <2>1, <1>2 DEF WS!http_thread, WS!Accept, WS!RecvRequest,
       WS!ServePage, WS!CloseClient, WS!handle_websocket, WS!ClaimSession,
       WS!Handshake, WS!HandshakeFails, WS!FillClient, WS!StreamOnPurge,
       WS!StreamOnSet, WS!CreateThread, WS!wsVars, WS!session
  <2>2. CASE WS!Environment
    BY <2>2 DEF WS!Environment, WS!Leave, WS!can_rx_callback, WS!wsVars,
       WS!session
  <2>3. QED
    BY <1>1, <2>1, <2>2 DEF WS!DrainRx, WS!ForwardRx, WS!PollClient,
       WS!CloseSocket, WS!StreamOffClear, WS!StreamOffPurge,
       WS!ReleaseSession, WS!ThreadEnds
<1>4. QED BY <1>1, <1>3

LEMMA NextRequestInv ==
  ASSUME WSP!IInv, RequestInv, [Next]_vars PROVE RequestInv'
<1>1. CASE UNCHANGED vars
  BY <1>1 DEF vars, bridge, session, RequestInv
<1>2. CASE Main \/ TxThread
  <2>1. UNCHANGED <<wsPc, served, asker>>
    BY <1>2 DEF Main, TxThread, session
  <2>2. UNCHANGED requestPc
    BY <1>2 DEF Main, TxThread, CB!can_bridge_init, CB!InitSetMode,
       CB!InitStart, CB!InitAddFilter, CB!InitSetReady, CB!InitCreateThread,
       CB!AfterInitCall, CB!can_tx_thread, CB!TxGet, CB!TxLock, CB!TxSend,
       CB!TxDone, CB!TxUnlock
  <2>3. QED BY <2>1, <2>2 DEF RequestInv
<1>3. CASE TextFrame
  BY <1>3 DEF TextFrame, session, RequestInv
<1>4. CASE Request
  <2>1. UNCHANGED <<wsPc, served, asker>>
    BY <1>4 DEF Request, session
  <2>2. requestPc # "idle"
    BY <1>4 DEF Request, CB!TxPut, CB!can_bridge_format_status,
       CB!StatusLock, CB!StatusRead, CB!StatusFormat,
       CB!handle_can_config_set, CB!ConfigClear, CB!ConfigLock,
       CB!ConfigStop, CB!ConfigMode, CB!ConfigBitrate, CB!ConfigStart,
       CB!ConfigCommit, CB!ConfigAbort, CB!ConfigRelock, CB!ConfigRestart,
       CB!AfterConfigCall
  <2>3. QED BY <2>1, <2>2 DEF RequestInv
<1>5. CASE Reply
  BY <1>5 DEF Reply, CB!SendReply, RequestInv
<1>6. CASE HttpWaits \/ HttpRuns \/ Bus \/ Client
  BY <1>6, SessionRequestInv DEF HttpWaits, HttpRuns, Bus, Client,
     WS!http_thread, WS!Environment
<1>7. QED
  BY <1>1, <1>2, <1>3, <1>4, <1>5, <1>6, SessionRequestInv
     DEF Next, WebSocketThread

LEMMA NextSystemInv == ASSUME SystemInv, [Next]_vars PROVE SystemInv'
<1>1. CBP!IInv'
  BY BridgeStep, SameBridge, SidesAssumption, CBP!NextIInv
     DEF SystemInv, CB!CanBridgeAssumption, CBP!CanBridgeAssumption
<1>2. WSP!IInv'
  BY SessionStep, SameSession, SidesAssumption, WSP!NextIInv
     DEF SystemInv, WS!WsSessionAssumption, WSP!WsSessionAssumption
<1>3. RequestInv'
  BY NextRequestInv DEF SystemInv
<1>4. QED BY <1>1, <1>2, <1>3 DEF SystemInv

\* The three hold together in every reachable state.
THEOREM SystemInvariant == Spec => []SystemInv
  BY InitSystemInv, NextSystemInv, PTL DEF Spec

-----------------------------------------------------------------------------
(* What only both sides together promise.                                  *)

\* The answer of can_bridge_handle_ws_text goes to the client that asked
\* (http_server.c:795), however long the request waits for can_lock.
THEOREM AnsweredToAskerHolds == Spec => []AnsweredToAsker
<1>1. SystemInv => AnsweredToAsker
  BY DEF SystemInv, RequestInv, AnsweredToAsker, WSP!IInv, WSP!ControlInv,
     WSP!OneHolder, WSP!SocketInv, WSP!Serving
<1>2. QED BY <1>1, SystemInvariant, PTL

\* No session ends with can_lock held or half a change of the settings made
\* (can_bridge.c:428 to 465).
THEOREM NothingLeftBehindHolds == Spec => []NothingLeftBehind
<1>1. SystemInv => NothingLeftBehind
  <2> SUFFICES ASSUME SystemInv, wsPc # "handle"
               PROVE  /\ can_lock # "ws"
                      /\ mainPc = "running" => can_ready = started
    BY DEF NothingLeftBehind
  <2>1. requestPc = "idle"
    BY DEF SystemInv, RequestInv
  <2>2. can_lock # "ws"
    BY <2>1 DEF SystemInv, CBP!IInv, CBP!ControlInv, CBP!LockInv,
       CBP!WsHolds, CBP!ConfigLocked
  <2>3. mainPc = "running" => (can_ready <=> started)
    BY <2>1 DEF SystemInv, CBP!IInv, CBP!ControlInv, CBP!ReadyInv,
       CBP!Ready, CBP!ConfigBusy, CBP!ConfigLocked
  <2>4. can_ready \in BOOLEAN /\ started \in BOOLEAN
    BY DEF SystemInv, CBP!IInv, CBP!TypeOK
  <2>5. QED BY <2>2, <2>3, <2>4
<1>2. QED BY <1>1, SystemInvariant, PTL

-----------------------------------------------------------------------------
(* What each side promises, of the whole bridge.                            *)

LEMMA SystemRuns == Spec => CBP!Spec /\ WSP!Spec
<1>1. Init => CBP!Init /\ WSP!Init
  BY SameInit, SameSessionInit DEF Init
<1>2. [Next]_vars => [CBP!Next]_(CBP!vars) /\ [WSP!Next]_(WSP!vars)
  BY BridgeStep, SameBridge, SessionStep, SameSession
<1>3. QED BY <1>1, <1>2, PTL DEF Spec, CBP!Spec, WSP!Spec

\* A frame accepted in any session, of a client that may have left since, is
\* offered to the controller once and in order (can_tx_thread,
\* can_bridge.c:195), and no session's change of the settings disturbs a
\* transmission.
THEOREM TransmitSideOfTheBridge ==
  Spec => CBP!ImplementsTxPipe /\ CBP!ReconfigureExclusive
<1>1. CBP!CanBridgeAssumption
  BY SidesAssumption DEF CB!CanBridgeAssumption, CBP!CanBridgeAssumption
<1>2. CBP!Spec => CBP!ImplementsTxPipe
  BY <1>1, CBP!PipeImplemented
<1>3. CBP!Spec => CBP!ReconfigureExclusive
  BY <1>1, CBP!ExclusionCorrect
<1>4. QED BY <1>2, <1>3, SystemRuns

\* Requests that wait for the controller in the middle of a session let no
\* old frame, no other client's descriptor and no open socket through.
THEOREM ReceiveSideOfTheBridge ==
  Spec => [](WSP!OneHolder /\ WSP!ServedSession /\ WSP!FreshAndOrdered
               /\ WSP!NoSocketLeak)
<1>1. WSP!WsSessionAssumption
  BY SidesAssumption DEF WS!WsSessionAssumption, WSP!WsSessionAssumption
<1>2. WSP!Spec => []WSP!OneHolder
  BY <1>1, WSP!OneHolderAlways
<1>3. WSP!Spec => []WSP!ServedSession
  BY <1>1, WSP!ServedSessionAlways
<1>4. WSP!Spec => []WSP!FreshAndOrdered
  BY <1>1, WSP!FreshAndOrderedAlways
<1>5. WSP!Spec => []WSP!NoSocketLeak
  BY <1>1, WSP!NoSocketLeakAlways
<1>6. QED BY <1>2, <1>3, <1>4, <1>5, SystemRuns, PTL
=============================================================================
