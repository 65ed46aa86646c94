-------------------------- MODULE CanBridgeProofs --------------------------
(***************************************************************************)
(* Theorems about CanBridge, for every set of frames and bitrates and      *)
(* every queue length.                                                     *)
(***************************************************************************)
EXTENDS CanBridge, SequenceTheorems, TLAPS

-----------------------------------------------------------------------------
(* Type correctness.                                                       *)

\* Appending within the limit keeps a bounded queue bounded.
LEMMA AppendBounded ==
  ASSUME NEW S, NEW q \in Seq(S), NEW e \in S, NEW n \in Nat, Len(q) < n
  PROVE  Append(q, e) \in Seq(S) /\ Len(Append(q, e)) <= n
  OBVIOUS

\* The initial state is of the right type.
LEMMA InitTypeOK == Init => TypeOK
<1> SUFFICES ASSUME Init PROVE TypeOK
  OBVIOUS
<1> USE DEF Init
<1>1. hwBitrate \in Bitrates /\ current_bitrate \in Bitrates
  BY DEF Bitrates
<1>2. hwMode \in Modes /\ current_mode \in Modes
  BY DEF Modes
<1>3. cfg \in [mode : Modes, bitrate : Bitrates]
  BY DEF NoCfg, Bitrates, Modes
<1>4. reply \in Replies
  BY DEF NoReply, Replies
<1>5. /\ can_tx_queue \in Seq(Frames) /\ Len(can_tx_queue) <= TxQueueLen
      /\ in_hand \in Seq(Frames) /\ Len(in_hand) <= 1
  BY CanBridgeAssumption
<1>6. accepted \in Seq(Frames) /\ handed \in Seq(Frames)
  OBVIOUS
<1>7. QED
  BY <1>1, <1>2, <1>3, <1>4, <1>5, <1>6
  DEF TypeOK, MainPcs, WsPcs, TxPcs, Requests

\* A request that is refused or let in leaves every variable of its type.
LEMMA ReceiveTypeOK == ASSUME TypeOK, ReceiveRequest PROVE TypeOK'
<1> USE DEF Receive, Answer, Error, TypeOK, controller, settings, txState
<1>1. CASE RejectNotReady
  BY <1>1 DEF RejectNotReady, WsPcs, Requests, Replies, ErrorCodes
<1>2. CASE RejectMalformed
  BY <1>2 DEF RejectMalformed, WsPcs, Requests, Replies, ErrorCodes
<1>3. CASE ReceiveStatus
  BY <1>3 DEF ReceiveStatus, WsPcs, Requests
<1>4. CASE ReceiveTx
  BY <1>4 DEF ReceiveTx, WsPcs, Requests
<1>5. CASE ReceiveConfig
  <2>1. PICK fields \in SUBSET {"bitrate", "mode"},
             bitrate \in BitrateFields, mode \in ModeNames :
          ReceiveConfig!(fields, bitrate, mode)
    BY <1>5 DEF ReceiveConfig
  <2>2. CASE "bitrate" \in fields /\ BadBitrate(bitrate)
    BY <2>1, <2>2 DEF WsPcs, Requests, Replies, ErrorCodes
  <2>3. CASE /\ ~("bitrate" \in fields /\ BadBitrate(bitrate))
             /\ "mode" \in fields /\ mode \notin Modes
    BY <2>1, <2>3 DEF WsPcs, Requests, Replies, ErrorCodes
  <2>4. CASE /\ ~("bitrate" \in fields /\ BadBitrate(bitrate))
             /\ ~("mode" \in fields /\ mode \notin Modes)
    <3>1. cfg' \in [mode : Modes, bitrate : Bitrates]
      BY <2>1, <2>4, CanBridgeAssumption DEF Bitrates, BadBitrate
    <3>2. QED BY <2>1, <2>4, <3>1 DEF WsPcs, Requests
  <2>5. QED BY <2>2, <2>3, <2>4
<1>6. QED BY <1>1, <1>2, <1>3, <1>4, <1>5 DEF ReceiveRequest

\* So does every step of the WebSocket thread, ...
LEMMA HandleTypeOK ==
  ASSUME TypeOK, can_bridge_handle_ws_text PROVE TypeOK'
<1> USE DEF TypeOK, controller, settings, txState, wsLocals, Take, Release,
            Answer, Error, WsPcs, WsHolds, ConfigLocked
<1>1. CASE TxPut
  <2>1. PICK f \in Frames : TxPut!2!(f)
    BY <1>1 DEF TxPut
  <2>2. CASE Len(can_tx_queue) < TxQueueLen
    <3>1. /\ can_tx_queue' = Append(can_tx_queue, f)
          /\ accepted' = Append(accepted, f)
      BY <2>1, <2>2
    <3>2. can_tx_queue' \in Seq(Frames) /\ Len(can_tx_queue') <= TxQueueLen
      BY <2>2, <3>1, AppendBounded, CanBridgeAssumption
    <3>3. accepted' \in Seq(Frames)
      BY <3>1
    <3>4. wsPc' = "reply" /\ reply' \in Replies
      BY <2>1, <2>2 DEF Replies
    <3>5. QED BY <1>1, <3>2, <3>3, <3>4 DEF TxPut
  <2>3. CASE ~(Len(can_tx_queue) < TxQueueLen)
    <3>1. UNCHANGED <<can_tx_queue, accepted>>
      BY <2>1, <2>3
    <3>2. wsPc' = "reply" /\ reply' \in Replies
      BY <2>1, <2>3 DEF Replies, ErrorCodes
    <3>3. QED BY <1>1, <3>1, <3>2 DEF TxPut
  <2>4. QED BY <2>2, <2>3
<1>2. CASE SendReply
  <2>1. cfg' \in [mode : Modes, bitrate : Bitrates]
    BY <1>2 DEF SendReply, NoCfg, Modes, Bitrates
  <2>2. reply' \in Replies
    BY <1>2 DEF SendReply, NoReply, Replies
  <2>3. QED BY <1>2, <2>1, <2>2 DEF SendReply, Requests
<1>3. CASE can_bridge_format_status
  <2>1. CASE StatusLock
    BY <2>1 DEF StatusLock
  <2>2. CASE StatusRead
    BY <2>2 DEF StatusRead, Replies, ErrorCodes
  <2>3. CASE StatusFormat
    BY <2>3 DEF StatusFormat, Replies, StatusReplies
  <2>4. QED BY <1>3, <2>1, <2>2, <2>3 DEF can_bridge_format_status
<1>4. CASE handle_can_config_set
  <2>1. CASE ConfigClear
    BY <2>1 DEF ConfigClear
  <2>2. CASE ConfigLock
    BY <2>2 DEF ConfigLock
  <2>3. CASE ConfigStop
    BY <2>3 DEF ConfigStop, can_stop, AfterConfigCall
  <2>4. CASE ConfigMode
    BY <2>4 DEF ConfigMode, can_set_mode, AfterConfigCall
  <2>5. CASE ConfigBitrate
    BY <2>5 DEF ConfigBitrate, can_set_bitrate, AfterConfigCall
  <2>6. CASE ConfigStart
    BY <2>6 DEF ConfigStart, can_start, AfterConfigCall
  <2>7. CASE ConfigCommit
    BY <2>7 DEF ConfigCommit, RecordSettings
  <2>8. CASE ConfigAbort
    BY <2>8 DEF ConfigAbort
  <2>9. CASE ConfigRelock
    BY <2>9 DEF ConfigRelock
  <2>10. CASE ConfigRestart
    BY <2>10 DEF ConfigRestart, ReadyAfter, can_start, Replies, ErrorCodes
  <2>11. QED BY <1>4, <2>1, <2>2, <2>3, <2>4, <2>5, <2>6, <2>7, <2>8, <2>9,
                <2>10 DEF handle_can_config_set
<1>5. QED BY <1>1, <1>2, <1>3, <1>4 DEF can_bridge_handle_ws_text

\* ... of main, ...
LEMMA InitCallTypeOK == ASSUME TypeOK, can_bridge_init PROVE TypeOK'
<1> USE DEF TypeOK, controller, settings, txState, wsLocals, MainPcs
<1>1. CASE InitSetMode
  BY <1>1 DEF InitSetMode, can_set_mode, AfterInitCall
<1>2. CASE InitStart
  BY <1>2 DEF InitStart, can_start, AfterInitCall
<1>3. CASE InitAddFilter
  BY <1>3 DEF InitAddFilter
<1>4. CASE InitSetReady
  BY <1>4 DEF InitSetReady
<1>5. CASE InitCreateThread
  BY <1>5 DEF InitCreateThread, TxPcs
<1>6. QED BY <1>1, <1>2, <1>3, <1>4, <1>5 DEF can_bridge_init

\* ... and of the transmit thread.
LEMMA TxTypeOK == ASSUME TypeOK, can_tx_thread PROVE TypeOK'
<1> USE DEF TypeOK, controller, settings, wsLocals, Take, Release, TxPcs,
            TxHolds
<1>1. CASE TxGet
  <2>1. /\ Head(can_tx_queue) \in Frames
        /\ Tail(can_tx_queue) \in Seq(Frames)
        /\ Len(Tail(can_tx_queue)) <= TxQueueLen
    BY <1>1, CanBridgeAssumption DEF TxGet
  <2>2. <<Head(can_tx_queue)>> \in Seq(Frames)
        /\ Len(<<Head(can_tx_queue)>>) <= 1
    BY <2>1
  <2>3. QED BY <1>1, <2>1, <2>2 DEF TxGet
<1>2. CASE TxLock
  BY <1>2 DEF TxLock
<1>3. CASE TxSend
  <2>1. handed' \in Seq(Frames)
    BY <1>3, ConcatProperties DEF TxSend
  <2>2. in_hand' \in Seq(Frames) /\ Len(in_hand') <= 1
    BY <1>3 DEF TxSend
  <2>3. QED BY <1>3, <2>1, <2>2 DEF TxSend, AfterSend
<1>4. CASE TxDone
  BY <1>4 DEF TxDone
<1>5. CASE TxUnlock
  BY <1>5 DEF TxUnlock
<1>6. QED BY <1>1, <1>2, <1>3, <1>4, <1>5 DEF can_tx_thread

\* A step that changes nothing keeps every type.
LEMMA StutterTypeOK == ASSUME TypeOK, UNCHANGED vars PROVE TypeOK'
  BY DEF TypeOK, vars, controller, settings, wsLocals, txState

\* Every variable keeps its type, the queue its limit and the recorded
\* bitrate its sign, in every behaviour of the bridge.
THEOREM TypeCorrect == Spec => []TypeOK
<1>1. Init => TypeOK
  BY InitTypeOK
<1>2. TypeOK /\ [Next]_vars => TypeOK'
  BY InitCallTypeOK, ReceiveTypeOK, HandleTypeOK, TxTypeOK, StutterTypeOK
  DEF Next
<1>3. QED BY <1>1, <1>2, PTL DEF Spec

-----------------------------------------------------------------------------
(* The inductive invariant.                                                *)

ConfigBusy == ConfigLocked \cup {"cfg_lock", "cfg_relock"}
StatusPcs  == {"status_lock", "status_read", "status_format"}
Serving    == StatusPcs \cup {"put", "cfg_clear"}
Ready      == {"create_thread", "running"}

\* The mutex is what the program counters say it is.
LockInv ==
  /\ can_lock = "ws" <=> wsPc \in WsHolds
  /\ can_lock = "tx" <=> txPc \in TxHolds

\* Until can_bridge_init sets can_ready every request is refused, and until
\* it returns there is no transmit thread.
MainInv ==
  /\ mainPc # "running" => txPc = "none"
  /\ mainPc \in {"add_filter", "set_ready"} => started
  /\ mainPc \notin Ready =>
       ~can_ready /\ wsPc \in {"idle", "reply"} /\ reply.kind # "can.status"

\* can_ready is clear exactly while the settings change, or when the
\* controller could not be restarted.
ReadyInv ==
  /\ can_ready => started
  /\ wsPc \in ConfigBusy => ~can_ready
  /\ wsPc \in Serving => can_ready
  /\ (mainPc \in Ready /\ wsPc \notin ConfigBusy /\ started) => can_ready

\* What a change has achieved at each of its steps.
ConfigInv ==
  /\ wsPc = "cfg_commit" => started
  /\ wsPc \in {"cfg_mode", "cfg_bitrate", "cfg_start"} => ~started
  /\ wsPc \in {"cfg_bitrate", "cfg_start", "cfg_commit"} =>
       hwMode = cfg.mode
  /\ wsPc \in {"cfg_start", "cfg_commit"} => hwBitrate = cfg.bitrate
  /\ (request = "can.config.set" /\ wsPc \in StatusPcs) =>
       /\ hwMode = cfg.mode /\ current_mode = cfg.mode
       /\ hwBitrate = cfg.bitrate /\ current_bitrate = cfg.bitrate
  /\ (reply.kind # "none") <=> (wsPc = "reply")
  /\ AppliedSettings

\* No accepted frame is lost, doubled or overtaken on its way to can_send.
PipeInv ==
  /\ accepted = handed \o in_hand \o can_tx_queue
  /\ IF txPc \in {"lock", "send"}
       THEN \E f \in Frames : in_hand = <<f>>
       ELSE in_hand = <<>>

ControlInv == LockInv /\ MainInv /\ ReadyInv /\ ConfigInv

IInv == TypeOK /\ ControlInv /\ PipeInv

LEMMA InitControlInv == Init => ControlInv
  BY DEF Init, ControlInv, LockInv, MainInv, ReadyInv, ConfigInv, WsHolds,
         ConfigLocked, TxHolds, ConfigBusy, Serving, StatusPcs, Ready,
         NoReply, AppliedSettings

\* can_bridge_init reaches the controller before anybody else can.
LEMMA InitCallControlInv ==
  ASSUME TypeOK, ControlInv, can_bridge_init PROVE ControlInv'
<1> USE DEF TypeOK, ControlInv, LockInv, MainInv, ReadyInv, ConfigInv,
            AppliedSettings, WsHolds, ConfigLocked, TxHolds, ConfigBusy,
            Serving, StatusPcs, Ready, controller, settings, txState, wsLocals
<1>1. CASE InitSetMode
  BY <1>1 DEF InitSetMode, can_set_mode, AfterInitCall
<1>2. CASE InitStart
  BY <1>2 DEF InitStart, can_start, AfterInitCall
<1>3. CASE InitAddFilter
  BY <1>3 DEF InitAddFilter
<1>4. CASE InitSetReady
  BY <1>4 DEF InitSetReady
<1>5. CASE InitCreateThread
  BY <1>5 DEF InitCreateThread
<1>6. QED BY <1>1, <1>2, <1>3, <1>4, <1>5 DEF can_bridge_init

\* A request goes past the check of can_ready only in a state that can serve
\* it.
LEMMA ReceiveControlInv ==
  ASSUME TypeOK, ControlInv, ReceiveRequest PROVE ControlInv'
<1> USE DEF TypeOK, ControlInv, LockInv, MainInv, ReadyInv, ConfigInv,
            AppliedSettings, WsHolds, ConfigLocked, TxHolds, ConfigBusy,
            Serving, StatusPcs, Ready, controller, settings, txState,
            Receive, Answer, Error
<1>1. CASE RejectNotReady
  BY <1>1 DEF RejectNotReady
<1>2. CASE RejectMalformed
  BY <1>2 DEF RejectMalformed
<1>3. CASE ReceiveStatus
  BY <1>3 DEF ReceiveStatus
<1>4. CASE ReceiveTx
  BY <1>4 DEF ReceiveTx
<1>5. CASE ReceiveConfig
  BY <1>5 DEF ReceiveConfig
<1>6. QED BY <1>1, <1>2, <1>3, <1>4, <1>5 DEF ReceiveRequest

\* The paths of a request, the failed change of the settings among them.
LEMMA HandleControlInv ==
  ASSUME TypeOK, ControlInv, can_bridge_handle_ws_text PROVE ControlInv'
<1> USE DEF TypeOK, ControlInv, LockInv, MainInv, ReadyInv, ConfigInv,
            AppliedSettings, WsHolds, ConfigLocked, TxHolds, ConfigBusy,
            Serving, StatusPcs, Ready, controller, settings, txState,
            wsLocals, Take, Release, Answer, Error
<1>1. CASE TxPut
  BY <1>1 DEF TxPut
<1>2. CASE SendReply
  BY <1>2 DEF SendReply, NoReply
<1>3. CASE can_bridge_format_status
  <2>1. CASE StatusLock
    BY <2>1 DEF StatusLock
  <2>2. CASE StatusRead
    BY <2>2 DEF StatusRead
  <2>3. CASE StatusFormat
    BY <2>3 DEF StatusFormat
  <2>4. QED BY <1>3, <2>1, <2>2, <2>3 DEF can_bridge_format_status
<1>4. CASE handle_can_config_set
  <2>1. CASE ConfigClear
    BY <2>1 DEF ConfigClear
  <2>2. CASE ConfigLock
    BY <2>2 DEF ConfigLock
  <2>3. CASE ConfigStop
    BY <2>3 DEF ConfigStop, can_stop, AfterConfigCall
  <2>4. CASE ConfigMode
    <3>1. PICK ret \in Returns : ConfigMode!(ret)
      BY <2>4 DEF ConfigMode
    <3>2. CASE ret = "ok"
      BY <3>1, <3>2 DEF can_set_mode, AfterConfigCall
    <3>3. CASE ret = "error"
      BY <3>1, <3>3 DEF can_set_mode, AfterConfigCall
    <3>4. QED BY <3>1, <3>2, <3>3 DEF Returns, can_set_mode
  <2>5. CASE ConfigBitrate
    <3>1. PICK ret \in Returns : ConfigBitrate!(ret)
      BY <2>5 DEF ConfigBitrate
    <3>2. CASE ret = "ok"
      BY <3>1, <3>2 DEF can_set_bitrate, AfterConfigCall
    <3>3. CASE ret = "error"
      BY <3>1, <3>3 DEF can_set_bitrate, AfterConfigCall
    <3>4. QED BY <3>1, <3>2, <3>3 DEF Returns, can_set_bitrate
  <2>6. CASE ConfigStart
    BY <2>6 DEF ConfigStart, can_start, AfterConfigCall
  <2>7. CASE ConfigCommit
    BY <2>7 DEF ConfigCommit, RecordSettings
  <2>8. CASE ConfigAbort
    BY <2>8 DEF ConfigAbort
  <2>9. CASE ConfigRelock
    BY <2>9 DEF ConfigRelock
  <2>10. CASE ConfigRestart
    BY <2>10 DEF ConfigRestart, ReadyAfter, can_start
  <2>11. QED BY <1>4, <2>1, <2>2, <2>3, <2>4, <2>5, <2>6, <2>7, <2>8, <2>9,
                <2>10 DEF handle_can_config_set
<1>5. QED BY <1>1, <1>2, <1>3, <1>4 DEF can_bridge_handle_ws_text

\* The transmit thread takes and releases the lock and changes no setting.
LEMMA TxControlInv ==
  ASSUME TypeOK, ControlInv, can_tx_thread PROVE ControlInv'
<1> USE DEF TypeOK, ControlInv, LockInv, MainInv, ReadyInv, ConfigInv,
            AppliedSettings, WsHolds, ConfigLocked, TxHolds, ConfigBusy,
            Serving, StatusPcs, Ready, controller, settings, wsLocals,
            Take, Release
<1>1. CASE TxGet
  BY <1>1 DEF TxGet
<1>2. CASE TxLock
  BY <1>2 DEF TxLock
<1>3. CASE TxSend
  BY <1>3 DEF TxSend, AfterSend
<1>4. CASE TxDone
  BY <1>4 DEF TxDone
<1>5. CASE TxUnlock
  BY <1>5 DEF TxUnlock
<1>6. QED BY <1>1, <1>2, <1>3, <1>4, <1>5 DEF can_tx_thread

LEMMA StutterControlInv ==
  ASSUME TypeOK, ControlInv, UNCHANGED vars PROVE ControlInv'
  BY DEF TypeOK, ControlInv, LockInv, MainInv, ReadyInv, ConfigInv,
         AppliedSettings, vars, controller, settings, wsLocals, txState

-----------------------------------------------------------------------------
(* The frames.                                                             *)

\* The pipe is empty at first.
LEMMA InitPipeInv == Init => PipeInv
  BY DEF Init, PipeInv

\* Appending to the second half of a sequence appends to the whole.
LEMMA AppendConcat ==
  ASSUME NEW S, NEW s \in Seq(S), NEW t \in Seq(S), NEW e \in S
  PROVE  Append(s \o t, e) = s \o Append(t, e)
<1>1. /\ <<e>> \in Seq(S) /\ s \o t \in Seq(S)
      /\ Append(s \o t, e) = (s \o t) \o <<e>>
      /\ Append(t, e) = t \o <<e>>
  BY AppendIsConcat, ConcatProperties
<1>2. QED BY <1>1, ConcatAssociative

\* A put lengthens the queue and the history by the same frame.
LEMMA PutPipeInv == ASSUME TypeOK, PipeInv, TxPut PROVE PipeInv'
<1>1. PICK f \in Frames : TxPut!2!(f)
  BY DEF TxPut
<1>2. UNCHANGED <<txPc, in_hand, handed>>
  BY DEF TxPut
<1>3. CASE UNCHANGED <<can_tx_queue, accepted>>
  BY <1>2, <1>3 DEF PipeInv
<1>4. CASE /\ can_tx_queue' = Append(can_tx_queue, f)
           /\ accepted' = Append(accepted, f)
  <2> DEFINE ahead == handed \o in_hand
  <2>1. ahead \in Seq(Frames) /\ can_tx_queue \in Seq(Frames)
    BY ConcatProperties DEF TypeOK
  <2>2. accepted = ahead \o can_tx_queue
    BY DEF PipeInv
  <2> HIDE DEF ahead
  <2>3. accepted' = ahead \o can_tx_queue'
    BY <1>4, <2>1, <2>2, AppendConcat
  <2>4. QED BY <1>2, <2>3 DEF PipeInv, ahead
<1>5. QED BY <1>1, <1>3, <1>4

\* A get moves the oldest frame of the queue into the worker's hand.
LEMMA GetPipeInv == ASSUME TypeOK, PipeInv, TxGet PROVE PipeInv'
<1> DEFINE f == Head(can_tx_queue)
           q == Tail(can_tx_queue)
<1>1. /\ can_tx_queue \in Seq(Frames) /\ can_tx_queue # <<>>
      /\ handed \in Seq(Frames) /\ txPc = "get"
      /\ in_hand \in Seq(Frames)
  BY DEF TypeOK, TxGet
<1>2. in_hand = <<>>
  BY <1>1 DEF PipeInv
<1>3. /\ in_hand' = <<f>> /\ can_tx_queue' = q /\ txPc' = "lock"
      /\ UNCHANGED <<accepted, handed>>
  BY DEF TxGet
<1>4. /\ f \in Frames /\ q \in Seq(Frames)
      /\ can_tx_queue = <<f>> \o q
  BY <1>1
<1>5. handed \o <<>> \o can_tx_queue = handed \o <<f>> \o q
  BY <1>1, <1>4
<1>6. accepted' = handed' \o in_hand' \o can_tx_queue'
  BY <1>2, <1>3, <1>5 DEF PipeInv
<1>7. \E g \in Frames : in_hand' = <<g>>
  BY <1>3, <1>4
<1>8. QED BY <1>3, <1>6, <1>7 DEF PipeInv

\* can_send gets the frame in hand.
LEMMA SendPipeInv == ASSUME TypeOK, PipeInv, TxSend PROVE PipeInv'
<1>1. /\ handed \in Seq(Frames) /\ in_hand \in Seq(Frames)
      /\ can_tx_queue \in Seq(Frames)
  BY DEF TypeOK
<1>2. /\ handed' = handed \o in_hand /\ in_hand' = <<>>
      /\ UNCHANGED <<accepted, can_tx_queue>>
      /\ txPc' \in {"sending", "unlock"}
  BY DEF TxSend, AfterSend
<1>3. handed \o in_hand \o can_tx_queue
        = (handed \o in_hand) \o <<>> \o can_tx_queue
  BY <1>1
<1>4. QED BY <1>2, <1>3 DEF PipeInv

\* Nothing else touches a frame.
LEMMA NextPipeInv ==
  ASSUME TypeOK, ControlInv, PipeInv, [Next]_vars PROVE PipeInv'
<1>1. CASE \/ can_bridge_init \/ ReceiveRequest \/ SendReply
           \/ can_bridge_format_status \/ handle_can_config_set
           \/ UNCHANGED vars
  <2>1. CASE can_bridge_init
    BY <2>1 DEF can_bridge_init, InitSetMode, InitStart, InitAddFilter,
       InitSetReady, InitCreateThread, AfterInitCall, txState, PipeInv,
       ControlInv, MainInv
  <2>2. CASE ReceiveRequest
    <3>1. UNCHANGED txState
      BY <2>2 DEF ReceiveRequest, RejectNotReady, RejectMalformed,
         ReceiveStatus, ReceiveTx, ReceiveConfig, Receive
    <3>2. QED BY <3>1 DEF PipeInv, txState
  <2>3. CASE SendReply \/ can_bridge_format_status
    BY <2>3 DEF SendReply, can_bridge_format_status, StatusLock, StatusRead,
       StatusFormat, txState, PipeInv
  <2>4. CASE handle_can_config_set
    <3>1. UNCHANGED txState
      BY <2>4 DEF handle_can_config_set, ConfigClear, ConfigLock, ConfigStop,
         ConfigMode, ConfigBitrate, ConfigStart, ConfigCommit, ConfigAbort,
         ConfigRelock, ConfigRestart, AfterConfigCall
    <3>2. QED BY <3>1 DEF PipeInv, txState
  <2>5. CASE UNCHANGED vars
    BY <2>5 DEF vars, txState, PipeInv
  <2>6. QED BY <1>1, <2>1, <2>2, <2>3, <2>4, <2>5
<1>2. CASE TxPut
  BY <1>2, PutPipeInv
<1>3. CASE can_tx_thread
  <2>1. CASE TxLock \/ TxDone \/ TxUnlock
    BY <2>1 DEF TxLock, TxDone, TxUnlock, PipeInv
  <2>2. QED BY <1>3, <2>1, GetPipeInv, SendPipeInv DEF can_tx_thread
<1>4. QED BY <1>1, <1>2, <1>3 DEF Next, can_bridge_handle_ws_text

-----------------------------------------------------------------------------
(* What follows for every behaviour.                                       *)

LEMMA InitIInv == Init => IInv
  BY InitTypeOK, InitControlInv, InitPipeInv DEF IInv

LEMMA NextIInv == ASSUME IInv, [Next]_vars PROVE IInv'
<1>1. TypeOK /\ ControlInv /\ PipeInv
  BY DEF IInv
<1>2. TypeOK'
  BY <1>1, InitCallTypeOK, ReceiveTypeOK, HandleTypeOK, TxTypeOK,
     StutterTypeOK DEF Next
<1>3. ControlInv'
  BY <1>1, InitCallControlInv, ReceiveControlInv, HandleControlInv,
     TxControlInv, StutterControlInv DEF Next
<1>4. PipeInv'
  BY <1>1, NextPipeInv
<1>5. QED BY <1>2, <1>3, <1>4 DEF IInv

\* The invariant is inductive.
THEOREM Inductive == Spec => []IInv
  BY InitIInv, NextIInv, PTL DEF Spec

\* Serving requests and having the controller on the bus never come apart,
\* however a change of the settings (can_bridge.c:428 to 465) fails.
THEOREM ReadyCorrect == Spec => []ReadyMeansRunning
<1>1. IInv => ReadyMeansRunning
  BY DEF IInv, ControlInv, ReadyInv, ReadyMeansRunning, ConfigBusy,
         ConfigLocked, Ready
<1>2. QED BY <1>1, Inductive, PTL

\* A can.status answer to can.config.set reports the settings asked for, and
\* the controller has them.
THEOREM SettingsCorrect == Spec => []AppliedSettings
<1>1. IInv => AppliedSettings
  BY DEF IInv, ControlInv, ConfigInv
<1>2. QED BY <1>1, Inductive, PTL

\* While a transmission is under way no step touches the controller.
THEOREM ExclusionCorrect == Spec => ReconfigureExclusive
<1>1. IInv /\ [Next]_vars
        => [(txPc \in {"send", "sending"}) => UNCHANGED controller]_vars
  <2> SUFFICES ASSUME IInv, Next, txPc \in {"send", "sending"}
               PROVE  UNCHANGED controller
    OBVIOUS
  <2>1. mainPc = "running" /\ wsPc \notin WsHolds
    BY DEF IInv, ControlInv, MainInv, LockInv, TxHolds
  <2>2. CASE can_bridge_init
    BY <2>1, <2>2 DEF can_bridge_init, InitSetMode, InitStart,
       InitAddFilter, InitSetReady, InitCreateThread, AfterInitCall
  <2>3. CASE ReceiveRequest
    BY <2>3 DEF ReceiveRequest, RejectNotReady, RejectMalformed,
       ReceiveStatus, ReceiveTx, ReceiveConfig, Receive
  <2>4. CASE TxPut \/ SendReply \/ can_bridge_format_status
    BY <2>4 DEF TxPut, SendReply, can_bridge_format_status, StatusLock,
       StatusRead, StatusFormat
  <2>5. CASE handle_can_config_set
    <3>1. CASE ConfigClear \/ ConfigLock \/ ConfigCommit \/ ConfigAbort
               \/ ConfigRelock
      BY <3>1 DEF ConfigClear, ConfigLock, ConfigCommit, ConfigAbort,
         ConfigRelock
    <3>2. CASE ConfigStop \/ ConfigMode \/ ConfigBitrate \/ ConfigStart
      BY <2>1, <3>2 DEF ConfigStop, ConfigMode, ConfigBitrate, ConfigStart,
         AfterConfigCall, WsHolds, ConfigLocked
    <3>3. CASE ConfigRestart
      BY <2>1, <3>3 DEF ConfigRestart, WsHolds, ConfigLocked
    <3>4. QED BY <2>5, <3>1, <3>2, <3>3 DEF handle_can_config_set
  <2>6. CASE can_tx_thread
    BY <2>6 DEF can_tx_thread, TxGet, TxLock, TxSend, TxDone, TxUnlock
  <2>7. QED BY <2>2, <2>3, <2>4, <2>5, <2>6
            DEF Next, can_bridge_handle_ws_text
<1>2. QED BY <1>1, Inductive, PTL DEF Spec, ReconfigureExclusive

\* A step that neither puts a frame into the queue nor hands one to the
\* controller leaves both histories alone.
LEMMA HistoryUnchanged ==
  ASSUME [Next]_vars, ~TxPut, ~TxSend
  PROVE  UNCHANGED <<accepted, handed>>
<1>1. CASE can_bridge_init
  BY <1>1 DEF can_bridge_init, InitSetMode, InitStart, InitAddFilter,
     InitSetReady, InitCreateThread, AfterInitCall, txState
<1>2. CASE ReceiveRequest
  BY <1>2 DEF ReceiveRequest, RejectNotReady, RejectMalformed, ReceiveStatus,
     ReceiveTx, ReceiveConfig, Receive, txState
<1>3. CASE SendReply \/ can_bridge_format_status
  BY <1>3 DEF SendReply, can_bridge_format_status, StatusLock, StatusRead,
     StatusFormat, txState
<1>4. CASE handle_can_config_set
  BY <1>4 DEF handle_can_config_set, ConfigClear, ConfigLock, ConfigStop,
     ConfigMode, ConfigBitrate, ConfigStart, ConfigCommit, ConfigAbort,
     ConfigRelock, ConfigRestart, AfterConfigCall, txState
<1>5. CASE TxGet \/ TxLock \/ TxDone \/ TxUnlock
  BY <1>5 DEF TxGet, TxLock, TxDone, TxUnlock
<1>6. CASE UNCHANGED vars
  BY <1>6 DEF vars, txState
<1>7. QED BY <1>1, <1>2, <1>3, <1>4, <1>5, <1>6
          DEF Next, can_bridge_handle_ws_text, can_tx_thread

\* "queued":true is said only while the controller is on the bus and no
\* change of the settings is under way.
THEOREM AcceptanceCorrect == Spec => AcceptedWhileRunning
<1>1. IInv /\ [Next]_vars
        => [(accepted' # accepted) => can_ready /\ started]_vars
  <2> SUFFICES ASSUME IInv, Next, accepted' # accepted
               PROVE  can_ready /\ started
    OBVIOUS
  <2>1. TxPut \/ TxSend
    BY HistoryUnchanged
  <2>2. TxPut
    BY <2>1 DEF TxSend
  <2>3. QED BY <2>2 DEF TxPut, IInv, ControlInv, ReadyInv, Serving
<1>2. QED BY <1>1, Inductive, PTL DEF Spec, AcceptedWhileRunning

\* The two halves of a concatenation, by position.
LEMMA NextOfPrefix ==
  ASSUME NEW S, NEW s \in Seq(S), NEW e \in S, NEW t \in Seq(S)
  PROVE  /\ Len(s) < Len(s \o <<e>> \o t)
         /\ (s \o <<e>> \o t)[Len(s) + 1] = e
         /\ s \o <<e>> = Append(s, e)
<1>1. /\ <<e>> \in Seq(S) /\ s \o <<e>> \in Seq(S)
      /\ Len(s \o <<e>>) = Len(s) + 1
      /\ (s \o <<e>>)[Len(s) + 1] = e
  BY ConcatProperties
<1> DEFINE se == s \o <<e>>
<1>2. se \in Seq(S) /\ Len(se) = Len(s) + 1 /\ se[Len(s) + 1] = e
  BY <1>1
<1>3. se = Append(s, e)
  BY AppendIsConcat
<1> HIDE DEF se
<1>4. /\ Len(se \o t) = Len(se) + Len(t)
      /\ \A i \in 1 .. Len(se) + Len(t) :
           (se \o t)[i] = IF i <= Len(se) THEN se[i] ELSE t[i - Len(se)]
  BY <1>2, ConcatProperties
<1>5. Len(s) < Len(se \o t) /\ (se \o t)[Len(s) + 1] = e
  BY <1>2, <1>4
<1>6. QED BY <1>3, <1>5 DEF se

\* A put is the pipe's Accept: it has room for the frame.
LEMMA PutImplements ==
  ASSUME IInv, TxPut PROVE Pipe!Accept \/ UNCHANGED Pipe!vars
<1>1. PICK f \in Frames : TxPut!2!(f)
  BY DEF TxPut
<1>2. CASE UNCHANGED accepted
  BY <1>2 DEF TxPut, Pipe!vars
<1>3. CASE /\ Len(can_tx_queue) < TxQueueLen
           /\ accepted' = Append(accepted, f)
  <2>1. /\ handed \in Seq(Frames) /\ in_hand \in Seq(Frames)
        /\ can_tx_queue \in Seq(Frames) /\ Len(in_hand) <= 1
        /\ accepted = handed \o in_hand \o can_tx_queue
    BY DEF IInv, TypeOK, PipeInv
  <2>2. Len(accepted) = Len(handed) + Len(in_hand) + Len(can_tx_queue)
    BY <2>1, ConcatProperties
  <2>3. Pipe!Waiting < TxQueueLen + 1
    BY <1>3, <2>1, <2>2, CanBridgeAssumption DEF Pipe!Waiting
  <2>4. QED BY <1>3, <2>3 DEF Pipe!Accept, TxPut
<1>4. QED BY <1>1, <1>2, <1>3

\* A can_send is the pipe's Hand: the frame is the oldest one waiting.
LEMMA SendImplements == ASSUME IInv, TxSend PROVE Pipe!Hand
<1>1. /\ handed \in Seq(Frames) /\ in_hand \in Seq(Frames)
      /\ can_tx_queue \in Seq(Frames)
      /\ accepted = handed \o in_hand \o can_tx_queue
  BY DEF IInv, TypeOK, PipeInv, TxSend
<1>2. PICK f \in Frames : in_hand = <<f>>
  BY DEF IInv, PipeInv, TxSend
<1>3. /\ Len(handed) < Len(accepted)
      /\ accepted[Len(handed) + 1] = f
      /\ handed \o in_hand = Append(handed, f)
  BY <1>1, <1>2, NextOfPrefix
<1>4. QED BY <1>3 DEF TxSend, Pipe!Hand

\* Threads, queue and lock together are the pipe of TxPipe: every frame
\* answered with "queued":true is offered to the controller once, in order.
THEOREM PipeImplemented == Spec => ImplementsTxPipe
<1>1. Init => Pipe!Init
  BY DEF Init, Pipe!Init
<1>2. IInv /\ [Next]_vars => [Pipe!Next]_(Pipe!vars)
  <2> SUFFICES ASSUME IInv, [Next]_vars
               PROVE  Pipe!Next \/ UNCHANGED Pipe!vars
    OBVIOUS
  <2>1. CASE TxPut
    BY <2>1, PutImplements DEF Pipe!Next
  <2>2. CASE TxSend
    BY <2>2, SendImplements DEF Pipe!Next
  <2>3. CASE ~TxPut /\ ~TxSend
    BY <2>3, HistoryUnchanged DEF Pipe!vars
  <2>4. QED BY <2>1, <2>2, <2>3
<1>3. QED BY <1>1, <1>2, Inductive, PTL
          DEF Spec, ImplementsTxPipe, Pipe!Spec
=============================================================================
