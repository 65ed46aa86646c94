----------------------------- MODULE CanBridge -----------------------------
(***************************************************************************)
(* src/can_bridge.c: the CAN controller and the threads that drive it.     *)
(*                                                                         *)
(*   main   runs can_bridge_init once                                      *)
(*   ws     the WebSocket thread: one JSON request at a time, through      *)
(*          can_bridge_handle_ws_text                                      *)
(*   tx     can_tx_thread: takes frames from can_tx_queue and blocks in    *)
(*          can_send until the controller is done with each                *)
(*                                                                         *)
(* A thread's program counter names the call it makes next; the kernel     *)
(* may switch threads between any two steps.  The controller is Zephyr's   *)
(* MCP2515 driver as this code uses it: it is configured only while        *)
(* stopped, a start or stop of what is already started or stopped returns  *)
(* -EALREADY, and every call may fail and then changes nothing.            *)
(***************************************************************************)
EXTENDS Integers, Sequences

CONSTANTS Frames,          \* valid CAN frames a client may send
          BitrateFields,   \* values of the "bitrate" field of a request
          DefaultBitrate,  \* CONFIG_CAN_DEFAULT_BITRATE
          TxQueueLen,      \* CAN_TX_QUEUE_LEN
          MaxAccepted      \* bound: a run sends no frame after this many

ASSUME CanBridgeAssumption ==
  /\ BitrateFields \subseteq Int
  /\ DefaultBitrate \in Int /\ DefaultBitrate > 0
  /\ TxQueueLen \in Nat \ {0}
  /\ MaxAccepted \in Nat

VARIABLES
  started,          \* the driver's own flag: the controller is on the bus
  hwMode,           \* the mode the driver was last given
  hwBitrate,        \* the bitrate the driver was last given
  can_ready,        \* requests are served
  current_mode,     \* the mode can.status reports
  current_bitrate,  \* the bitrate can.status reports
  can_tx_queue,     \* frames accepted, oldest first
  can_lock,         \* the owner of the mutex
  mainPc,           \* main in can_bridge_init
  wsPc,             \* the WebSocket thread
  request,          \* msg.type of the request it serves
  cfg,              \* locals mode and bitrate of handle_can_config_set
  reply,            \* the JSON answer, as far as a property reads it
  txPc,             \* can_tx_thread
  in_hand,          \* its local frame: the sequence of at most one frame
  accepted,         \* history: frames answered with "queued":true
  handed            \* history: frames given to can_send

controller == <<started, hwMode, hwBitrate>>
settings   == <<current_mode, current_bitrate>>
txState    == <<can_tx_queue, txPc, in_hand, accepted, handed>>
wsLocals   == <<request, cfg, reply>>
vars == <<controller, can_ready, settings, can_lock, mainPc, wsPc, wsLocals,
          txState>>

Modes     == {"normal", "loopback", "listen-only"}
ModeNames == Modes \cup {"unknown"}
Bitrates  == {b \in BitrateFields : b > 0} \cup {DefaultBitrate}

Requests == {"none", "malformed", "can.status", "can.config.set", "can.tx"}

NoReply == [kind |-> "none"]
NoCfg   == [mode |-> "normal", bitrate |-> DefaultBitrate]

Init ==
  /\ started = FALSE
  /\ hwMode = "normal"
  /\ hwBitrate = DefaultBitrate
  /\ can_ready = FALSE
  /\ current_mode = "normal"
  /\ current_bitrate = DefaultBitrate
  /\ can_tx_queue = <<>>
  /\ can_lock = "none"
  /\ mainPc = "set_mode"
  /\ wsPc = "idle"
  /\ request = "none"
  /\ cfg = NoCfg
  /\ reply = NoReply
  /\ txPc = "none"
  /\ in_hand = <<>>
  /\ accepted = <<>>
  /\ handed = <<>>

-----------------------------------------------------------------------------
(* The driver calls, by their result: ret is "ok", "EALREADY" or "error".  *)

Returns == {"ok", "EALREADY", "error"}

can_start(ret) ==
  /\ \/ started  /\ ret = "EALREADY" /\ UNCHANGED started
     \/ ~started /\ ret = "ok"       /\ started' = TRUE
     \/ ~started /\ ret = "error"    /\ UNCHANGED started
  /\ UNCHANGED <<hwMode, hwBitrate>>

can_stop(ret) ==
  /\ \/ ~started /\ ret = "EALREADY" /\ UNCHANGED started
     \/ started  /\ ret = "ok"       /\ started' = FALSE
     \/ started  /\ ret = "error"    /\ UNCHANGED started
  /\ UNCHANGED <<hwMode, hwBitrate>>

\* -EBUSY while the controller runs.
can_set_mode(mode, ret) ==
  /\ ret # "EALREADY"
  /\ ret = "ok" => ~started
  /\ hwMode' = IF ret = "ok" THEN mode ELSE hwMode
  /\ UNCHANGED <<started, hwBitrate>>

can_set_bitrate(bitrate, ret) ==
  /\ ret # "EALREADY"
  /\ ret = "ok" => ~started
  /\ hwBitrate' = IF ret = "ok" THEN bitrate ELSE hwBitrate
  /\ UNCHANGED <<started, hwMode>>

Take(t)    == can_lock = "none" /\ can_lock' = t
Release(t) == can_lock = t /\ can_lock' = "none"

-----------------------------------------------------------------------------
(* main: can_bridge_init takes no lock.  A failed call returns before the  *)
(* requests are let in, and nothing calls it again.                        *)

AfterInitCall(pc, ret, next) ==
  /\ mainPc = pc
  /\ mainPc' = IF ret = "error" THEN "failed" ELSE next
  /\ UNCHANGED <<can_ready, settings, can_lock, wsPc, wsLocals, txState>>

\* An unready device ends the same way as a refused mode.
InitSetMode == \E ret \in Returns :
  can_set_mode(current_mode, ret) /\ AfterInitCall("set_mode", ret, "start")

InitStart == \E ret \in Returns :
  can_start(ret) /\ AfterInitCall("start", ret, "add_filter")

InitAddFilter ==
  /\ mainPc = "add_filter"
  /\ mainPc' \in {"set_ready", "failed"}
  /\ UNCHANGED <<controller, can_ready, settings, can_lock, wsPc, wsLocals,
                 txState>>

InitSetReady ==
  /\ mainPc = "set_ready"
  /\ can_ready' = TRUE
  /\ mainPc' = "create_thread"
  /\ UNCHANGED <<controller, settings, can_lock, wsPc, wsLocals, txState>>

InitCreateThread ==
  /\ mainPc = "create_thread"
  /\ txPc' = "get"
  /\ mainPc' = "running"
  /\ UNCHANGED <<controller, can_ready, settings, can_lock, wsPc, wsLocals,
                 can_tx_queue, in_hand, accepted, handed>>

can_bridge_init == \/ InitSetMode \/ InitStart \/ InitAddFilter
                   \/ InitSetReady \/ InitCreateThread

-----------------------------------------------------------------------------
(* ws: can_bridge_handle_ws_text.                                          *)

Answer(r) == reply' = r /\ wsPc' = "reply"
Error(code) == Answer([kind |-> code])

Receive(type) ==
  /\ wsPc = "idle"
  /\ request' = type
  /\ UNCHANGED <<controller, can_ready, settings, can_lock, mainPc, txState>>

RejectNotReady ==
  \E type \in Requests \ {"none"} :
    /\ Receive(type)
    /\ ~can_ready
    /\ Error("can_not_ready")
    /\ UNCHANGED cfg

\* Too large, not JSON, an unsupported type, or a frame validate_can_json
\* refuses.
RejectMalformed ==
  /\ Receive("malformed")
  /\ can_ready
  /\ Error("malformed")
  /\ UNCHANGED cfg

ReceiveStatus ==
  /\ Receive("can.status")
  /\ can_ready
  /\ wsPc' = "status_lock"
  /\ UNCHANGED <<cfg, reply>>

\* fault: queues a frame for a controller that is not ready
ReceiveTxUnready ==
  /\ Receive("can.tx")
  /\ Len(accepted) < MaxAccepted
  /\ wsPc' = "put"
  /\ UNCHANGED <<cfg, reply>>

ReceiveTx ==
  /\ Receive("can.tx")
  /\ can_ready
  /\ Len(accepted) < MaxAccepted
  /\ wsPc' = "put"
  /\ UNCHANGED <<cfg, reply>>

\* fault: accepts a bitrate of zero
BadBitrateOffByOne(b) == b < 0
BadBitrate(b) == b <= 0

\* An absent field means the setting recorded last.
ReceiveConfig ==
  \E fields \in SUBSET {"bitrate", "mode"},
     bitrate \in BitrateFields, mode \in ModeNames :
    /\ Receive("can.config.set")
    /\ can_ready
    /\ IF "bitrate" \in fields /\ BadBitrate(bitrate)
         THEN Error("invalid_bitrate") /\ UNCHANGED cfg
       ELSE IF "mode" \in fields /\ mode \notin Modes
         THEN Error("invalid_mode") /\ UNCHANGED cfg
       ELSE /\ cfg' = [mode    |-> IF "mode" \in fields
                                     THEN mode ELSE current_mode,
                       bitrate |-> IF "bitrate" \in fields
                                     THEN bitrate ELSE current_bitrate]
            /\ wsPc' = "cfg_clear"
            /\ UNCHANGED reply

\* k_msgq_put with K_NO_WAIT.
TxPut ==
  /\ wsPc = "put"
  /\ \E f \in Frames :
       IF Len(can_tx_queue) < TxQueueLen
         THEN /\ can_tx_queue' = Append(can_tx_queue, f)
              /\ accepted' = Append(accepted, f)
              /\ Answer([kind |-> "can.tx"])
         ELSE /\ Error("can_tx_failed")
              /\ UNCHANGED <<can_tx_queue, accepted>>
  /\ UNCHANGED <<controller, can_ready, settings, can_lock, mainPc, request,
                 cfg, txPc, in_hand, handed>>

\* send_websocket_frame; the next request can come.
SendReply ==
  /\ wsPc = "reply"
  /\ wsPc' = "idle"
  /\ request' = "none"
  /\ cfg' = NoCfg
  /\ reply' = NoReply
  /\ UNCHANGED <<controller, can_ready, settings, can_lock, mainPc, txState>>

(* can_bridge_format_status: the lock is held for can_get_state only, the  *)
(* settings are read after it is released.                                 *)

StatusLock ==
  /\ wsPc = "status_lock"
  /\ Take("ws")
  /\ wsPc' = "status_read"
  /\ UNCHANGED <<controller, can_ready, settings, mainPc, wsLocals, txState>>

StatusRead ==
  /\ wsPc = "status_read"
  /\ Release("ws")
  /\ \/ wsPc' = "status_format" /\ UNCHANGED reply
     \/ Error("can_status_failed")
  /\ UNCHANGED <<controller, can_ready, settings, mainPc, request, cfg,
                 txState>>

StatusFormat ==
  /\ wsPc = "status_format"
  /\ Answer([kind |-> "can.status", ready |-> can_ready,
             mode |-> current_mode, bitrate |-> current_bitrate])
  /\ UNCHANGED <<controller, can_ready, settings, can_lock, mainPc, request,
                 cfg, txState>>

(* handle_can_config_set.                                                  *)

ConfigClear ==
  /\ wsPc = "cfg_clear"
  /\ can_ready' = FALSE
  /\ wsPc' = "cfg_lock"
  /\ UNCHANGED <<controller, settings, can_lock, mainPc, wsLocals, txState>>

\* fault: changes the settings without the lock
ConfigWithoutLock ==
  /\ wsPc = "cfg_lock"
  /\ wsPc' = "cfg_stop"
  /\ UNCHANGED <<controller, can_ready, settings, can_lock, mainPc, wsLocals,
                 txState>>

ConfigLock ==
  /\ wsPc = "cfg_lock"
  /\ Take("ws")
  /\ wsPc' = "cfg_stop"
  /\ UNCHANGED <<controller, can_ready, settings, mainPc, wsLocals, txState>>

\* After a driver call; a failure goes to out, -EALREADY is none.
AfterConfigCall(pc, ret, next) ==
  /\ wsPc = pc
  /\ wsPc' = IF ret = "error" THEN "cfg_abort" ELSE next
  /\ UNCHANGED <<can_ready, settings, can_lock, mainPc, wsLocals, txState>>

ConfigStop == \E ret \in Returns :
  can_stop(ret) /\ AfterConfigCall("cfg_stop", ret, "cfg_mode")

ConfigMode == \E ret \in Returns :
  can_set_mode(cfg.mode, ret) /\ AfterConfigCall("cfg_mode", ret, "cfg_bitrate")

ConfigBitrate == \E ret \in Returns :
  /\ can_set_bitrate(cfg.bitrate, ret)
  /\ AfterConfigCall("cfg_bitrate", ret, "cfg_start")

ConfigStart == \E ret \in Returns :
  can_start(ret) /\ AfterConfigCall("cfg_start", ret, "cfg_commit")

\* fault: forgets one of the two settings
RecordModeOnly == current_mode' = cfg.mode /\ UNCHANGED current_bitrate
RecordSettings == current_mode' = cfg.mode /\ current_bitrate' = cfg.bitrate

ConfigCommit ==
  /\ wsPc = "cfg_commit"
  /\ RecordSettings
  /\ can_ready' = TRUE
  /\ Release("ws")
  /\ wsPc' = "status_lock"
  /\ UNCHANGED <<controller, mainPc, wsLocals, txState>>

\* A failed change releases the lock and takes it again to restart.
ConfigAbort ==
  /\ wsPc = "cfg_abort"
  /\ Release("ws")
  /\ wsPc' = "cfg_relock"
  /\ UNCHANGED <<controller, can_ready, settings, mainPc, wsLocals, txState>>

ConfigRelock ==
  /\ wsPc = "cfg_relock"
  /\ Take("ws")
  /\ wsPc' = "cfg_restart"
  /\ UNCHANGED <<controller, can_ready, settings, mainPc, wsLocals, txState>>

\* fault: takes the restart for granted
ReadyInAnyCase(ret) == TRUE
ReadyAfter(ret) == IF ret = "error" THEN can_ready ELSE TRUE

\* fault: returns with the lock held
ConfigRestartKeepsLock ==
  /\ wsPc = "cfg_restart"
  /\ \E ret \in Returns : can_start(ret) /\ can_ready' = ReadyAfter(ret)
  /\ Error("can_config_failed")
  /\ UNCHANGED <<settings, can_lock, mainPc, request, cfg, txState>>

ConfigRestart ==
  /\ wsPc = "cfg_restart"
  /\ \E ret \in Returns : can_start(ret) /\ can_ready' = ReadyAfter(ret)
  /\ Release("ws")
  /\ Error("can_config_failed")
  /\ UNCHANGED <<settings, mainPc, request, cfg, txState>>

handle_can_config_set ==
  \/ ConfigClear \/ ConfigLock \/ ConfigStop \/ ConfigMode \/ ConfigBitrate
  \/ ConfigStart \/ ConfigCommit \/ ConfigAbort \/ ConfigRelock
  \/ ConfigRestart

can_bridge_format_status == StatusLock \/ StatusRead \/ StatusFormat

ReceiveRequest == \/ RejectNotReady \/ RejectMalformed \/ ReceiveStatus
                  \/ ReceiveTx \/ ReceiveConfig

can_bridge_handle_ws_text ==
  TxPut \/ can_bridge_format_status \/ handle_can_config_set \/ SendReply

-----------------------------------------------------------------------------
(* tx: can_tx_thread.                                                      *)

\* fault: leaves the frame in the queue
TxPeek ==
  /\ txPc = "get"
  /\ can_tx_queue # <<>>
  /\ in_hand' = <<Head(can_tx_queue)>>
  /\ txPc' = "lock"
  /\ UNCHANGED <<controller, can_ready, settings, can_lock, mainPc, wsPc,
                 wsLocals, can_tx_queue, accepted, handed>>

TxGet ==
  /\ txPc = "get"
  /\ can_tx_queue # <<>>
  /\ in_hand' = <<Head(can_tx_queue)>>
  /\ can_tx_queue' = Tail(can_tx_queue)
  /\ txPc' = "lock"
  /\ UNCHANGED <<controller, can_ready, settings, can_lock, mainPc, wsPc,
                 wsLocals, accepted, handed>>

TxLock ==
  /\ txPc = "lock"
  /\ Take("tx")
  /\ txPc' = "send"
  /\ UNCHANGED <<controller, can_ready, settings, mainPc, wsPc, wsLocals,
                 can_tx_queue, in_hand, accepted, handed>>

\* fault: a refused frame is dropped before the unlock
AfterSendForgetful == IF started THEN {"sending", "unlock"} ELSE {"get"}
AfterSend == IF started THEN {"sending", "unlock"} ELSE {"unlock"}

\* can_send: -ENETDOWN while stopped, or an error (no mailbox in
\* CAN_TX_TIMEOUT, SPI): the frame is dropped.  Otherwise the caller, which
\* passes no callback, sleeps until the controller is done with the frame.
TxSend ==
  /\ txPc = "send"
  /\ handed' = handed \o in_hand
  /\ in_hand' = <<>>
  /\ txPc' \in AfterSend
  /\ UNCHANGED <<controller, can_ready, settings, can_lock, mainPc, wsPc,
                 wsLocals, can_tx_queue, accepted>>

\* A controller in listen-only mode never sends what it was given.
TxDone ==
  /\ txPc = "sending"
  /\ hwMode # "listen-only"
  /\ txPc' = "unlock"
  /\ UNCHANGED <<controller, can_ready, settings, can_lock, mainPc, wsPc,
                 wsLocals, can_tx_queue, in_hand, accepted, handed>>

TxUnlock ==
  /\ txPc = "unlock"
  /\ Release("tx")
  /\ txPc' = "get"
  /\ UNCHANGED <<controller, can_ready, settings, mainPc, wsPc, wsLocals,
                 can_tx_queue, in_hand, accepted, handed>>

can_tx_thread == TxGet \/ TxLock \/ TxSend \/ TxDone \/ TxUnlock

-----------------------------------------------------------------------------
Next == \/ can_bridge_init
        \/ ReceiveRequest
        \/ can_bridge_handle_ws_text
        \/ can_tx_thread

\* Ready threads of equal priority take turns, and k_mutex_unlock hands the
\* mutex to a waiting thread, so a thread that waits for a lock released
\* again and again gets it.  That a frame ends once it is being sent is the
\* bus's part: another node acknowledges it.  Clients send when they like.
Fairness ==
  /\ WF_vars(can_bridge_init)
  /\ WF_vars(can_bridge_handle_ws_text)
  /\ WF_vars(can_tx_thread)
  /\ SF_vars(StatusLock)
  /\ SF_vars(ConfigLock)
  /\ SF_vars(ConfigRelock)
  /\ SF_vars(TxLock)

Spec == Init /\ [][Next]_vars

FairSpec == Spec /\ Fairness

-----------------------------------------------------------------------------
(* Properties.                                                             *)

MainPcs == {"set_mode", "start", "add_filter", "set_ready", "create_thread",
            "running", "failed"}
ConfigLocked == {"cfg_stop", "cfg_mode", "cfg_bitrate", "cfg_start",
                 "cfg_commit", "cfg_abort", "cfg_restart"}
WsHolds == ConfigLocked \cup {"status_read"}
WsPcs == WsHolds \cup {"idle", "put", "reply", "status_lock",
                       "status_format", "cfg_clear", "cfg_lock", "cfg_relock"}
TxHolds == {"send", "sending", "unlock"}
TxPcs == TxHolds \cup {"none", "get", "lock"}

ErrorCodes == {"can_not_ready", "malformed", "invalid_bitrate",
               "invalid_mode", "can_tx_failed", "can_status_failed",
               "can_config_failed"}
StatusReplies == [kind : {"can.status"}, ready : BOOLEAN, mode : Modes,
                  bitrate : Bitrates]
Replies == [kind : ErrorCodes \cup {"none", "can.tx"}] \cup StatusReplies

\* The type of every variable; the queue and the frame in hand keep to
\* their sizes, and no bitrate but a positive one is recorded or given to
\* the controller (can_bridge.c:410 refuses the others).
TypeOK ==
  /\ started \in BOOLEAN
  /\ hwMode \in Modes
  /\ hwBitrate \in Bitrates
  /\ can_ready \in BOOLEAN
  /\ current_mode \in Modes
  /\ current_bitrate \in Bitrates
  /\ can_tx_queue \in Seq(Frames) /\ Len(can_tx_queue) <= TxQueueLen
  /\ can_lock \in {"none", "ws", "tx"}
  /\ mainPc \in MainPcs
  /\ wsPc \in WsPcs
  /\ request \in Requests
  /\ cfg \in [mode : Modes, bitrate : Bitrates]
  /\ reply \in Replies
  /\ txPc \in TxPcs
  /\ in_hand \in Seq(Frames) /\ Len(in_hand) <= 1
  /\ accepted \in Seq(Frames)
  /\ handed \in Seq(Frames)

\* A bridge that serves requests has its controller on the bus, and a bridge
\* at rest whose controller runs serves requests: no path of a failed change
\* (can_bridge.c:428 to 465) leaves the two apart, whichever call failed and
\* wherever the transmit thread was.
ReadyMeansRunning ==
  /\ can_ready => started
  /\ (mainPc = "running" /\ wsPc = "idle" /\ started) => can_ready

\* A can.status answer to can.config.set tells the truth: the controller
\* runs, with the settings asked for, and they are the ones reported, even
\* though can_bridge_format_status reads them without the lock.
AppliedSettings ==
  (request = "can.config.set" /\ reply.kind = "can.status") =>
    /\ started /\ reply.ready
    /\ hwMode = cfg.mode /\ reply.mode = cfg.mode
    /\ hwBitrate = cfg.bitrate /\ reply.bitrate = cfg.bitrate

\* "a mutex around controller reconfiguration" (docs/sdd.md): from the start
\* of a transmission to its end nobody stops, starts or reconfigures the
\* controller, neither a request nor can_bridge_init, which takes no lock.
ReconfigureExclusive ==
  [][(txPc \in {"send", "sending"}) => UNCHANGED controller]_vars

\* "queued":true is said of a frame only while the controller is on the bus:
\* the check of can_ready at can_bridge.c:484 still holds at the put, and no
\* change of the settings is under way.
AcceptedWhileRunning ==
  [][accepted' # accepted => can_ready /\ started]_vars

\* The threads, the queue and the lock together are the pipe clients are
\* promised: every accepted frame is offered to the controller once and in
\* order, one of them in the worker's hand and the others in the queue.
Pipe == INSTANCE TxPipe WITH Room <- TxQueueLen + 1
ImplementsTxPipe == Pipe!Spec

\* can_send waits for a controller that will not send.
TxStuck == txPc = "sending" /\ hwMode = "listen-only"

\* Every request is answered, whichever driver call fails, unless the
\* transmit thread is stuck with the lock.
EveryRequestAnswered ==
  (wsPc # "idle") ~> (wsPc = "idle" \/ TxStuck)

\* Every accepted frame reaches can_send, unless the worker is stuck.
EveryFrameHanded ==
  \A n \in 1..MaxAccepted :
    (Len(accepted) >= n) ~> (Len(handed) >= n \/ TxStuck)

\* docs/protocol.md of can.status: "mode" and "bitrate" are the
\* controller's.  Violated by a can.config.set that fails after
\* can_set_mode: the restart at can_bridge.c:461 runs the new mode while
\* current_mode keeps the old one.
StatusTruthful ==
  reply.kind = "can.status" =>
    reply.mode = hwMode /\ reply.bitrate = hwBitrate

\* docs/sdd.md: the loop "sends JSON replies for TX, status, config, and
\* errors".  Violated in listen-only mode: can_tx_thread sleeps in can_send
\* with can_lock (can_bridge.c:211) and the next status or config request
\* waits for the lock for ever.
AlwaysAnswered == (wsPc # "idle") ~> (wsPc = "idle")
=============================================================================
