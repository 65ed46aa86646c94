------------------------------- MODULE WsFrame -------------------------------
(***************************************************************************)
(* The WebSocket framing of src/http_server.c: what websocket_echo_loop    *)
(* reads from its client and what it answers.                              *)
(*                                                                         *)
(* The bytes a client sends are pairs: of the frame they belong to, by its *)
(* number, and of the part: the two bytes that begin a frame are one, part *)
(* HEAD, the extended length is part EXT, the masking key part KEY, and    *)
(* what follows is the payload byte by byte.  The server does not know     *)
(* which part it reads; it goes by the fields of the frame whose head it   *)
(* took.                                                                   *)
(***************************************************************************)
EXTENDS Connection

CONSTANTS SMALL_MAX,       \* 125: the largest length in the second byte
          WS_MAX_PAYLOAD,
          MASK_LEN,        \* 4
          ReplyLens        \* lengths of the JSON replies

ASSUME WsFrameAssumption ==
  /\ SMALL_MAX \in Nat
  /\ WS_MAX_PAYLOAD \in Nat
  /\ MASK_LEN \in Nat \ {0}
  /\ ReplyLens \subseteq Nat

VARIABLES
  frames,   \* the frames this client sends in its life
  wsPc,     \* websocket_thread
  got,      \* what it has read of the frame it is at
  replies   \* the frames sent to the client

wsVars == <<frames, wsPc, got, replies>>

HEAD == 0
EXT  == 1
KEY  == 2

\* The values of the second byte that announce an extended length.
Len16 == SMALL_MAX + 1
Len64 == SMALL_MAX + 2

\* What a client that sends the frames fs puts on the wire for frame n.
WireOf(fs, n) ==
  LET f == fs[n]
  IN  <<<<n, HEAD>>>>
      \o (IF f.form = Len16 THEN <<<<n, EXT>>>> ELSE <<>>)
      \o (IF f.masked THEN <<<<n, KEY>>>> ELSE <<>>)
      \o [i \in 1..f.len |-> <<n, KEY + i>>]

Wire(n) == WireOf(frames, n)

Current == frames[Head(got)[1]]

-----------------------------------------------------------------------------
(* What the server sends: send_websocket_frame.                            *)

LengthFields(len) == IF len <= SMALL_MAX THEN <<len>> ELSE <<Len16, len>>

FrameOut(opcode, payload) ==
  [opcode |-> opcode, length |-> LengthFields(Len(payload)),
   payload |-> payload]

Send(opcode, payload) == replies' = Append(replies, FrameOut(opcode, payload))

-----------------------------------------------------------------------------
(* websocket_echo_loop.                                                    *)

Step(from, to) == wsPc = from /\ wsPc' = to

\* fault: polls although the frame is in the buffer already
SocketOnly == socket # <<>> \/ left
SomethingToRead == pending # <<>> \/ socket # <<>> \/ left

\* A poll that times out changes nothing.
PollClient ==
  /\ Step("poll", "head")
  /\ SomethingToRead
  /\ got' = <<>>
  /\ UNCHANGED <<connection, frames, replies>>

PollFails ==
  /\ Step("poll", "close")
  /\ pending = <<>>
  /\ UNCHANGED <<connection, frames, got, replies>>

\* Reading of n more bytes, or the end of the loop.
Read(n) == ws_recv_exact(n) /\ got' = got \o ExactData(n)

ReadFails ==
  /\ \/ wsPc \in {"head", "ext", "mask"} /\ RecvExactFails(1)
     \/ wsPc = "payload" /\ RecvExactFails(Current.len)
  /\ wsPc' = "close"
  /\ UNCHANGED <<connection, frames, got, replies>>

\* Answers with an empty close frame, whether or not it gets through.
Refuse == Send("close", <<>>) /\ wsPc' = "close"

Supported(f) == f.masked /\ f.len <= WS_MAX_PAYLOAD

CheckFrame(f) ==
  IF Supported(f) THEN wsPc' = "mask" /\ UNCHANGED replies ELSE Refuse

ReadHead ==
  /\ wsPc = "head"
  /\ Read(1)
  /\ LET f == frames[Head(got')[1]]
     IN  CASE f.form = Len16 -> wsPc' = "ext" /\ UNCHANGED replies
           [] f.form = Len64 -> Refuse
           [] OTHER          -> CheckFrame(f)
  /\ UNCHANGED frames

ReadExt ==
  /\ wsPc = "ext"
  /\ Read(1)
  /\ CheckFrame(Current)
  /\ UNCHANGED frames

ReadMask ==
  /\ Step("mask", "payload")
  /\ Read(1)
  /\ UNCHANGED <<frames, replies>>

ReadPayload ==
  /\ Step("payload", "dispatch")
  /\ Read(Current.len)
  /\ UNCHANGED <<frames, replies>>

\* fault: one byte of the key for all
FirstKeyByte(i) == 0
KeyByte(i) == i % MASK_LEN

\* The client masks byte i with byte i % 4 of the key; another byte of the
\* key gives something else, which the model marks with a 0.
Unmasked ==
  LET wire == Drop(got, Len(got) - Current.len)
  IN  [i \in 1..Len(wire) |->
         IF KeyByte(i - 1) = (i - 1) % MASK_LEN THEN wire[i] ELSE <<0, i>>]

Dispatching(opcodes) ==
  /\ wsPc = "dispatch"
  /\ Current.opcode \in opcodes
  /\ UNCHANGED <<connection, frames, got>>

HandleClose ==
  /\ Dispatching({"close"})
  /\ Send("close", Unmasked)
  /\ wsPc' = "close"

HandlePing ==
  /\ Dispatching({"ping"})
  /\ Send("pong", Unmasked)
  /\ wsPc' = "poll"

TextOpcodes == {"text", "continuation"}

\* Binary frames, and a pong of the client as well.
HandleOther ==
  /\ wsPc = "dispatch"
  /\ Current.opcode \notin TextOpcodes \cup {"close", "ping"}
  /\ Refuse
  /\ UNCHANGED <<connection, frames, got>>

\* can_bridge_handle_ws_text takes the payload as one message and always
\* leaves a reply; FIN is not looked at.
HandleText ==
  /\ Dispatching(TextOpcodes)
  /\ \E len \in ReplyLens :
       Send("text", [i \in 1..len |-> <<Head(got)[1], i>>])
  /\ wsPc' \in {"poll", "close"}

websocket_echo_loop ==
  \/ PollClient \/ ReadHead \/ ReadExt \/ ReadMask \/ ReadPayload \/ ReadFails
  \/ HandleClose \/ HandlePing \/ HandleOther \/ HandleText

-----------------------------------------------------------------------------
(* Properties.                                                             *)

\* What a client may send as a frame; opcodes beyond these are answered as
\* "pong" is.
FrameType ==
  [opcode : TextOpcodes \cup {"ping", "pong", "close"}, masked : BOOLEAN,
   form : {0, Len16, Len64}, len : Nat]

Reading == {"head", "ext", "mask", "payload", "dispatch"}

\* The loop keeps in step with its client's frames: what it takes for the
\* head, the length, the key and the payload of the next frame are these,
\* although they come partly from the buffer of the HTTP request and partly
\* from the socket (http_server.c:660), and every frame before was read to
\* its end.
FramesInStep ==
  (wsPc \in Reading /\ got # <<>>) =>
    got = Take(Wire(Len(replies) + 1), Len(got))

\* The length a receiver of RFC 6455 takes from the fields.
DecodedLength(fields) ==
  IF fields[1] = Len16 THEN fields[2] ELSE fields[1]

\* What the frame f, number n, asks for, checks and order of the code aside:
\* an opcode and, for an echo, the payload.
Answers(f, n, reply) ==
  LET plain == [i \in 1..f.len |-> <<n, KEY + i>>]
      legal == f.masked /\ f.form # Len64 /\ f.len <= WS_MAX_PAYLOAD
  IN  CASE legal /\ f.opcode \in TextOpcodes -> reply.opcode = "text"
        [] legal /\ f.opcode = "ping" ->
             reply.opcode = "pong" /\ reply.payload = plain
        [] legal /\ f.opcode = "close" ->
             reply.opcode = "close" /\ reply.payload = plain
        [] OTHER -> reply.opcode = "close" /\ reply.payload = <<>>

\* Every frame read gets one answer, in order: an echo carries the client's
\* own bytes unmasked, a close is the last, and each length can be decoded.
OneAnswerEach ==
  \A n \in 1..Len(replies) :
    LET r == replies[n]
    IN  /\ Answers(frames[n], n, r)
        /\ DecodedLength(r.length) = Len(r.payload)
        /\ r.opcode = "close" => n = Len(replies)
=============================================================================
