----------------------------- MODULE CanMessage -----------------------------
(***************************************************************************)
(* How src/can_bridge.c judges a parsed JSON message and turns it into a   *)
(* CAN frame, and a received frame into a JSON message, against the field  *)
(* rules of docs/protocol.md.  A parsed message has the fields the client  *)
(* sent; the others are zero, false or empty.                              *)
(***************************************************************************)
EXTENDS Integers, Sequences

CONSTANTS CAN_MAX_DLC, CAN_STD_ID_MASK, CAN_EXT_ID_MASK,
          Buses, Ids, Dlcs,  \* values of the number fields of a message
          Bytes              \* values of the elements of "data"

ASSUME CanMessageAssumption ==
  /\ CAN_MAX_DLC \in 0..255
  /\ CAN_STD_ID_MASK \in Nat /\ CAN_EXT_ID_MASK \in Nat
  /\ Buses \subseteq Int /\ Ids \subseteq Int /\ Dlcs \subseteq Int
  /\ Bytes \subseteq Int

VARIABLES msg,     \* struct can_json_message and the fields bitmap
          outcome, \* the answer
          frame    \* what is put into can_tx_queue

vars == <<msg, outcome, frame>>

Types  == {"absent", "can.tx", "can.status", "can.config.get",
           "can.config.set", "other"}
Fields == {"bus", "id", "dlc", "data"}

\* json_obj_parse: an absent field stays zero.
Messages ==
  {m \in [fields : SUBSET Fields, type : Types, bus : Buses, id : Ids,
          ext : BOOLEAN, rtr : BOOLEAN, dlc : Dlcs,
          data : UNION {[1..n -> Bytes] : n \in 0..CAN_MAX_DLC}] :
     /\ "bus"  \notin m.fields => m.bus = 0
     /\ "id"   \notin m.fields => m.id = 0
     /\ "dlc"  \notin m.fields => m.dlc = 0
     /\ "data" \notin m.fields => m.data = <<>>}

NoFrame == [id |-> 0, flags |-> {}, dlc |-> 0, data |-> <<>>]

Init ==
  /\ msg \in Messages
  /\ outcome = "none"
  /\ frame = NoFrame

-----------------------------------------------------------------------------
\* The checks of validate_can_json, in its order.
Checks == <<"missing_field", "unsupported_bus", "invalid_dlc", "invalid_id",
            "missing_data", "data_length_mismatch", "rtr_has_data",
            "invalid_data">>

HasData(m) == "data" \in m.fields

\* fault: a limit taken for the first value outside
InvalidDlcAtLimit(m) == m.dlc < 0 \/ m.dlc >= CAN_MAX_DLC
InvalidDlc(m) == m.dlc < 0 \/ m.dlc > CAN_MAX_DLC

\* fault: no check of the sign
InvalidIdUnsigned(m) ==
  m.id > (IF m.ext THEN CAN_EXT_ID_MASK ELSE CAN_STD_ID_MASK)
InvalidId(m) == \/ m.id < 0
                \/ ~m.ext /\ m.id > CAN_STD_ID_MASK
                \/ m.ext /\ m.id > CAN_EXT_ID_MASK

Fails(m) ==
  [missing_field        |-> ~({"bus", "id", "dlc"} \subseteq m.fields),
   unsupported_bus      |-> m.bus # 0,
   invalid_dlc          |-> InvalidDlc(m),
   invalid_id           |-> InvalidId(m),
   missing_data         |-> ~m.rtr /\ m.dlc > 0 /\ ~HasData(m),
   data_length_mismatch |-> ~m.rtr /\ Len(m.data) # m.dlc,
   rtr_has_data         |-> m.rtr /\ HasData(m) /\ Len(m.data) > 0,
   invalid_data         |-> \E i \in 1..Len(m.data) :
                              m.data[i] < 0 \/ m.data[i] > 255]

FirstFailure(m, i) ==
  /\ Fails(m)[Checks[i]]
  /\ \A j \in 1..(i - 1) : ~Fails(m)[Checks[j]]

\* fault: an extended frame goes out as a standard one
FlagsOfStandard(m) == IF m.rtr THEN {"RTR"} ELSE {}
FlagsOf(m) == (IF m.ext THEN {"IDE"} ELSE {}) \cup
              (IF m.rtr THEN {"RTR"} ELSE {})

\* The C casts to the frame's uint8_t dlc and data; id, an int32_t that is
\* not negative, fits its uint32_t.  The bytes past data_len stay zero.
FrameOf(m) ==
  [id    |-> m.id,
   flags |-> FlagsOf(m),
   dlc   |-> m.dlc % 256,
   data  |-> [i \in 1..CAN_MAX_DLC |->
                IF i <= Len(m.data) THEN m.data[i] % 256 ELSE 0]]

\* can_bridge_format_next_rx: the message a received frame becomes.
RxMessage(f) ==
  [id |-> f.id, ext |-> "IDE" \in f.flags, rtr |-> "RTR" \in f.flags,
   dlc |-> f.dlc, data |-> [i \in 1..f.dlc |-> f.data[i]]]

Keep(o) == outcome' = o /\ UNCHANGED <<msg, frame>>

\* A message without a type asks for a transmission.
IsTx == msg.type \in {"absent", "can.tx"}

Dispatch ==
  /\ outcome = "none"
  /\ ~IsTx
  /\ Keep(CASE msg.type \in {"can.status", "can.config.get"} -> "status"
            [] msg.type = "can.config.set" -> "config"
            [] OTHER -> "unsupported_type")

Refuse ==
  /\ outcome = "none"
  /\ IsTx
  /\ \E i \in 1..Len(Checks) : FirstFailure(msg, i) /\ Keep(Checks[i])

Queue ==
  /\ outcome = "none"
  /\ IsTx
  /\ \A i \in 1..Len(Checks) : ~Fails(msg)[Checks[i]]
  /\ frame' = FrameOf(msg)
  /\ outcome' = "queued"
  /\ UNCHANGED msg

Next == Dispatch \/ Refuse \/ Queue

Spec == Init /\ [][Next]_vars

-----------------------------------------------------------------------------
(* Properties.                                                             *)

Outcomes == {"none", "status", "config", "unsupported_type", "queued"} \cup
            {Checks[i] : i \in 1..Len(Checks)}

\* The type of every variable; a frame fits struct can_frame.
TypeOK ==
  /\ msg \in Messages
  /\ outcome \in Outcomes
  /\ frame.id \in Nat
  /\ frame.flags \subseteq {"IDE", "RTR"}
  /\ frame.dlc \in 0..255
  /\ \A i \in DOMAIN frame.data : frame.data[i] \in 0..255

\* The Field Rules of docs/protocol.md, as they stand there.
FieldRules(m) ==
  /\ {"bus", "id", "dlc"} \subseteq m.fields
  /\ m.bus = 0
  /\ m.dlc \in 0..CAN_MAX_DLC
  /\ m.id \in (IF m.ext THEN 0..CAN_EXT_ID_MASK ELSE 0..CAN_STD_ID_MASK)
  /\ (~m.rtr /\ m.dlc > 0) => "data" \in m.fields
  /\ ~m.rtr => Len(m.data) = m.dlc
  /\ m.rtr => m.data = <<>>
  /\ \A i \in DOMAIN m.data : m.data[i] \in 0..255

\* The checks of the code, one after another, accept exactly the requests the
\* protocol allows, and refuse every other one with a code of theirs.
AcceptsExactly ==
  (outcome # "none" /\ IsTx) => (outcome = "queued") <=> FieldRules(msg)

\* A data frame that comes back, in loopback mode or from another bridge, is
\* reported as it was asked for: no cast and no offset loses anything.
LoopbackSame ==
  (outcome = "queued" /\ ~msg.rtr) =>
    RxMessage(frame) = [id |-> msg.id, ext |-> msg.ext, rtr |-> msg.rtr,
                        dlc |-> msg.dlc, data |-> msg.data]
=============================================================================
