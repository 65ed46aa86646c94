-------------------------- MODULE CanMessageProofs --------------------------
(***************************************************************************)
(* Theorems about CanMessage, for all limits and all values of the fields. *)
(***************************************************************************)
EXTENDS CanMessage, SequenceTheorems, TLAPS

\* What the parser leaves in struct can_json_message.
LEMMA Parsed ==
  ASSUME NEW m \in Messages
  PROVE  /\ m.fields \subseteq Fields /\ m.type \in Types
         /\ m.bus \in Int /\ m.id \in Int /\ m.dlc \in Int
         /\ m.ext \in BOOLEAN /\ m.rtr \in BOOLEAN
         /\ m.data \in Seq(Int) /\ Len(m.data) \in 0..CAN_MAX_DLC
         /\ DOMAIN m.data = 1..Len(m.data)
         /\ Len(m.data) = 0 <=> m.data = <<>>
         /\ ~HasData(m) => m.data = <<>>
<1>1. m \in [fields : SUBSET Fields, type : Types, bus : Buses, id : Ids,
             ext : BOOLEAN, rtr : BOOLEAN, dlc : Dlcs,
             data : UNION {[1..n -> Bytes] : n \in 0..CAN_MAX_DLC}]
  BY DEF Messages
<1>2. "data" \notin m.fields => m.data = <<>>
  BY DEF Messages
<1>3. PICK n \in 0..CAN_MAX_DLC : m.data \in [1..n -> Bytes]
  BY <1>1
<1>4. m.data \in Seq(Int) /\ Len(m.data) = n /\ DOMAIN m.data = 1..n
  <2>1. n \in Nat /\ m.data \in [1..n -> Int]
    <3>1. n \in Nat
      BY CanMessageAssumption
    <3>2. [1..n -> Bytes] \subseteq [1..n -> Int]
      BY CanMessageAssumption
    <3>3. QED BY <1>3, <3>1, <3>2
  <2>2. m.data \in Seq(Int)
    BY <2>1, SeqDef
  <2>3. /\ Len(m.data) \in Nat /\ DOMAIN m.data = 1..Len(m.data)
        /\ DOMAIN m.data = 1..n
    BY <2>1, <2>2, LenProperties
  <2>4. Len(m.data) = n
    <3> HIDE DEF Messages
    <3>1. 1..Len(m.data) = 1..n
      BY <2>3
    <3>2. QED BY <2>1, <2>3, <3>1
  <2>5. QED BY <2>2, <2>3, <2>4
<1>5. Len(m.data) = 0 <=> m.data = <<>>
  <2>1. m.data # <<>> => Len(m.data) \in Nat \ {0}
    BY <1>4, EmptySeq
  <2>2. m.data = <<>> => Len(m.data) = 0
    BY EmptySeq
  <2>3. QED BY <2>1, <2>2
<1>6. QED BY <1>1, <1>2, <1>3, <1>4, <1>5, CanMessageAssumption DEF HasData

\* A cast to uint8_t leaves a byte alone.
LEMMA Byte == ASSUME NEW b \in 0..255 PROVE b % 256 = b
  OBVIOUS

\* No check fails.
Passes(m) == \A i \in 1..Len(Checks) : ~Fails(m)[Checks[i]]

LEMMA PassesEach ==
  ASSUME NEW m
  PROVE  Passes(m) <=> LET f == Fails(m)
                       IN  /\ ~f.missing_field /\ ~f.unsupported_bus
                           /\ ~f.invalid_dlc /\ ~f.invalid_id
                           /\ ~f.missing_data /\ ~f.data_length_mismatch
                           /\ ~f.rtr_has_data /\ ~f.invalid_data
<1> DEFINE f == Fails(m)
<1>1. Len(Checks) = 8 /\ 1..8 = {1, 2, 3, 4, 5, 6, 7, 8}
  BY DEF Checks
<1>2. /\ Checks[1] = "missing_field" /\ Checks[2] = "unsupported_bus"
      /\ Checks[3] = "invalid_dlc" /\ Checks[4] = "invalid_id"
      /\ Checks[5] = "missing_data" /\ Checks[6] = "data_length_mismatch"
      /\ Checks[7] = "rtr_has_data" /\ Checks[8] = "invalid_data"
  BY DEF Checks
<1> HIDE DEF f
<1>3. (\A i \in 1..Len(Checks) : ~f[Checks[i]]) <=>
        /\ ~f.missing_field /\ ~f.unsupported_bus
        /\ ~f.invalid_dlc /\ ~f.invalid_id
        /\ ~f.missing_data /\ ~f.data_length_mismatch
        /\ ~f.rtr_has_data /\ ~f.invalid_data
  BY <1>1, <1>2
<1>4. QED BY <1>3 DEF Passes, f

\* The checks of validate_can_json together are the rules of the protocol.
LEMMA PassesRules ==
  ASSUME NEW m \in Messages PROVE Passes(m) <=> FieldRules(m)
<1>1. /\ m.bus \in Int /\ m.id \in Int /\ m.dlc \in Int
      /\ m.data \in Seq(Int) /\ Len(m.data) \in Nat
      /\ DOMAIN m.data = 1..Len(m.data)
      /\ Len(m.data) = 0 <=> m.data = <<>>
      /\ ~HasData(m) => m.data = <<>>
  BY Parsed
<1>2. \A i \in 1..Len(m.data) : m.data[i] \in Int
  BY <1>1
<1>3. CAN_MAX_DLC \in Int /\ CAN_STD_ID_MASK \in Int /\ CAN_EXT_ID_MASK \in Int
  BY CanMessageAssumption
<1>4. Passes(m) <=>
        /\ {"bus", "id", "dlc"} \subseteq m.fields
        /\ m.bus = 0
        /\ ~InvalidDlc(m)
        /\ ~InvalidId(m)
        /\ ~(~m.rtr /\ m.dlc > 0 /\ ~HasData(m))
        /\ ~(~m.rtr /\ Len(m.data) # m.dlc)
        /\ ~(m.rtr /\ HasData(m) /\ Len(m.data) > 0)
        /\ \A i \in 1..Len(m.data) : ~(m.data[i] < 0 \/ m.data[i] > 255)
  BY PassesEach DEF Fails
<1>5. ~InvalidDlc(m) <=> m.dlc \in 0..CAN_MAX_DLC
  BY <1>1, <1>3 DEF InvalidDlc
<1>6. ~InvalidId(m) <=>
        m.id \in (IF m.ext THEN 0..CAN_EXT_ID_MASK ELSE 0..CAN_STD_ID_MASK)
  BY <1>1, <1>3 DEF InvalidId
<1>7. (\A i \in 1..Len(m.data) : ~(m.data[i] < 0 \/ m.data[i] > 255)) <=>
        \A i \in DOMAIN m.data : m.data[i] \in 0..255
  <2>1. \A i \in 1..Len(m.data) :
          ~(m.data[i] < 0 \/ m.data[i] > 255) <=> m.data[i] \in 0..255
    <3>1. \A b \in Int : ~(b < 0 \/ b > 255) <=> b \in 0..255
      OBVIOUS
    <3>2. QED BY <1>2, <3>1, Zenon
  <2>2. DOMAIN m.data = 1..Len(m.data)
    BY <1>1
  <2>3. QED BY <2>1, <2>2, Zenon
<1>8. ~(m.rtr /\ HasData(m) /\ Len(m.data) > 0) <=> (m.rtr => m.data = <<>>)
  BY <1>1
<1>9. /\ ~(~m.rtr /\ m.dlc > 0 /\ ~HasData(m)) <=>
           ((~m.rtr /\ m.dlc > 0) => "data" \in m.fields)
      /\ ~(~m.rtr /\ Len(m.data) # m.dlc) <=> (~m.rtr => Len(m.data) = m.dlc)
  BY Zenon DEF HasData
<1>10. ASSUME Passes(m) PROVE FieldRules(m)
  BY <1>4, <1>5, <1>6, <1>7, <1>8, <1>9, <1>10 DEF FieldRules
<1>11. ASSUME FieldRules(m) PROVE Passes(m)
  BY <1>4, <1>5, <1>6, <1>7, <1>8, <1>9, <1>11 DEF FieldRules
<1>12. QED BY <1>10, <1>11, Zenon DEF Passes, FieldRules

-----------------------------------------------------------------------------
(* The inductive invariant.                                                *)

\* What an answer says of the message it answers.
Judged ==
  /\ msg \in Messages
  /\ outcome \in Outcomes
  /\ IF outcome = "queued" THEN IsTx /\ Passes(msg) /\ frame = FrameOf(msg)
                           ELSE frame = NoFrame
  /\ outcome \in {Checks[i] : i \in 1..Len(Checks)} => ~Passes(msg)
  /\ outcome \in {"status", "config", "unsupported_type"} => ~IsTx

\* The codes of the checks and the other answers are told apart.
LEMMA Codes ==
  {Checks[i] : i \in 1..Len(Checks)} =
    {"missing_field", "unsupported_bus", "invalid_dlc", "invalid_id",
     "missing_data", "data_length_mismatch", "rtr_has_data", "invalid_data"}
<1>1. Len(Checks) = 8 /\ 1..8 = {1, 2, 3, 4, 5, 6, 7, 8}
  BY DEF Checks
<1>2. /\ Checks[1] = "missing_field" /\ Checks[2] = "unsupported_bus"
      /\ Checks[3] = "invalid_dlc" /\ Checks[4] = "invalid_id"
      /\ Checks[5] = "missing_data" /\ Checks[6] = "data_length_mismatch"
      /\ Checks[7] = "rtr_has_data" /\ Checks[8] = "invalid_data"
  BY DEF Checks
<1>3. {Checks[i] : i \in 1..Len(Checks)} =
        {Checks[1], Checks[2], Checks[3], Checks[4], Checks[5], Checks[6],
         Checks[7], Checks[8]}
  BY <1>1
<1>4. QED BY <1>2, <1>3

\* The answer of can_bridge_handle_ws_text is the one its branches give.
THEOREM Judgement == Spec => []Judged
<1>1. Init => Judged
  BY Codes DEF Init, Judged, Outcomes
<1>2. Judged /\ [Next]_vars => Judged'
  <2> SUFFICES ASSUME Judged, [Next]_vars PROVE Judged'
    OBVIOUS
  <2>1. CASE Dispatch
    BY <2>1, Codes DEF Dispatch, Keep, Judged, Outcomes, IsTx
  <2>2. CASE Refuse
    <3>1. PICK i \in 1..Len(Checks) : FirstFailure(msg, i) /\ Keep(Checks[i])
      BY <2>2 DEF Refuse
    <3>2. ~Passes(msg) /\ outcome' \in {Checks[j] : j \in 1..Len(Checks)}
      BY <3>1 DEF Passes, FirstFailure, Keep
    <3>3. msg' = msg /\ frame' = NoFrame
      BY <2>2, <3>1 DEF Refuse, Keep, Judged
    <3>4. ~Passes(msg') /\ msg' \in Messages
      BY <3>2, <3>3 DEF Judged
    <3>5. QED BY <3>2, <3>3, <3>4, Codes DEF Judged, Outcomes
  <2>3. CASE Queue
    <3>1. /\ msg' = msg /\ outcome' = "queued" /\ frame' = FrameOf(msg)
          /\ IsTx /\ Passes(msg)
      BY <2>3 DEF Queue, Passes
    <3>2. IsTx' /\ Passes(msg') /\ frame' = FrameOf(msg')
      BY <3>1 DEF IsTx
    <3>3. QED BY <3>1, <3>2, Codes DEF Judged, Outcomes
  <2>4. CASE UNCHANGED vars
    BY <2>4 DEF vars, Judged, IsTx
  <2>5. QED BY <2>1, <2>2, <2>3, <2>4 DEF Next
<1>3. QED BY <1>1, <1>2, PTL DEF Spec

\* validate_can_json (can_bridge.c:345) accepts the transmit requests that keep
\* the field rules and no others, wherever the limits are.
THEOREM AcceptanceExact == Spec => []AcceptsExactly
<1>1. Judged => AcceptsExactly
  <2> SUFFICES ASSUME Judged, outcome # "none", IsTx
               PROVE  (outcome = "queued") <=> FieldRules(msg)
    BY DEF AcceptsExactly
  <2>1. Passes(msg) <=> FieldRules(msg)
    BY PassesRules DEF Judged
  <2>2. CASE outcome = "queued"
    BY <2>1, <2>2 DEF Judged
  <2>3. CASE outcome # "queued"
    <3>1. outcome \in {Checks[i] : i \in 1..Len(Checks)}
      BY <2>3 DEF Judged, Outcomes
    <3>2. ~Passes(msg)
      BY <3>1 DEF Judged
    <3>3. QED BY <2>1, <2>3, <3>2
  <2>4. QED BY <2>2, <2>3
<1>2. QED BY <1>1, Judgement, PTL

\* The message of a frame that passed is the one asked for: nothing is lost in
\* the casts to uint8_t (can_bridge.c:527), and
\* can_bridge_format_next_rx takes each byte from its place.
THEOREM LoopbackExact == Spec => []LoopbackSame
<1>1. Judged => LoopbackSame
  <2> SUFFICES ASSUME Judged, outcome = "queued", ~msg.rtr
               PROVE  RxMessage(frame) =
                        [id |-> msg.id, ext |-> msg.ext, rtr |-> msg.rtr,
                         dlc |-> msg.dlc, data |-> msg.data]
    BY DEF LoopbackSame
  <2>1. frame = FrameOf(msg) /\ FieldRules(msg) /\ msg \in Messages
    BY PassesRules DEF Judged
  <2>2. /\ msg.ext \in BOOLEAN /\ msg.rtr \in BOOLEAN
        /\ msg.data \in Seq(Int) /\ Len(msg.data) = msg.dlc
        /\ DOMAIN msg.data = 1..Len(msg.data)
    BY <2>1, Parsed DEF FieldRules
  <2>3. msg.dlc \in 0..CAN_MAX_DLC /\ CAN_MAX_DLC \in 0..255
    BY <2>1, CanMessageAssumption DEF FieldRules
  <2>4. frame.dlc = msg.dlc
    <3>1. frame.dlc = msg.dlc % 256
      BY <2>1 DEF FrameOf
    <3>2. msg.dlc \in 0..255
      BY <2>3
    <3>3. QED BY <3>1, <3>2, Byte
  <2>5. /\ ("IDE" \in frame.flags) = msg.ext
        /\ ("RTR" \in frame.flags) = msg.rtr
        /\ frame.id = msg.id
    BY <2>1, <2>2 DEF FrameOf, FlagsOf
  <2>6. [i \in 1..frame.dlc |-> frame.data[i]] = msg.data
    <3>1. ASSUME NEW i \in 1..msg.dlc PROVE frame.data[i] = msg.data[i]
      <4>1. i \in 1..CAN_MAX_DLC /\ i <= Len(msg.data) /\ i \in DOMAIN msg.data
        BY <2>2, <2>3
      <4>2. msg.data[i] \in 0..255
        BY <2>1, <4>1 DEF FieldRules
      <4>3. frame.data[i] = msg.data[i] % 256
        BY <2>1, <4>1 DEF FrameOf
      <4>4. QED BY <4>2, <4>3, Byte
    <3>2. msg.data = [i \in 1..msg.dlc |-> msg.data[i]]
      BY <2>2
    <3>3. QED BY <2>4, <3>1, <3>2
  <2>7. QED BY <2>4, <2>5, <2>6 DEF RxMessage
<1>2. QED BY <1>1, Judgement, PTL

\* Every variable keeps its type: what is put into can_tx_queue fits struct
\* can_frame, its identifier is not negative and its bytes are bytes.
THEOREM MessageTypes == Spec => []TypeOK
<1>1. Judged => TypeOK
  <2> SUFFICES ASSUME Judged PROVE TypeOK
    OBVIOUS
  <2>1. msg \in Messages /\ outcome \in Outcomes
    BY DEF Judged
  <2>2. CASE frame = NoFrame
    BY <2>1, <2>2 DEF NoFrame, TypeOK
  <2>3. CASE outcome = "queued"
    <3>1. frame = FrameOf(msg) /\ FieldRules(msg)
      BY <2>1, <2>3, PassesRules DEF Judged
    <3>2. msg.id \in Nat
      BY <3>1, CanMessageAssumption DEF FieldRules
    <3>3. /\ msg.dlc \in Int /\ msg.data \in Seq(Int)
          /\ DOMAIN msg.data = 1..Len(msg.data)
      BY <2>1, Parsed
    <3>4. frame.dlc \in 0..255
      <4>1. msg.dlc \in 0..255
        <5>1. msg.dlc \in 0..CAN_MAX_DLC
          BY <3>1 DEF FieldRules
        <5>2. QED BY <5>1, CanMessageAssumption
      <4>2. QED BY <3>1, <4>1, Byte DEF FrameOf
    <3>5. ASSUME NEW i \in DOMAIN frame.data PROVE frame.data[i] \in 0..255
      <4>1. /\ i \in 1..CAN_MAX_DLC
            /\ frame.data[i] =
                 IF i <= Len(msg.data) THEN msg.data[i] % 256 ELSE 0
        <5>1. frame.data = [j \in 1..CAN_MAX_DLC |->
                   IF j <= Len(msg.data) THEN msg.data[j] % 256 ELSE 0]
          BY <3>1 DEF FrameOf
        <5>2. i \in 1..CAN_MAX_DLC
          BY <5>1
        <5>3. QED BY <5>1, <5>2
      <4>2. CASE i <= Len(msg.data)
        <5>1. i \in 1..Len(msg.data)
          BY <3>3, <4>1, <4>2, CanMessageAssumption
        <5>2. msg.data[i] \in 0..255
          BY <3>1, <3>3, <5>1 DEF FieldRules
        <5>3. QED BY <4>1, <4>2, <5>2, Byte
      <4>3. QED BY <4>1, <4>2
    <3>6. frame.id \in Nat /\ frame.flags \subseteq {"IDE", "RTR"}
      BY <3>1, <3>2 DEF FrameOf, FlagsOf
    <3>7. QED BY <2>1, <3>4, <3>5, <3>6 DEF TypeOK
  <2>4. QED BY <2>2, <2>3 DEF Judged
<1>2. QED BY <1>1, Judgement, PTL
=============================================================================
