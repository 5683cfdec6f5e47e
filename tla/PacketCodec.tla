---------------------------- MODULE PacketCodec ----------------------------
(***************************************************************************)
(* The bytes of a control packet: what the Write method of each packet     *)
(* type puts on a connection and what its Unpack method makes of a body    *)
(* (src/packets).  A byte is a number below 256 and a string the sequence  *)
(* of its bytes; a packet is its fixed header and its own fields.          *)
(***************************************************************************)
EXTENDS Naturals, Sequences, SequencesExt

\* A message type's number is its place.
PacketNames ==
  <<"CONNECT", "CONNACK", "PUBLISH", "PUBACK", "PUBREC", "PUBREL", "PUBCOMP",
    "SUBSCRIBE", "SUBACK", "UNSUBSCRIBE", "UNSUBACK", "PINGREQ", "PINGRESP",
    "DISCONNECT">>

-----------------------------------------------------------------------------
(* Numbers and strings.                                                    *)

encodeUint16(n) == <<n \div 256, n % 256>>
encodeString(s) == encodeUint16(Len(s)) \o s

\* A read past the end of a body leaves zeros.
decodeByte(b, i) == IF i \in DOMAIN b THEN b[i] ELSE 0
\* Mutant of decodeUint16: the bytes are swapped.
MutDecodeUint16(b, i) == decodeByte(b, i) + 256 * decodeByte(b, i + 1)

decodeUint16(b, i) == 256 * decodeByte(b, i) + decodeByte(b, i + 1)
decodeString(b, i) ==
  [j \in 1 .. decodeUint16(b, i) |-> decodeByte(b, i + 1 + j)]

\* Where the field after the string at i begins.
After(b, i) == i + 2 + decodeUint16(b, i)

boolToByte(x) == IF x THEN 1 ELSE 0
Bit(byte, n) == (byte \div 2 ^ n) % 2 = 1

-----------------------------------------------------------------------------
(* The fixed header.                                                       *)

\* Mutant of encodeLength: the digit that ends a length of 128 is left out.
MutEncodeLength(length) ==
  IF length <= 128 THEN <<length>> ELSE <<128 + (length % 128), length \div 128>>

\* Seven bits to a byte, the eighth set in all but the last.
encodeLength(length) ==
  LET digits[n \in Nat] ==
        IF n < 128 THEN <<n>> ELSE <<128 + (n % 128)>> \o digits[n \div 128]
  IN digits[length]

\* Each digit counts 128 times as much as the one before.  The code keeps 32
\* bits; no Write of a packet that MQTT allows makes a longer length.
decodeLength(digits) ==
  LET value[i \in 1 .. Len(digits) + 1] ==
        IF i > Len(digits) THEN 0 ELSE (digits[i] % 128) + 128 * value[i + 1]
  IN value[1]

Header(type, dup, qos, retain) ==
  [type |-> type, dup |-> dup, qos |-> qos, retain |-> retain]

typeAndFlags(h) ==
  16 * (CHOOSE i \in DOMAIN PacketNames : PacketNames[i] = h.type)
    + 8 * boolToByte(h.dup) + 2 * h.qos + boolToByte(h.retain)

unpack(byte) ==
  Header(PacketNames[byte \div 16], Bit(byte, 3), (byte \div 2) % 4, Bit(byte, 0))

-----------------------------------------------------------------------------
(* The bodies.                                                             *)

ConnectFlags(c) ==
  2 * boolToByte(c.cleanSession) + 4 * boolToByte(c.willFlag) + 8 * c.willQos
    + 32 * boolToByte(c.willRetain) + 64 * boolToByte(c.passwordFlag)
    + 128 * boolToByte(c.usernameFlag)

When(flag, bytes) == IF flag THEN bytes ELSE <<>>

WriteConnect(c) ==
  encodeString(c.protocolName) \o <<c.protocolVersion, ConnectFlags(c)>>
    \o encodeUint16(c.keepaliveTimer) \o encodeString(c.clientIdentifier)
    \o When(c.willFlag, encodeString(c.willTopic) \o encodeString(c.willMessage))
    \o When(c.usernameFlag, encodeString(c.username))
    \o When(c.passwordFlag, encodeString(c.password))

UnpackConnect(b) ==
  LET version == After(b, 1)
      options == decodeByte(b, version + 1)
      will == After(b, version + 4)
      message == After(b, will)
      user == IF Bit(options, 2) THEN After(b, message) ELSE will
      password == IF Bit(options, 7) THEN After(b, user) ELSE user
  IN [protocolName |-> decodeString(b, 1),
      protocolVersion |-> decodeByte(b, version),
      reservedBit |-> options % 2, cleanSession |-> Bit(options, 1),
      willFlag |-> Bit(options, 2), willQos |-> (options \div 8) % 4,
      willRetain |-> Bit(options, 5), passwordFlag |-> Bit(options, 6),
      usernameFlag |-> Bit(options, 7),
      keepaliveTimer |-> decodeUint16(b, version + 2),
      clientIdentifier |-> decodeString(b, version + 4),
      willTopic |-> When(Bit(options, 2), decodeString(b, will)),
      willMessage |-> When(Bit(options, 2), decodeString(b, message)),
      username |-> When(Bit(options, 7), decodeString(b, user)),
      password |-> When(Bit(options, 6), decodeString(b, password))]

\* Mutant of WritePublish: the identifier is written with a QoS of 2 only.
MutWritePublish(h, p) ==
  encodeString(p.topicName) \o When(h.qos > 1, encodeUint16(p.messageID))
    \o p.payload

WritePublish(h, p) ==
  encodeString(p.topicName) \o When(h.qos > 0, encodeUint16(p.messageID))
    \o p.payload

\* The payload begins where the topic or the identifier ends.
PayloadAt(h, b) == After(b, 1) + (IF h.qos > 0 THEN 2 ELSE 0)

UnpackPublish(h, b) ==
  [topicName |-> decodeString(b, 1),
   messageID |-> IF h.qos > 0 THEN decodeUint16(b, After(b, 1)) ELSE 0,
   payload |-> SubSeq(b, PayloadAt(h, b), Len(b))]

WriteSubscribe(s) ==
  encodeUint16(s.messageID)
    \o FlattenSeq([i \in DOMAIN s.topics |->
                     encodeString(s.topics[i]) \o <<s.qoss[i]>>])

\* Topics are read as long as the remaining length lasts.
UnpackSubscribe(b) ==
  LET places[i \in Nat] ==
        IF i > Len(b) THEN <<>> ELSE <<i>> \o places[After(b, i) + 1]
      at == places[3]
  IN [messageID |-> decodeUint16(b, 1),
      topics |-> [i \in DOMAIN at |-> decodeString(b, at[i])],
      qoss |-> [i \in DOMAIN at |-> decodeByte(b, After(b, at[i]))]]

WriteUnsubscribe(u) ==
  encodeUint16(u.messageID)
    \o FlattenSeq([i \in DOMAIN u.topics |-> encodeString(u.topics[i])])

\* Topics are read until one is empty, as it is past the end.
UnpackUnsubscribe(b) ==
  LET topics[i \in Nat] ==
        IF decodeString(b, i) = <<>> THEN <<>>
        ELSE <<decodeString(b, i)>> \o topics[After(b, i)]
  IN [messageID |-> decodeUint16(b, 1), topics |-> topics[3]]

WriteConnack(p) == <<p.topicNameCompression, p.returnCode>>
UnpackConnack(b) ==
  [topicNameCompression |-> decodeByte(b, 1), returnCode |-> decodeByte(b, 2)]

WriteSuback(p) == encodeUint16(p.messageID) \o p.grantedQoss
UnpackSuback(b) ==
  [messageID |-> decodeUint16(b, 1), grantedQoss |-> SubSeq(b, 3, Len(b))]

\* The packets whose body is an identifier, and those that have none.
MessageIDOnly == {"PUBACK", "PUBREC", "PUBREL", "PUBCOMP", "UNSUBACK"}

Body(h, p) ==
  CASE h.type = "CONNECT" -> WriteConnect(p)
    [] h.type = "CONNACK" -> WriteConnack(p)
    [] h.type = "PUBLISH" -> WritePublish(h, p)
    [] h.type = "SUBSCRIBE" -> WriteSubscribe(p)
    [] h.type = "SUBACK" -> WriteSuback(p)
    [] h.type = "UNSUBSCRIBE" -> WriteUnsubscribe(p)
    [] h.type \in MessageIDOnly -> encodeUint16(p.messageID)
    [] OTHER -> <<>>

Write(packet) ==
  LET body == Body(packet.head, packet.body)
  IN <<typeAndFlags(packet.head)>> \o encodeLength(Len(body)) \o body

Fields(h, b) ==
  CASE h.type = "CONNECT" -> UnpackConnect(b)
    [] h.type = "CONNACK" -> UnpackConnack(b)
    [] h.type = "PUBLISH" -> UnpackPublish(h, b)
    [] h.type = "SUBSCRIBE" -> UnpackSubscribe(b)
    [] h.type = "SUBACK" -> UnpackSuback(b)
    [] h.type = "UNSUBSCRIBE" -> UnpackUnsubscribe(b)
    [] h.type \in MessageIDOnly -> [messageID |-> decodeUint16(b, 1)]
    [] OTHER -> [nothing |-> {}]

Unpack(h, b) == [head |-> h, body |-> Fields(h, b)]

\* "make([]byte, payloadLength)" of a negative length.
UnpackPanics(h, b) == h.type = "PUBLISH" /\ PayloadAt(h, b) > Len(b) + 1

-----------------------------------------------------------------------------
(* The packets that a Write and an Unpack agree about.                     *)

Byte == {n \in Nat : n < 256}
Uint16 == {n \in Nat : n < 65536}

\* A string whose length fits in the two bytes that encodeString gives it.
Text == {s \in Seq(Byte) : Len(s) \in Uint16}

FixedHeader ==
  [type : {PacketNames[i] : i \in DOMAIN PacketNames}, dup : BOOLEAN, qos : 0 .. 3,
   retain : BOOLEAN]

\* Write leaves out the fields whose flag is not set, and the reserved bit.
ConnectPacket ==
  {c \in [protocolName : Text, protocolVersion : Byte, reservedBit : {0},
          cleanSession : BOOLEAN, willFlag : BOOLEAN, willQos : 0 .. 3,
          willRetain : BOOLEAN, passwordFlag : BOOLEAN, usernameFlag : BOOLEAN,
          keepaliveTimer : Uint16, clientIdentifier : Text, willTopic : Text,
          willMessage : Text, username : Text, password : Text] :
     /\ ~c.willFlag => c.willTopic = <<>> /\ c.willMessage = <<>>
     /\ ~c.usernameFlag => c.username = <<>>
     /\ ~c.passwordFlag => c.password = <<>>}

\* Without a QoS a PUBLISH has no identifier.
PublishPacket(qos) ==
  [topicName : Text, messageID : IF qos > 0 THEN Uint16 ELSE {0},
   payload : Seq(Byte)]

ConnackPacket == [topicNameCompression : Byte, returnCode : Byte]

SubscribePacket ==
  {s \in [messageID : Uint16, topics : Seq(Text), qoss : Seq(Byte)] :
     Len(s.topics) = Len(s.qoss)}

SubackPacket == [messageID : Uint16, grantedQoss : Seq(Byte)]

\* An empty topic would end the list, and an empty list ends Receive.
UnsubscribePacket ==
  [messageID : Uint16, topics : Seq(Text \ {<<>>}) \ {<<>>}]

Struct(h) ==
  CASE h.type = "CONNECT" -> ConnectPacket
    [] h.type = "CONNACK" -> ConnackPacket
    [] h.type = "PUBLISH" -> PublishPacket(h.qos)
    [] h.type = "SUBSCRIBE" -> SubscribePacket
    [] h.type = "SUBACK" -> SubackPacket
    [] h.type = "UNSUBSCRIBE" -> UnsubscribePacket
    [] h.type \in MessageIDOnly -> [messageID : Uint16]
    [] OTHER -> [nothing : {{}}]

\* Four digits of length are what MQTT allows.
MaxLength == 268435455

WellFormed(p) ==
  /\ p \in [head : FixedHeader, body : Struct(p.head)]
  /\ Len(Body(p.head, p.body)) <= MaxLength

-----------------------------------------------------------------------------
(* The CONNECT that InitClient accepts.                                    *)

MQTT == <<77, 81, 84, 84>>
MQIsdp == <<77, 81, 73, 115, 100, 112>>

\* Mutant of Validate: the name is not looked at.
MutValidate(c) ==
  IF c.passwordFlag /\ ~c.usernameFlag THEN "CONN_REF_BAD_USER_PASS"
  ELSE IF c.reservedBit # 0 THEN "CONN_PROTOCOL_VIOLATION"
  ELSE "CONN_ACCEPTED"

\* No string that was read is longer than 65535.
Validate(c) ==
  IF c.passwordFlag /\ ~c.usernameFlag THEN "CONN_REF_BAD_USER_PASS"
  ELSE IF c.reservedBit # 0 THEN "CONN_PROTOCOL_VIOLATION"
  ELSE IF \/ c.protocolName = MQIsdp /\ c.protocolVersion # 3
          \/ c.protocolName = MQTT /\ c.protocolVersion # 4
    THEN "CONN_REF_BAD_PROTO_VER"
  ELSE IF c.protocolName \notin {MQIsdp, MQTT} THEN "CONN_PROTOCOL_VIOLATION"
  ELSE "CONN_ACCEPTED"
=============================================================================
