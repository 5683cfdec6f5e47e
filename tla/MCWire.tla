------------------------------- MODULE MCWire -------------------------------
(***************************************************************************)
(* A small instance of Wire for TLC: packets of every shape, with every    *)
(* optional field present and absent, and bodies on both sides of 128      *)
(* bytes, where the length takes a second digit.                           *)
(***************************************************************************)
EXTENDS WireInv

Packed(head, body) == [head |-> head, body |-> body]
Plain(type) == Header(type, FALSE, 0, FALSE)
Zeros(n) == [i \in 1 .. n |-> 0]

Connect(name, version, clean, will, user, password) ==
  Packed(Plain("CONNECT"),
    [protocolName |-> name, protocolVersion |-> version, reservedBit |-> 0,
     cleanSession |-> clean, willFlag |-> will,
     willQos |-> IF will THEN 2 ELSE 0, willRetain |-> will,
     passwordFlag |-> password, usernameFlag |-> user,
     keepaliveTimer |-> 300, clientIdentifier |-> <<7>>,
     willTopic |-> When(will, <<5, 6>>), willMessage |-> When(will, <<9>>),
     username |-> When(user, <<3, 4>>), password |-> When(password, <<8>>)])

Publish(dup, qos, retain, id, topic, payload) ==
  Packed(Header("PUBLISH", dup, qos, retain),
         [topicName |-> topic, messageID |-> id, payload |-> payload])

WithID(type, qos, id) ==
  Packed(Header(type, FALSE, qos, FALSE), [messageID |-> id])

Packets ==
  {Connect(MQTT, 4, TRUE, TRUE, TRUE, TRUE),
   Connect(MQTT, 4, FALSE, FALSE, TRUE, FALSE),
   Connect(MQIsdp, 3, TRUE, TRUE, FALSE, FALSE)}
  \cup {Packed(Plain("CONNACK"), [topicNameCompression |-> 0, returnCode |-> 2])}
  \cup {Publish(TRUE, 2, TRUE, 258, <<1, 2>>, <<3>>),
        Publish(FALSE, 1, FALSE, 65535, <<1>>, Zeros(122)),
        Publish(FALSE, 1, FALSE, 256, <<1>>, Zeros(123)),
        Publish(FALSE, 0, TRUE, 0, <<1>>, <<>>)}
  \cup {WithID(type, 0, 1) : type \in {"PUBACK", "UNSUBACK"}}
  \cup {WithID("PUBREL", 1, 513)}
  \cup {Packed(Header("SUBSCRIBE", FALSE, 1, FALSE),
          [messageID |-> 10, topics |-> <<<<1, 2>>, <<3>>>>, qoss |-> <<2, 0>>]),
        Packed(Plain("SUBACK"), [messageID |-> 10, grantedQoss |-> <<2, 0>>]),
        Packed(Header("UNSUBSCRIBE", FALSE, 1, FALSE),
          [messageID |-> 11, topics |-> <<<<1, 2>>, <<3>>>>])}
  \cup {Packed(Plain(type), [nothing |-> {}]) :
          type \in {"PINGREQ", "DISCONNECT"}}
=============================================================================
