----------------------------- MODULE MCDeliver ------------------------------
(* Deliver with messages that need up to sixteen reads of a buffer of eight   *)
(* bytes; and the codec with a larger buffer and every message, CONNECT and   *)
(* frame that can be built from sets of lengths.                              *)
EXTENDS Deliver

Incoming(topic, data, qos) ==
    [type |-> PUBLISH, qos |-> qos, field |-> LengthField(2 + topic + IdLength(qos) + data),
     topic |-> topic, id |-> 7, data |-> data]

SmallPublishes == {Incoming(t, d, q) : t \in 1..2, d \in {0, 1, 2, 9}, q \in 0..2}

NothingOrMore == {0, 2}
-----------------------------------------------------------------------------
CONSTANTS Large,  \* the larger buffer
          CONFIG_MQTT_PROTOCOL_311, Topics, Datas, MessageIds, FrameLengths,
          Configs, UserInfos

(* fini_message writes two bytes of length at most: 2^14 - 1 behind the    *)
(* fixed header.  Where the configuration says nothing, the buffer is of   *)
(* 1024 bytes.  ServerFrame writes the lengths that fit three bytes.       *)
ASSUME CodecAssumption ==
    /\ Large \in Nat /\ 3 <= Large /\ Large <= 16386
    /\ Topics \subseteq Nat /\ Datas \subseteq Nat
    /\ \A id \in MessageIds : id \in Nat /\ id < 65536
    /\ \A len \in FrameLengths : len \in Nat /\ len < 16777216

Codec == INSTANCE CodecChecks WITH BufferLength <- Large

(* The keep-alive is an int of which the message takes two bytes, and      *)
(* nothing checks it: what is said of CONNECT is said where they hold it.  *)
ASSUME ConnectAssumption ==
    /\ Configs \subseteq Codec!ConfigTypes /\ \A c \in Configs : c.keepalive < 65536
    /\ UserInfos \subseteq Codec!Texts \X BOOLEAN \X Codec!Texts

(* A text is a record of what it says and its length; NULL and "" have     *)
(* none.                                                                   *)
Said(is, len) == [is |-> is, len |-> len]
Unsaid == {Said("NULL", 0), Said("", 0)}

SomeConfigs ==
    [client_id : Unsaid \cup {Said("id", 23)},
     username : {Said("NULL", 0), Said("user", 5)},
     password : Unsaid \cup {Said("pass", 300)},
     lwt_topic : Unsaid \cup {Said("will", 10)},
     lwt_msg : {Said("NULL", 0), Said("gone", 100)}, lwt_msg_len : {0, 84},
     lwt_qos : 0..2, lwt_retain : BOOLEAN, disable_clean_session : BOOLEAN,
     keepalive : {0, 1, 256, 65535}]

SomeUserInfos == {Said("NULL", 0), Said("other", 7)} \X BOOLEAN
                 \X {Said("NULL", 0), Said("secret", 200)}

(* What the client's readers take from the bytes of whatever mqtt_msg.c    *)
(* builds is right: the length of the message, its type and QoS from the   *)
(* first byte, where topic and data of a PUBLISH lie, and the id, except   *)
(* for the messages whose id mqtt_get_id does not find (IdRead names       *)
(* them); and a broker finds id and topic of a subscription.               *)
ReadBack == step = "deliver" => Codec!AllReadBack

(* The peer knows the client by the CONNECT it read: every string in it is *)
(* announced by its flag, and the broker reads what was configured.        *)
ConnectReadBack == step = "deliver" => Codec!EveryConnectIsRead

(* Over WebSocket, a whole frame in one read gives the message back, on    *)
(* both sides of every length at which the header changes.                 *)
FramesReadBack == step = "deliver" => Codec!EveryFrameIsRead
=============================================================================
