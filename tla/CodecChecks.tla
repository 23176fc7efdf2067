---------------------------- MODULE CodecChecks -----------------------------
(* What the client writes against what its readers, a broker and a WebSocket  *)
(* peer take from it, for every message of a set of lengths, every            *)
(* configuration of a set of values, and every length of a frame.             *)
EXTENDS Connect, WebSocket

CONSTANTS Topics, Datas, MessageIds,  \* lengths, lengths, ids
          FrameLengths,
          Configs, UserInfos  \* <<user, whether a colon follows, password>>

Built == ({mqtt_msg_publish(t, d, q, id) : t \in Topics, d \in Datas, q \in 0..2, id \in MessageIds}
          \cup {AckMessage(t, q, id) : t \in PUBACK..PUBCOMP, q \in 0..1, id \in MessageIds}
          \cup {TopicMessage(t, n, id) : t \in {SUBSCRIBE, UNSUBSCRIBE}, n \in Topics, id \in MessageIds}
          \cup {EmptyMessage(t) : t \in PINGREQ..DISCONNECT})
         \ {FailMessage}

(* The id the client's reader returns: the message's own where it has one  *)
(* and the reader finds it, and else 0.  It does not find the id of a      *)
(* PUBLISH that ends with the last byte of the buffer, as its check asks   *)
(* for one byte more, nor that of a SUBSCRIBE whose length takes two       *)
(* bytes, and has no case for an UNSUBSCRIBE.                              *)
IdRead(m) ==
    IF \/ m.type = PUBLISH /\ m.qos > 0 /\ DataAt(m) < BufferLength
       \/ m.type \in PUBACK..PUBCOMP
       \/ m.type = SUBSCRIBE /\ Len(m.field) = 1
    THEN m.id ELSE 0

(* What the client's readers take from the bytes of a message.             *)
ClientReads(m) ==
    LET n == Size(m)
    IN  /\ mqtt_get_type(m) = m.type /\ mqtt_get_qos(m) = m.qos
        /\ m.type = PUBLISH =>
             /\ mqtt_get_publish_topic(m, n) = [at |-> TopicAt(m) + 2, len |-> m.topic]
             /\ LET data == mqtt_get_publish_data(m, n)
                IN  data.len = m.data /\ (m.data > 0 => data.at = DataAt(m))
        /\ mqtt_get_id(m, BufferLength) = IdRead(m)

(* A broker finds id and topic of a subscription, and its last byte.       *)
TopicReads(m) ==
    m.type \in {SUBSCRIBE, UNSUBSCRIBE} =>
        LET id == FieldEnd(m, Size(m))
        IN  /\ Word16(m, id) = m.id
            /\ Word16(m, id + 2) = m.topic
            /\ id + 4 + m.topic = Size(m) - IF m.type = SUBSCRIBE THEN 1 ELSE 0

AllReadBack == \A m \in Built : /\ Size(m) <= BufferLength
                                /\ mqtt_get_total_length(m, Size(m)) = Size(m)
                                /\ ClientReads(m) /\ TopicReads(m)
-----------------------------------------------------------------------------
ConfigTypes == [client_id : Texts, username : Texts, password : Texts,
                lwt_topic : Texts, lwt_msg : Texts, lwt_msg_len : Nat,
                lwt_qos : 0..2, lwt_retain : BOOLEAN, disable_clean_session : BOOLEAN,
                keepalive : Nat]

(* What the documentation of the configuration lets the application        *)
(* expect: a URI's credentials before those given apart, no will without   *)
(* a topic, a clean session and a keep-alive unless told otherwise.        *)
Wanted(config, u) ==
    LET info  == UserInfo(u[1], u[2], u[3])
        orNull(text) == IF Given(text) THEN text ELSE Null
        msg   == IF config.lwt_msg_len = 0 THEN config.lwt_msg
                 ELSE Text(config.lwt_msg.is, config.lwt_msg_len)
    IN  [name      |-> IF CONFIG_MQTT_PROTOCOL_311 THEN Name311 ELSE Name31,
         client_id |-> IF config.client_id = Null THEN GeneratedId ELSE config.client_id,
         will      |-> IF Given(config.lwt_topic)
                       THEN <<config.lwt_topic, msg, config.lwt_qos, config.lwt_retain>>
                       ELSE <<>>,
         username  |-> orNull(IF HasUserInfo(info) THEN info.user ELSE config.username),
         password  |-> orNull(IF info.colon THEN info.pass ELSE config.password),
         clean     |-> ~config.disable_clean_session,
         keepalive |-> IF config.keepalive = 0 THEN MQTT_KEEPALIVE_TICK ELSE config.keepalive]

(* Every string is there because a flag announces it.                      *)
ConnectIsRead(config, u) ==
    LET m == mqtt_msg_connect(esp_mqtt_client_set_uri(esp_mqtt_set_config(config),
                                                      UserInfo(u[1], u[2], u[3])))
        read == BrokerReads(m)
    IN  m # FailMessage =>
            /\ read.strings = Len(m.strings)
            /\ \A field \in DOMAIN Wanted(config, u) : read[field] = Wanted(config, u)[field]

EveryConnectIsRead == \A config \in Configs, u \in UserInfos : ConnectIsRead(config, u)
-----------------------------------------------------------------------------
(* A server finds the payload of every frame of the client behind a header *)
(* that fits its array, and the client that of every frame of a server.    *)
(* ws_write says of itself that it has no more than 16 bits of length.     *)
EveryFrameIsRead ==
    \A n \in FrameLengths :
        /\ n < 2^16 =>
               LET sent == ws_write(n)
               IN  /\ HeaderLength(sent) <= MAX_WEBSOCKET_HEADER_SIZE
                   /\ SizeRead(sent).len = n /\ SizeRead(sent).at = Len(sent.head)
        /\ ws_read(ServerFrame(n)) =
               [at |-> Len(ServerFrame(n).head), len |-> n, intact |-> n]
=============================================================================
