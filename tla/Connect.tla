------------------------------ MODULE Connect -------------------------------
(***************************************************************************)
(* From the configuration the application passes to the CONNECT message:   *)
(* esp_mqtt_set_config and esp_mqtt_client_set_uri of mqtt_client.c fill   *)
(* connect_info, mqtt_msg_connect of mqtt_msg.c builds the message from    *)
(* it.  A string is what it says and its length; NULL and "" have none.    *)
(***************************************************************************)
EXTENDS MqttMsg

CONSTANT CONFIG_MQTT_PROTOCOL_311  \* of Kconfig; TRUE unless it is changed

Text(is, len) == [is |-> is, len |-> len]
Texts == [is : STRING, len : Nat]
Null  == Text("NULL", 0)
Empty == Text("", 0)

Given(text) == text.len > 0

MQTT_KEEPALIVE_TICK == 120
MQTT_MSG_TYPE_CONNECT == 1

(* platform_create_id_string: "ESP32_" and six digits.                     *)
GeneratedId == Text("ESP32_", 12)

(* connect_info after esp_mqtt_set_config; lwt_msg_len, where it is given, *)
(* overrides the length of the string.                                     *)
esp_mqtt_set_config(config) ==
    [client_id     |-> IF config.client_id = Null THEN GeneratedId ELSE config.client_id,
     username      |-> config.username,
     password      |-> config.password,
     will_topic    |-> config.lwt_topic,
     will_message  |-> IF config.lwt_msg_len # 0
                       THEN Text(config.lwt_msg.is, config.lwt_msg_len) ELSE config.lwt_msg,
     will_qos      |-> config.lwt_qos,
     will_retain   |-> config.lwt_retain,
     clean_session |-> ~config.disable_clean_session,
     keepalive     |-> IF config.keepalive = 0 THEN MQTT_KEEPALIVE_TICK ELSE config.keepalive]

(* user_info of the URI, "user" or "user:pass"; Null without one.          *)
UserInfo(user, colon, pass) == [user |-> user, colon |-> colon, pass |-> pass]
HasUserInfo(info) == Given(info.user) \/ info.colon

(* esp_mqtt_client_set_uri; what it takes of scheme, host, path and port   *)
(* does not go into the message.                                           *)
esp_mqtt_client_set_uri(connect_info, user_info) ==
    IF ~HasUserInfo(user_info) THEN connect_info
    ELSE [connect_info EXCEPT !.username = user_info.user,
                              !.password = IF user_info.colon THEN user_info.pass ELSE @]

USERNAME      == 2^7
PASSWORD      == 2^6
WILL_RETAIN   == 2^5
WILL          == 2^2
CLEAN_SESSION == 2^1

FlagIf(condition, flag) == IF condition THEN flag ELSE 0

(* Mutant of ConnectFlags: the flags of the will follow the message, the   *)
(* string follows the topic.                                               *)
ConnectFlagsWillMessage(info) ==
    FlagIf(info.clean_session, CLEAN_SESSION)
    + FlagIf(Given(info.will_message),
             WILL + FlagIf(info.will_retain, WILL_RETAIN) + (info.will_qos % 4) * 8)
    + FlagIf(Given(info.username), USERNAME) + FlagIf(Given(info.password), PASSWORD)

ConnectFlags(info) ==
    FlagIf(info.clean_session, CLEAN_SESSION)
    + FlagIf(Given(info.will_topic),
             WILL + FlagIf(info.will_retain, WILL_RETAIN) + (info.will_qos % 4) * 8)
    + FlagIf(Given(info.username), USERNAME) + FlagIf(Given(info.password), PASSWORD)

(* The strings in the order in which they are appended.                    *)
ConnectStrings(info) ==
    <<info.client_id>>
    \o (IF Given(info.will_topic) THEN <<info.will_topic, info.will_message>> ELSE <<>>)
    \o (IF Given(info.username) THEN <<info.username>> ELSE <<>>)
    \o (IF Given(info.password) THEN <<info.password>> ELSE <<>>)

Name311 == <<77, 81, 84, 84>>            \* "MQTT"
Name31  == <<77, 81, 73, 115, 100, 112>> \* "MQIsdp"

(* The variable header.  mqtt_config.h defines MQTT_PROTOCOL_311 whatever  *)
(* the configuration says, so there is always room for a name of four      *)
(* bytes: the end of the longer one lies where version and flags go.       *)
VariableHeader(info) ==
    (IF CONFIG_MQTT_PROTOCOL_311 THEN <<0, 4>> \o Name311 \o <<4>>
                                 ELSE <<0, 6>> \o SubSeq(Name31, 1, 4) \o <<3>>)
    \o <<ConnectFlags(info), HighByte(info.keepalive), LowByte(info.keepalive)>>

mqtt_msg_connect(info) ==
    LET strings   == ConnectStrings(info)
        remaining == Len(VariableHeader(info))
                     + MapThenSumSet(LAMBDA i : 2 + strings[i].len, DOMAIN strings)
    IN  IF ~Given(info.client_id) \/ MQTT_MAX_FIXED_HEADER_SIZE + remaining > BufferLength
        THEN FailMessage
        ELSE [type |-> MQTT_MSG_TYPE_CONNECT, qos |-> 0, field |-> LengthField(remaining),
              header |-> VariableHeader(info), strings |-> strings]
-----------------------------------------------------------------------------
(* What a broker reads: version, flags and keep-alive stand behind the     *)
(* name, then come the strings the flags announce.                         *)
BrokerReads(m) ==
    LET byte(i)   == IF i \in DOMAIN m.header THEN m.header[i] ELSE 0
        text(i)   == IF i \in DOMAIN m.strings THEN m.strings[i] ELSE Null
        name      == 2 + byte(2)
        has(flag) == (byte(name + 2) \div flag) % 2 = 1
        user      == IF has(WILL) THEN 4 ELSE 2
        pass      == IF has(USERNAME) THEN user + 1 ELSE user
    IN  [name      |-> SubSeq(m.header, 3, name),
         client_id |-> text(1),
         will      |-> IF has(WILL)
                       THEN <<text(2), text(3), (byte(name + 2) \div 8) % 4, has(WILL_RETAIN)>>
                       ELSE <<>>,
         username  |-> IF has(USERNAME) THEN text(user) ELSE Null,
         password  |-> IF has(PASSWORD) THEN text(pass) ELSE Null,
         clean     |-> has(CLEAN_SESSION),
         keepalive |-> byte(name + 3) * 256 + byte(name + 4),
         strings   |-> IF has(PASSWORD) THEN pass ELSE pass - 1]
=============================================================================
