\* A PUBLISH cut in every way, alone or with a later message behind it; and messages
\* of lengths around which the length field and the topic length get a second byte,
\* configurations, and frames of lengths around which the header grows.
SPECIFICATION Spec
CONSTANTS
    BufferLength = 8
    Publishes <- SmallPublishes
    UIntRange = 256
    Following <- NothingOrMore
    Large = 600
    Topics = {1, 8, 119, 123, 255, 256, 257}
    Datas = {0, 1, 2, 3, 115, 116, 117, 118, 119, 127, 128, 251, 252, 253, 254, 340, 341, 342}
    MessageIds = {1, 255, 256, 65534}
    CONFIG_MQTT_PROTOCOL_311 = TRUE
    Configs <- SomeConfigs
    UserInfos <- SomeUserInfos
    FrameLengths = {0, 1, 124, 125, 126, 127, 128, 255, 256, 1024, 32768, 65535, 65536}
INVARIANTS
    TypeOK
    WholePayload
    ReadBack
    ConnectReadBack
    FramesReadBack
\* The machine ends with the message.
CHECK_DEADLOCK FALSE
