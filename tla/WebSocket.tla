----------------------------- MODULE WebSocket ------------------------------
(***************************************************************************)
(* transport_ws.c: the frame around what the client writes and what it     *)
(* makes of the bytes of one read.  A frame is a record of what decides    *)
(* its bytes: the bytes before the mask, whether it is masked, and the     *)
(* length of its payload.                                                  *)
(***************************************************************************)
EXTENDS Integers, SequencesExt

WS_FIN == 128
WS_OPCODE_BINARY == 2
WS_MASK   == 128
WS_SIZE16 == 126
WS_SIZE64 == 127
MAX_WEBSOCKET_HEADER_SIZE == 10  \* of the array ws_write builds a header in

TooBig == -1  \* 0xFFFFFFFF as an int

HighAndLow(len) == <<(len \div 256) % 256, len % 256>>

(* Mutant of SizeField: 126 is taken to fit the seven bits.                *)
SizeFieldLate(len) == IF len > 126 THEN <<WS_MASK + WS_SIZE16>> \o HighAndLow(len)
                                   ELSE <<WS_MASK + len>>

(* ws_write: seven bits of length, or sixteen and never more.              *)
SizeField(len) == IF len > 125 THEN <<WS_MASK + WS_SIZE16>> \o HighAndLow(len)
                               ELSE <<WS_MASK + len>>

(* ws_write, all that reaches the parent transport: the header with the    *)
(* mask, and the payload, masked where it lies.                            *)
ws_write(len) == [head |-> <<WS_FIN + WS_OPCODE_BINARY>> \o SizeField(len),
                  mask |-> TRUE, len |-> len]

HeaderLength(frame) == Len(frame.head) + IF frame.mask THEN 4 ELSE 0

(* payload_len and the place behind it, as ws_read finds them; positions   *)
(* count from 0.                                                           *)
SizeRead(frame) ==
    LET byte(i) == IF i < Len(frame.head) THEN frame.head[i + 1] ELSE 0
        size    == byte(1) % 128
    IN  CASE size = WS_SIZE16 -> [len |-> byte(2) * 256 + byte(3), at |-> 4]
          [] size = WS_SIZE64 ->
                [len |-> IF \E i \in 2..5 : byte(i) # 0 THEN TooBig
                         ELSE byte(6) * 2^24 + byte(7) * 2^16 + byte(8) * 256 + byte(9),
                 at  |-> 10]
          [] OTHER            -> [len |-> size, at |-> 2]

(* How many bytes come out right: the payload is moved to the start of the *)
(* buffer the key lies in, byte by byte, so that a masked one longer than  *)
(* that overwrites its own key.                                            *)
Intact(key, len) ==
    LET spoilt == {i \in 0..(len - 1) : key + (i % 4) < i}
    IN  IF spoilt = {} THEN len ELSE CHOOSE i \in spoilt : \A j \in spoilt : i <= j

(* ws_read of a read that holds the whole frame and no more: the position  *)
(* of the payload, the length returned, and the bytes that are right.      *)
ws_read(frame) ==
    LET size == SizeRead(frame)
        mask == frame.head[2] >= 128
    IN  [at     |-> size.at + IF mask THEN 4 ELSE 0,
         len    |-> size.len,
         intact |-> IF mask THEN Intact(size.at, size.len) ELSE size.len]

(* What a server may send: a frame without a mask, its length in the       *)
(* smallest field that holds it.                                           *)
ServerFrame(len) ==
    [head |-> <<WS_FIN + WS_OPCODE_BINARY>> \o
              CASE len < 126 -> <<len>>
                [] 125 < len /\ len < 2^16 -> <<WS_SIZE16>> \o HighAndLow(len)
                [] OTHER     -> <<WS_SIZE64, 0, 0, 0, 0, 0, len \div 2^16>> \o HighAndLow(len),
     mask |-> FALSE, len |-> len]
=============================================================================
