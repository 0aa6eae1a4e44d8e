------------------------------ MODULE WsFrame ------------------------------
(***************************************************************************)
(* The frames of the WebSockets library, byte by byte: what createHeader    *)
(* and sendFrame write (WebSockets.cpp) and what handleWebsocketCb makes of *)
(* it, read after read.  WsLink has the frames whole.                       *)
(***************************************************************************)
EXTENDS Integers, Sequences

Byte == 0 .. 255
\* The bits of a byte are disjoint where the code sets them with |=, so that
\* setting is adding.
BIT7 == 128
Below7 == 0 .. 127
Bit(b, v) == IF b THEN v ELSE 0
\* size_t on the ESP32
Size == {n \in Nat : n < 4294967296}

\* >> 8 and & 0xFF; >> 16 and >> 24 are Shr8 twice and three times.
Shr8(n) == n \div 256
Low8(n) == n % 256

MAX_HEADER_SIZE == 14
MAX_DATA_SIZE == 15 * 1024

----------------------------------------------------------------------------
(* Writing. *)

HeaderSize(length, mask) ==
  (IF length < 126 THEN 2 ELSE IF length < 65535 THEN 4 ELSE 10) + Bit(mask, 4)

Length(length) ==
  IF length < 126 THEN <<length>>
  ELSE IF length < 65535 THEN <<126, Low8(Shr8(length)), Low8(length)>>
  ELSE <<127, 0, 0, 0, 0, Low8(Shr8(Shr8(Shr8(length)))), Low8(Shr8(Shr8(length))),
         Low8(Shr8(length)), Low8(length)>>

createHeader(opcode, length, mask, maskKey, fin) ==
  LET len == Length(length)
  IN <<Bit(fin, BIT7) + opcode, Bit(mask, BIT7) + Head(len)>> \o Tail(len)
       \o (IF mask THEN maskKey ELSE <<>>)

\* Masking, of the sender and of the receiver; excl is ^ on bytes.
Masked(excl, maskKey, data) ==
  [i \in 1 .. Len(data) |-> excl[data[i]][maskKey[((i - 1) % 4) + 1]]]

\* clientDisconnect(code): the payload of a close frame, and what is read in it.
CloseCode(code) == <<Low8(Shr8(code)), Low8(code)>>
ReasonCode(payload) == payload[1] * 256 + payload[2]

----------------------------------------------------------------------------
(* Reading: h is the part of the header read so far, cWsHeader. *)

Bit7(b) == b \div BIT7 = 1
Low7(b) == b % BIT7
Low4(b) == b % 16

Fin(h) == Bit7(h[1])
OpCode(h) == Low4(h[1])
Mask(h) == Bit7(h[2])
Short(h) == Low7(h[2])

\* headerLen before the mask key, and with it: what handleWebsocketWaitFor is
\* asked for after the first two bytes.
LengthEnd(h) == 2 + (IF Short(h) = 126 THEN 2 ELSE IF Short(h) = 127 THEN 8 ELSE 0)
HeaderEnd(h) == LengthEnd(h) + Bit(Mask(h), 4)

PayloadLen(h) ==
  IF Short(h) = 126 THEN h[3] * 256 + h[4]
  ELSE IF Short(h) = 127
    THEN IF \A i \in 3 .. 6 : h[i] = 0
           THEN h[7] * 16777216 + h[8] * 65536 + h[9] * 256 + h[10]
           ELSE 4294967295
  ELSE Short(h)

MaskKey(h) == SubSeq(h, LengthEnd(h) + 1, LengthEnd(h) + 4)

\* A payload too big ends the connection with code 1009 before any of it is read.
TooBig(h) == PayloadLen(h) > MAX_DATA_SIZE

\* cWsRXsize bytes are there: the next size that is waited for.
WaitFor(h) ==
  IF Len(h) < 2 THEN 2
  ELSE IF Len(h) < LengthEnd(h) THEN LengthEnd(h)
  ELSE HeaderEnd(h)

============================================================================
