------------------------------ MODULE WsProofs ------------------------------
(***************************************************************************)
(* Proofs about the WebSockets library: what is written in a frame is what  *)
(* is read, for every length, opcode and key; what the server's broadcasts  *)
(* reach; and what a client, a server and the connections between them keep *)
(* to, for any number of connections and slots.                             *)
(***************************************************************************)
EXTENDS WsFrame, WsServer, WsLink, SequenceTheorems, WellFoundedInduction, TLAPS

LEMMA Shift ==
  ASSUME NEW n \in Nat
  PROVE  /\ Low8(n) \in Byte /\ Shr8(n) \in Nat
         /\ n = Shr8(n) * 256 + Low8(n)
         /\ n < 4294967296 => Shr8(n) < 16777216
         /\ n < 16777216 => Shr8(n) < 65536
         /\ n < 65536 => Shr8(n) < 256
<1>1. Low8(n) \in Byte /\ Shr8(n) \in Nat
  BY SMT DEF Low8, Shr8, Byte
<1>2. n = Shr8(n) * 256 + Low8(n)
  BY SMT DEF Low8, Shr8
<1> QED BY SMT, <1>1, <1>2 DEF Byte

LEMMA Bits ==
  ASSUME NEW b \in BOOLEAN, NEW v \in Below7
  PROVE  /\ Bit7(Bit(b, BIT7) + v) = b
         /\ Low7(Bit(b, BIT7) + v) = v
         /\ v < 16 => Low4(Bit(b, BIT7) + v) = v
         /\ Bit(b, BIT7) + v \in Byte
<1>1. CASE b
  <2>1. Bit(b, BIT7) = 128
    BY SMT, <1>1 DEF Bit, BIT7
  <2>2. Bit7(128 + v) /\ Low7(128 + v) = v /\ 128 + v \in Byte
    BY SMT DEF Bit7, Low7, BIT7, Below7, Byte
  <2>3. v < 16 => Low4(128 + v) = v
    BY SMT DEF Low4, Below7
  <2> QED BY Zenon, <1>1, <2>1, <2>2, <2>3
<1>2. CASE ~b
  <2>1. Bit(b, BIT7) + v = v
    BY SMT, <1>2 DEF Bit, Below7
  <2>2. ~Bit7(v) /\ Low7(v) = v /\ v \in Byte
    BY SMT DEF Bit7, Low7, BIT7, Below7, Byte
  <2>3. v < 16 => Low4(v) = v
    BY SMT DEF Low4, Below7
  <2>4. b = FALSE /\ Bit7(v) = FALSE
    BY Zenon, <1>2, <2>2 DEF Bit7
  <2> QED BY Zenon, <2>1, <2>2, <2>3, <2>4
<1> QED BY Zenon, <1>1, <1>2

LEMMA Horner ==
  ASSUME NEW r \in Nat, NEW a \in Nat, NEW b \in Nat, NEW c \in Nat
  PROVE  (((r * 256 + a) * 256) + b) * 256 + c = r * 16777216 + a * 65536 + b * 256 + c
BY SMT

LEMMA FourBytes ==
  ASSUME NEW n \in Size
  PROVE  /\ Low8(n) \in Byte /\ Low8(Shr8(n)) \in Byte
         /\ Low8(Shr8(Shr8(n))) \in Byte /\ Low8(Shr8(Shr8(Shr8(n)))) \in Byte
<1>1. n \in Nat
  BY SMT DEF Size
<1>2. Shr8(n) \in Nat
  BY SMT, Shift, <1>1
<1>3. Shr8(Shr8(n)) \in Nat
  BY SMT, Shift, <1>2
<1>4. Shr8(Shr8(Shr8(n))) \in Nat
  BY SMT, Shift, <1>3
<1> QED BY SMT, Shift, <1>1, <1>2, <1>3, <1>4

\* createHeader writes as many bytes as it says.  sendFrame puts the header at
\* MAX_HEADER_SIZE minus this number, in front of the payload.
LEMMA HeaderFits ==
  ASSUME NEW op \in 0 .. 15, NEW length \in Size, NEW mask \in BOOLEAN, NEW fin \in BOOLEAN,
         NEW key \in Seq(Byte), Len(key) = 4
  PROVE  /\ createHeader(op, length, mask, key, fin) \in Seq(Byte)
         /\ Len(createHeader(op, length, mask, key, fin)) = HeaderSize(length, mask)
         /\ HeaderSize(length, mask) <= MAX_HEADER_SIZE
<1> DEFINE len == Length(length)
<1>1. /\ Tail(len) \in Seq(Byte)
      /\ Head(len) \in Below7
      /\ Len(len) \in 1 .. 9
      /\ Len(Tail(len)) = Len(len) - 1
      /\ Len(len) + 1 + Bit(mask, 4) = HeaderSize(length, mask)
  <2>1. CASE length < 126
    BY SMT, <2>1 DEF Length, Byte, Size, HeaderSize, Bit, Below7
  <2>2. CASE length >= 126 /\ length < 65535
    <3>1. len = <<126, Low8(Shr8(length)), Low8(length)>>
      BY SMT, <2>2 DEF Length, Size
    <3>2. Low8(Shr8(length)) \in Byte /\ Low8(length) \in Byte
      BY SMT, FourBytes DEF Byte
    <3>3. Tail(len) = <<Low8(Shr8(length)), Low8(length)>> /\ Head(len) = 126
      BY SMT, <3>1
    <3> QED BY SMT, <2>2, <3>1, <3>2, <3>3 DEF HeaderSize, Bit, Size, Below7
  <2>3. CASE length >= 65535
    <3> DEFINE a == Low8(Shr8(Shr8(Shr8(length))))  b == Low8(Shr8(Shr8(length)))
               c == Low8(Shr8(length))       d == Low8(length)
    <3>1. len = <<127, 0, 0, 0, 0, a, b, c, d>>
      BY SMT, <2>3 DEF Length, Size
    <3>2. a \in Byte /\ b \in Byte /\ c \in Byte /\ d \in Byte /\ 0 \in Byte
      BY SMT, FourBytes DEF Byte
    <3> HIDE DEF a, b, c, d
    <3>3. Tail(len) = <<0, 0, 0, 0, a, b, c, d>> /\ Head(len) = 127 /\ Len(len) = 9
      BY SMT, <3>1
    <3>4. Tail(len) \in Seq(Byte) /\ Len(Tail(len)) = 8
      <4>1. /\ <<0, 0, 0, 0, a, b, c, d>> \in Seq(Byte)
            /\ Len(<<0, 0, 0, 0, a, b, c, d>>) = 8
        BY SMTT(30), <3>2
      <4> QED BY Zenon, <4>1, <3>3
    <3> HIDE DEF len
    <3>5. HeaderSize(length, mask) = 10 + Bit(mask, 4)
      BY SMT, <2>3 DEF HeaderSize, Size
    <3> QED BY SMT, <3>3, <3>4, <3>5 DEF Bit, Below7
  <2> QED BY SMT, <2>1, <2>2, <2>3 DEF Size
<1> HIDE DEF len
<1>2. Bit(fin, BIT7) + op \in Byte /\ Bit(mask, BIT7) + Head(len) \in Byte
  <2>1. \A h \in Below7 : Bit(mask, BIT7) + h \in Byte
    BY SMT DEF Bit, Byte, Below7, BIT7
  <2>2. Bit(fin, BIT7) + op \in Byte
    BY SMT DEF Bit, Byte, Below7, BIT7
  <2>3. Head(len) \in Below7
    BY Zenon, <1>1
  <2> QED BY Zenon, <2>1, <2>2, <2>3
<1>3. createHeader(op, length, mask, key, fin)
        = <<Bit(fin, BIT7) + op, Bit(mask, BIT7) + Head(len)>> \o Tail(len)
            \o (IF mask THEN key ELSE <<>>)
  BY SMT DEF createHeader, len
<1>4. HeaderSize(length, mask) <= MAX_HEADER_SIZE
  BY SMT DEF HeaderSize, MAX_HEADER_SIZE, Bit, Size
<1>5. CASE mask
  <2>1. createHeader(op, length, mask, key, fin)
          = (<<Bit(fin, BIT7) + op, Bit(mask, BIT7) + Head(len)>> \o Tail(len)) \o key
    BY SMT, <1>3, <1>5
  <2>2. Tail(len) \in Seq(Byte) /\ key \in Seq(Byte)
    BY Zenon, <1>1
  <2> DEFINE x == <<Bit(fin, BIT7) + op, Bit(mask, BIT7) + Head(len)>>
  <2>4. x \in Seq(Byte) /\ Len(x) = 2
    BY SMT, <1>2
  <2> HIDE DEF x
  <2>5. /\ x \o Tail(len) \in Seq(Byte)
        /\ Len(x \o Tail(len)) = Len(x) + Len(Tail(len))
    BY Zenon, <2>2, <2>4, ConcatProperties
  <2>6. /\ (x \o Tail(len)) \o key \in Seq(Byte)
        /\ Len((x \o Tail(len)) \o key) = Len(x \o Tail(len)) + Len(key)
    BY Zenon, <2>2, <2>5, ConcatProperties
  <2>7. createHeader(op, length, mask, key, fin) = (x \o Tail(len)) \o key
    BY Zenon, <2>1 DEF x
  <2>8. Len((x \o Tail(len)) \o key) = 2 + (Len(len) - 1) + 4
    BY Zenon, <1>1, <2>4, <2>5, <2>6
  <2>9. Bit(mask, 4) = 4
    BY SMT, <1>5 DEF Bit
  <2>10. 2 + (Len(len) - 1) + 4 = HeaderSize(length, mask)
    BY SMT, <1>1, <2>9
  <2> QED BY Zenon, <1>4, <2>6, <2>7, <2>8, <2>10
<1>6. CASE ~mask
  BY SMT, <1>1, <1>2, <1>3, <1>4, <1>6 DEF Bit
<1> QED BY SMT, <1>5, <1>6

LEMMA ElementsOfSeq ==
  ASSUME NEW S, NEW s \in Seq(S)
  PROVE  \A i \in 1 .. Len(s) : s[i] \in S
BY SMT

LEMMA ConcatAt ==
  ASSUME NEW S, NEW s1 \in Seq(S), NEW s2 \in Seq(S)
  PROVE  /\ s1 \o s2 \in Seq(S)
         /\ Len(s1 \o s2) = Len(s1) + Len(s2)
         /\ \A i \in 1 .. Len(s1) : (s1 \o s2)[i] = s1[i]
         /\ \A i \in 1 .. Len(s2) : (s1 \o s2)[Len(s1) + i] = s2[i]
BY SMT, ConcatProperties

LEMMA LengthBytes ==
  ASSUME NEW length \in Size
  PROVE  /\ Length(length) \in Seq(Byte)
         /\ Len(Length(length)) = IF length < 126 THEN 1 ELSE IF length < 65535 THEN 3 ELSE 9
         /\ Length(length)[1] \in Below7
<1>1. CASE length < 126
  BY SMT, <1>1 DEF Length, Byte, Size, Below7
<1>2. CASE length >= 126 /\ length < 65535
  <2>1. Low8(Shr8(length)) \in Byte /\ Low8(length) \in Byte /\ 126 \in Byte
    BY SMT, FourBytes DEF Byte
  <2>2. ~(length < 126) /\ length < 65535
    BY SMT, <1>2 DEF Size
  <2>3. Length(length) = <<126, Low8(Shr8(length)), Low8(length)>>
    BY SMT, <2>2 DEF Length
  <2> QED BY SMT, <2>1, <2>2, <2>3 DEF Below7
<1>3. CASE length >= 65535
  <2> DEFINE a == Low8(Shr8(Shr8(Shr8(length))))  b == Low8(Shr8(Shr8(length)))
             c == Low8(Shr8(length))       d == Low8(length)
  <2>1. Length(length) = <<127, 0, 0, 0, 0, a, b, c, d>>
    BY SMT, <1>3 DEF Length, Size
  <2>2. a \in Byte /\ b \in Byte /\ c \in Byte /\ d \in Byte /\ 0 \in Byte /\ 127 \in Byte
    BY SMT, FourBytes DEF Byte
  <2> HIDE DEF a, b, c, d
  <2>3. /\ <<127, 0, 0, 0, 0, a, b, c, d>> \in Seq(Byte)
        /\ Len(<<127, 0, 0, 0, 0, a, b, c, d>>) = 9
        /\ <<127, 0, 0, 0, 0, a, b, c, d>>[1] = 127
    BY SMTT(30), <2>2
  <2>4. ~(length < 126) /\ ~(length < 65535)
    BY SMT, <1>3 DEF Size
  <2>5. 127 \in Below7
    BY SMT DEF Below7
  <2>6. Length(length) \in Seq(Byte) /\ Len(Length(length)) = 9 /\ Length(length)[1] \in Below7
    BY SMT, <2>1, <2>3, <2>5
  <2> QED BY SMT, <2>4, <2>6
<1> QED BY SMT, <1>1, <1>2, <1>3 DEF Size

\* The bytes of a header up to the mask key, and the key.
HasBytes(h, op, len, mask, key, fin) ==
  /\ h[1] = Bit(fin, BIT7) + op
  /\ h[2] = Bit(mask, BIT7) + len[1]
  /\ \A i \in 1 .. Len(len) - 1 : h[2 + i] = len[i + 1]
  /\ mask => \A i \in 1 .. 4 : h[(Len(len) + 1) + i] = key[i]

LEMMA HeaderBytes ==
  ASSUME NEW op \in 0 .. 15, NEW length \in Size, NEW mask \in BOOLEAN, NEW fin \in BOOLEAN,
         NEW key \in Seq(Byte), Len(key) = 4
  PROVE  HasBytes(createHeader(op, length, mask, key, fin), op, Length(length), mask, key, fin)
<1> DEFINE h == createHeader(op, length, mask, key, fin)
           len == Length(length)
<1>0. len \in Seq(Byte) /\ Len(len) \in 1 .. 9 /\ len[1] \in Below7
  BY SMT, LengthBytes
<1> DEFINE x == <<Bit(fin, BIT7) + op, Bit(mask, BIT7) + Head(len)>>
           k == IF mask THEN key ELSE <<>>
<1>1. h = (x \o Tail(len)) \o k
  BY Zenon DEF createHeader
<1> HIDE DEF h, len
<1>2. /\ Head(len) = len[1]
      /\ Tail(len) \in Seq(Byte) /\ Len(Tail(len)) = Len(len) - 1
      /\ \A i \in 1 .. Len(len) - 1 : Tail(len)[i] = len[i + 1]
  BY SMT, <1>0
<1>3. x \in Seq(Byte) /\ Len(x) = 2 /\ x[1] = Bit(fin, BIT7) + op
        /\ x[2] = Bit(mask, BIT7) + len[1]
  <2>1. Bit(fin, BIT7) + op \in Byte /\ Bit(mask, BIT7) + Head(len) \in Byte
    <3>1. \A v \in Below7, b \in BOOLEAN : Bit(b, BIT7) + v \in Byte
      BY SMT DEF Bit, Byte, Below7, BIT7
    <3>2. op \in Below7 /\ Head(len) \in Below7
      BY SMT, <1>0, <1>2 DEF Below7
    <3> QED BY Zenon, <3>1, <3>2
  <2> QED BY SMT, <1>2, <2>1
<1> HIDE DEF x
<1>4. k \in Seq(Byte)
  BY SMT
<1> HIDE DEF k
<1> DEFINE y == x \o Tail(len)
<1>5. /\ y \in Seq(Byte) /\ Len(y) = Len(x) + Len(Tail(len))
      /\ \A i \in 1 .. Len(x) : y[i] = x[i]
      /\ \A i \in 1 .. Len(Tail(len)) : y[Len(x) + i] = Tail(len)[i]
  <2>1. x \in Seq(Byte) /\ Tail(len) \in Seq(Byte)
    BY Zenon, <1>2, <1>3
  <2> HIDE DEF x
  <2> QED BY SMT, <2>1, ConcatAt
<1> HIDE DEF y
<1>6. /\ \A i \in 1 .. Len(y) : h[i] = y[i]
      /\ \A i \in 1 .. Len(k) : h[Len(y) + i] = k[i]
  <2>1. h = y \o k
    BY Zenon, <1>1 DEF y
  <2>2. y \in Seq(Byte)
    BY Zenon, <1>5
  <2> QED BY SMT, <2>1, <2>2, <1>4, ConcatAt
<1>7. Len(y) = Len(len) + 1
  BY SMT, <1>0, <1>2, <1>3, <1>5
<1>8. mask => \A i \in 1 .. 4 : h[(Len(len) + 1) + i] = key[i]
  BY Zenon, <1>6, <1>7 DEF k
<1>9. \A i \in 1 .. Len(len) + 1 : h[i] = y[i]
  BY Zenon, <1>6, <1>7
<1>10. \A i \in 1 .. Len(len) - 1 : h[2 + i] = len[i + 1]
  BY SMTT(30), <1>0, <1>2, <1>3, <1>5, <1>9
<1>11. h[1] = x[1] /\ h[2] = x[2]
  <2>1. 1 \in 1 .. Len(x) /\ 2 \in 1 .. Len(x) /\ 1 \in 1 .. Len(len) + 1 /\ 2 \in 1 .. Len(len) + 1
    BY SMT, <1>0, <1>3
  <2> QED BY SMT, <1>5, <1>9, <2>1
<1> QED BY Zenon, <1>3, <1>8, <1>10, <1>11 DEF h, len, HasBytes

LEMMA BytesOfSize ==
  ASSUME NEW n \in Size
  PROVE  /\ n = Low8(Shr8(Shr8(Shr8(n)))) * 16777216 + Low8(Shr8(Shr8(n))) * 65536
                  + Low8(Shr8(n)) * 256 + Low8(n)
         /\ n < 65536 => n = Low8(Shr8(n)) * 256 + Low8(n)
<1>1. PICK p \in Nat : p = Shr8(n) /\ n = p * 256 + Low8(n) /\ p < 16777216
  BY SMT, Shift DEF Size
<1>2. PICK q \in Nat : q = Shr8(p) /\ p = q * 256 + Low8(p) /\ q < 65536
  BY SMT, Shift, <1>1
<1>3. PICK r \in Nat : r = Shr8(q) /\ q = r * 256 + Low8(q) /\ r < 256
  BY SMT, Shift, <1>2
<1>4. Low8(r) = r /\ (p < 256 => Low8(p) = p)
  BY SMT, <1>2, <1>3 DEF Low8
<1>5. Low8(n) \in Byte /\ Low8(p) \in Byte /\ Low8(q) \in Byte
  BY SMT, Shift DEF Size
<1>6. n < 65536 => p < 256
  BY SMT, <1>1, <1>5 DEF Size, Byte
<1>0. n \in Nat
  BY SMT DEF Size
<1>7. n = (((r * 256 + Low8(q)) * 256) + Low8(p)) * 256 + Low8(n)
  BY SMT, <1>1, <1>2, <1>3
<1>8. n = Low8(r) * 16777216 + Low8(q) * 65536 + Low8(p) * 256 + Low8(n)
  <2>1. Low8(n) \in Nat /\ Low8(p) \in Nat /\ Low8(q) \in Nat
    BY SMT, <1>5 DEF Byte
  <2> QED BY SMT, <1>4, <1>7, <2>1, Horner
<1>9. n < 65536 => n = Low8(p) * 256 + Low8(n)
  BY SMT, <1>0, <1>1, <1>4, <1>6
<1> QED BY SMT, <1>1, <1>2, <1>3, <1>8, <1>9

\* The receiver reads in a header what the sender has put there, and waits for
\* exactly as many bytes as were written, for every length: at 125, 126, 65534,
\* 65535 and 65536 too, where the form changes, and so the payload and the next
\* frame are found where they begin.
THEOREM FrameRoundTrip ==
  ASSUME NEW op \in 0 .. 15, NEW length \in Size, NEW mask \in BOOLEAN, NEW fin \in BOOLEAN,
         NEW key \in Seq(Byte), Len(key) = 4, NEW h, h = createHeader(op, length, mask, key, fin)
  PROVE  /\ Fin(h) = fin /\ OpCode(h) = op /\ Mask(h) = mask
         /\ PayloadLen(h) = length
         /\ HeaderEnd(h) = HeaderSize(length, mask)
         /\ mask => \A i \in 1 .. 4 : h[LengthEnd(h) + i] = key[i]
<1> DEFINE len == Length(length)
<1>1. /\ len \in Seq(Byte) /\ len[1] \in Below7
      /\ Len(len) = IF length < 126 THEN 1 ELSE IF length < 65535 THEN 3 ELSE 9
  BY SMT, LengthBytes
<1>2. Len(len) \in 1 .. 9
  BY SMT, <1>1
<1>3. /\ h[1] = Bit(fin, BIT7) + op
      /\ h[2] = Bit(mask, BIT7) + len[1]
      /\ \A i \in 1 .. Len(len) - 1 : h[2 + i] = len[i + 1]
      /\ mask => \A i \in 1 .. 4 : h[(Len(len) + 1) + i] = key[i]
  <2>1. HasBytes(h, op, len, mask, key, fin)
    BY Zenon, HeaderBytes
  <2> HIDE DEF len
  <2> QED BY Zenon, <2>1 DEF HasBytes
<1> HIDE DEF len
<1>4. Fin(h) = fin /\ OpCode(h) = op
  <2>1. op \in Below7 /\ op < 16
    BY SMT DEF Below7
  <2>2. Bit7(h[1]) = fin /\ Low4(h[1]) = op
    BY Zenon, <1>3, <2>1, Bits
  <2> QED BY Zenon, <2>2 DEF Fin, OpCode
<1>5. Mask(h) = mask /\ Short(h) = len[1]
  <2>1. len[1] \in Below7 /\ h[2] = Bit(mask, BIT7) + len[1]
    BY SMT, <1>1, <1>3
  <2>2. Bit7(h[2]) = mask /\ Low7(h[2]) = len[1]
    BY Zenon, <2>1, Bits
  <2> QED BY Zenon, <2>2 DEF Mask, Short
<1>6. PayloadLen(h) = length /\ LengthEnd(h) = Len(len) + 1
  <2>1. CASE length < 126
    BY SMT, <1>1, <1>5, <2>1 DEF PayloadLen, LengthEnd, Length, Size, len
  <2>2. CASE length >= 126 /\ length < 65535
    <3>1. len = <<126, Low8(Shr8(length)), Low8(length)>> /\ Len(len) = 3
      BY SMT, <1>1, <2>2 DEF Length, Size, len
    <3>2. Short(h) = 126
      BY SMT, <1>5, <3>1
    <3>3. h[3] = len[2] /\ h[4] = len[3]
      <4>1. 1 \in 1 .. Len(len) - 1 /\ 2 \in 1 .. Len(len) - 1
        BY SMT, <3>1
      <4>2. h[2 + 1] = len[1 + 1] /\ h[2 + 2] = len[2 + 1]
        BY Zenon, <1>3, <4>1
      <4> QED BY SMT, <4>2
    <3>4. h[3] = Low8(Shr8(length)) /\ h[4] = Low8(length)
      BY SMT, <3>1, <3>3
    <3>5. length = (Low8(Shr8(length))) * 256 + Low8(length)
      BY SMT, <2>2, BytesOfSize DEF Size
    <3> HIDE DEF len
    <3>6. PayloadLen(h) = length
      BY SMT, <3>2, <3>4, <3>5 DEF PayloadLen
    <3> QED BY SMT, <3>1, <3>2, <3>6 DEF LengthEnd
  <2>3. CASE length >= 65535
    <3> DEFINE a == Low8(Shr8(Shr8(Shr8(length))))  b == Low8(Shr8(Shr8(length)))
               c == Low8(Shr8(length))       d == Low8(length)
    <3>1. len = <<127, 0, 0, 0, 0, a, b, c, d>> /\ Len(len) = 9
      BY SMT, <1>1, <2>3 DEF Length, Size, len
    <3>2. length = a * 16777216 + b * 65536 + c * 256 + d
      BY SMT, BytesOfSize
    <3> HIDE DEF a, b, c, d, len
    <3>3. Short(h) = 127
      BY SMT, <1>5, <3>1
    <3>4. \A i \in 1 .. 8 : h[2 + i] = len[i + 1]
      BY SMT, <1>3, <3>1
    <3>5. /\ h[3] = 0 /\ h[4] = 0 /\ h[5] = 0 /\ h[6] = 0
          /\ h[7] = a /\ h[8] = b /\ h[9] = c /\ h[10] = d
      BY SMT, <3>1, <3>4
    <3>6. \A i \in 3 .. 6 : h[i] = 0
      BY SMT, <3>5
    <3>7. PayloadLen(h) = length
      BY SMT, <3>2, <3>3, <3>5, <3>6 DEF PayloadLen
    <3> QED BY SMT, <3>1, <3>3, <3>7 DEF LengthEnd
  <2> QED BY SMT, <2>1, <2>2, <2>3 DEF Size
<1>7. HeaderEnd(h) = HeaderSize(length, mask)
  BY SMT, <1>1, <1>5, <1>6 DEF HeaderEnd, HeaderSize, Bit
<1> QED BY Zenon, <1>3, <1>4, <1>5, <1>6, <1>7

\* What is masked with a key is unmasked with it.
THEOREM PayloadRoundTrip ==
  ASSUME NEW excl \in [Byte -> [Byte -> Byte]],
         \A a, b \in Byte : excl[excl[a][b]][b] = a,
         NEW key \in Seq(Byte), Len(key) = 4, NEW data \in Seq(Byte)
  PROVE  Masked(excl, key, Masked(excl, key, data)) = data
<1> DEFINE k(i) == key[((i - 1) % 4) + 1]
<1>1. \A i \in 1 .. Len(data) : data[i] \in Byte /\ k(i) \in Byte
  <2> TAKE i \in 1 .. Len(data)
  <2>1. i - 1 \in Nat
    BY SMT
  <2>2. (i - 1) % 4 \in 0 .. 3
    BY SMT, <2>1
  <2>3. ((i - 1) % 4) + 1 \in 1 .. Len(key)
    BY SMT, <2>2
  <2>4. \A j \in 1 .. Len(key) : key[j] \in Byte
    BY Zenon, ElementsOfSeq
  <2>5. k(i) \in Byte
    BY Zenon, <2>3, <2>4
  <2> QED BY SMT, <2>5
<1> HIDE DEF k
<1>2. Masked(excl, key, data) = [i \in 1 .. Len(data) |-> excl[data[i]][k(i)]]
  BY Zenon DEF Masked, k
<1> DEFINE m == [i \in 1 .. Len(data) |-> excl[data[i]][k(i)]]
<1>3. Len(m) = Len(data)
  BY SMT
<1>4. Masked(excl, key, m) = [i \in 1 .. Len(data) |-> excl[m[i]][k(i)]]
  <2> HIDE DEF m
  <2> QED BY Zenon, <1>3 DEF Masked, k
<1>5. [i \in 1 .. Len(data) |-> excl[m[i]][k(i)]] = [i \in 1 .. Len(data) |-> data[i]]
  <2>1. \A i \in 1 .. Len(data) : m[i] = excl[data[i]][k(i)]
    BY Zenon
  <2>2. \A i \in 1 .. Len(data) : excl[m[i]][k(i)] = data[i]
    BY Zenon, <1>1, <2>1
  <2> HIDE DEF m
  <2> QED BY Zenon, <2>2
<1>6. data = [i \in 1 .. Len(data) |-> data[i]]
  BY SMT
<1> QED BY Zenon, <1>2, <1>4, <1>5, <1>6

\* A close frame gives back the code it was sent with.
LEMMA CloseRoundTrip ==
  ASSUME NEW code \in Nat, code < 65536
  PROVE  ReasonCode(CloseCode(code)) = code
<1>1. code = Shr8(code) * 256 + Low8(code) /\ Shr8(code) \in Nat /\ Shr8(code) < 256
  BY SMT, Shift
<1>2. Low8(Shr8(code)) = Shr8(code)
  BY SMT, <1>1 DEF Low8
<1> QED BY SMT, <1>1, <1>2 DEF ReasonCode, CloseCode
----------------------------------------------------------------------------
\* A broadcast reaches every client that is connected and takes the frame, whatever
\* happens to the others, and frees the slots whose connections are gone; but it fails as
\* soon as one client is still in its handshake (WebSocketsServer.cpp:202-219,
\* WebSockets.cpp:206).
THEOREM BroadcastReaches ==
  ASSUME NEW c \in [Num -> Status], NEW up \in SUBSET Num, NEW ok \in SUBSET Num
  PROVE  /\ Broadcast(c, up, ok).sent = {i \in up \cap ok : c[i] = "connected"}
         /\ Broadcast(c, up, ok).ret <=> \A i \in up : c[i] # "header" /\ (c[i] = "connected" => i \in ok)
         /\ \A i \in Num : Broadcast(c, up, ok).clients[i] = IF i \in up THEN c[i] ELSE "free"
<1> DEFINE asked == {i \in Num : Connected(c, up, i)}
           sent == {i \in asked : sendFrame(c, ok, i)}
<1>1. Broadcast(c, up, ok) = Result(sent = asked, sent, Gone(c, up), Freed(c, Gone(c, up)))
  BY DEF Broadcast
<1>2. sent = {i \in up \cap ok : c[i] = "connected"}
  BY DEF Connected, sendFrame
<1>3. (sent = asked) <=> \A i \in up : c[i] # "header" /\ (c[i] = "connected" => i \in ok)
  BY DEF Connected, sendFrame, Status
<1>4. \A i \in Num : Freed(c, Gone(c, up))[i] = IF i \in up THEN c[i] ELSE "free"
  BY DEF Freed, Gone
<1> HIDE DEF sent, asked
<1>5. /\ Broadcast(c, up, ok).sent = sent /\ Broadcast(c, up, ok).ret = (sent = asked)
      /\ Broadcast(c, up, ok).clients = Freed(c, Gone(c, up))
  BY <1>1 DEF Result
<1> QED
  BY <1>2, <1>3, <1>4, <1>5

\* Disconnecting all tells the application of every client it had a slot for, with or
\* without a connection, and leaves no slot in use.
THEOREM DisconnectTellsOfAll ==
  ASSUME NEW c \in [Num -> Status], NEW up \in SUBSET Num, NEW ok \in SUBSET Num
  PROVE  /\ disconnect(c, up, ok).told = {i \in Num : c[i] # "free"}
         /\ disconnect(c, up, ok).clients = [i \in Num |-> "free"]
BY DEF disconnect, Disconnect, Result, Freed

(***************************************************************************)
(* The link                                                                 *)
(***************************************************************************)
Link == [state : {"free", "pending", "open"}, up : Seq(Message),
         down : Seq(Message), cut : BOOLEAN, cliEnd : BOOLEAN, srvEnd : BOOLEAN]

\* A peer has a connection unless it is disconnected, and has been told.
PeerOK(p) ==
  /\ p \in Peer
  /\ p.seen = (p.status = "connected")
  /\ p.status = "none" <=> p.conn = NoConn

\* One that the server has not accepted has no end there.
Links ==
  /\ net \in [Conn -> Link]
  /\ \A k \in Conn : net[k].state = "pending" => ~net[k].srvEnd

Peers == PeerOK(cli) /\ srv \in [Slot -> Peer] /\ \A i \in Slot : PeerOK(srv[i])
Counts == ran \subseteq {0} \cup Slot /\ faults \in 0 .. MaxFaults
LinkInv == Peers /\ Links /\ Counts /\ OneHolder

LEMMA DisconnectedOK ==
  ASSUME NEW p, PeerOK(p)
  PROVE  PeerOK(Disconnected(p)) /\ Disconnected(p).conn = NoConn
BY WsLinkAssumption DEF PeerOK, Disconnected, Peer

\* What an operation of a peer leaves behind.
OutcomeOK(p, r) ==
  /\ r = [p |-> r.p, out |-> r.out]
  /\ PeerOK(r.p) /\ r.out \in Seq(Message) /\ r.p.conn \in {p.conn, NoConn}

LEMMA Messages == /\ <<>> \in Seq(Message) /\ <<"101", "ping">> \in Seq(Message)
                  /\ \A m \in Message : <<m>> \in Seq(Message)
BY DEF Message

LEMMA HandledOK ==
  ASSUME NEW p, PeerOK(p), NEW m, NEW ok \in BOOLEAN
  PROVE  OutcomeOK(p, Handled(p, m, ok))
<1>1. \A out \in {<<>>, <<"101", "ping">>, <<"refused">>, <<"pong">>, <<"close">>} : out \in Seq(Message)
  BY Messages DEF Message
<1>2. ASSUME NEW q, PeerOK(q), q.conn \in {p.conn, NoConn},
             NEW out \in {<<>>, <<"101", "ping">>, <<"refused">>, <<"pong">>, <<"close">>}
      PROVE  OutcomeOK(p, [p |-> q, out |-> out])
  BY <1>1, <1>2 DEF OutcomeOK
<1>3. PeerOK([p EXCEPT !.pong = TRUE]) /\ [p EXCEPT !.pong = TRUE].conn = p.conn
  BY DEF PeerOK, Peer
<1>4. p.status = "header" => /\ PeerOK([p EXCEPT !.status = "connected", !.seen = TRUE])
                             /\ [p EXCEPT !.status = "connected", !.seen = TRUE].conn = p.conn
  BY DEF PeerOK, Peer
<1>. QED
  BY <1>2, <1>3, <1>4, DisconnectedOK DEF Handled, Accepts

LEMMA HBPingOK ==
  ASSUME NEW p, NEW r, OutcomeOK(p, r)
  PROVE  OutcomeOK(p, HBPing(r))
<1>1. /\ PeerOK([r.p EXCEPT !.age = 0, !.pong = FALSE])
      /\ [r.p EXCEPT !.age = 0, !.pong = FALSE].conn = r.p.conn
  <2>1. 0 \in 0 .. Late
    BY WsLinkAssumption DEF Late
  <2>. QED
    BY <2>1 DEF OutcomeOK, PeerOK, Peer
<1>2. Append(r.out, "ping") \in Seq(Message)
  BY DEF OutcomeOK, Message
<1>. QED
  BY <1>1, <1>2 DEF HBPing, OutcomeOK

LEMMA HBTimeoutOK ==
  ASSUME NEW p, NEW r, OutcomeOK(p, r)
  PROVE  OutcomeOK(p, HBTimeout(r))
<1>. DEFINE q == [r.p EXCEPT !.misses = Missed(r.p), !.age = Late]
<1>1. Missed(r.p) \in 0 .. WRAP - 1 /\ 0 \in 0 .. WRAP - 1 /\ Late \in 0 .. Late
  BY WsLinkAssumption, SMTT(30) DEF OutcomeOK, PeerOK, Peer, Missed, Late
<1>2. PeerOK(q) /\ q.conn = r.p.conn
  BY <1>1 DEF OutcomeOK, PeerOK, Peer
<1>3. PeerOK([r.p EXCEPT !.misses = 0]) /\ [r.p EXCEPT !.misses = 0].conn = r.p.conn
  BY <1>1 DEF OutcomeOK, PeerOK, Peer
<1>4. PeerOK(Disconnected(q)) /\ Disconnected(q).conn = NoConn
  BY <1>2, DisconnectedOK
<1>5. \A s : [r EXCEPT !.p = s] = [p |-> s, out |-> r.out]
  BY DEF OutcomeOK
<1>6. [r EXCEPT !.p.misses = 0] = [p |-> [r.p EXCEPT !.misses = 0], out |-> r.out]
  BY DEF OutcomeOK
<1>7. \/ HBTimeout(r) = r
      \/ HBTimeout(r) = [p |-> [r.p EXCEPT !.misses = 0], out |-> r.out]
      \/ HBTimeout(r) = [p |-> Disconnected(q), out |-> r.out]
      \/ HBTimeout(r) = [p |-> q, out |-> r.out]
  BY <1>5, <1>6 DEF HBTimeout
<1>8. ASSUME NEW s, PeerOK(s), s.conn \in {p.conn, NoConn}
      PROVE  OutcomeOK(p, [p |-> s, out |-> r.out])
  BY <1>8 DEF OutcomeOK
<1>9. r.p.conn \in {p.conn, NoConn}
  BY DEF OutcomeOK
<1>. HIDE DEF q
<1>. QED
  BY <1>2, <1>3, <1>4, <1>7, <1>8, <1>9

(***************************************************************************)
(* The connections                                                          *)
(***************************************************************************)
LEMMA SettledOK ==
  ASSUME NEW w \in Link
  PROVE  /\ Settled(w) \in Link
         /\ Settled(w).cliEnd = w.cliEnd /\ Settled(w).srvEnd = w.srvEnd
         /\ Settled(w).state = "pending" => w.state = "pending"
BY Messages DEF Settled, Free, Link

LEMMA Rest ==
  ASSUME NEW s \in Seq(Message), NEW n \in {0, 1}, n = 1 => s # <<>>
  PROVE  SubSeq(s, n + 1, Len(s)) \in Seq(Message)
<1>1. CASE s = <<>>
  BY <1>1, Messages
<1>2. CASE s # <<>>
  BY <1>2
<1>. QED
  BY <1>1, <1>2

LEMMA CliUsesOK ==
  ASSUME net \in [Conn -> Link], NEW k \in Conn, NEW n \in {0, 1}, n = 1 => net[k].down # <<>>,
         NEW out \in Seq(Message), NEW open \in BOOLEAN
  PROVE  /\ CliUses(k, n, out, open) \in [Conn -> Link]
         /\ \A j \in Conn :
              /\ CliUses(k, n, out, open)[j].cliEnd = IF j = k THEN open ELSE net[j].cliEnd
              /\ CliUses(k, n, out, open)[j].srvEnd = net[j].srvEnd
              /\ CliUses(k, n, out, open)[j].state = "pending" => net[j].state = "pending"
<1>. DEFINE w == [net[k] EXCEPT !.down = SubSeq(@, n + 1, Len(@)),
                                !.up = IF net[k].cut THEN @ ELSE @ \o out, !.cliEnd = open]
<1>1. SubSeq(net[k].down, n + 1, Len(net[k].down)) \in Seq(Message)
  BY Rest DEF Link
<1>2. net[k] \in Link /\ net[k].cut \in BOOLEAN
  BY DEF Link
<1>5. net[k].up \in Seq(Message) /\ net[k].up \o out \in Seq(Message)
  BY <1>2 DEF Link
<1>6. (IF net[k].cut THEN net[k].up ELSE net[k].up \o out) \in Seq(Message)
  BY <1>5
<1>3. w \in Link /\ w.cliEnd = open /\ w.srvEnd = net[k].srvEnd /\ w.state = net[k].state
  BY <1>1, <1>2, <1>6 DEF Link
<1>4. CliUses(k, n, out, open) = [net EXCEPT ![k] = Settled(w)]
  BY DEF CliUses
<1>. HIDE DEF w
<1>. QED
  BY <1>3, <1>4, SettledOK

LEMMA SrvUsesOK ==
  ASSUME NEW x \in [Conn -> Link], net \in [Conn -> Link], NEW k \in Conn, NEW n \in {0, 1},
         n = 1 => x[k].up # <<>>, NEW out \in Seq(Message), NEW open \in BOOLEAN
  PROVE  /\ SrvUses(x, k, n, out, open) \in [Conn -> Link]
         /\ \A j \in Conn :
              /\ SrvUses(x, k, n, out, open)[j].cliEnd = x[j].cliEnd
              /\ j = k => SrvUses(x, k, n, out, open)[j].srvEnd = open
              /\ j # k => SrvUses(x, k, n, out, open)[j].srvEnd = x[j].srvEnd
              /\ SrvUses(x, k, n, out, open)[j].state = "pending" => x[j].state = "pending"
<1>. DEFINE w == [x[k] EXCEPT !.up = SubSeq(@, n + 1, Len(@)),
                              !.down = IF net[k].cut THEN @ ELSE @ \o out, !.srvEnd = open]
<1>1. SubSeq(x[k].up, n + 1, Len(x[k].up)) \in Seq(Message)
  BY Rest DEF Link
<1>2. x[k] \in Link /\ net[k].cut \in BOOLEAN
  BY DEF Link
<1>5. x[k].down \in Seq(Message) /\ x[k].down \o out \in Seq(Message)
  BY <1>2 DEF Link
<1>6. (IF net[k].cut THEN x[k].down ELSE x[k].down \o out) \in Seq(Message)
  BY <1>5
<1>3. w \in Link /\ w.cliEnd = x[k].cliEnd /\ w.srvEnd = open /\ w.state = x[k].state
  BY <1>1, <1>2, <1>6 DEF Link
<1>4. SrvUses(x, k, n, out, open) = [x EXCEPT ![k] = Settled(w)]
  BY DEF SrvUses
<1>. HIDE DEF w
<1>. QED
  BY <1>3, <1>4, SettledOK

LEMMA SrvDrops ==
  ASSUME NEW x \in [Conn -> Link], net \in [Conn -> Link], NEW k \in Conn
  PROVE  /\ SrvUses(x, k, 0, <<>>, FALSE) \in [Conn -> Link]
         /\ \A j \in Conn :
              /\ SrvUses(x, k, 0, <<>>, FALSE)[j].cliEnd = x[j].cliEnd
              /\ j = k => SrvUses(x, k, 0, <<>>, FALSE)[j].srvEnd = FALSE
              /\ j # k => SrvUses(x, k, 0, <<>>, FALSE)[j].srvEnd = x[j].srvEnd
              /\ SrvUses(x, k, 0, <<>>, FALSE)[j].state = "pending" => x[j].state = "pending"
<1>1. \A n \in {0, 1}, out \in Seq(Message), open \in BOOLEAN :
        (n = 1 => x[k].up # <<>>) =>
          /\ SrvUses(x, k, n, out, open) \in [Conn -> Link]
          /\ \A j \in Conn :
               /\ SrvUses(x, k, n, out, open)[j].cliEnd = x[j].cliEnd
               /\ j = k => SrvUses(x, k, n, out, open)[j].srvEnd = open
               /\ j # k => SrvUses(x, k, n, out, open)[j].srvEnd = x[j].srvEnd
               /\ SrvUses(x, k, n, out, open)[j].state = "pending" => x[j].state = "pending"
  BY SrvUsesOK
<1>2. 0 \in {0, 1} /\ (0 = 1 => x[k].up # <<>>) /\ FALSE \in BOOLEAN /\ <<>> \in Seq(Message)
  BY Messages
<1>. QED
  BY <1>1, <1>2, ZenonT(40)

(***************************************************************************)
(* A loop of either end: it reads n messages, writes, and keeps its         *)
(* connection or closes it.                                                 *)
(***************************************************************************)
LEMMA Holding ==
  ASSUME LinkInv
  PROVE  /\ cli.conn \in Conn \cup {NoConn} /\ NoConn \notin Conn
         /\ \A i \in Slot : srv[i].conn \in Conn \cup {NoConn}
BY WsLinkAssumption DEF LinkInv, Peers, Peer, PeerOK

LEMMA FaultCounted ==
  ASSUME LinkInv, Fault
  PROVE  faults' \in 0 .. MaxFaults
BY WsLinkAssumption DEF LinkInv, Counts, Fault

LEMMA ClientMoves ==
  ASSUME LinkInv, cli.conn # NoConn, NEW n \in {0, 1}, n = 1 => net[cli.conn].down # <<>>,
         NEW q, PeerOK(q), q.conn \in {cli.conn, NoConn}, NEW out \in Seq(Message),
         cli' = q, net' = CliUses(cli.conn, n, out, q.conn = cli.conn), srv' = srv
  PROVE  Peers' /\ Links' /\ OneHolder'
<1>. DEFINE k == cli.conn
            open == q.conn = k
<1>1. k \in Conn /\ open \in BOOLEAN
  BY Holding
<1>2. /\ net' \in [Conn -> Link]
      /\ \A j \in Conn : /\ net'[j].cliEnd = IF j = k THEN open ELSE net[j].cliEnd
                         /\ net'[j].srvEnd = net[j].srvEnd
                         /\ net'[j].state = "pending" => net[j].state = "pending"
  <2>1. net \in [Conn -> Link] /\ net' = CliUses(k, n, out, open)
    BY DEF LinkInv, Links
  <2>. HIDE DEF open
  <2>. QED
    BY <1>1, <2>1, CliUsesOK
<1>3. Peers'
  BY DEF LinkInv, Peers, PeerOK
<1>4. Links'
  BY <1>2 DEF LinkInv, Links
<1>5. ASSUME NEW j \in Conn
      PROVE  net'[j].cliEnd <=> cli'.conn = j
  <2>1. cli'.conn \in {k, NoConn} /\ j # NoConn
    BY Holding
  <2>2. CASE j = k
    BY <1>2, <2>2
  <2>3. CASE j # k
    BY <1>2, <2>1, <2>3 DEF LinkInv, OneHolder
  <2>. QED
    BY <2>2, <2>3
<1>6. OneHolder'
  BY <1>2, <1>5 DEF LinkInv, OneHolder
<1>. QED
  BY <1>3, <1>4, <1>6

LEMMA ServerMoves ==
  ASSUME LinkInv, NEW i \in Slot, srv[i].conn # NoConn,
         NEW n \in {0, 1}, n = 1 => net[srv[i].conn].up # <<>>,
         NEW q, PeerOK(q), q.conn \in {srv[i].conn, NoConn}, NEW out \in Seq(Message),
         srv' = [srv EXCEPT ![i] = q],
         net' = SrvUses(net, srv[i].conn, n, out, q.conn = srv[i].conn), cli' = cli
  PROVE  Peers' /\ Links' /\ OneHolder'
<1>. DEFINE k == srv[i].conn
            open == q.conn = k
<1>1. k \in Conn /\ open \in BOOLEAN
  BY Holding
<1>2. /\ net' \in [Conn -> Link]
      /\ \A j \in Conn : /\ net'[j].cliEnd = net[j].cliEnd
                         /\ j = k => net'[j].srvEnd = open
                         /\ j # k => net'[j].srvEnd = net[j].srvEnd
                         /\ net'[j].state = "pending" => net[j].state = "pending"
  <2>1. net \in [Conn -> Link] /\ net' = SrvUses(net, k, n, out, open)
    BY DEF LinkInv, Links
  <2>. HIDE DEF open
  <2>. QED
    BY <1>1, <2>1, SrvUsesOK
<1>3. \A l \in Slot : srv'[l] = IF l = i THEN q ELSE srv[l]
  BY DEF LinkInv, Peers
<1>4. Peers'
  BY <1>3 DEF LinkInv, Peers, PeerOK
<1>5. net[k].srvEnd
  BY <1>1 DEF LinkInv, OneHolder
<1>6. Links'
  BY <1>2, <1>5 DEF LinkInv, Links
<1>7. ASSUME NEW j \in Conn
      PROVE  net'[j].srvEnd <=> \E l \in Slot : srv'[l].conn = j
  <2>1. CASE j = k
    <3>1. ASSUME NEW l \in Slot, l # i PROVE srv[l].conn # k
      BY <1>1, <3>1 DEF LinkInv, OneHolder
    <3>2. net'[j].srvEnd <=> q.conn = k
      BY <1>2, <2>1
    <3>3. (\E l \in Slot : srv'[l].conn = k) <=> srv'[i].conn = k
      BY <1>3, <3>1
    <3>. QED
      BY <1>3, <2>1, <3>2, <3>3
  <2>2. CASE j # k
    BY <1>1, <1>2, <1>3, <2>2, Holding DEF LinkInv, OneHolder
  <2>. QED
    BY <2>1, <2>2
<1>8. ASSUME NEW j \in Conn, NEW l \in Slot, NEW m \in Slot, srv'[l].conn = j, srv'[m].conn = j
      PROVE  l = m
  BY <1>3, <1>8, Holding DEF LinkInv, OneHolder
<1>9. OneHolder'
  BY <1>2, <1>7, <1>8 DEF LinkInv, OneHolder
<1>. QED
  BY <1>4, <1>6, <1>9

\* When a peer is done with its connection, and writes a last message or none.
LEMMA ClientLeft ==
  ASSUME LinkInv, cli.conn # NoConn, NEW out \in Seq(Message), ClientLeaves(out)
  PROVE  Peers' /\ Links' /\ OneHolder'
<1>1. PeerOK(Disconnected(cli)) /\ Disconnected(cli).conn = NoConn
  BY DisconnectedOK DEF LinkInv, Peers
<1>. DEFINE q == Disconnected(cli)
<1>2. (q.conn = cli.conn) = FALSE
  BY <1>1
<1>3. cli' = q /\ net' = CliUses(cli.conn, 0, out, q.conn = cli.conn) /\ srv' = srv
  BY <1>2 DEF ClientLeaves
<1>4. 0 \in {0, 1} /\ 0 # 1
  OBVIOUS
<1>. HIDE DEF q
<1>. QED
  BY <1>1, <1>3, <1>4, ClientMoves DEF q

LEMMA ServerLeft ==
  ASSUME LinkInv, NEW i \in Slot, srv[i].conn # NoConn, NEW out \in Seq(Message),
         srv' = [srv EXCEPT ![i] = Disconnected(@)],
         net' = SrvUses(net, srv[i].conn, 0, out, FALSE), cli' = cli
  PROVE  Peers' /\ Links' /\ OneHolder'
<1>1. PeerOK(Disconnected(srv[i])) /\ Disconnected(srv[i]).conn = NoConn
  BY DisconnectedOK DEF LinkInv, Peers
<1>. DEFINE q == Disconnected(srv[i])
<1>2. (q.conn = srv[i].conn) = FALSE
  BY <1>1
<1>3. srv' = [srv EXCEPT ![i] = q] /\ net' = SrvUses(net, srv[i].conn, 0, out, q.conn = srv[i].conn)
  BY <1>2
<1>4. PeerOK(q) /\ q.conn \in {srv[i].conn, NoConn}
  BY <1>1
<1>5. 0 \in {0, 1} /\ 0 # 1
  OBVIOUS
<1>. HIDE DEF q
<1>. QED
  BY <1>3, <1>4, <1>5, ServerMoves

(***************************************************************************)
(* The client's steps                                                       *)
(***************************************************************************)
LEMMA ConnectOK ==
  ASSUME LinkInv, Connect
  PROVE  LinkInv'
<1>1. PICK k \in Conn :
        /\ net[k] = Free
        /\ net' = [net EXCEPT ![k] = [Free EXCEPT !.state = "pending", !.cliEnd = TRUE,
                                                  !.up = <<"upgrade">>]]
        /\ cli' = [cli EXCEPT !.status = "header", !.conn = k]
  BY DEF Connect
<1>. DEFINE w == [Free EXCEPT !.state = "pending", !.cliEnd = TRUE, !.up = <<"upgrade">>]
<1>2. w \in Link /\ w.cliEnd /\ ~w.srvEnd
  BY Messages DEF Link, Free, Message
<1>3. ~net[k].cliEnd /\ ~net[k].srvEnd
  BY <1>1 DEF Free
<1>4. \A j \in Conn : net'[j] = IF j = k THEN w ELSE net[j]
  BY <1>1 DEF LinkInv, Links
<1>5. PeerOK(cli') /\ cli'.conn = k
  BY <1>1, Holding DEF LinkInv, Peers, PeerOK, Peer, Connect
<1>6. net' \in [Conn -> Link]
  BY <1>1, <1>2 DEF LinkInv, Links
<1>7. srv' = srv /\ cli.conn = NoConn
  BY DEF Connect
<1>. HIDE DEF w
<1>8. Links' /\ Peers'
  BY <1>2, <1>4, <1>5, <1>6, <1>7 DEF LinkInv, Links, Peers
<1>9. OneHolder'
  <2>1. ASSUME NEW j \in Conn
        PROVE  /\ net'[j].cliEnd <=> cli'.conn = j
               /\ net'[j].srvEnd <=> \E i \in Slot : srv'[i].conn = j
    BY <1>2, <1>3, <1>4, <1>5, <1>7, Holding DEF LinkInv, OneHolder
  <2>. QED
    BY <1>7, <2>1 DEF LinkInv, OneHolder
<1>. QED
  BY <1>8, <1>9 DEF LinkInv, Counts, Connect

LEMMA ClientLoopOK ==
  ASSUME LinkInv, ClientLoop
  PROVE  LinkInv'
<1>. DEFINE k == cli.conn
            r == ClientData(k)
            s == HeartbeatC(r)
            n == IF net[k].down = <<>> THEN 0 ELSE 1
<1>1. OutcomeOK(cli, r)
  <2>1. OutcomeOK(cli, [p |-> cli, out |-> <<>>])
    BY Messages DEF OutcomeOK, LinkInv, Peers
  <2>. QED
    BY <2>1, HandledOK DEF ClientData, LinkInv, Peers
<1>2. OutcomeOK(cli, s)
  BY <1>1, HBPingOK, HBTimeoutOK DEF HeartbeatC
<1>3. Peers' /\ Links' /\ OneHolder'
  <2>1. CASE CliUp(k)
    <3>1. cli' = s.p /\ net' = CliUses(k, n, s.out, s.p.conn = k) /\ srv' = srv
      BY <2>1 DEF ClientLoop
    <3>2. n \in {0, 1} /\ (n = 1 => net[k].down # <<>>)
      OBVIOUS
    <3>3. k # NoConn
      BY DEF ClientLoop
    <3>. HIDE DEF s, n
    <3>. QED
      BY <1>2, <3>1, <3>2, <3>3, ClientMoves DEF OutcomeOK
  <2>2. CASE ~CliUp(k)
    <3>1. ClientLeaves(<<>>) /\ k # NoConn
      BY <2>2 DEF ClientLoop, ClientLeaves
    <3>. QED
      BY <3>1, ClientLeft, Messages
  <2>. QED
    BY <2>1, <2>2
<1>4. Counts'
  BY DEF LinkInv, Counts, ClientLoop
<1>. QED
  BY <1>3, <1>4 DEF LinkInv

LEMMA ClientLeavesOK ==
  ASSUME LinkInv, HeaderTimesOut \/ ClientGivesUp
  PROVE  LinkInv'
<1>1. cli.conn # NoConn
  BY DEF LinkInv, Peers, PeerOK, HeaderTimesOut, ClientGivesUp
<1>2. <<"close">> \in Seq(Message)
  BY DEF Message
<1>3. Peers' /\ Links' /\ OneHolder'
  BY <1>1, <1>2, ClientLeft, Messages DEF HeaderTimesOut, ClientGivesUp
<1>4. Counts'
  <2>1. ran' = ran \cup {0} /\ (faults' = faults \/ Fault)
    BY DEF HeaderTimesOut, ClientGivesUp, ClientLeaves
  <2>. QED
    BY <2>1, FaultCounted DEF LinkInv, Counts
<1>. QED
  BY <1>3, <1>4 DEF LinkInv

(***************************************************************************)
(* The server's steps                                                       *)
(***************************************************************************)
LEMMA ServerLoopOK ==
  ASSUME LinkInv, NEW i \in Slot, ServerLoop(i)
  PROVE  LinkInv'
<1>. DEFINE k == srv[i].conn
            n == IF net[k].up = <<>> THEN 0 ELSE 1
            r(ok) == IF n = 0 THEN [p |-> srv[i], out |-> <<>>]
                     ELSE Handled(srv[i], Head(net[k].up), ok)
            s(ok) == HBTimeout(HBPing(r(ok)))
<1>1. PICK ok \in BOOLEAN :
        IF SrvUp(k)
          THEN /\ faults' = faults \/ Fault
               /\ srv' = [srv EXCEPT ![i] = s(ok).p]
               /\ net' = SrvUses(net, k, n, s(ok).out, s(ok).p.conn = k)
          ELSE /\ srv' = [srv EXCEPT ![i] = Disconnected(@)]
               /\ net' = SrvUses(net, k, 0, <<>>, FALSE)
               /\ faults' = faults
  BY DEF ServerLoop
<1>2. k # NoConn /\ cli' = cli /\ ran' = ran \cup {i} /\ PeerOK(srv[i])
  BY DEF ServerLoop, LinkInv, Peers
<1>3. OutcomeOK(srv[i], r(ok))
  <2>1. OutcomeOK(srv[i], [p |-> srv[i], out |-> <<>>])
    BY <1>2, Messages DEF OutcomeOK
  <2>. QED
    BY <1>2, <2>1, HandledOK
<1>4. OutcomeOK(srv[i], s(ok))
  BY <1>3, HBPingOK, HBTimeoutOK
<1>5. n \in {0, 1} /\ (n = 1 => net[k].up # <<>>)
  OBVIOUS
<1>. HIDE DEF s, n
<1>6. Peers' /\ Links' /\ OneHolder'
  <2>1. CASE SrvUp(k)
    BY <1>1, <1>2, <1>4, <1>5, <2>1, ServerMoves DEF OutcomeOK
  <2>2. CASE ~SrvUp(k)
    BY <1>1, <1>2, <2>2, ServerLeft, Messages
  <2>. QED
    BY <2>1, <2>2
<1>7. Counts'
  BY <1>1, <1>2, FaultCounted DEF LinkInv, Counts
<1>. QED
  BY <1>6, <1>7 DEF LinkInv

LEMMA ServerDisconnectOK ==
  ASSUME LinkInv, NEW i \in Slot, ServerDisconnect(i)
  PROVE  LinkInv'
<1>1. (IF srv[i].status = "connected" THEN <<"close">> ELSE <<>>) \in Seq(Message)
  BY Messages DEF Message
<1>2. Peers' /\ Links' /\ OneHolder'
  BY <1>1, ServerLeft DEF ServerDisconnect, Live
<1>3. Counts'
  BY FaultCounted DEF LinkInv, Counts, ServerDisconnect
<1>. QED
  BY <1>2, <1>3 DEF LinkInv

\* handleNewClients looks for the first slot that is not connected, and finds it.
LEMMA FirstIdle ==
  ASSUME NEW idle \in SUBSET Slot, idle # {}
  PROVE  (CHOOSE j \in idle : \A l \in idle : j <= l) \in idle
<1>1. idle \subseteq Nat
  BY WsLinkAssumption DEF Slot
<1>. DEFINE Lt == OpToRel(<, Nat)
<1>2. PICK j \in idle : \A l \in idle : <<l, j>> \notin Lt
  BY <1>1, NatLessThanWellFounded, WFMin, Zenon
<1>3. \A a, b \in Nat : a < b => <<a, b>> \in Lt
  BY Zenon DEF OpToRel
<1>. HIDE DEF Lt
<1>4. ASSUME NEW l \in idle PROVE j <= l
  <2>1. l \in Nat /\ j \in Nat
    BY <1>1
  <2>2. ~(l < j)
    BY <1>2, <1>3, <2>1, Zenon
  <2>. QED
    BY <2>1, <2>2
<1>. QED
  BY <1>4

LEMMA AcceptOK ==
  ASSUME LinkInv, Accept
  PROVE  LinkInv'
<1>. DEFINE Opened(k) == [net[k] EXCEPT !.state = "open", !.srvEnd = TRUE]
            idle == {i \in Slot : ~Live(i)}
            i == CHOOSE j \in idle : \A l \in idle : j <= l
            old == srv[i].conn
            taken(k) == [LeftSlot(i) EXCEPT !.status = "header", !.conn = k, !.age = 0,
                                            !.pong = FALSE]
<1>1. PICK k \in Conn :
        /\ net[k].state = "pending"
        /\ IF idle = {}
             THEN /\ net' = [net EXCEPT ![k] = Settled([Opened(k) EXCEPT !.srvEnd = FALSE])]
                  /\ srv' = srv
             ELSE /\ srv' = [srv EXCEPT ![i] = taken(k)]
                  /\ net' = (IF old = NoConn THEN [net EXCEPT ![k] = Opened(k)]
                             ELSE SrvUses([net EXCEPT ![k] = Opened(k)], old, 0, <<>>, FALSE))
  BY DEF Accept
<1>2. cli' = cli /\ ran' = ran /\ faults' = faults
  BY DEF Accept
<1>. DEFINE o == Opened(k)
<1>3. o \in Link /\ o.cliEnd = net[k].cliEnd /\ o.srvEnd = TRUE /\ o.state = "open"
  BY DEF LinkInv, Links, Link
<1>4. net[k].srvEnd = FALSE /\ \A l \in Slot : srv[l].conn # k
  BY <1>1 DEF LinkInv, Links, OneHolder, Link
<1>5. CASE idle = {}
  <2>. DEFINE w == [o EXCEPT !.srvEnd = FALSE]
  <2>1. w \in Link /\ w.cliEnd = net[k].cliEnd /\ w.srvEnd = FALSE
    BY <1>3 DEF Link
  <2>2. net' = [net EXCEPT ![k] = Settled(w)] /\ srv' = srv
    BY <1>1, <1>5
  <2>. HIDE DEF w
  <2>3. /\ net' \in [Conn -> Link]
        /\ \A j \in Conn : /\ net'[j].cliEnd = net[j].cliEnd
                           /\ net'[j].srvEnd = net[j].srvEnd
    BY <1>4, <2>1, <2>2, SettledOK DEF LinkInv, Links
  <2>4. Links'
    <3>1. \A j \in Conn : j # k => net'[j] = net[j]
      BY <2>2 DEF LinkInv, Links
    <3>. QED
      BY <1>4, <2>3, <3>1 DEF LinkInv, Links
  <2>5. OneHolder'
    BY <1>2, <2>2, <2>3 DEF LinkInv, OneHolder
  <2>. QED
    BY <1>2, <2>2, <2>4, <2>5 DEF LinkInv, Peers, Counts
<1>6. CASE idle # {}
  <2>. DEFINE x == [net EXCEPT ![k] = o]
  <2>1. i \in Slot
    BY <1>6, FirstIdle
  <2>2. PeerOK(taken(k)) /\ taken(k).conn = k
    <3>1. PeerOK(LeftSlot(i)) /\ 0 \in 0 .. Late
      BY <2>1, DisconnectedOK, WsLinkAssumption DEF LeftSlot, LinkInv, Peers, Late
    <3>2. LeftSlot(i).seen = FALSE /\ k # NoConn
      BY <2>1, Holding DEF LeftSlot, Disconnected, LinkInv, Peers, Peer
    <3>. QED
      BY <3>1, <3>2 DEF PeerOK, Peer
  <2>3. /\ srv' = [srv EXCEPT ![i] = taken(k)]
        /\ net' = IF old = NoConn THEN x ELSE SrvUses(x, old, 0, <<>>, FALSE)
    BY <1>1, <1>6
  <2>4. x \in [Conn -> Link] /\ \A j \in Conn : x[j] = IF j = k THEN o ELSE net[j]
    BY <1>3 DEF LinkInv, Links
  <2>5. old \in Conn \cup {NoConn} /\ old # k
    BY <1>4, <2>1, Holding
  <2>. HIDE DEF x, i, idle
  <2>6. /\ net' \in [Conn -> Link]
        /\ \A j \in Conn :
             /\ net'[j].cliEnd = x[j].cliEnd
             /\ j = old => net'[j].srvEnd = FALSE
             /\ j # old => net'[j].srvEnd = x[j].srvEnd
             /\ net'[j].state = "pending" => x[j].state = "pending"
    <3>1. CASE old = NoConn
      BY <2>3, <2>4, <3>1, Holding
    <3>2. CASE old # NoConn
      <4>1. old \in Conn /\ net' = SrvUses(x, old, 0, <<>>, FALSE) /\ net \in [Conn -> Link]
        BY <2>3, <2>5, <3>2 DEF LinkInv, Links
      <4>2. x \in [Conn -> Link]
        BY <2>4
      <4>. HIDE DEF old, o
      <4>. QED
        BY <4>1, <4>2, SrvDrops
    <3>. QED
      BY <3>1, <3>2
  <2>7. \A l \in Slot : srv'[l] = IF l = i THEN taken(k) ELSE srv[l]
    BY <2>3 DEF LinkInv, Peers
  <2>. HIDE DEF o, taken, old
  <2>8. Peers'
    <3>1. taken(k) \in Peer
      BY <2>2 DEF PeerOK
    <3>2. srv' \in [Slot -> Peer]
      BY <2>3, <3>1 DEF LinkInv, Peers
    <3>. QED
      BY <1>2, <2>2, <2>7, <3>2 DEF LinkInv, Peers
  <2>9. Links'
    BY <1>3, <2>4, <2>6 DEF LinkInv, Links
  <2>10. \A j \in Conn : net'[j].cliEnd <=> cli'.conn = j
    BY <1>2, <1>3, <2>4, <2>6 DEF LinkInv, OneHolder
  <2>11. ASSUME NEW j \in Conn
         PROVE  net'[j].srvEnd <=> \E l \in Slot : srv'[l].conn = j
    <3>1. CASE j = k
      BY <1>3, <2>1, <2>2, <2>4, <2>5, <2>6, <2>7, <3>1
    <3>2. CASE j = old
      <4>1. \A l \in Slot : l # i => srv[l].conn # j
        BY <2>1, <3>2 DEF old, LinkInv, OneHolder
      <4>. QED
        BY <2>2, <2>5, <2>6, <2>7, <3>2, <4>1
    <3>3. CASE j # k /\ j # old
      BY <2>1, <2>2, <2>4, <2>6, <2>7, <3>3 DEF old, LinkInv, OneHolder
    <3>. QED
      BY <3>1, <3>2, <3>3
  <2>12. ASSUME NEW j \in Conn, NEW l \in Slot, NEW m \in Slot, srv'[l].conn = j, srv'[m].conn = j
         PROVE  l = m
    BY <1>4, <2>2, <2>7, <2>12 DEF LinkInv, OneHolder
  <2>13. OneHolder'
    BY <2>10, <2>11, <2>12 DEF OneHolder
  <2>. QED
    BY <1>2, <2>8, <2>9, <2>13 DEF LinkInv, Counts
<1>. QED
  BY <1>5, <1>6

(***************************************************************************)
(* The network and the clock                                                *)
(***************************************************************************)
LEMMA CutOK ==
  ASSUME LinkInv, NEW k \in Conn, Cut(k)
  PROVE  LinkInv'
<1>. DEFINE w == [net[k] EXCEPT !.cut = TRUE, !.up = <<>>, !.down = <<>>]
<1>1. /\ w \in Link /\ w.cliEnd = net[k].cliEnd /\ w.srvEnd = net[k].srvEnd
      /\ w.state = net[k].state
  BY Messages DEF LinkInv, Links, Link
<1>2. net' = [net EXCEPT ![k] = w] /\ cli' = cli /\ srv' = srv /\ ran' = ran /\ Fault
  BY DEF Cut
<1>. HIDE DEF w
<1>3. Links' /\ \A j \in Conn : net'[j].cliEnd = net[j].cliEnd /\ net'[j].srvEnd = net[j].srvEnd
  BY <1>1, <1>2 DEF LinkInv, Links
<1>4. OneHolder' /\ Peers'
  BY <1>2, <1>3 DEF LinkInv, OneHolder, Peers
<1>. QED
  BY <1>2, <1>3, <1>4, FaultCounted DEF LinkInv, Counts

LEMMA OlderOK ==
  ASSUME NEW p, PeerOK(p)
  PROVE  PeerOK(Older(p)) /\ Older(p).conn = p.conn
<1>1. (IF p.age = Late THEN p.age ELSE p.age + 1) \in 0 .. Late
  BY WsLinkAssumption DEF PeerOK, Peer, Late
<1>. QED
  BY <1>1 DEF PeerOK, Peer, Older

LEMMA TickOK ==
  ASSUME LinkInv, Tick
  PROVE  LinkInv'
<1>1. /\ cli' = Older(cli) /\ srv' = [i \in Slot |-> Older(srv[i])]
      /\ ran' = {} /\ net' = net /\ faults' = faults
  BY DEF Tick
<1>2. PeerOK(cli') /\ cli'.conn = cli.conn
  BY <1>1, OlderOK DEF LinkInv, Peers
<1>3. \A i \in Slot : PeerOK(srv'[i]) /\ srv'[i].conn = srv[i].conn
  BY <1>1, OlderOK DEF LinkInv, Peers
<1>4. srv' \in [Slot -> Peer]
  BY <1>1, <1>3 DEF PeerOK
<1>5. OneHolder'
  BY <1>1, <1>2, <1>3 DEF LinkInv, OneHolder
<1>. QED
  BY <1>1, <1>2, <1>3, <1>4, <1>5 DEF LinkInv, Peers, Links, Counts

----------------------------------------------------------------------------
\* What a run of client, server and network keeps to: every peer that is not
\* disconnected has a connection and has told the application of it, and every
\* open end of a connection is some peer's, and only one peer's.
THEOREM LinkKept == Spec => []LinkInv
<1>1. Init => LinkInv
  <2>. SUFFICES ASSUME Init PROVE LinkInv
    OBVIOUS
  <2>1. PeerOK(NewPeer) /\ NewPeer.conn = NoConn
    <3>1. 0 \in 0 .. Late /\ 0 \in 0 .. WRAP - 1
      BY WsLinkAssumption DEF Late
    <3>. QED
      BY <3>1 DEF PeerOK, Peer, NewPeer
  <2>2. Free \in Link /\ ~Free.cliEnd /\ ~Free.srvEnd
    BY Messages DEF Free, Link
  <2>3. Peers
    BY <2>1 DEF Init, Peers, PeerOK
  <2>4. Links
    BY <2>2 DEF Init, Links
  <2>5. OneHolder
    BY <2>1, <2>2, WsLinkAssumption DEF Init, OneHolder
  <2>. QED
    BY <2>3, <2>4, <2>5, WsLinkAssumption DEF Init, LinkInv, Counts
<1>2. LinkInv /\ [Next]_vars => LinkInv'
  <2>. SUFFICES ASSUME LinkInv, [Next]_vars PROVE LinkInv'
    OBVIOUS
  <2>1. CASE Connect
    BY <2>1, ConnectOK
  <2>2. CASE ConnectLater
    BY <2>2 DEF ConnectLater, LinkInv, Peers, Links, Counts, OneHolder
  <2>3. CASE ClientLoop
    BY <2>3, ClientLoopOK
  <2>4. CASE HeaderTimesOut \/ ClientGivesUp
    BY <2>4, ClientLeavesOK
  <2>5. CASE Accept
    BY <2>5, AcceptOK
  <2>6. ASSUME NEW i \in Slot, ServerLoop(i) \/ ServerDisconnect(i) PROVE LinkInv'
    BY <2>6, ServerLoopOK, ServerDisconnectOK
  <2>7. ASSUME NEW k \in Conn, Cut(k) PROVE LinkInv'
    BY <2>7, CutOK
  <2>8. CASE Tick
    BY <2>8, TickOK
  <2>9. CASE UNCHANGED vars
    BY <2>9 DEF vars, LinkInv, Peers, Links, Counts, OneHolder
  <2>. QED
    BY <2>1, <2>2, <2>3, <2>4, <2>5, <2>6, <2>7, <2>8, <2>9 DEF Next
<1>. QED
  BY <1>1, <1>2, PTL DEF Spec

\* WSclient_t and the connections keep the values their declarations allow:
\* pongTimeoutCount stays in its uint8_t however many pongs are missed.
THEOREM LinkTypeCorrect == Spec => []TypeOK
<1>1. LinkInv => TypeOK
  BY DEF LinkInv, Peers, PeerOK, Links, Link, Counts, TypeOK
<1>. QED
  BY <1>1, LinkKept, PTL

\* runCbEvent: whatever ends a connection, or takes the slot of a dead one, has
\* told the application of it, and nothing tells it of one that is not up.
THEOREM EveryChangeTold == Spec => []ToldOfEveryChange
<1>1. LinkInv => ToldOfEveryChange
  BY DEF LinkInv, Peers, PeerOK, ToldOfEveryChange
<1>. QED
  BY <1>1, LinkKept, PTL

\* WSclient_t.tcp: no socket outlives the object that holds it, and no two slots
\* hold the same one, for any number of connections and slots.
THEOREM NoneLeaked == Spec => []OneHolder
<1>1. LinkInv => OneHolder
  BY DEF LinkInv
<1>. QED
  BY <1>1, LinkKept, PTL
=============================================================================
