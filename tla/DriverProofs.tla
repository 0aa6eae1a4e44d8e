---------------------------- MODULE DriverProofs ----------------------------
(***************************************************************************)
(* Proofs about the driver's arithmetic: ranging (Twr), SPI transactions    *)
(* (Spi) and the buffers and diagnostics (DwData).                          *)
(***************************************************************************)
EXTENDS Twr, Spi, Port, DwData, Analog, Nvm, Power, Geometry, SequenceTheorems, TLAPS

\* The reply the tag promises in the answer is the one its radio keeps: the
\* instant the radio waits for is the timestamp sent, whatever the clock shows
\* and whether or not it wraps meanwhile (TAGFinal.ino:101-104).
LEMMA ReplyIsKept ==
  ASSUME NEW t \in Nat, t < Two40, NEW delay \in Nat, NEW antenna \in Nat,
         512 <= delay, delay + antenna < Two31
  PROVE  /\ Reply(t, delay, antenna) \in Nat
         /\ Reply(t, delay, antenna) < Two31
         /\ Low32(resp_tx_ts(t, delay, antenna) - t) = Reply(t, delay, antenna)
BY SMT DEF Reply, Until, resp_tx_time, resp_tx_ts, DelayedTx, Low40, Low32, Shr8, Two40, Two32, Two31

LEMMA DifferenceOfLow32 ==
  ASSUME NEW a \in Int, NEW b \in Int
  PROVE  Difference(Low32(a), Low32(b)) = Int32(Low32(a - b))
BY SMT DEF Difference, Low32, Two32

LEMMA SmallIsItself ==
  ASSUME NEW n \in Nat, n < Two31
  PROVE  Int32(Low32(n)) = n
BY SMT DEF Int32, Low32, Two31, Two32

\* An exchange measures twice the time of flight exactly: for every value of the
\* two clocks, whichever of the four timestamps wrap in 32 or in 40 bits, as long
\* as the whole exchange takes less than 2^31 ticks, 33 ms
\* (ANCHOR2Final.ino:125-134, TAGFinal.ino:99-107).
THEOREM MeasuresTimeOfFlight ==
  ASSUME NEW a \in Nat, NEW t \in Nat, t < Two40, NEW tof \in Nat,
         NEW delay \in Nat, NEW antenna \in Nat,
         512 <= delay, tof + tof + delay + antenna < Two31
  PROVE  Measured(a, t, tof, delay, antenna) = tof + tof
<1> DEFINE R == Reply(t, delay, antenna)
           tx == resp_tx_ts(t, delay, antenna)
<1>1. delay + antenna < Two31
  BY SMT DEF Two31
<1>2. R \in Nat /\ R <= delay + antenna /\ Low32(tx - t) = R /\ R < Two31
  <2>1. R \in Nat /\ R < Two31 /\ Low32(tx - t) = R
    BY <1>1, ReplyIsKept
  <2>2. R <= delay + antenna
    BY SMT DEF Reply, Until, resp_tx_time, DelayedTx, Low40, Low32, Shr8, Two40, Two32
  <2> QED BY <2>1, <2>2
<1>3. tx \in Int
  BY SMT DEF resp_tx_ts, DelayedTx, resp_tx_time, Low32, Shr8, Two32
<1> HIDE DEF R, tx
<1>4. rtd_init(Low32(a), Low32(a + tof + R + tof)) = tof + tof + R
  <2>1. Difference(Low32(a + tof + R + tof), Low32(a)) = Int32(Low32(a + tof + R + tof - a))
    BY <1>2, DifferenceOfLow32
  <2>2. a + tof + R + tof - a = tof + tof + R
    BY <1>2
  <2>3. tof + tof + R \in Nat /\ tof + tof + R < Two31
    BY SMT, <1>2 DEF Two31
  <2>4. Int32(Low32(tof + tof + R)) = tof + tof + R
    BY <2>3, SmallIsItself
  <2> QED BY <2>1, <2>2, <2>4 DEF rtd_init
<1>5. rtd_resp(Low32(t), Low32(tx)) = R
  <2>1. Difference(Low32(tx), Low32(t)) = Int32(Low32(tx - t))
    BY <1>3, DifferenceOfLow32
  <2>2. Int32(Low32(tx - t)) = Int32(Low32(R)) /\ Int32(Low32(R)) = R
    <3>1. Int32(Low32(R)) = R
      BY <1>2, SmallIsItself
    <3>2. Low32(Low32(tx - t)) = Low32(tx - t)
      BY SMT, <1>3 DEF Low32, Two32
    <3>3. Int32(Low32(tx - t)) = Int32(R)
      BY <1>2
    <3>4. Int32(R) = R
      BY SMT, <1>2 DEF Int32
    <3> QED BY <3>1, <3>3, <3>4
  <2> QED BY <2>1, <2>2 DEF rtd_resp
<1> QED
  <2>1. Measured(a, t, tof, delay, antenna)
          = rtd_init(Low32(a), Low32(a + tof + R + tof)) - rtd_resp(Low32(t), Low32(tx))
    BY DEF Measured, TwiceToF, R, tx
  <2>2. Measured(a, t, tof, delay, antenna) = (tof + tof + R) - R
    BY <2>1, <1>4, <1>5
  <2> QED BY SMT, <2>2, <1>2

LEMMA TwoDigits ==
  ASSUME NEW n \in Nat, NEW x \in Nat, NEW y \in Nat, NEW p \in Nat, NEW q \in Nat,
         n = x * 256 + p, x = y * 256 + q
  PROVE  n = y * 65536 + q * 256 + p
BY SMT

\* The four bytes of a timestamp in a frame are read back as its low 32 bits.
THEOREM TimestampRoundTrip ==
  ASSUME NEW ts \in Nat
  PROVE  resp_msg_get_ts(resp_msg_set_ts(ts)) = Low32(ts)
<1> DEFINE a == Shr8(ts)  b == Shr8(a)  c == Shr8(b)
<1>1. a \in Nat /\ ts = a * 256 + Low8(ts) /\ Low8(ts) \in Nat /\ Low8(ts) < 256
  BY SMT DEF Shr8, Low8
<1>2. b \in Nat /\ a = b * 256 + Low8(a) /\ Low8(a) \in Nat /\ Low8(a) < 256
  BY SMT, <1>1 DEF Shr8, Low8
<1>3. c \in Nat /\ b = c * 256 + Low8(b) /\ Low8(b) \in Nat /\ Low8(b) < 256
  BY SMT, <1>2 DEF Shr8, Low8
<1> DEFINE d == Shr8(c)
<1>4. d \in Nat /\ c = d * 256 + Low8(c) /\ Low8(c) \in Nat /\ Low8(c) < 256
  BY SMT, <1>3 DEF Shr8, Low8
<1>5. resp_msg_get_ts(resp_msg_set_ts(ts))
        = Low8(ts) + Low8(a) * 256 + Low8(b) * 65536 + Low8(c) * 16777216
  BY DEF resp_msg_get_ts, resp_msg_set_ts
<1> HIDE DEF a, b, c, d
<1>6. ts = d * Two32 + (Low8(ts) + Low8(a) * 256 + Low8(b) * 65536 + Low8(c) * 16777216)
  <2> DEFINE x == Low8(a) * 256 + Low8(ts)  y == Low8(c) * 256 + Low8(b)
  <2>1. ts = b * 65536 + x /\ x \in Nat
    BY SMT, <1>1, <1>2, TwoDigits
  <2>2. b = d * 65536 + y /\ y \in Nat
    BY SMT, <1>3, <1>4, TwoDigits
  <2>3. y * 65536 + x = Low8(ts) + Low8(a) * 256 + Low8(b) * 65536 + Low8(c) * 16777216
    BY SMT, <1>1, <1>2, <1>3, <1>4
  <2> HIDE DEF x, y
  <2>4. ts = d * Two32 + (y * 65536 + x)
    BY SMT, <1>1, <1>2, <1>4, <2>1, <2>2 DEF Two32
  <2> QED BY <2>3, <2>4
<1> DEFINE low == Low8(ts) + Low8(a) * 256 + Low8(b) * 65536 + Low8(c) * 16777216
<1>7. low \in Nat /\ low < Two32
  BY SMT, <1>1, <1>2, <1>3, <1>4 DEF Two32
<1>8. ts = d * Two32 + low
  BY <1>6
<1> HIDE DEF low
<1>9. Low32(ts) = low
  BY SMT, <1>4, <1>7, <1>8 DEF Low32, Two32
<1> QED BY <1>5, <1>9 DEF low

----------------------------------------------------------------------------
(* The SPI transactions. *)

LEMMA ModesSent == AsSent \subseteq Modes
<1>1. WR_BIT \in Modes /\ RD_BIT \in Modes
  BY DEF WR_BIT, RD_BIT, Modes
<1>2. AND_OR(1) \in Modes /\ AND_OR(2) \in Modes /\ AND_OR(4) \in Modes
  BY DEF AND_OR, Modes
<1> QED BY <1>1, <1>2 DEF AsSent

\* The chip finds in a header the register and the mode the driver meant, for every
\* register within reach of a header and every access with data
\* (dw3000_device_api.cpp:186-229).
THEOREM HeaderIsUnderstood ==
  ASSUME NEW file \in Files, NEW offset \in Offsets, NEW indx \in Nat,
         offset + indx \in Offsets, NEW length \in Nat \ {0}, NEW mode \in AsSent
  PROVE  LET h == dwt_xfer3000([file |-> file, offset |-> offset], indx, length, mode)
         IN  ~IsCommand(h) /\ Access(h) = [file |-> file, offset |-> offset + indx, mode |-> mode]
<1> DEFINE r == [file |-> file, offset |-> offset]
           o == offset + indx
           h == dwt_xfer3000(r, indx, length, mode)
<1>1. reg_file(r, indx) = file /\ reg_offset(r, indx) = o
  BY SMT DEF reg_file, reg_offset, Files, Offsets
<1>2. mode.write \in BOOLEAN /\ mode.sub \in 0 .. 3 /\ mode = [write |-> mode.write, sub |-> mode.sub]
  BY ModesSent DEF Modes
<1>o. o \in Nat /\ o < 128
  BY SMT DEF Offsets
<1>3. CASE o = 0 /\ mode \in {WR_BIT, RD_BIT}
  <2>1. h = <<WBit(mode) + 2 * file>>
    BY <1>1, <1>3 DEF dwt_xfer3000, ShortHeader
  <2>2. mode.sub = 0
    BY <1>3 DEF WR_BIT, RD_BIT
  <2>3. Len(h) = 1 /\ h[1] = WBit(mode) + 2 * file
    BY <2>1
  <2>4. WBit(mode) = IF mode.write THEN 128 ELSE 0
    BY DEF WBit
  <2>5. /\ h[1] % 2 = 0 /\ (h[1] \div 64) % 2 = 0 /\ (h[1] \div 2) % 32 = file
        /\ (h[1] \div 128 = 1) = mode.write
    BY SMT, <2>3, <2>4, <1>2 DEF Files
  <2> QED BY <1>2, <1>3, <2>2, <2>3, <2>5 DEF IsCommand, Access, Extended
<1>4. CASE ~(o = 0 /\ mode \in {WR_BIT, RD_BIT})
  <2>1. h = <<WBit(mode) + 64 + 2 * file + o \div 64, (o % 64) * 4 + mode.sub>>
    BY <1>1, <1>4 DEF dwt_xfer3000, LongHeader
  <2>2. Len(h) = 2 /\ h[1] = WBit(mode) + 64 + 2 * file + o \div 64
                  /\ h[2] = (o % 64) * 4 + mode.sub
    BY <2>1
  <2>3. WBit(mode) = IF mode.write THEN 128 ELSE 0
    BY DEF WBit
  <2>4. /\ o \div 64 \in Nat /\ o \div 64 < 2 /\ o % 64 \in Nat /\ o % 64 < 64
        /\ o = (o % 64) + (o \div 64) * 64
    <3> HIDE DEF o
    <3> QED BY SMT, <1>o
  <2>5. /\ (h[1] \div 64) % 2 = 1 /\ (h[1] \div 2) % 32 = file
        /\ (h[1] \div 128 = 1) = mode.write /\ h[1] % 2 = o \div 64
    <3> DEFINE d == o \div 64
    <3>1. d \in Nat /\ d < 2 /\ h[1] = WBit(mode) + 64 + 2 * file + d
      BY <2>2, <2>4
    <3> HIDE DEF d, o, h
    <3>2. /\ (h[1] \div 64) % 2 = 1 /\ (h[1] \div 2) % 32 = file
          /\ (h[1] \div 128 = 1) = mode.write /\ h[1] % 2 = d
      BY SMT, <3>1, <2>3, <1>2 DEF Files
    <3> QED BY <3>2 DEF d
  <2>6. h[2] % 4 = mode.sub /\ h[2] \div 4 = o % 64
    <3> DEFINE e == o % 64
    <3>1. e \in Nat /\ e < 64 /\ h[2] = e * 4 + mode.sub
      BY <2>2, <2>4
    <3> HIDE DEF e, o, h
    <3>2. h[2] % 4 = mode.sub /\ h[2] \div 4 = e
      BY SMT, <3>1, <1>2
    <3> QED BY <3>2 DEF e
  <2>7. (h[1] % 2) * 64 + h[2] \div 4 = o
    BY SMT, <2>4, <2>5, <2>6
  <2>8. Access(h) = [file |-> file, offset |-> o, mode |-> [write |-> mode.write, sub |-> mode.sub]]
    BY <2>5, <2>6, <2>7 DEF Access, Extended
  <2> QED BY <1>2, <2>2, <2>8 DEF IsCommand
<1> QED BY <1>3, <1>4

\* With nothing to transfer the same call is a command of the chip, whose number is
\* the low bits of the register's address (dw3000_device_api.cpp:205-214).
THEOREM NothingIsACommand ==
  ASSUME NEW file \in Files, NEW offset \in Offsets, NEW indx \in Nat, NEW mode \in AsSent
  PROVE  LET h == dwt_xfer3000([file |-> file, offset |-> offset], indx, 0, mode)
         IN  IsCommand(h) /\ Command(h) = offset % 32
<1>1. dwt_xfer3000([file |-> file, offset |-> offset], indx, 0, mode) = <<129 + 2 * (offset % 32)>>
  BY DEF dwt_xfer3000, FastCommand
<1> QED BY SMT, <1>1 DEF IsCommand, Command, Offsets

LEMMA DivMod8 ==
  ASSUME NEW i \in Nat
  PROVE  i % 8 \in Nat /\ i % 8 < 8 /\ i \div 8 \in Nat /\ i = (i \div 8) * 8 + (i % 8)
<1>1. i % 8 \in Nat /\ i % 8 < 8
  BY SMT
<1>2. i \div 8 \in Nat
  BY SMT
<1>3. i = (i \div 8) * 8 + (i % 8)
  BY SMT
<1> QED BY <1>1, <1>2, <1>3

LEMMA Index ==
  ASSUME NEW n \in Nat, NEW i \in 0 .. (8 * n - 1)
  PROVE  /\ i % 8 \in Bits8 /\ (i \div 8) + 1 \in 1 .. n
         /\ 8 * (((i \div 8) + 1) - 1) + (i % 8) = i
<1>1. i \in Nat /\ i < 8 * n
  BY SMT
<1>2. i % 8 \in Nat /\ i % 8 < 8 /\ i \div 8 \in Nat
  BY <1>1, DivMod8
<1>3. i = (i \div 8) * 8 + (i % 8)
  BY <1>1, DivMod8
<1>4. i \div 8 < n
  BY SMT, <1>1, <1>2, <1>3
<1> QED BY SMT, <1>2, <1>3, <1>4 DEF Bits8

LEMMA BytesType ==
  ASSUME NEW v, NEW n \in Nat
  PROVE  /\ Bytes(v, n) \in Seq(SUBSET Bits8) /\ Len(Bytes(v, n)) = n
         /\ \A k \in 1 .. n : Bytes(v, n)[k] = {b \in Bits8 : 8 * (k - 1) + b \in v}
BY DEF Bytes

LEMMA ValueOfBytes ==
  ASSUME NEW n \in Nat, NEW v \in SUBSET (0 .. (8 * n - 1))
  PROVE  Value(Bytes(v, n)) = v
<1>1. \A i \in 0 .. (8 * n - 1) : i % 8 \in Bytes(v, n)[(i \div 8) + 1] <=> i \in v
  <2> TAKE i \in 0 .. (8 * n - 1)
  <2>1. i % 8 \in Bits8 /\ (i \div 8) + 1 \in 1 .. n /\ 8 * (((i \div 8) + 1) - 1) + (i % 8) = i
    BY Index
  <2>2. Bytes(v, n)[(i \div 8) + 1] = {b \in Bits8 : 8 * (((i \div 8) + 1) - 1) + b \in v}
    BY <2>1, BytesType
  <2> DEFINE j == i % 8  m == 8 * (((i \div 8) + 1) - 1)
  <2>3. j \in Bits8 /\ m + j = i /\ Bytes(v, n)[(i \div 8) + 1] = {b \in Bits8 : m + b \in v}
    BY <2>1, <2>2
  <2> HIDE DEF j, m
  <2>4. j \in Bytes(v, n)[(i \div 8) + 1] <=> i \in v
    BY <2>3
  <2> QED BY <2>4 DEF j
<1>2. Len(Bytes(v, n)) = n
  BY BytesType
<1> QED BY Zenon, <1>1, <1>2 DEF Value

LEMMA ReadStored ==
  ASSUME NEW mem \in Memory, NEW r \in [file : Files, offset : Nat], NEW n \in Nat,
         NEW bytes \in Seq(SUBSET Bits8), Len(bytes) = n
  PROVE  BytesAt(Stored(mem, r, bytes), r, n) = bytes
<1>1. r.file \in Files /\ r.offset \in Nat
  OBVIOUS
<1>2. Stored(mem, r, bytes)[r.file] =
        [o \in Nat |-> IF o >= r.offset /\ o < r.offset + Len(bytes)
                         THEN bytes[o - r.offset + 1] ELSE mem[r.file][o]]
  BY <1>1 DEF Stored, Memory
<1>3. \A k \in 1 .. n : Stored(mem, r, bytes)[r.file][r.offset + k - 1] = bytes[k]
  <2> TAKE k \in 1 .. n
  <2>1. /\ r.offset + k - 1 \in Nat /\ r.offset + k - 1 >= r.offset
        /\ r.offset + k - 1 < r.offset + Len(bytes) /\ (r.offset + k - 1) - r.offset + 1 = k
    BY <1>1
  <2> QED BY <1>2, <2>1
<1> QED BY <1>3 DEF BytesAt

\* A register reads as it was last written, in each of the three widths
\* (dw3000_device_api.cpp:331-458).
THEOREM ReadsWhatWasWritten ==
  ASSUME NEW mem \in Memory, NEW r \in [file : Files, offset : Nat]
  PROVE  /\ \A v \in SUBSET (0 .. 7) :
              dwt_read8bitoffsetreg(dwt_write8bitoffsetreg(mem, r, v), r) = v
         /\ \A v \in SUBSET (0 .. 15) :
              dwt_read16bitoffsetreg(dwt_write16bitoffsetreg(mem, r, v), r) = v
         /\ \A v \in SUBSET (0 .. 31) :
              dwt_read32bitoffsetreg(dwt_write32bitoffsetreg(mem, r, v), r) = v
<1>1. \A n \in Nat : \A v \in SUBSET (0 .. (8 * n - 1)) :
        Value(BytesAt(Stored(mem, r, Bytes(v, n)), r, n)) = v
  <2> TAKE n \in Nat
  <2> TAKE v \in SUBSET (0 .. (8 * n - 1))
  <2>1. BytesAt(Stored(mem, r, Bytes(v, n)), r, n) = Bytes(v, n)
    BY BytesType, ReadStored
  <2> QED BY <2>1, ValueOfBytes
<1>2. 8 * 1 - 1 = 7 /\ 8 * 2 - 1 = 15 /\ 8 * 4 - 1 = 31 /\ 1 \in Nat /\ 2 \in Nat /\ 4 \in Nat
  OBVIOUS
<1>3. \A v \in SUBSET (0 .. 7) : Value(BytesAt(Stored(mem, r, Bytes(v, 1)), r, 1)) = v
  BY Zenon, <1>1, <1>2
<1>4. \A v \in SUBSET (0 .. 15) : Value(BytesAt(Stored(mem, r, Bytes(v, 2)), r, 2)) = v
  BY Zenon, <1>1, <1>2
<1>5. \A v \in SUBSET (0 .. 31) : Value(BytesAt(Stored(mem, r, Bytes(v, 4)), r, 4)) = v
  BY Zenon, <1>1, <1>2
<1> QED
  BY Zenon, <1>3, <1>4, <1>5 DEF dwt_read8bitoffsetreg, dwt_read16bitoffsetreg,
     dwt_read32bitoffsetreg, dwt_write8bitoffsetreg, dwt_write16bitoffsetreg, dwt_write32bitoffsetreg

\* A write reaches no byte outside its register.
THEOREM OthersUntouched ==
  ASSUME NEW mem \in Memory, NEW r \in [file : Files, offset : Nat],
         NEW bytes \in Seq(SUBSET Bits8), NEW f \in Files, NEW o \in Nat,
         f # r.file \/ o < r.offset \/ o >= r.offset + Len(bytes)
  PROVE  Stored(mem, r, bytes)[f][o] = mem[f][o]
<1>1. CASE f # r.file
  BY <1>1 DEF Stored, Memory
<1>2. CASE f = r.file
  <2>1. Stored(mem, r, bytes)[f] =
          [q \in Nat |-> IF q >= r.offset /\ q < r.offset + Len(bytes)
                           THEN bytes[q - r.offset + 1] ELSE mem[r.file][q]]
    BY <1>2 DEF Stored, Memory
  <2>2. ~(o >= r.offset /\ o < r.offset + Len(bytes))
    BY <1>2
  <2> QED BY <1>2, <2>1, <2>2
<1> QED BY <1>1, <1>2

LEMMA AndOrAt ==
  ASSUME NEW mem \in Memory, NEW r \in [file : Files, offset : Nat], NEW n \in Nat,
         NEW keep \in SUBSET (0 .. (8 * n - 1)), NEW set \in SUBSET (0 .. (8 * n - 1))
  PROVE  Value(BytesAt(AndOr(mem, r, AndOrBuffer(keep, set, n), n), r, n))
           = (Value(BytesAt(mem, r, n)) \cap keep) \cup set
<1> DEFINE old == BytesAt(mem, r, n)
           buf == AndOrBuffer(keep, set, n)
           new == [k \in 1 .. n |-> (mem[r.file][r.offset + k - 1] \cap buf[k]) \cup buf[n + k]]
<1>1. \A k \in 1 .. n : buf[k] = Bytes(keep, n)[k] /\ buf[n + k] = Bytes(set, n)[k]
  <2>1. Len(Bytes(keep, n)) = n /\ Len(Bytes(set, n)) = n
          /\ Bytes(keep, n) \in Seq(SUBSET Bits8) /\ Bytes(set, n) \in Seq(SUBSET Bits8)
    BY BytesType
  <2> QED BY <2>1 DEF AndOrBuffer
<1>2. \A k \in 1 .. n : old[k] = mem[r.file][r.offset + k - 1] /\ old[k] \in SUBSET Bits8
  BY DEF BytesAt, Memory
<1>3. \A k \in 1 .. n : new[k] = (old[k] \cap Bytes(keep, n)[k]) \cup Bytes(set, n)[k]
  BY <1>1, <1>2
<1>4. \A k \in 1 .. n : Bytes(keep, n)[k] \in SUBSET Bits8 /\ Bytes(set, n)[k] \in SUBSET Bits8
  BY BytesType
<1>5. new \in Seq(SUBSET Bits8) /\ Len(new) = n
  <2>1. \A k \in 1 .. n : new[k] \in SUBSET Bits8
    BY Zenon, <1>2, <1>3, <1>4
  <2> QED BY <2>1
<1>6. BytesAt(AndOr(mem, r, buf, n), r, n) = new
  <2>1. AndOr(mem, r, buf, n) = Stored(mem, r, new)
    BY DEF AndOr
  <2> HIDE DEF new
  <2> QED BY <1>5, <2>1, ReadStored
<1>7. Len(old) = n /\ Len(Bytes(keep, n)) = n /\ Len(Bytes(set, n)) = n
  BY BytesType DEF BytesAt
<1> HIDE DEF new, old, buf
<1>8. Value(new) = (Value(old) \cap Value(Bytes(keep, n))) \cup Value(Bytes(set, n))
  <2>1. \A i \in 0 .. (8 * n - 1) : (i \div 8) + 1 \in 1 .. n
    BY Index
  <2>2. \A i \in 0 .. (8 * n - 1) :
          i % 8 \in new[(i \div 8) + 1]
            <=> \/ i % 8 \in old[(i \div 8) + 1] /\ i % 8 \in Bytes(keep, n)[(i \div 8) + 1]
                \/ i % 8 \in Bytes(set, n)[(i \div 8) + 1]
    BY Zenon, <1>3, <2>1
  <2> QED BY Zenon, <1>5, <1>7, <2>2 DEF Value
<1>9. Value(Bytes(keep, n)) = keep /\ Value(Bytes(set, n)) = set
  BY ValueOfBytes
<1> QED BY <1>6, <1>8, <1>9 DEF old, buf

\* A modification leaves (old and AND) or OR in the register, though the two masks
\* travel as bytes behind each other (dw3000_device_api.cpp:470-520).
THEOREM ModifyIsAndOr ==
  ASSUME NEW mem \in Memory, NEW r \in [file : Files, offset : Nat]
  PROVE  /\ \A keep, set \in SUBSET (0 .. 7) :
              dwt_read8bitoffsetreg(dwt_modify8bitoffsetreg(mem, r, keep, set), r)
                = (dwt_read8bitoffsetreg(mem, r) \cap keep) \cup set
         /\ \A keep, set \in SUBSET (0 .. 15) :
              dwt_read16bitoffsetreg(dwt_modify16bitoffsetreg(mem, r, keep, set), r)
                = (dwt_read16bitoffsetreg(mem, r) \cap keep) \cup set
         /\ \A keep, set \in SUBSET (0 .. 31) :
              dwt_read32bitoffsetreg(dwt_modify32bitoffsetreg(mem, r, keep, set), r)
                = (dwt_read32bitoffsetreg(mem, r) \cap keep) \cup set
<1>1. 8 * 1 - 1 = 7 /\ 8 * 2 - 1 = 15 /\ 8 * 4 - 1 = 31
        /\ 1 \in Nat /\ 2 \in Nat /\ 4 \in Nat
  OBVIOUS
<1>3. \A keep, set \in SUBSET (0 .. 7) :
        Value(BytesAt(AndOr(mem, r, AndOrBuffer(keep, set, 1), 1), r, 1))
          = (Value(BytesAt(mem, r, 1)) \cap keep) \cup set
  <2> TAKE keep, set \in SUBSET (0 .. 7)
  <2>1. keep \in SUBSET (0 .. (8 * 1 - 1)) /\ set \in SUBSET (0 .. (8 * 1 - 1))
    BY Zenon, <1>1
  <2> QED BY <1>1, <2>1, AndOrAt
<1>4. \A keep, set \in SUBSET (0 .. 15) :
        Value(BytesAt(AndOr(mem, r, AndOrBuffer(keep, set, 2), 2), r, 2))
          = (Value(BytesAt(mem, r, 2)) \cap keep) \cup set
  <2> TAKE keep, set \in SUBSET (0 .. 15)
  <2>1. keep \in SUBSET (0 .. (8 * 2 - 1)) /\ set \in SUBSET (0 .. (8 * 2 - 1))
    BY Zenon, <1>1
  <2> QED BY <1>1, <2>1, AndOrAt
<1>5. \A keep, set \in SUBSET (0 .. 31) :
        Value(BytesAt(AndOr(mem, r, AndOrBuffer(keep, set, 4), 4), r, 4))
          = (Value(BytesAt(mem, r, 4)) \cap keep) \cup set
  <2> TAKE keep, set \in SUBSET (0 .. 31)
  <2>1. keep \in SUBSET (0 .. (8 * 4 - 1)) /\ set \in SUBSET (0 .. (8 * 4 - 1))
    BY Zenon, <1>1
  <2> QED BY <1>1, <2>1, AndOrAt
<1> QED
  BY Zenon, <1>3, <1>4, <1>5 DEF dwt_read8bitoffsetreg, dwt_read16bitoffsetreg,
     dwt_read32bitoffsetreg, dwt_modify8bitoffsetreg, dwt_modify16bitoffsetreg,
     dwt_modify32bitoffsetreg

----------------------------------------------------------------------------
(* Buffers and diagnostics. *)

\* A frame written through dwt_writetxdata stays inside the buffer, and the offset
\* of the frame to send reaches the chip whole exactly below 896: from there on the
\* adjustment of 128 overflows its ten bits (dw3000_device_api.cpp:1690-1748).
THEOREM TxOffset ==
  ASSUME NEW length \in Nat, NEW offset \in Nat, NEW ranging
  PROVE  /\ LET t == dwt_writetxdata(length, offset)
            IN  t.offset + t.length < TX_BUFFER_MAX_LEN
         /\ offset + length < TX_BUFFER_MAX_LEN =>
              LET f == dwt_writetxfctrl(length, offset, ranging)
              IN  (f.spill = 0 /\ f.txb_offset = AdjustedOffset(offset)) <=> offset < 896
<1>1. dwt_writetxdata(length, offset).offset + dwt_writetxdata(length, offset).length
        < TX_BUFFER_MAX_LEN
  BY DEF dwt_writetxdata, Transfer, None, TX_BUFFER_MAX_LEN
<1>2. ASSUME offset + length < TX_BUFFER_MAX_LEN
      PROVE  (AdjustedOffset(offset) \div 1024 = 0
               /\ AdjustedOffset(offset) % 1024 = AdjustedOffset(offset)) <=> offset < 896
  BY SMT, <1>2 DEF AdjustedOffset, TX_BUFFER_MAX_LEN, DWT_TX_BUFF_OFFSET_ADJUST
<1> QED BY <1>1, <1>2 DEF dwt_writetxfctrl

\* dwt_readdiagnostics reads no byte of its array that it has not fetched, unless the
\* double buffer is on and none of its three sets was asked for: then 230 bytes are
\* parsed of 32 (dw3000_device_api.cpp:2042-2259).
THEOREM DiagnosticsAreFetched ==
  ASSUME NEW dbl \in Dbl, NEW cia \in SUBSET CiaBits
  PROVE  Parsed(dbl, cia) <= Fetched(dbl, cia) <=> (dbl = "off" \/ cia \cap {"min", "mid", "max"} # {})
<1>1. cia \cap {"min", "mid", "max"} # {} <=> ("min" \in cia \/ "mid" \in cia \/ "max" \in cia)
  OBVIOUS
<1>2. SetOffset.IP_DIAG_12 = 28 /\ SetOffset.STS1_TS = 48 /\ SetOffset.STS1_DIAG_12 = 228
  BY DEF SetOffset
<1>3. ParsedPlain(cia) <= FetchedPlain(cia)
  BY DEF ParsedPlain, FetchedPlain
<1>4. ParsedBuffered(cia) <= FetchedBuffered(cia) <=> ("min" \in cia \/ "mid" \in cia \/ "max" \in cia)
  BY <1>2 DEF ParsedBuffered, FetchedBuffered, DB_MAX_DIAG_SIZE, DB_MID_DIAG_SIZE, DB_MIN_DIAG_SIZE
<1>5. CASE dbl = "off"
  BY <1>3, <1>5 DEF Parsed, Fetched
<1>6. CASE dbl # "off"
  BY <1>1, <1>4, <1>6 DEF Parsed, Fetched
<1> QED BY <1>5, <1>6

\* A field of 2 * Half values becomes the number it stands for in two's complement,
\* whatever the word it is read in (dw3000_device_api.cpp:1893-1981, 2336-2340).
THEOREM SignedIsTwosComplement ==
  ASSUME NEW Half \in Nat, NEW Word \in Nat, Half > 0, 4 * Half <= Word, Word % 2 = 0,
         NEW v \in Nat, v < 2 * Half
  PROVE  Signed(v, Half, Word) = (IF v < Half THEN v ELSE v - 2 * Half)
<1>1. PICK h \in Nat : Word = 2 * h /\ Word \div 2 = h
  <2>1. Word \div 2 \in Nat /\ Word = 2 * (Word \div 2)
    BY SMT
  <2> QED BY <2>1
<1>2. CASE v < Half
  BY SMT, <1>1, <1>2 DEF Signed, CastSigned, SignExtend
<1>3. CASE v >= Half
  BY SMT, <1>1, <1>3 DEF Signed, CastSigned, SignExtend
<1> QED BY <1>2, <1>3
----------------------------------------------------------------------------
(* Calibrations, test modes, thresholds and the two memories. *)

\* c has the fields of a chip and no others.
Shaped(c) == c = [ldo |-> c.ldo, rf |-> c.rf, mask |-> c.mask, switch |-> c.switch, clocks |-> c.clocks, cw |-> c.cw,
                  frames |-> c.frames, fine |-> c.fine, pgDelay |-> c.pgDelay, sar |-> c.sar]

\* Temperature and battery are measured without a trace.
THEOREM MeasuringLeavesNoTrace ==
  ASSUME NEW c \in Chip, c.sar = {}
  PROVE  dwt_readtempvbat(c) = c
<1>1. (((c.ldo \cup {"ms2"}) \ LowRails) \cup (c.ldo \cap LowRails)) = c.ldo
  BY DEF LowRails
<1>2. Shaped(c)
  BY DEF Shaped, Chip
<1> QED
  BY <1>1, <1>2 DEF dwt_readtempvbat, Measuring, Shaped

\* A calibration of the pulse generator ends with everything off by hand and automatic:
\* a chip that was so before only has the delay changed.
THEOREM CalibrationRestores ==
  ASSUME NEW c \in Chip, c.ldo = {}, c.rf = {}, c.mask = {}, c.clocks = "auto",
         NEW delay \in Nat, NEW channel \in Channel
  PROVE  /\ dwt_calcpgcount(c, delay, channel) = [c EXCEPT !.pgDelay = delay]
         /\ dwt_calcbandwidthadj(c, delay, channel) = [c EXCEPT !.pgDelay = delay]
BY DEF dwt_calcpgcount, dwt_calcbandwidthadj, Automatic, TxByHand, dwt_force_clocks, dwt_disable_rf_tx,
       dwt_disable_rftx_blocks, dwt_enable_rf_tx, dwt_enable_rftx_blocks, Chip

\* In a test mode it takes the power away and leaves the test configured; and a test on
\* channel 9 after one on channel 5 still has the block of channel 5 on.
THEOREM TestsLeaveTraces ==
  ASSUME NEW c \in Chip, NEW delay \in Nat, NEW channel \in Channel
  PROVE  /\ dwt_calcpgcount(dwt_configcwmode(c, channel), delay, channel).cw = 1
         /\ dwt_calcpgcount(dwt_configcwmode(c, channel), delay, channel).rf = {}
         /\ "channel 5" \in dwt_configcwmode(dwt_configcwmode(c, 5), 9).rf
BY DEF dwt_calcpgcount, Automatic, TxByHand, dwt_force_clocks, dwt_disable_rf_tx, dwt_configcwmode, dwt_repeated_cw,
       dwt_disable_rftx_blocks, dwt_enable_rf_tx, dwt_enable_rftx_blocks, Chip, TxBlocks

\* Whatever calls are made in whatever order, the transmitter's blocks are on by hand
\* only together with their supplies and the clock.
THEOREM TestsArePowered == AnalogSpec => []PoweredTogether
<1> DEFINE Inv == Shaped(analog) /\ PoweredTogether
<1>1. AnalogInit => Inv
  BY DEF AnalogInit, Idle, PoweredTogether, Shaped
<1>2. Inv /\ [AnalogNext]_analog => Inv'
  <2> SUFFICES ASSUME Inv, [AnalogNext]_analog PROVE Inv'
    OBVIOUS
  <2>1. ASSUME NEW channel \in Channel, analog' = dwt_configcwmode(analog, channel) PROVE Inv'
    BY <2>1 DEF dwt_configcwmode, dwt_repeated_cw, TxByHand, dwt_force_clocks, dwt_enable_rf_tx,
                dwt_enable_rftx_blocks, PoweredTogether, Shaped, TxBlocks
  <2>2. ASSUME NEW channel \in Channel, NEW rate \in Nat,
               analog' = dwt_configcontinuousframemode(analog, rate, channel)
        PROVE  Inv'
    BY <2>2 DEF dwt_configcontinuousframemode, dwt_repeated_frames, TxByHand, dwt_force_clocks, dwt_enable_rf_tx,
                dwt_enable_rftx_blocks, PoweredTogether, Shaped, TxBlocks
  <2>3. ASSUME NEW channel \in Channel, NEW d \in Nat, analog' = dwt_calcbandwidthadj(analog, d, channel)
        PROVE  Inv'
    <3>1. /\ analog'.rf = {} /\ analog'.mask = {} /\ analog'.clocks = "auto" /\ Shaped(analog)'
      BY <2>3 DEF dwt_calcbandwidthadj, Automatic, TxByHand, dwt_force_clocks, dwt_enable_rf_tx, Shaped,
                  dwt_enable_rftx_blocks, dwt_disable_rf_tx, dwt_disable_rftx_blocks
    <3> QED
      BY <3>1 DEF PoweredTogether
  <2>7. ASSUME NEW channel \in Channel, NEW d \in Nat, analog' = dwt_calcpgcount(analog, d, channel)
        PROVE  Inv'
    <3>1. /\ analog'.rf = {} /\ analog'.mask = {} /\ analog'.clocks = "auto" /\ Shaped(analog)'
      BY <2>7 DEF dwt_calcpgcount, Automatic, TxByHand, dwt_force_clocks, dwt_enable_rf_tx, Shaped,
                  dwt_enable_rftx_blocks, dwt_disable_rf_tx, dwt_disable_rftx_blocks
    <3> QED
      BY <3>1 DEF PoweredTogether
  <2>4. ASSUME analog' = dwt_readtempvbat(analog) PROVE Inv'
    BY <2>4 DEF dwt_readtempvbat, Measuring, PoweredTogether, Shaped
  <2>5. ASSUME analog' = SleepCountLeaves(analog) PROVE Inv'
    BY <2>5 DEF SleepCountLeaves, PoweredTogether, Shaped, TxRails
  <2>6. CASE UNCHANGED analog
    BY <2>6 DEF PoweredTogether, Shaped
  <2> QED
    BY <2>1, <2>2, <2>3, <2>4, <2>5, <2>6, <2>7 DEF AnalogNext
<1>3. Inv => PoweredTogether
  OBVIOUS
<1> QED
  BY <1>1, <1>2, <1>3, PTL DEF AnalogSpec

\* The thresholds of the STS are rounded to the nearest, and 32 bits suffice for them.
THEOREM ThresholdRounds ==
  ASSUME NEW cipher \in Nat, cipher < 65536, NEW threshold \in Nat, threshold < 256, NEW shift \in Nat
  PROVE  /\ cipher * threshold * SQRT_FACTOR < 4294967296
         /\ 2048 * get_sts_mnth(cipher, threshold, shift) <= Scale(cipher, threshold, shift) + 1024
         /\ Scale(cipher, threshold, shift) + 1024 < 2048 * (get_sts_mnth(cipher, threshold, shift) + 1)
<1>1. cipher * threshold \in Nat /\ cipher * threshold <= 65535 * 255
  OBVIOUS
<1>2. Scale(cipher, threshold, shift) \in Nat
  BY <1>1 DEF Scale, SQRT_FACTOR
<1>3. \A v \in Nat : LET r == (v \div 2048) + (IF (v % 2048) + 1024 >= 2048 THEN 1 ELSE 0)
                     IN 2048 * r <= v + 1024 /\ v + 1024 < 2048 * (r + 1)
  OBVIOUS
<1>4. HALF_MOD = 1024
  BY DEF HALF_MOD, MOD_VALUE
<1> QED
  BY <1>1, <1>2, <1>3, <1>4 DEF get_sts_mnth, SQRT_FACTOR, MOD_VALUE

\* A write to the always-on memory writes the low byte at the address, above and below 256.
LEMMA AonWritten ==
  ASSUME NEW array, NEW a, NEW data
  PROVE  dwt_aon_write(array, a, data) = [array EXCEPT ![a] = data % 256]
BY Zenon DEF dwt_aon_write, DcaWrite

\* A byte written to the always-on memory is the byte that is read, above and below
\* address 256, and no other changes.
THEOREM AonRoundTrip ==
  ASSUME NEW array \in [AonAddress -> Byte], NEW a \in AonAddress, NEW b \in AonAddress, NEW data \in Byte
  PROVE  dwt_aon_read(dwt_aon_write(array, a, data), b) = IF b = a THEN data ELSE dwt_aon_read(array, b)
<1>1. data % 256 = data
  BY DEF Byte
<1>2. dwt_aon_write(array, a, data) = [array EXCEPT ![a] = data]
  BY <1>1, AonWritten
<1> QED
  BY <1>2 DEF dwt_aon_read, DcaRead

LEMMA PushedWord ==
  ASSUME NEW data \in SUBSET Bit
  PROVE  {b \in Bit : b % 8 \in DataByte(data, b \div 8)} = data
<1>1. \A b \in Bit : b % 8 \in 0 .. 7 /\ 8 * (b \div 8) + (b % 8) = b
  BY DEF Bit
<1> QED
  BY <1>1 DEF DataByte

\* A word of the one-time memory is written and verified exactly when it holds no bit
\* that the new value lacks; no other word is changed.
THEOREM OtpVerified ==
  ASSUME NEW words \in [OtpAddress -> SUBSET Bit], NEW value \in SUBSET Bit, NEW address \in OtpAddress
  PROVE  LET w == dwt_otpwriteandverify(words, value, address)
         IN /\ w.success <=> words[address] \subseteq value
            /\ \A a \in OtpAddress \ {address} : w.otp[a] = words[a]
<1> DEFINE p == Pushed(value, address)
           q == Program(words, p)
<1>1. p[1] = address /\ \A n \in 0 .. 3 : p[2 + n] = DataByte(value, n)
  BY DEF Pushed, OtpAddress
<1>2. \A b \in Bit : (b \div 8) \in 0 .. 3
  BY DEF Bit
<1>3. {b \in Bit : b % 8 \in p[2 + (b \div 8)]} = value
  BY <1>1, <1>2, PushedWord
<1>4. _dwt_otpprogword32(words, value, address) = q
  BY DEF _dwt_otpprogword32
<1> HIDE DEF p
<1>5. q = [words EXCEPT ![address] = words[address] \cup value]
  BY <1>1, <1>3 DEF Program
<1>6. q[address] = words[address] \cup value /\ \A a \in OtpAddress \ {address} : q[a] = words[a]
  BY <1>5
<1> HIDE DEF q
<1>7. (q[address] = value) <=> words[address] \subseteq value
  BY <1>6
<1> QED
  BY <1>4, <1>6, <1>7 DEF dwt_otpwriteandverify, dwt_otpverify, _dwt_otpread

----------------------------------------------------------------------------
(* The board's own transfers. *)

\* Every offset that is not taken for "none" is the one a header names.
THEOREM PortHeaderNamesOffset ==
  ASSUME NEW cmd \in Nat, cmd < 64, NEW offset \in Nat, offset < 32768, offset # NO_SUB, NEW w \in BOOLEAN
  PROVE  SubIndex(Header(w, cmd, offset)) = offset
<1>1. CASE offset < 128
  BY <1>1 DEF Header, SubIndex
<1>2. CASE offset >= 128
  <2>1. (offset \div 128) % 256 = offset \div 128
    OBVIOUS
  <2>2. ((128 + (offset % 128)) % 128) + (128 * (offset \div 128)) = offset
    OBVIOUS
  <2>3. Header(w, cmd, offset) = <<WBit([write |-> w]) + 64 + cmd, 128 + (offset % 128), offset \div 128>>
    BY <1>2, <2>1 DEF Header
  <2> QED
    BY <2>2, <2>3 DEF SubIndex
<1> QED
  BY <1>1, <1>2

\* The bit that is set is the bit that is read, every other is as it was, and one beyond
\* the register changes nothing.
THEOREM SetBitIsRead ==
  ASSUME NEW data \in Seq(SUBSET Bits8), NEW bit \in Nat, NEW other \in Nat, NEW val \in BOOLEAN
  PROVE  getBit(setBit(data, bit, val), other)
           <=> IF other = bit /\ bit \div 8 < Len(data) THEN val ELSE getBit(data, other)
<1>1. \A n \in Nat : n \div 8 \in Nat /\ n % 8 \in Nat /\ n = (8 * (n \div 8)) + (n % 8)
  OBVIOUS
<1>2. CASE bit \div 8 >= Len(data)
  BY <1>1, <1>2 DEF setBit
<1>3. CASE bit \div 8 < Len(data)
  <2> DEFINE at == (bit \div 8) + 1
             byte == IF val THEN data[at] \cup {bit % 8} ELSE data[at] \ {bit % 8}
  <2>1. at \in 1 .. Len(data)
    BY <1>1, <1>3
  <2>2. setBit(data, bit, val) = [data EXCEPT ![at] = byte]
    BY <1>1, <1>3 DEF setBit
  <2>3. Len([data EXCEPT ![at] = byte]) = Len(data)
    BY <2>1
  <2>4. (other \div 8) + 1 = at /\ other % 8 = bit % 8 <=> other = bit
    BY <1>1
  <2>5. CASE other \div 8 < Len(data)
    <3>1. (other \div 8) + 1 \in 1 .. Len(data)
      BY <1>1, <2>5
    <3>2. [data EXCEPT ![at] = byte][(other \div 8) + 1] = IF (other \div 8) + 1 = at THEN byte ELSE data[(other \div 8) + 1]
      BY <2>1, <3>1
    <3> HIDE DEF at
    <3> QED
      BY <1>3, <2>2, <2>3, <2>4, <2>5, <3>1, <3>2 DEF getBit
  <2>6. CASE ~(other \div 8 < Len(data))
    BY <1>3, <2>2, <2>3, <2>6 DEF getBit
  <2> QED
    BY <2>5, <2>6
<1> QED
  BY <1>1, <1>2, <1>3

\* What the port configures in a DW1000 a DW3000 takes for other registers than the
\* driver's: SYS_CFG for the first byte of file 2 (the STS), SYS_MASK for that of file 7
\* (RF_ENABLE), the clocks for file 27; and the address and the command to stop begin like
\* the fast commands 1 and 6 (dw3000_port.cpp:410-448, dw3000_device_api.cpp:172-205).
THEOREM PortIsAstray ==
  /\ Access(Header(TRUE, SYS_CFG, NO_SUB)) = [file |-> 2, offset |-> 0, mode |-> WR_BIT]
  /\ Access(Header(TRUE, SYS_MASK, NO_SUB)) = [file |-> 7, offset |-> 0, mode |-> WR_BIT]
  /\ Access(Header(TRUE, PMSC, PMSC_CTRL0_SUB)) = [file |-> 27, offset |-> 0, mode |-> WR_BIT]
  /\ IsCommand(Header(TRUE, PANADR, NO_SUB)) /\ Command(Header(TRUE, PANADR, NO_SUB)) = 1
  /\ IsCommand(Header(TRUE, SYS_CTRL, NO_SUB)) /\ Command(Header(TRUE, SYS_CTRL, NO_SUB)) = 6
<1>1. /\ Header(TRUE, SYS_CFG, NO_SUB) = <<132>> /\ Header(TRUE, SYS_MASK, NO_SUB) = <<142>>
      /\ Header(TRUE, PANADR, NO_SUB) = <<131>> /\ Header(TRUE, SYS_CTRL, NO_SUB) = <<141>>
  BY DEF Header, WBit, SYS_CFG, SYS_MASK, PANADR, SYS_CTRL
<1>2. Header(TRUE, PMSC, PMSC_CTRL0_SUB) = <<246, 0>>
  BY DEF Header, WBit, PMSC, PMSC_CTRL0_SUB, NO_SUB
<1>3. /\ (132 \div 2) % 32 = 2 /\ (132 \div 64) % 2 = 0 /\ 132 \div 128 = 1
      /\ (142 \div 2) % 32 = 7 /\ (142 \div 64) % 2 = 0 /\ 142 \div 128 = 1
      /\ (246 \div 2) % 32 = 27 /\ (246 \div 64) % 2 = 1 /\ 246 \div 128 = 1
      /\ ((246 % 2) * 64) + (0 \div 4) = 0 /\ 0 % 4 = 0
  OBVIOUS
<1>8. ~ Extended(<<132>>) /\ ~ Extended(<<142>>)
  BY <1>3 DEF Extended
<1>9. (132 \div 128 = 1) = TRUE /\ (142 \div 128 = 1) = TRUE
  BY <1>3
<1>4. Access(<<132>>) = [file |-> 2, offset |-> 0, mode |-> WR_BIT]
  BY <1>3, <1>8, <1>9 DEF Access, WR_BIT
<1>5. Access(<<142>>) = [file |-> 7, offset |-> 0, mode |-> WR_BIT]
  BY <1>3, <1>8, <1>9 DEF Access, WR_BIT
<1>6. Access(<<246, 0>>) = [file |-> 27, offset |-> 0, mode |-> WR_BIT]
  BY <1>3 DEF Access, Extended, WR_BIT
<1>7. IsCommand(<<131>>) /\ Command(<<131>>) = 1 /\ IsCommand(<<141>>) /\ Command(<<141>>) = 6
  BY DEF IsCommand, Command
<1>10. Access(Header(TRUE, SYS_CFG, NO_SUB)) = [file |-> 2, offset |-> 0, mode |-> WR_BIT]
  BY <1>1, <1>4, Zenon
<1>11. Access(Header(TRUE, SYS_MASK, NO_SUB)) = [file |-> 7, offset |-> 0, mode |-> WR_BIT]
  BY <1>1, <1>5, Zenon
<1>12. Access(Header(TRUE, PMSC, PMSC_CTRL0_SUB)) = [file |-> 27, offset |-> 0, mode |-> WR_BIT]
  BY <1>2, <1>6, Zenon
<1>13. IsCommand(Header(TRUE, PANADR, NO_SUB)) /\ Command(Header(TRUE, PANADR, NO_SUB)) = 1
  BY <1>1, <1>7, ZenonT(40)
<1>14. IsCommand(Header(TRUE, SYS_CTRL, NO_SUB)) /\ Command(Header(TRUE, SYS_CTRL, NO_SUB)) = 6
  BY <1>1, <1>7, ZenonT(40)
<1> QED
  BY <1>10, <1>11, <1>12, <1>13, <1>14, Zenon

\* Transfers that leave the clock as `after` says when they find it as `before` says, and
\* none of which is too fast.
Transfers == [header : Seq(Nat), body : Seq(SUBSET Nat), speed : Speed]
InStep(ts, before, after) ==
  ts \in Seq(Transfers) /\ TooFast(ts, before) = {} /\ FindsXti(ts, Len(ts) + 1, before) = after

LEMMA InStepTogether ==
  ASSUME NEW s, NEW t, NEW a \in BOOLEAN, NEW b \in BOOLEAN, NEW c \in BOOLEAN,
         InStep(s, a, b), InStep(t, b, c)
  PROVE  InStep(s \o t, a, c)
<1>. DEFINE st == s \o t
<1>1. /\ s \in Seq(Transfers) /\ t \in Seq(Transfers)
      /\ Len(s) \in Nat /\ Len(t) \in Nat
  BY DEF InStep
<1>2. /\ st \in Seq(Transfers) /\ Len(st) = Len(s) + Len(t)
      /\ \A i \in 1 .. Len(s) : st[i] = s[i]
      /\ \A i \in 1 .. Len(t) : st[Len(s) + i] = t[i]
  <2>1. /\ s \o t \in Seq(Transfers) /\ Len(s \o t) = Len(s) + Len(t)
        /\ \A i \in 1 .. Len(s) + Len(t) : (s \o t)[i] = IF i <= Len(s) THEN s[i] ELSE t[i - Len(s)]
    BY <1>1, SMT, ConcatProperties
  <2>. QED
    BY <1>1, <2>1
<1>. HIDE DEF st
<1>3. \A k \in 1 .. Len(s) + 1 : FindsXti(st, k, a) <=> FindsXti(s, k, a)
  <2>1. SUFFICES ASSUME NEW k \in 1 .. Len(s) + 1 PROVE FindsXti(st, k, a) <=> FindsXti(s, k, a)
    OBVIOUS
  <2>2. \A j \in 1 .. k - 1 : st[j] = s[j]
    BY <1>1, <1>2
  <2>3. \A j \in 1 .. k - 1 : \A i \in j + 1 .. k - 1 : st[i] = s[i]
    BY <2>2
  <2>. QED
    BY <2>2, <2>3 DEF FindsXti
<1>4. FindsXti(st, Len(s) + 1, a) <=> b
  BY <1>1, <1>3 DEF InStep
<1>5. \A k \in 1 .. Len(t) + 1 : FindsXti(st, Len(s) + k, a) <=> FindsXti(t, k, b)
  <2>1. SUFFICES ASSUME NEW k \in 1 .. Len(t) + 1
                 PROVE  FindsXti(st, Len(s) + k, a) <=> FindsXti(t, k, b)
    OBVIOUS
  <2>. DEFINE Last(q, m, n) == ChoosesXti(q[m]) /\ \A i \in m + 1 .. n - 1 : ~ ChoosesClock(q[i])
              Unchosen(q, n) == \A j \in 1 .. n - 1 : ~ ChoosesClock(q[j])
  <2>2. \A j \in 1 .. k - 1 : st[Len(s) + j] = t[j]
    BY <1>1, <1>2
  <2>3. ASSUME NEW j \in 1 .. k - 1
        PROVE  Last(st, Len(s) + j, Len(s) + k) <=> Last(t, j, k)
    <3>1. ASSUME NEW i \in j + 1 .. k - 1 PROVE Len(s) + i \in Len(s) + j + 1 .. Len(s) + k - 1 /\ st[Len(s) + i] = t[i]
      BY <1>1, <2>2, <3>1
    <3>2. ASSUME NEW i \in Len(s) + j + 1 .. Len(s) + k - 1
          PROVE  i - Len(s) \in j + 1 .. k - 1 /\ st[i] = t[i - Len(s)]
      <4>1. i - Len(s) \in j + 1 .. k - 1 /\ Len(s) + (i - Len(s)) = i
        BY <1>1, <3>2
      <4>2. i - Len(s) \in 1 .. k - 1
        BY <4>1
      <4>. QED
        BY <2>2, <4>1, <4>2
    <3>3. (\A i \in Len(s) + j + 1 .. Len(s) + k - 1 : ~ ChoosesClock(st[i]))
            <=> (\A i \in j + 1 .. k - 1 : ~ ChoosesClock(t[i]))
      BY <3>1, <3>2, Zenon
    <3>. QED
      BY <2>2, <3>3
  <2>4. Unchosen(st, Len(s) + k) <=> Unchosen(st, Len(s) + 1) /\ Unchosen(t, k)
    <3>1. ASSUME Unchosen(st, Len(s) + k) PROVE Unchosen(st, Len(s) + 1) /\ Unchosen(t, k)
      BY <1>1, <2>2, <3>1
    <3>2. ASSUME Unchosen(st, Len(s) + 1), Unchosen(t, k), NEW j \in 1 .. Len(s) + k - 1
          PROVE  ~ ChoosesClock(st[j])
      <4>1. CASE j <= Len(s)
        BY <1>1, <3>2, <4>1
      <4>2. CASE j > Len(s)
        <5>1. j - Len(s) \in 1 .. k - 1 /\ Len(s) + (j - Len(s)) = j
          BY <1>1, <4>2
        <5>. QED
          BY <2>2, <3>2, <5>1
      <4>. QED
        BY <1>1, <4>1, <4>2
    <3>. QED
      BY <3>1, <3>2
  <2>5. ASSUME NEW j \in 1 .. Len(s)
        PROVE  Last(st, j, Len(s) + k) <=> Last(st, j, Len(s) + 1) /\ Unchosen(t, k)
    <3>1. ASSUME Last(st, j, Len(s) + k) PROVE Last(st, j, Len(s) + 1) /\ Unchosen(t, k)
      <4>1. \A i \in 1 .. k - 1 : Len(s) + i \in j + 1 .. Len(s) + k - 1
        BY <1>1
      <4>. QED
        BY <1>1, <2>2, <3>1, <4>1
    <3>2. ASSUME Last(st, j, Len(s) + 1), Unchosen(t, k), NEW i \in j + 1 .. Len(s) + k - 1
          PROVE  ~ ChoosesClock(st[i])
      <4>1. CASE i <= Len(s)
        BY <1>1, <3>2, <4>1
      <4>2. CASE i > Len(s)
        <5>1. i - Len(s) \in 1 .. k - 1 /\ Len(s) + (i - Len(s)) = i
          BY <1>1, <4>2
        <5>. QED
          BY <2>2, <3>2, <5>1
      <4>. QED
        BY <1>1, <4>1, <4>2
    <3>. QED
      BY <3>1, <3>2
  <2>6. FindsXti(st, Len(s) + 1, a)
          <=> \/ a /\ Unchosen(st, Len(s) + 1)
              \/ \E j \in 1 .. Len(s) : Last(st, j, Len(s) + 1)
    BY <1>1 DEF FindsXti
  <2>7. FindsXti(st, Len(s) + k, a)
          <=> \/ a /\ Unchosen(st, Len(s) + k)
              \/ \E j \in 1 .. Len(s) + k - 1 : Last(st, j, Len(s) + k)
    BY <1>1 DEF FindsXti
  <2>8. (\E j \in 1 .. Len(s) + k - 1 : Last(st, j, Len(s) + k))
          <=> \/ \E j \in 1 .. Len(s) : Last(st, j, Len(s) + k)
              \/ \E j \in 1 .. k - 1 : Last(st, Len(s) + j, Len(s) + k)
    <3>. HIDE DEF Last
    <3>1. \A j \in 1 .. Len(s) : j \in 1 .. Len(s) + k - 1
      BY <1>1
    <3>2. \A j \in 1 .. k - 1 : Len(s) + j \in 1 .. Len(s) + k - 1
      BY <1>1
    <3>3. \A j \in 1 .. Len(s) + k - 1 : j \in 1 .. Len(s) \/ (j - Len(s) \in 1 .. k - 1 /\ Len(s) + (j - Len(s)) = j)
      BY <1>1
    <3>. QED
      BY <3>1, <3>2, <3>3, Zenon
  <2>9. FindsXti(t, k, b) <=> \/ b /\ Unchosen(t, k)
                             \/ \E j \in 1 .. k - 1 : Last(t, j, k)
    BY DEF FindsXti
  <2>. HIDE DEF Last, Unchosen
  <2>. QED
    BY <1>4, <2>3, <2>4, <2>5, <2>6, <2>7, <2>8, <2>9
<1>6. TooFast(st, a) = {}
  <2>1. SUFFICES ASSUME NEW k \in 1 .. Len(st), FindsXti(st, k, a), st[k].speed = "fast" PROVE FALSE
    BY DEF TooFast
  <2>2. CASE k <= Len(s)
    <3>1. k \in 1 .. Len(s) /\ k \in 1 .. Len(s) + 1
      BY <1>1, <2>2
    <3>. QED
      BY <1>2, <1>3, <2>1, <3>1 DEF InStep, TooFast
  <2>3. CASE k > Len(s)
    <3>1. k - Len(s) \in 1 .. Len(t) /\ k - Len(s) \in 1 .. Len(t) + 1 /\ Len(s) + (k - Len(s)) = k
      BY <1>1, <1>2, <2>3
    <3>2. FindsXti(t, k - Len(s), b) /\ t[k - Len(s)].speed = "fast"
      BY <1>2, <1>5, <2>1, <3>1
    <3>. QED
      BY <3>1, <3>2 DEF InStep, TooFast
  <2>. QED
    BY <1>1, <1>2, <2>2, <2>3
<1>7. FindsXti(st, Len(st) + 1, a) = c
  <2>1. Len(t) + 1 \in 1 .. Len(t) + 1 /\ Len(st) + 1 = Len(s) + (Len(t) + 1)
    BY <1>1, <1>2
  <2>2. FindsXti(st, Len(st) + 1, a) <=> FindsXti(t, Len(t) + 1, b)
    BY <1>5, <2>1
  <2>3. FindsXti(st, Len(st) + 1, a) \in BOOLEAN
    BY DEF FindsXti
  <2>. QED
    BY <2>2, <2>3 DEF InStep
<1>. QED
  BY <1>2, <1>6, <1>7 DEF InStep, st

\* Transfers of which none is too fast, with a clock that is not the crystal's before and after.
Free(ts) == InStep(ts, FALSE, FALSE)

LEMMA FreeTogether ==
  ASSUME NEW s, NEW t, Free(s), Free(t)
  PROVE  Free(s \o t)
BY InStepTogether DEF Free

\* Transfers between which the chip runs from its crystal.
LEMMA FreeAround ==
  ASSUME NEW s, NEW t, NEW u, Free(s), InStep(t, FALSE, TRUE), InStep(u, TRUE, FALSE)
  PROVE  Free((s \o t) \o u)
<1>1. InStep(s \o t, FALSE, TRUE)
  BY InStepTogether DEF Free
<1>. DEFINE st == s \o t
<1>2. InStep(st \o u, FALSE, FALSE)
  <2>. HIDE DEF st
  <2>. QED
    BY <1>1, InStepTogether DEF st
<1>. QED
  BY <1>2 DEF Free

\* The bytes and the headers of the port.
LEMMA PortTypes ==
  /\ \A n \in Nat : Zeros(n) \in Seq(SUBSET Nat) /\ JUNK(n) \in Seq(SUBSET Nat)
  /\ \A n \in Nat : Len(Zeros(n)) = n /\ Zeros(n) = [k \in 1 .. n |-> {}]
<1>1. ASSUME NEW n \in Nat
      PROVE  [k \in 1 .. n |-> {}] \in Seq(SUBSET Nat) /\ Len([k \in 1 .. n |-> {}]) = n
  OBVIOUS
<1>. QED
  BY <1>1, Zenon DEF Zeros, JUNK

Written(register, offset) == Header(TRUE, register, offset)
Asked(register, offset) == Header(FALSE, register, offset)
LEMMA PortHeaders ==
  /\ Written(PMSC, PMSC_CTRL0_SUB) = <<246, 0>> /\ Asked(PMSC, PMSC_CTRL0_SUB) = <<118, 0>>
  /\ Written(PANADR, NO_SUB) = <<131>> /\ Written(SYS_CFG, NO_SUB) = <<132>>
  /\ Written(SYS_CTRL, NO_SUB) = <<141>> /\ Written(SYS_MASK, NO_SUB) = <<142>>
  /\ Written(OTP_IF, OTP_ADDR_SUB) = <<237, 4>> /\ Asked(OTP_IF, OTP_ADDR_SUB) = <<109, 4>>
  /\ Written(OTP_IF, OTP_CTRL_SUB) = <<237, 6>> /\ Asked(OTP_IF, OTP_CTRL_SUB) = <<109, 6>>
  /\ Written(OTP_IF, OTP_RDAT_SUB) = <<237, 10>> /\ Asked(OTP_IF, OTP_RDAT_SUB) = <<109, 10>>
BY DEF Written, Asked, Header, WBit, PMSC, PMSC_CTRL0_SUB, PANADR, SYS_CFG, SYS_CTRL, SYS_MASK, OTP_IF, OTP_ADDR_SUB,
       OTP_CTRL_SUB, OTP_RDAT_SUB, NO_SUB

LEMMA ClockHeaders ==
  /\ \A d, s : ChoosesClock(Pmsc(d, s)) /\ Pmsc(d, s).speed = s
               /\ (ChoosesXti(Pmsc(d, s)) <=> d[1] \cap {0, 1} = {0})
  /\ \A s : ~ ChoosesClock(PmscRead(s)) /\ PmscRead(s).speed = s
  /\ \A d, s : \A x \in {OTP_ADDR_SUB, OTP_CTRL_SUB, OTP_RDAT_SUB} :
       /\ ~ ChoosesClock(writeBytes(OTP_IF, x, d, s)) /\ writeBytes(OTP_IF, x, d, s).speed = s
       /\ \A n : ~ ChoosesClock(readBytes(OTP_IF, x, n, s)) /\ readBytes(OTP_IF, x, n, s).speed = s
  /\ \A d, s : \A x \in {PANADR, SYS_CFG, SYS_CTRL, SYS_MASK} :
       ~ ChoosesClock(writeBytes(x, NO_SUB, d, s)) /\ writeBytes(x, NO_SUB, d, s).speed = s
<1>1. \A h, b, s : SpiTransfer(h, b, s).header = h /\ SpiTransfer(h, b, s).body = b /\ SpiTransfer(h, b, s).speed = s
  BY DEF SpiTransfer
<1>0. \A t : ChoosesClock(t) <=> t.header = Written(PMSC, PMSC_CTRL0_SUB)
  BY DEF ChoosesClock, Written
<1>2. Written(PMSC, PMSC_CTRL0_SUB) = <<246, 0>> /\ Asked(PMSC, PMSC_CTRL0_SUB) = <<118, 0>>
  BY PortHeaders
<1>3. <<118, 0>> # <<246, 0>>
  OBVIOUS
<1>4. \A x \in {OTP_ADDR_SUB, OTP_CTRL_SUB, OTP_RDAT_SUB} :
        Written(OTP_IF, x) # <<246, 0>> /\ Asked(OTP_IF, x) # <<246, 0>>
  <2>1. <<237, 4>> # <<246, 0>> /\ <<237, 6>> # <<246, 0>> /\ <<237, 10>> # <<246, 0>>
    OBVIOUS
  <2>2. <<109, 4>> # <<246, 0>> /\ <<109, 6>> # <<246, 0>> /\ <<109, 10>> # <<246, 0>>
    OBVIOUS
  <2>. QED
    BY <2>1, <2>2, PortHeaders
<1>5. \A x \in {PANADR, SYS_CFG, SYS_CTRL, SYS_MASK} : Written(x, NO_SUB) # <<246, 0>>
  <2>1. <<131>> # <<246, 0>> /\ <<132>> # <<246, 0>> /\ <<141>> # <<246, 0>> /\ <<142>> # <<246, 0>>
    OBVIOUS
  <2>. QED
    BY <2>1, PortHeaders
<1>6. ASSUME NEW d, NEW s
      PROVE  /\ ChoosesClock(Pmsc(d, s)) /\ Pmsc(d, s).speed = s
             /\ (ChoosesXti(Pmsc(d, s)) <=> d[1] \cap {0, 1} = {0})
  <2>1. Pmsc(d, s).header = Written(PMSC, PMSC_CTRL0_SUB) /\ Pmsc(d, s).body = d /\ Pmsc(d, s).speed = s
    BY DEF Pmsc, writeBytes, SpiTransfer, Written
  <2>. QED
    BY <1>0, <2>1, Zenon DEF ChoosesXti
<1>7. ASSUME NEW s
      PROVE  ~ ChoosesClock(PmscRead(s)) /\ PmscRead(s).speed = s
  <2>1. PmscRead(s).header = <<118, 0>> /\ PmscRead(s).speed = s
    BY <1>2 DEF PmscRead, readBytes, SpiTransfer, Asked
  <2>. QED
    BY <1>0, <1>2, <1>3, <2>1
<1>8. ASSUME NEW d, NEW s, NEW x \in {OTP_ADDR_SUB, OTP_CTRL_SUB, OTP_RDAT_SUB}
      PROVE  /\ ~ ChoosesClock(writeBytes(OTP_IF, x, d, s)) /\ writeBytes(OTP_IF, x, d, s).speed = s
             /\ \A n : ~ ChoosesClock(readBytes(OTP_IF, x, n, s)) /\ readBytes(OTP_IF, x, n, s).speed = s
  <2>1. writeBytes(OTP_IF, x, d, s).header = Written(OTP_IF, x) /\ writeBytes(OTP_IF, x, d, s).speed = s
    BY DEF writeBytes, SpiTransfer, Written
  <2>2. \A n : readBytes(OTP_IF, x, n, s).header = Asked(OTP_IF, x) /\ readBytes(OTP_IF, x, n, s).speed = s
    BY DEF readBytes, SpiTransfer, Asked
  <2>4. Written(OTP_IF, x) # <<246, 0>> /\ Asked(OTP_IF, x) # <<246, 0>>
    BY <1>4, SMT
  <2>. QED
    BY <1>0, <1>2, <2>1, <2>2, <2>4
<1>9. ASSUME NEW d, NEW s, NEW x \in {PANADR, SYS_CFG, SYS_CTRL, SYS_MASK}
      PROVE  ~ ChoosesClock(writeBytes(x, NO_SUB, d, s)) /\ writeBytes(x, NO_SUB, d, s).speed = s
  <2>1. writeBytes(x, NO_SUB, d, s).header = Written(x, NO_SUB) /\ writeBytes(x, NO_SUB, d, s).speed = s
    BY DEF writeBytes, SpiTransfer, Written
  <2>2. Written(x, NO_SUB) # <<246, 0>>
    BY <1>5, Zenon
  <2>. QED
    BY <1>0, <1>2, <2>1, <2>2
<1>. QED
  BY <1>6, <1>7, <1>8, <1>9, Zenon

\* Transfers that choose no clock, and transfers of which the last one does.
LEMMA KeepsClock ==
  ASSUME NEW ts \in Seq(Transfers), NEW c \in BOOLEAN,
         \A k \in 1 .. Len(ts) : ~ ChoosesClock(ts[k]) /\ (c => ts[k].speed = "slow")
  PROVE  InStep(ts, c, c)
<1>1. \A k \in 1 .. Len(ts) + 1 : FindsXti(ts, k, c) <=> c
  BY DEF FindsXti, ChoosesXti
<1>2. TooFast(ts, c) = {}
  BY <1>1 DEF TooFast
<1>3. FindsXti(ts, Len(ts) + 1, c) \in BOOLEAN /\ Len(ts) + 1 \in 1 .. Len(ts) + 1
  BY DEF FindsXti
<1>. QED
  BY <1>1, <1>2, <1>3 DEF InStep

LEMMA EndsWithClock ==
  ASSUME NEW ts \in Seq(Transfers), NEW c \in BOOLEAN, ts # <<>>, ChoosesClock(ts[Len(ts)]),
         \/ \A k \in 1 .. Len(ts) : ts[k].speed = "slow"
         \/ ~ c /\ \A k \in 1 .. Len(ts) - 1 : ~ ChoosesClock(ts[k])
  PROVE  InStep(ts, c, ChoosesXti(ts[Len(ts)]))
<1>1. Len(ts) \in Nat \ {0}
  OBVIOUS
<1>2. FindsXti(ts, Len(ts) + 1, c) <=> ChoosesXti(ts[Len(ts)])
  BY <1>1 DEF FindsXti, ChoosesXti
<1>3. TooFast(ts, c) = {}
  BY <1>1 DEF TooFast, FindsXti, ChoosesXti
<1>4. FindsXti(ts, Len(ts) + 1, c) \in BOOLEAN /\ ChoosesXti(ts[Len(ts)]) \in BOOLEAN
  BY DEF FindsXti, ChoosesXti
<1>. QED
  BY <1>2, <1>3, <1>4 DEF InStep

LEMMA PortTransfers ==
  /\ \A s \in Speed : \A d \in Seq(SUBSET Nat) : Pmsc(d, s) \in Transfers /\ PmscRead(s) \in Transfers
  /\ \A s \in Speed : \A d \in Seq(SUBSET Nat) : \A x \in {OTP_ADDR_SUB, OTP_CTRL_SUB, OTP_RDAT_SUB} :
       writeBytes(OTP_IF, x, d, s) \in Transfers /\ \A n \in Nat : readBytes(OTP_IF, x, n, s) \in Transfers
  /\ \A s \in Speed : \A d \in Seq(SUBSET Nat) : \A x \in {PANADR, SYS_CFG, SYS_CTRL, SYS_MASK} :
       writeBytes(x, NO_SUB, d, s) \in Transfers
<1>1. \A h \in Seq(Nat) : \A b \in Seq(SUBSET Nat) : \A s \in Speed : SpiTransfer(h, b, s) \in Transfers
  BY DEF SpiTransfer, Transfers
<1>3. /\ <<237, 4>> \in Seq(Nat) /\ <<237, 6>> \in Seq(Nat) /\ <<237, 10>> \in Seq(Nat)
      /\ <<109, 4>> \in Seq(Nat) /\ <<109, 6>> \in Seq(Nat) /\ <<109, 10>> \in Seq(Nat)
      /\ <<246, 0>> \in Seq(Nat) /\ <<118, 0>> \in Seq(Nat)
      /\ <<131>> \in Seq(Nat) /\ <<132>> \in Seq(Nat) /\ <<141>> \in Seq(Nat) /\ <<142>> \in Seq(Nat)
  OBVIOUS
<1>4. /\ \A x \in {OTP_ADDR_SUB, OTP_CTRL_SUB, OTP_RDAT_SUB} :
           Written(OTP_IF, x) \in Seq(Nat) /\ Asked(OTP_IF, x) \in Seq(Nat)
      /\ \A x \in {PANADR, SYS_CFG, SYS_CTRL, SYS_MASK} : Written(x, NO_SUB) \in Seq(Nat)
  <2>1. /\ Written(OTP_IF, OTP_ADDR_SUB) \in Seq(Nat) /\ Asked(OTP_IF, OTP_ADDR_SUB) \in Seq(Nat)
        /\ Written(OTP_IF, OTP_CTRL_SUB) \in Seq(Nat) /\ Asked(OTP_IF, OTP_CTRL_SUB) \in Seq(Nat)
        /\ Written(OTP_IF, OTP_RDAT_SUB) \in Seq(Nat) /\ Asked(OTP_IF, OTP_RDAT_SUB) \in Seq(Nat)
    BY <1>3, PortHeaders
  <2>2. /\ Written(PANADR, NO_SUB) \in Seq(Nat) /\ Written(SYS_CFG, NO_SUB) \in Seq(Nat)
        /\ Written(SYS_CTRL, NO_SUB) \in Seq(Nat) /\ Written(SYS_MASK, NO_SUB) \in Seq(Nat)
    BY <1>3, PortHeaders
  <2>. QED
    BY <2>1, <2>2, Zenon
<1>5. Written(PMSC, PMSC_CTRL0_SUB) \in Seq(Nat) /\ Asked(PMSC, PMSC_CTRL0_SUB) \in Seq(Nat)
  BY <1>3, PortHeaders
<1>6. TRUE \in BOOLEAN /\ FALSE \in BOOLEAN /\ 4 \in Nat
  OBVIOUS
<1>7. \A s \in Speed : \A d \in Seq(SUBSET Nat) : Pmsc(d, s) \in Transfers /\ PmscRead(s) \in Transfers
  BY <1>1, <1>5, <1>6, PortTypes, Zenon DEF Pmsc, PmscRead, writeBytes, readBytes, Written, Asked
<1>8. \A s \in Speed : \A d \in Seq(SUBSET Nat) : \A x \in {OTP_ADDR_SUB, OTP_CTRL_SUB, OTP_RDAT_SUB} :
       writeBytes(OTP_IF, x, d, s) \in Transfers /\ \A n \in Nat : readBytes(OTP_IF, x, n, s) \in Transfers
  BY <1>1, <1>4, <1>6, PortTypes, Zenon DEF writeBytes, readBytes, Written, Asked
<1>9. \A s \in Speed : \A d \in Seq(SUBSET Nat) : \A x \in {PANADR, SYS_CFG, SYS_CTRL, SYS_MASK} :
       writeBytes(x, NO_SUB, d, s) \in Transfers
  BY <1>1, <1>4, Zenon DEF writeBytes, Written
<1>. QED
  BY <1>7, <1>8, <1>9, Zenon

\* The parts of spiSelect.
LEMMA ClockInStep ==
  ASSUME NEW clock \in {"auto", "xti"}, NEW pmsc \in Seq(SUBSET Nat), Len(pmsc) = 4, NEW speed \in Speed
  PROVE  /\ clock = "auto" => Free(enableClock(clock, pmsc, speed))
         /\ clock = "xti" => InStep(enableClock(clock, pmsc, speed), FALSE, TRUE)
<1>. DEFINE d == <<ClockBits(clock, pmsc[1]), IF clock = "auto" THEN pmsc[2] \ {0} ELSE pmsc[2]>>
            ts == enableClock(clock, pmsc, speed)
<1>1. d \in Seq(SUBSET Nat) /\ d[1] = ClockBits(clock, pmsc[1])
  <2>1. pmsc[1] \in SUBSET Nat /\ pmsc[2] \in SUBSET Nat
    <3>1. \A q \in Seq(SUBSET Nat) : Len(q) = 4 => q[1] \in SUBSET Nat /\ q[2] \in SUBSET Nat
      OBVIOUS
    <3>. QED
      BY <3>1, Zenon
  <2>2. ClockBits(clock, pmsc[1]) \in SUBSET Nat
    BY <2>1 DEF ClockBits
  <2>3. (IF clock = "auto" THEN pmsc[2] \ {0} ELSE pmsc[2]) \in SUBSET Nat
    BY <2>1
  <2>4. \A x \in SUBSET Nat : \A y \in SUBSET Nat : <<x, y>> \in Seq(SUBSET Nat) /\ <<x, y>>[1] = x
    OBVIOUS
  <2>. QED
    BY <2>2, <2>3, <2>4, Zenon
<1>2. ts = << PmscRead(speed), Pmsc(d, SpeedFor(clock)) >> /\ SpeedFor(clock) \in Speed
  BY DEF enableClock, SpeedFor, Speed
<1>3. (d[1] \cap {0, 1} = {0}) <=> clock = "xti"
  BY <1>1 DEF ClockBits
<1>. HIDE DEF d, ts
<1>4. PmscRead(speed) \in Transfers /\ Pmsc(d, SpeedFor(clock)) \in Transfers
  BY <1>1, <1>2, PortTransfers, Zenon
<1>5. /\ ~ ChoosesClock(PmscRead(speed)) /\ ChoosesClock(Pmsc(d, SpeedFor(clock)))
      /\ ChoosesXti(Pmsc(d, SpeedFor(clock))) <=> d[1] \cap {0, 1} = {0}
  BY ClockHeaders, Zenon
<1>6. /\ ts \in Seq(Transfers) /\ ts # <<>> /\ Len(ts) = 2
      /\ ts[1] = PmscRead(speed) /\ ts[2] = Pmsc(d, SpeedFor(clock))
  BY <1>2, <1>4
<1>7. /\ clock = "xti" => ChoosesXti(ts[Len(ts)]) = TRUE
      /\ clock = "auto" => ChoosesXti(ts[Len(ts)]) = FALSE
  <2>1. ChoosesXti(ts[Len(ts)]) \in BOOLEAN
    BY DEF ChoosesXti
  <2>. QED
    BY <1>3, <1>5, <1>6, <2>1
<1>8. InStep(ts, FALSE, ChoosesXti(ts[Len(ts)]))
  <2>1. \A k \in 1 .. Len(ts) - 1 : ~ ChoosesClock(ts[k])
    BY <1>5, <1>6
  <2>. QED
    BY <1>5, <1>6, <2>1, EndsWithClock
<1>. QED
  BY <1>7, <1>8 DEF ts, Free

LEMMA OtpInStep ==
  ASSUME NEW address \in SUBSET Nat, NEW speed \in Speed, NEW c \in BOOLEAN, c => speed = "slow"
  PROVE  InStep(readBytesOTP(address, speed), c, c)
<1>. DEFINE ts == readBytesOTP(address, speed)
<1>1. <<{0, 1}>> \in Seq(SUBSET Nat) /\ <<{0}>> \in Seq(SUBSET Nat) /\ <<{}>> \in Seq(SUBSET Nat) /\ 4 \in Nat
  OBVIOUS
<1>2. Bytes(address, 2) \in Seq(SUBSET Nat)
  BY DEF Bytes, Bits8
<1>3. /\ writeBytes(OTP_IF, OTP_ADDR_SUB, Bytes(address, 2), speed) \in Transfers
      /\ writeBytes(OTP_IF, OTP_CTRL_SUB, <<{0, 1}>>, speed) \in Transfers
      /\ writeBytes(OTP_IF, OTP_CTRL_SUB, <<{0}>>, speed) \in Transfers
      /\ readBytes(OTP_IF, OTP_RDAT_SUB, 4, speed) \in Transfers
      /\ writeBytes(OTP_IF, OTP_CTRL_SUB, <<{}>>, speed) \in Transfers
  BY <1>1, <1>2, PortTransfers, Zenon
<1>. DEFINE Quiet(t) == ~ ChoosesClock(t) /\ t.speed = speed
<1>4. /\ Quiet(writeBytes(OTP_IF, OTP_ADDR_SUB, Bytes(address, 2), speed))
      /\ Quiet(writeBytes(OTP_IF, OTP_CTRL_SUB, <<{0, 1}>>, speed))
      /\ Quiet(writeBytes(OTP_IF, OTP_CTRL_SUB, <<{0}>>, speed))
      /\ Quiet(readBytes(OTP_IF, OTP_RDAT_SUB, 4, speed))
      /\ Quiet(writeBytes(OTP_IF, OTP_CTRL_SUB, <<{}>>, speed))
  BY ClockHeaders, ZenonT(40)
<1>5. ts \in Seq(Transfers) /\ \A k \in 1 .. Len(ts) : Quiet(ts[k])
  <2>. HIDE DEF Quiet
  <2>. QED
    BY <1>3, <1>4 DEF readBytesOTP
<1>. HIDE DEF ts
<1>6. \A k \in 1 .. Len(ts) : ~ ChoosesClock(ts[k]) /\ (c => ts[k].speed = "slow")
  BY <1>5
<1>. QED
  BY <1>5, <1>6, KeepsClock DEF ts

LEMMA OtpIsFree ==
  ASSUME NEW address \in SUBSET Nat, NEW speed \in Speed
  PROVE  Free(readBytesOTP(address, speed))
BY OtpInStep DEF Free

LEMMA WriteIsFree ==
  ASSUME NEW x \in {PANADR, SYS_CFG, SYS_CTRL, SYS_MASK}, NEW d \in Seq(SUBSET Nat), NEW speed \in Speed
  PROVE  Free(<<writeBytes(x, NO_SUB, d, speed)>>)
<1>. DEFINE t == writeBytes(x, NO_SUB, d, speed)
<1>1. t \in Transfers /\ ~ ChoosesClock(t)
  BY PortTransfers, ClockHeaders, Zenon
<1>. HIDE DEF t
<1>2. <<t>> \in Seq(Transfers) /\ Len(<<t>>) = 1 /\ <<t>>[1] = t
  BY <1>1
<1>3. \A k \in 1 .. Len(<<t>>) : ~ ChoosesClock(<<t>>[k])
  BY <1>1, <1>2
<1>. DEFINE ts == <<t>>
<1>4. ts \in Seq(Transfers) /\ \A k \in 1 .. Len(ts) : ~ ChoosesClock(ts[k])
  BY <1>2, <1>3
<1>. HIDE DEF ts
<1>5. InStep(ts, FALSE, FALSE)
  <2>1. FALSE \in BOOLEAN /\ \A k \in 1 .. Len(ts) : ~ ChoosesClock(ts[k]) /\ (FALSE => ts[k].speed = "slow")
    BY <1>4
  <2>. QED
    BY <1>4, <2>1, KeepsClock
<1>. QED
  BY <1>5 DEF t, ts, Free

LEMMA LdeInStep == InStep(manageLDE("slow"), TRUE, FALSE)
<1>. DEFINE otp2 == readBytesOTP({2}, "slow")
            a == PmscRead("slow")
            b == readBytes(OTP_IF, OTP_CTRL_SUB, 2, "slow")
            c == Pmsc(<<{0}, {0, 1}>>, "slow")
            d == writeBytes(OTP_IF, OTP_CTRL_SUB, <<{}, {7}>>, "slow")
            e == Pmsc(<<{}, {1}>>, "slow")
            ts == <<a, b, c, d, e>>
<1>1. /\ <<{0}, {0, 1}>> \in Seq(SUBSET Nat) /\ <<{}, {7}>> \in Seq(SUBSET Nat) /\ <<{}, {1}>> \in Seq(SUBSET Nat)
      /\ <<{}, {1}>>[1] = {} /\ 2 \in Nat /\ "slow" \in Speed
  BY DEF Speed
<1>2. {a, b, c, d, e} \subseteq Transfers
  <2>1. a \in Transfers /\ c \in Transfers /\ e \in Transfers
    BY <1>1, PortTransfers, Zenon
  <2>2. b \in Transfers /\ d \in Transfers
    BY <1>1, PortTransfers, Zenon
  <2>. QED
    BY <2>1, <2>2, Zenon
<1>3. a.speed = "slow" /\ b.speed = "slow" /\ c.speed = "slow" /\ d.speed = "slow" /\ e.speed = "slow"
  BY DEF PmscRead, Pmsc, readBytes, writeBytes, SpiTransfer
<1>4. ChoosesClock(e) /\ ~ ChoosesXti(e)
  <2>1. <<{}, {1}>>[1] \cap {0, 1} # {0}
    BY <1>1
  <2>. QED
    BY <2>1, ClockHeaders, Zenon
<1>5. InStep(otp2, TRUE, TRUE)
  BY <1>1, OtpInStep
<1>6. manageLDE("slow") = otp2 \o ts
  BY DEF manageLDE
<1>. HIDE DEF a, b, c, d, e, otp2
<1>7. /\ ts \in Seq(Transfers) /\ ts # <<>> /\ Len(ts) = 5 /\ ts[5] = e
      /\ \A k \in 1 .. 5 : ts[k].speed = "slow"
  BY <1>2, <1>3
<1>. HIDE DEF ts
<1>8. InStep(ts, TRUE, FALSE)
  <2>1. InStep(ts, TRUE, ChoosesXti(ts[Len(ts)]))
    BY <1>4, <1>7, EndsWithClock
  <2>2. ChoosesXti(ts[Len(ts)]) = FALSE
    BY <1>4, <1>7
  <2>. QED
    BY <2>1, <2>2
<1>. QED
  BY <1>5, <1>6, <1>8, InStepTogether

\* The reset of a board with a reset pin sends one transfer that chooses no clock.
LEMMA ResetIsFree ==
  ASSUME NEW rst, rst # 255, NEW ctrl
  PROVE  Free(reset(rst, ctrl, "fast"))
<1>. DEFINE d == setBit(Zeros(4), TRXOFF_BIT, TRUE)
<1>1. d \in Seq(SUBSET Nat) /\ "fast" \in Speed
  BY DEF setBit, Zeros, TRXOFF_BIT, Speed
<1>2. reset(rst, ctrl, "fast") = <<writeBytes(SYS_CTRL, NO_SUB, d, "fast")>>
  BY DEF reset, idle
<1>3. Free(<<writeBytes(SYS_CTRL, NO_SUB, d, "fast")>>)
  <2>. HIDE DEF d
  <2>. QED
    BY <1>1, WriteIsFree
<1>. QED
  BY <1>2, <1>3, Zenon

\* The crystal's clock is chosen for manageLDE and given up at its end.
LEMMA LdeIsFree ==
  ASSUME NEW p, Free(p), NEW pmsc \in Seq(SUBSET Nat), Len(pmsc) = 4
  PROVE  Free((p \o enableClock("xti", pmsc, "fast")) \o manageLDE("slow"))
<1>1. InStep(enableClock("xti", pmsc, "fast"), FALSE, TRUE)
  BY ClockInStep DEF Speed
<1>. QED
  BY <1>1, LdeInStep, FreeAround

\* spiSelect of a board with a reset pin, as all of the sketches' have: no transfer goes out
\* faster than the chip's clock allows, whatever its registers held, although enableClock
\* changes the speed before the clock; and the chip is left on its own choice of clock.
THEOREM SlowOnTheCrystal ==
  ASSUME NEW rst, rst # 255,
         NEW read, \A i \in 1 .. 4 : read[i] \in Seq(SUBSET Nat) /\ Len(read[i]) = 4
  PROVE  /\ TooFast(spiSelect(rst, read), FALSE) = {}
         /\ ~ FindsXti(spiSelect(rst, read), Len(spiSelect(rst, read)) + 1, FALSE)
<1>1. "fast" \in Speed /\ "slow" \in Speed /\ {3} \in SUBSET Nat /\ {0, 3} \in SUBSET Nat
  BY DEF Speed
<1>2. \A i \in {1, 3, 4} : read[i] \in Seq(SUBSET Nat) /\ Len(read[i]) = 4
  OBVIOUS
<1>3. Free(enableClock("auto", read[1], "fast")) /\ Free(enableClock("auto", read[4], "slow"))
  BY <1>1, <1>2, ClockInStep
<1>4. Free(reset(rst, read[2], "fast"))
  BY ResetIsFree
<1>5. Free(writeNetworkIdAndDeviceAddress("fast"))
  <2>1. writeValueToBytes(0 .. 7, 4) \in Seq(SUBSET Nat)
    BY DEF writeValueToBytes, Bytes, Bits8
  <2>2. \A d \in Seq(SUBSET Nat) : Free(<<writeBytes(PANADR, NO_SUB, d, "fast")>>)
    BY <1>1, WriteIsFree
  <2>. QED
    BY <2>1, <2>2 DEF writeNetworkIdAndDeviceAddress
<1>6. Free(writeSystemConfigurationRegister("fast"))
  <2>1. DefaultSyscfg \in Seq(SUBSET Nat)
    BY DEF DefaultSyscfg, setInterruptPolarity, setDoubleBuffering, setBit, Zeros, HIRQ_POL_BIT, DIS_DRXB_BIT
  <2>2. \A d \in Seq(SUBSET Nat) : Free(<<writeBytes(SYS_CFG, NO_SUB, d, "fast")>>)
    BY <1>1, WriteIsFree
  <2>. QED
    BY <2>1, <2>2 DEF writeSystemConfigurationRegister
<1>7. Free(writeSystemEventMaskRegister("fast"))
  <2>1. Zeros(4) \in Seq(SUBSET Nat)
    BY PortTypes
  <2>2. \A d \in Seq(SUBSET Nat) : Free(<<writeBytes(SYS_MASK, NO_SUB, d, "fast")>>)
    BY <1>1, WriteIsFree
  <2>. QED
    BY <2>1, <2>2 DEF writeSystemEventMaskRegister
<1>8. Free(readBytesOTP({3}, "fast")) /\ Free(readBytesOTP({0, 3}, "fast"))
  BY <1>1, OtpIsFree
<1>9. ASSUME NEW p, Free(p)
      PROVE  Free((p \o enableClock("xti", read[3], "fast")) \o manageLDE("slow"))
  <2>1. read[3] \in Seq(SUBSET Nat) /\ Len(read[3]) = 4
    BY <1>2
  <2>. QED
    BY <1>9, <2>1, LdeIsFree
<1>. DEFINE s1 == enableClock("auto", read[1], "fast") \o reset(rst, read[2], "fast")
            s2 == s1 \o writeNetworkIdAndDeviceAddress("fast")
            s3 == s2 \o writeSystemConfigurationRegister("fast")
            s4 == s3 \o writeSystemEventMaskRegister("fast")
            s5 == (s4 \o enableClock("xti", read[3], "fast")) \o manageLDE("slow")
            s6 == s5 \o enableClock("auto", read[4], "slow")
            s7 == s6 \o readBytesOTP({3}, "fast")
<1>10. Free(spiSelect(rst, read))
  <2>1. Free(s1)
    BY <1>3, <1>4, FreeTogether
  <2>2. Free(s2)
    BY <1>5, <2>1, FreeTogether
  <2>3. Free(s3)
    BY <1>6, <2>2, FreeTogether
  <2>4. Free(s4)
    BY <1>7, <2>3, FreeTogether
  <2>5. Free(s5)
    BY <1>9, <2>4
  <2>6. Free(s6)
    BY <1>3, <2>5, FreeTogether
  <2>7. Free(s7)
    BY <1>8, <2>6, FreeTogether
  <2>8. Free(s7 \o readBytesOTP({0, 3}, "fast"))
    BY <1>8, <2>7, FreeTogether
  <2>. QED
    BY <2>8 DEF spiSelect
<1>. QED
  BY <1>10 DEF Free, InStep

(***************************************************************************)
(* The Hub's solver and the page's drawing (Geometry)                       *)
(***************************************************************************)
\* The stations of no profile are in a line: the solver always divides.
THEOREM RoomsAreSolvable == \A i \in 1 .. 4 : det(rooms[i]) # 0
BY DEF rooms, Profile, det, A, B, D, E

\* How far the solver is off: the differences of the squared heights above the stations,
\* which its equations leave out, enter both coordinates.
THEOREM HeightError ==
  ASSUME NEW rc \in RoomConfig, NEW x \in Int, NEW y \in Int, NEW z \in Int,
         NEW u, u = (z - rc.hub_z) * (z - rc.hub_z) - (z - rc.a1_z) * (z - rc.a1_z),
         NEW v, v = (z - rc.a2_z) * (z - rc.a2_z) - (z - rc.a1_z) * (z - rc.a1_z)
  PROVE  /\ X(rc, ToA1(rc, x, y, z), ToHub(rc, x, y, z), ToA2(rc, x, y, z)) = x * det(rc) + (E(rc) * u - B(rc) * v)
         /\ Y(rc, ToA1(rc, x, y, z), ToHub(rc, x, y, z), ToA2(rc, x, y, z)) = y * det(rc) + (A(rc) * v - D(rc) * u)
<1> DEFINE c == C(rc, ToA1(rc, x, y, z), ToHub(rc, x, y, z))
           f == F(rc, ToA1(rc, x, y, z), ToA2(rc, x, y, z))
<1>1. /\ {rc.a1_x, rc.a1_y, rc.a1_z, rc.a2_x, rc.a2_y, rc.a2_z} \subseteq Int
      /\ {rc.hub_x, rc.hub_y, rc.hub_z} \subseteq Int
  BY DEF RoomConfig
<1>2. c = A(rc) * x + B(rc) * y + u
  BY <1>1 DEF C, A, B, ToA1, ToHub, SquaredDistance
<1>3. f = D(rc) * x + E(rc) * y + v
  BY <1>1 DEF F, D, E, ToA1, ToA2, SquaredDistance
<1>4. {A(rc), B(rc), D(rc), E(rc), u, v} \subseteq Int
  BY <1>1 DEF A, B, D, E
<1>5. ASSUME NEW a \in Int, NEW b \in Int, NEW d \in Int, NEW e \in Int, NEW s \in Int, NEW t \in Int
      PROVE  /\ (a * x + b * y + s) * e - b * (d * x + e * y + t) = x * (a * e - b * d) + (e * s - b * t)
             /\ a * (d * x + e * y + t) - (a * x + b * y + s) * d = y * (a * e - b * d) + (a * t - d * s)
  OBVIOUS
<1> QED
  BY <1>2, <1>3, <1>4, <1>5 DEF X, Y, det

\* With its stations at one height the solver finds the tag: its coordinates exactly, and
\* the square of its distance from the stations' plane; whether above or below it, the
\* ranges do not tell, and the Hub assumes below.
THEOREM ExactAtOneHeight ==
  ASSUME NEW rc \in RoomConfig, rc.hub_z = rc.a1_z, rc.a2_z = rc.a1_z,
         NEW x \in Int, NEW y \in Int, NEW z \in Int
  PROVE  /\ X(rc, ToA1(rc, x, y, z), ToHub(rc, x, y, z), ToA2(rc, x, y, z)) = x * det(rc)
         /\ Y(rc, ToA1(rc, x, y, z), ToHub(rc, x, y, z), ToA2(rc, x, y, z)) = y * det(rc)
         /\ zSq(rc, ToA1(rc, x, y, z), x, y) = (z - rc.a1_z) * (z - rc.a1_z)
<1> DEFINE h == (z - rc.a1_z) * (z - rc.a1_z) - (z - rc.a1_z) * (z - rc.a1_z)
<1>1. /\ {rc.a1_x, rc.a1_y, rc.a1_z, rc.a2_x, rc.a2_y} \subseteq Int
      /\ {rc.hub_x, rc.hub_y} \subseteq Int
  BY DEF RoomConfig
<1>2. h = 0
  BY <1>1
<1>3. {A(rc), B(rc), D(rc), E(rc), det(rc)} \subseteq Int
  BY <1>1 DEF A, B, D, E, det
<1>4. /\ X(rc, ToA1(rc, x, y, z), ToHub(rc, x, y, z), ToA2(rc, x, y, z)) = x * det(rc) + (E(rc) * h - B(rc) * h)
      /\ Y(rc, ToA1(rc, x, y, z), ToHub(rc, x, y, z), ToA2(rc, x, y, z)) = y * det(rc) + (A(rc) * h - D(rc) * h)
  BY HeightError
<1>5. zSq(rc, ToA1(rc, x, y, z), x, y) = (z - rc.a1_z) * (z - rc.a1_z)
  BY <1>1 DEF zSq, ToA1, SquaredDistance
<1> QED
  BY <1>2, <1>3, <1>4, <1>5

\* Then, unless the stations are in a line, the alarm condition is what it should be.
THEOREM OutsideIsSeen ==
  ASSUME NEW rc \in RoomConfig, rc.hub_z = rc.a1_z, rc.a2_z = rc.a1_z, det(rc) # 0,
         NEW x \in Int, NEW y \in Int, NEW z \in Int
  PROVE  SeenOutside(rc, x, y, z) <=> Outside(rc, x, y)
<1>1. /\ {rc.a1_x, rc.a1_y, rc.a2_x, rc.a2_y, rc.hub_x, rc.hub_y} \subseteq Int
      /\ rc.max_x \in Int /\ rc.max_y \in Int
  BY DEF RoomConfig
<1>2. det(rc) \in Int
  BY <1>1 DEF A, B, D, E, det
<1>3. ASSUME NEW m \in Int, NEW n \in Int, NEW q \in Int, q # 0
      PROVE  (Below(m * q, q, n) <=> m < n) /\ (Above(m * q, q, n) <=> m > n)
  <2>1. (m - n) * q = m * q - n * q
    OBVIOUS
  <2>2. CASE q > 0
    BY <2>1, <2>2 DEF Below, Above
  <2>3. CASE q < 0
    BY <2>1, <2>3 DEF Below, Above
  <2> QED
    BY <1>3, <2>2, <2>3
<1>4. /\ X(rc, ToA1(rc, x, y, z), ToHub(rc, x, y, z), ToA2(rc, x, y, z)) = x * det(rc)
      /\ Y(rc, ToA1(rc, x, y, z), ToHub(rc, x, y, z), ToA2(rc, x, y, z)) = y * det(rc)
  BY ExactAtOneHeight
<1>5. \A m, n \in Int : (Below(m * det(rc), det(rc), n) <=> m < n) /\ (Above(m * det(rc), det(rc), n) <=> m > n)
  <2> TAKE m, n \in Int
  <2>1. det(rc) # 0
    OBVIOUS
  <2> QED
    BY <1>2, <1>3, <2>1, Zenon
<1>6. 0 \in Int
  OBVIOUS
<1> QED
  BY <1>1, <1>4, <1>5, <1>6, Zenon DEF SeenOutside, Outside, outsideRoom

\* What is inside the page's view is drawn inside its canvas.
LEMMA InView ==
  ASSUME NEW rc \in RoomConfig, NEW wx \in Nat, NEW wy \in Nat, NEW W \in Nat, NEW H \in Nat,
         wx <= viewXMax(rc), wy <= viewYMax(rc)
  PROVE  OnCanvas(rc, wx, wy, W, H)
<1>1. viewXMax(rc) \in Int /\ viewYMax(rc) \in Int
  BY DEF RoomConfig, viewXMax, viewYMax, Larger
<1>2. ASSUME NEW w \in Nat, NEW view \in Int, w <= view, NEW P \in Nat
      PROVE  0 <= (10 * w) * P /\ (10 * w) * P <= P * (11 * view)
  <2>1. 10 * w \in Nat /\ (11 * view) - (10 * w) \in Nat
    BY <1>2
  <2>2. \A m, n \in Nat : m * n \in Nat
    OBVIOUS
  <2>3. (10 * w) * P \in Nat /\ ((11 * view) - (10 * w)) * P \in Nat
    BY <2>1, <2>2
  <2>4. ((11 * view) - (10 * w)) * P = P * (11 * view) - (10 * w) * P
    OBVIOUS
  <2> QED
    BY <2>3, <2>4
<1>3. /\ 0 <= (10 * wx) * W /\ (10 * wx) * W <= W * (11 * viewXMax(rc))
      /\ 0 <= (10 * wy) * H /\ (10 * wy) * H <= H * (11 * viewYMax(rc))
  BY <1>1, <1>2
<1>4. /\ (pad + W) * (11 * viewXMax(rc)) = pad * (11 * viewXMax(rc)) + W * (11 * viewXMax(rc))
      /\ (pad + H) * (11 * viewYMax(rc)) = pad * (11 * viewYMax(rc)) + H * (11 * viewYMax(rc))
  BY <1>1 DEF pad
<1>5. /\ {(10 * wx) * W, (10 * wy) * H, W * (11 * viewXMax(rc)), H * (11 * viewYMax(rc))} \subseteq Int
      /\ {pad * (11 * viewXMax(rc)), pad * (11 * viewYMax(rc))} \subseteq Int
  BY <1>1 DEF pad
<1> QED
  BY <1>3, <1>4, <1>5 DEF OnCanvas, cx, cy

\* Whatever the solver computes, the page draws the tag on its canvas, since the Hub
\* sends it no place outside the room.
THEOREM TagIsDrawn ==
  ASSUME NEW rc \in RoomConfig, rc.max_x >= 0, rc.max_y >= 0,
         NEW m \in Int, NEW n \in Int, NEW W \in Nat, NEW H \in Nat
  PROVE  OnCanvas(rc, Clamp(m, rc.max_x), Clamp(n, rc.max_y), W, H)
<1>1. /\ {rc.max_x, rc.a1_x, rc.a2_x, rc.hub_x} \subseteq Int
      /\ {rc.max_y, rc.a1_y, rc.a2_y, rc.hub_y} \subseteq Int
  BY DEF RoomConfig
<1>2. rc.max_x <= viewXMax(rc) /\ rc.max_y <= viewYMax(rc) /\ {viewXMax(rc), viewYMax(rc)} \subseteq Int
  BY <1>1 DEF viewXMax, viewYMax, Larger
<1>3. /\ Clamp(m, rc.max_x) \in Nat /\ Clamp(m, rc.max_x) <= rc.max_x
      /\ Clamp(n, rc.max_y) \in Nat /\ Clamp(n, rc.max_y) <= rc.max_y
  BY <1>1 DEF Clamp
<1>4. Clamp(m, rc.max_x) <= viewXMax(rc) /\ Clamp(n, rc.max_y) <= viewYMax(rc)
  BY <1>1, <1>2, <1>3
<1> QED
  BY <1>3, <1>4, InView

\* Every station of every profile is drawn as well.
THEOREM StationsAreDrawn ==
  ASSUME NEW i \in 1 .. 4, NEW W \in Nat, NEW H \in Nat
  PROVE  /\ OnCanvas(rooms[i], rooms[i].hub_x, rooms[i].hub_y, W, H)
         /\ OnCanvas(rooms[i], rooms[i].a1_x, rooms[i].a1_y, W, H)
         /\ OnCanvas(rooms[i], rooms[i].a2_x, rooms[i].a2_y, W, H)
<1>1. rooms[i] \in RoomConfig
  BY DEF rooms, Profile, RoomConfig
<1>2. /\ {rooms[i].hub_x, rooms[i].a1_x, rooms[i].a2_x} \subseteq Nat
      /\ {rooms[i].hub_y, rooms[i].a1_y, rooms[i].a2_y} \subseteq Nat
      /\ {rooms[i].max_x, rooms[i].max_y} \subseteq Nat
  BY DEF rooms, Profile
<1>3. /\ rooms[i].hub_x <= viewXMax(rooms[i]) /\ rooms[i].a1_x <= viewXMax(rooms[i])
      /\ rooms[i].a2_x <= viewXMax(rooms[i])
      /\ rooms[i].hub_y <= viewYMax(rooms[i]) /\ rooms[i].a1_y <= viewYMax(rooms[i])
      /\ rooms[i].a2_y <= viewYMax(rooms[i])
  BY <1>2 DEF viewXMax, viewYMax, Larger
<1> QED
  BY <1>1, <1>2, <1>3, InView

----------------------------------------------------------------------------
(***************************************************************************)
(* The life of the radio (Power)                                            *)
(***************************************************************************)
Up == state \notin {"none", "sleep"}

\* dwt_configure runs with the radio awake, and calibrates only a locked PLL.
Calls ==
  /\ pc # "app" => Awake /\ config # NoConfig
  /\ pc = "pgf" => locked

\* The OPS table of the configuration is the one noted for the wake-up.
Noted ==
  config # NoConfig =>
    /\ "ALT_OPS" \in sleep_mode <=> Ops(config) # "short"
    /\ "SEL_OPS1" \in sleep_mode <=> Ops(config) = "scp"

\* A radio that is reset or asleep has its reset values, and the always-on array
\* keeps the mode of the buffers through a sleep.
Down ==
  /\ ~Up => ~toRestore /\ lost = LostAtReset /\ kept = KeptAtReset
  /\ state = "none" => config = NoConfig
  /\ state = "sleep" => aon.kept.double = dblbuffon

\* Of one that is up the driver knows the mode of the buffers; until the host has
\* put the rest back, the table is the one after the reset or dwt_configure's.
Woken ==
  Up => /\ kept.double = dblbuffon
        /\ toRestore /\ config # NoConfig => lost.ops \in {"short", Ops(config)}
        /\ ~toRestore =>
             /\ otp = "tuned" => lost.bias
             /\ dblbuffon => lost.bufB
             /\ config # NoConfig => lost.ops = Ops(config) /\ lost.rload

PowerInv == TypeOK /\ Calls /\ Noted /\ Down /\ Woken

Keeps == [chanCtrl : Nat, double : BOOLEAN, ainit : BOOLEAN]
Loses == [ops : {"short", "long", "scp"}, dgc : {0, 5, 9}, rxTune : BOOLEAN, bias : BOOLEAN,
          rload : BOOLEAN, bufB : BOOLEAN]

\* TypeOK, in parts.
Driven == sleep_mode \subseteq Bits /\ dblbuffon \in BOOLEAN /\ otp \in {"tuned", "untuned", "bias"}
Waits ==
  /\ pc \in {"app", "pll", "pgf"} /\ cnt \in Nat
  /\ (pc = "pll" => cnt < MAX_RETRIES_FOR_PLL) /\ (pc = "pgf" => cnt < MAX_RETRIES_FOR_PGF)
Called == Waits /\ config \in Config \cup {NoConfig} /\ result \in {"none", "success", "error"}
Registers == kept \in Keeps /\ lost \in Loses /\ aon \in [kept : Keeps, dig : SUBSET Bits]
States == /\ state \in {"none", "init_rc", "idle_rc", "idle_pll", "sleep"}
          /\ locked \in BOOLEAN /\ calibrated \in BOOLEAN /\ toRestore \in BOOLEAN

LEMMA TypeParts == TypeOK <=> Driven /\ Called /\ Registers /\ States
BY DEF TypeOK, Driven, Waits, Called, Registers, States, Keeps, Loses

LEMMA TypePartsNext == TypeOK' <=> Driven' /\ Called' /\ Registers' /\ States'
BY DEF TypeOK, Driven, Waits, Called, Registers, States, Keeps, Loses

LEMMA AtReset ==
  /\ KeptAtReset \in Keeps /\ LostAtReset \in Loses
  /\ AonAtReset \in [kept : Keeps, dig : SUBSET Bits]
  /\ KeptAtReset.double = FALSE
BY DEF KeptAtReset, LostAtReset, AonAtReset, Keeps, Loses

LEMMA ConfigFits ==
  ASSUME NEW c \in Config
  PROVE  /\ ChanCtrl(c) \in Nat /\ c.chan \in {0, 5, 9} /\ c # NoConfig
         /\ Ops(c) \in {"short", "long", "scp"} /\ OpsMode(c) \in SUBSET (sleep_mode \cup Bits)
         /\ "ALT_OPS" \in OpsMode(c) <=> Ops(c) # "short"
         /\ "SEL_OPS1" \in OpsMode(c) <=> Ops(c) = "scp"
<1>1. c.rxCode \in Nat /\ c.txCode \in Nat /\ c.chan \in {5, 9}
  <2>1. c.rxCode \in RxCodes /\ c.txCode \in TxCodes /\ c.chan \in {5, 9}
    BY DEF Config
  <2>2. RxCodes \subseteq Nat /\ TxCodes \subseteq Nat
    BY PowerAssumption
  <2>. QED
    BY <2>1, <2>2
<1>2. c # NoConfig
  BY <1>1 DEF NoConfig
<1>3. ChanCtrl(c) \in Nat
  BY <1>1 DEF ChanCtrl
<1>. QED
  BY <1>1, <1>2, <1>3 DEF Ops, OpsMode, Bits

LEMMA InitialiseOK == ASSUME PowerInv, Initialise PROVE PowerInv'
<1>1. state = "none" /\ pc = "app" /\ ~Up /\ config = NoConfig
  BY DEF Initialise, PowerInv, Down, Up
<1>2. TypeOK'
  <2>1. Driven'
    BY <1>1, TypeParts DEF PowerInv, Driven, Bits, Initialise, call, Loses
  <2>2. Called'
    BY <1>1, TypeParts, PowerAssumption DEF PowerInv, Called, Waits, Initialise, call, Loses
  <2>3. Registers'
    BY <1>1, TypeParts, AtReset DEF PowerInv, Registers, Initialise, call, Loses
  <2>4. States'
    BY <1>1, TypeParts DEF PowerInv, States, Initialise, call, Loses
  <2>. QED
    BY <2>1, <2>2, <2>3, <2>4, TypePartsNext
<1>3. Calls' /\ Noted'
  BY <1>1 DEF Calls, Noted, Initialise, call
<1>4. Down'
  BY <1>1 DEF PowerInv, Down, Up, Initialise, call
<1>5. Woken'
  BY <1>1, AtReset DEF PowerInv, TypeOK, Down, Up, Woken, Initialise, call
<1>. QED
  BY <1>2, <1>3, <1>4, <1>5 DEF PowerInv

LEMMA ConfigureOK == ASSUME PowerInv, NEW c \in Config, Configure(c) PROVE PowerInv'
<1>1. Up /\ Up' /\ Awake' /\ state' = state /\ c # NoConfig /\ config' = c
  BY ConfigFits DEF Configure, AppMayCall, Awake, Up
<1>2. TypeOK'
  <2>1. Driven'
    BY ConfigFits, TypeParts DEF PowerInv, Driven, Bits, Configure, SetIdle, Keeps, Loses
  <2>2. Called'
    BY ConfigFits, TypeParts, PowerAssumption DEF PowerInv, Called, Waits, Configure, SetIdle, Keeps, Loses
  <2>3. Registers'
    BY ConfigFits, TypeParts, AtReset DEF PowerInv, Registers, Configure, SetIdle, Keeps, Loses
  <2>4. States'
    BY ConfigFits, TypeParts DEF PowerInv, States, Configure, SetIdle, Keeps, Loses
  <2>. QED
    BY <2>1, <2>2, <2>3, <2>4, TypePartsNext
<1>3. Ops(config') = Ops(c)
  BY <1>1
<1>4. Calls' /\ Noted' /\ Down'
  <2>1. sleep_mode' = OpsMode(c) /\ pc' = "pll"
    BY DEF Configure
  <2>2. Calls'
    BY <1>1, <2>1 DEF Calls
  <2>3. Noted'
    BY <1>1, <1>3, <2>1, ConfigFits DEF Noted
  <2>4. Down'
    BY <1>1 DEF Down, Up
  <2>. QED
    BY <2>2, <2>3, <2>4
<1>5. Woken'
  BY <1>1, <1>3 DEF PowerInv, TypeOK, Woken, Configure, SetIdle
<1>. QED
  BY <1>2, <1>4, <1>5 DEF PowerInv

LEMMA PllOK == ASSUME PowerInv, PllLocks \/ StillLocked PROVE PowerInv'
<1>1. TypeOK'
  BY ZenonT(40) DEF PowerInv, TypeOK, PllLocks, StillLocked, driver, call
<1>2. Calls' /\ Noted' /\ Down' /\ Woken'
  BY DEF PowerInv, Calls, Noted, Down, Woken, Up, Awake, PllLocks, StillLocked, driver, call
<1>. QED
  BY <1>1, <1>2 DEF PowerInv

LEMMA PllPollOK == ASSUME PowerInv, PllPoll PROVE PowerInv'
<1>1. config \in Config /\ Up
  BY DEF PowerInv, TypeOK, Calls, PllPoll, Awake, Up
<1>2. /\ lost' \in Loses
      /\ lost'.ops = lost.ops /\ lost'.rload = lost.rload /\ lost'.bias = lost.bias /\ lost'.bufB = lost.bufB
  BY <1>1, ConfigFits, ZenonT(40) DEF PowerInv, TypeOK, PllPoll, WithDgc, Loses
<1>3. TypeOK'
  BY <1>2, PowerAssumption DEF PowerInv, TypeOK, PllPoll, LastRetry, driver, Loses
<1>4. Calls' /\ Noted' /\ Down' /\ Woken'
  BY <1>1, <1>2 DEF PowerInv, Calls, Noted, Down, Woken, Up, Awake, PllPoll, PllLocked, driver
<1>. QED
  BY <1>3, <1>4 DEF PowerInv

LEMMA PgfPollOK == ASSUME PowerInv, PgfPoll PROVE PowerInv'
<1>1. TypeOK'
  BY PowerAssumption DEF PowerInv, TypeOK, PgfPoll, LastRetry, driver
<1>2. Calls' /\ Noted' /\ Down' /\ Woken'
  BY DEF PowerInv, Calls, Noted, Down, Woken, Up, Awake, PgfPoll, driver
<1>. QED
  BY <1>1, <1>2 DEF PowerInv

LEMMA StateOK ==
  ASSUME PowerInv, (\E s \in {"init_rc", "idle_rc", "idle_pll"} : SetDwState(s)) \/ SequencerRuns
  PROVE  PowerInv'
<1>1. kept' \in Keeps /\ kept'.double = kept.double
  BY DEF PowerInv, TypeOK, SetDwState, SequencerRuns, SetIdle, Keeps
<1>2. TypeOK'
  <2>1. Driven'
    BY <1>1, TypeParts DEF PowerInv, Driven, Bits, SetDwState, SequencerRuns, driver, call
  <2>2. Called'
    BY <1>1, TypeParts, PowerAssumption DEF PowerInv, Called, Waits, SetDwState, SequencerRuns, driver, call
  <2>3. Registers'
    BY <1>1, TypeParts, AtReset DEF PowerInv, Registers, SetDwState, SequencerRuns, driver, call
  <2>4. States'
    BY <1>1, TypeParts DEF PowerInv, States, SetDwState, SequencerRuns, driver, call
  <2>. QED
    BY <2>1, <2>2, <2>3, <2>4, TypePartsNext
<1>3. Calls' /\ Noted' /\ Down' /\ Woken'
  BY <1>1 DEF PowerInv, Calls, Noted, Down, Woken, Up, Awake, SetDwState, SequencerRuns, AppMayCall, driver, call
<1>. QED
  BY <1>2, <1>3 DEF PowerInv

LEMMA ConfigureSleepOK ==
  ASSUME PowerInv, NEW m \in WakeModes, ConfigureSleep(m) PROVE PowerInv'
<1>1. /\ sleep_mode' \subseteq Bits
      /\ "ALT_OPS" \in sleep_mode' <=> "ALT_OPS" \in sleep_mode
      /\ "SEL_OPS1" \in sleep_mode' <=> "SEL_OPS1" \in sleep_mode
  BY PowerAssumption DEF PowerInv, TypeOK, ConfigureSleep
<1>2. TypeOK'
  BY <1>1 DEF PowerInv, TypeOK, ConfigureSleep, call
<1>3. Calls' /\ Noted' /\ Down' /\ Woken'
  BY <1>1 DEF PowerInv, Calls, Noted, Down, Woken, Up, Awake, ConfigureSleep, AppMayCall, call
<1>. QED
  BY <1>2, <1>3 DEF PowerInv

LEMMA SleepOK == ASSUME PowerInv, NEW rc \in BOOLEAN, EnterSleep(rc) PROVE PowerInv'
<1>1. Up /\ pc = "app"
  BY DEF EnterSleep, AppMayCall, Awake, Up
<1>2. aon'.kept \in Keeps /\ aon'.kept.double = kept.double /\ aon'.dig = aon.dig
      /\ aon' \in [kept : Keeps, dig : SUBSET Bits]
  BY DEF PowerInv, TypeOK, EnterSleep, Sleeps, Keeps
<1>3. TypeOK'
  <2>1. Driven'
    BY <1>2, TypeParts DEF PowerInv, Driven, Bits, EnterSleep, Sleeps, driver, call
  <2>2. Called'
    BY <1>2, TypeParts, PowerAssumption DEF PowerInv, Called, Waits, EnterSleep, Sleeps, driver, call
  <2>3. Registers'
    BY <1>2, TypeParts, AtReset DEF PowerInv, Registers, EnterSleep, Sleeps, driver, call
  <2>4. States'
    BY <1>2, TypeParts DEF PowerInv, States, EnterSleep, Sleeps, driver, call
  <2>. QED
    BY <2>1, <2>2, <2>3, <2>4, TypePartsNext
<1>4. Calls' /\ Noted' /\ Down' /\ Woken'
  BY <1>1, <1>2 DEF PowerInv, Calls, Noted, Down, Woken, Up, EnterSleep, Sleeps, driver, call
<1>. QED
  BY <1>3, <1>4 DEF PowerInv

LEMMA WakeOK == ASSUME PowerInv, Wake PROVE PowerInv'
<1>1. /\ pc = "app" /\ ~Up /\ ~toRestore /\ lost = LostAtReset /\ kept = KeptAtReset
      /\ aon.kept.double = dblbuffon
  BY DEF PowerInv, Calls, Down, Up, Awake, Wake
<1>2. TypeOK'
  <2>1. Driven'
    BY TypeParts DEF PowerInv, Driven, Bits, Wake, driver
  <2>2. Called'
    BY TypeParts, PowerAssumption DEF PowerInv, Called, Waits, Wake, driver
  <2>3. Registers'
    BY TypeParts, AtReset DEF PowerInv, Registers, Wake, driver
  <2>4. States'
    BY TypeParts DEF PowerInv, States, Wake, driver
  <2>. QED
    BY <2>1, <2>2, <2>3, <2>4, TypePartsNext
<1>3. Calls' /\ Noted' /\ Down'
  BY <1>1 DEF PowerInv, Calls, Noted, Down, Up, Wake, driver
<1>4. Woken'
  BY <1>1 DEF PowerInv, Woken, Up, Wake, driver, LostAtReset
<1>. QED
  BY <1>2, <1>3, <1>4 DEF PowerInv

LEMMA RestoreOK == ASSUME PowerInv, RestoreConfig PROVE PowerInv'
<1>1. Up /\ pc = "app"
  BY DEF RestoreConfig, AppMayCall, Awake, Up
<1>2. /\ lost' \in Loses /\ lost'.ops = KickOps /\ lost'.rload /\ lost'.bufB
      /\ otp = "tuned" => lost'.bias
  BY ZenonT(40) DEF PowerInv, TypeOK, RestoreConfig, Restored, KickOps, RestoredDgc, Loses
<1>3. config # NoConfig => KickOps = Ops(config)
  BY <1>1, ConfigFits DEF PowerInv, TypeOK, RestoreConfig, Noted, Woken, KickOps
<1>4. TypeOK'
  <2>1. Driven'
    BY <1>2, TypeParts DEF PowerInv, Driven, Bits, RestoreConfig, driver, call
  <2>2. Called'
    BY <1>2, TypeParts, PowerAssumption DEF PowerInv, Called, Waits, RestoreConfig, driver, call
  <2>3. Registers'
    BY <1>2, TypeParts, AtReset DEF PowerInv, Registers, RestoreConfig, driver, call
  <2>4. States'
    BY <1>2, TypeParts DEF PowerInv, States, RestoreConfig, driver, call
  <2>. QED
    BY <2>1, <2>2, <2>3, <2>4, TypePartsNext
<1>5. Calls' /\ Noted' /\ Down' /\ Woken'
  BY <1>1, <1>2, <1>3 DEF PowerInv, Calls, Noted, Down, Woken, Up, RestoreConfig, driver, call
<1>. QED
  BY <1>4, <1>5 DEF PowerInv

LEMMA BuffersOK == ASSUME PowerInv, SetDblRxBuffMode PROVE PowerInv'
<1>1. Up /\ Up' /\ pc = "app" /\ ~toRestore
  BY DEF SetDblRxBuffMode, AppMayCall, Awake, Up
<1>2. /\ dblbuffon' \in BOOLEAN /\ kept' \in Keeps /\ kept'.double = dblbuffon'
      /\ lost' \in Loses
      /\ dblbuffon' => lost'.bufB
      /\ lost'.ops = lost.ops /\ lost'.rload = lost.rload /\ lost'.bias = lost.bias
  BY DEF PowerInv, TypeOK, SetDblRxBuffMode, Keeps, Loses
<1>3. TypeOK'
  <2>1. Driven'
    BY <1>2, TypeParts DEF PowerInv, Driven, Bits, SetDblRxBuffMode, call
  <2>2. Called'
    BY <1>2, TypeParts, PowerAssumption DEF PowerInv, Called, Waits, SetDblRxBuffMode, call
  <2>3. Registers'
    BY <1>2, TypeParts, AtReset DEF PowerInv, Registers, SetDblRxBuffMode, call
  <2>4. States'
    BY <1>2, TypeParts DEF PowerInv, States, SetDblRxBuffMode, call
  <2>. QED
    BY <2>1, <2>2, <2>3, <2>4, TypePartsNext
<1>4. Calls' /\ Noted' /\ Down' /\ Woken'
  BY <1>1, <1>2 DEF PowerInv, Calls, Noted, Down, Woken, Up, Awake, SetDblRxBuffMode, call
<1>. QED
  BY <1>3, <1>4 DEF PowerInv

LEMMA ResetOK == ASSUME PowerInv, SoftReset PROVE PowerInv'
<1>1. TypeOK'
  <2>1. Driven'
    BY TypeParts DEF PowerInv, Driven, Bits, SoftReset
  <2>2. Called'
    BY TypeParts, PowerAssumption DEF PowerInv, Called, Waits, SoftReset
  <2>3. Registers'
    BY TypeParts, AtReset DEF PowerInv, Registers, SoftReset
  <2>4. States'
    BY TypeParts DEF PowerInv, States, SoftReset
  <2>. QED
    BY <2>1, <2>2, <2>3, <2>4, TypePartsNext
<1>2. Calls' /\ Noted' /\ Down' /\ Woken'
  BY DEF PowerInv, Calls, Noted, Down, Woken, Up, SoftReset, AppMayCall
<1>. QED
  BY <1>1, <1>2 DEF PowerInv

\* What the driver and the radio keep to through every order of configurations,
\* sleeps, wake-ups and resets, for any retries and preamble codes.
THEOREM RadioTracked == Spec => []PowerInv
<1>1. Init => PowerInv
  <2>. SUFFICES ASSUME Init PROVE PowerInv
    OBVIOUS
  <2>1. TypeOK
    BY AtReset, ZenonT(40) DEF Init, TypeOK, Keeps, Loses, Bits
  <2>2. Calls /\ Noted /\ Down /\ Woken
    BY DEF Init, Calls, Noted, Down, Woken, Up
  <2>. QED
    BY <2>1, <2>2 DEF PowerInv
<1>2. PowerInv /\ [Next]_vars => PowerInv'
  <2>. SUFFICES ASSUME PowerInv, [Next]_vars PROVE PowerInv'
    OBVIOUS
  <2>1. CASE Initialise
    BY <2>1, InitialiseOK
  <2>2. CASE \E c \in Config : Configure(c)
    BY <2>2, ConfigureOK
  <2>3. CASE PllLocks \/ StillLocked
    BY <2>3, PllOK
  <2>4. CASE PllPoll
    BY <2>4, PllPollOK
  <2>5. CASE PgfPoll
    BY <2>5, PgfPollOK
  <2>6. CASE (\E s \in {"init_rc", "idle_rc", "idle_pll"} : SetDwState(s)) \/ SequencerRuns
    BY <2>6, StateOK
  <2>7. CASE \E m \in WakeModes : ConfigureSleep(m)
    BY <2>7, ConfigureSleepOK
  <2>8. CASE \E rc \in BOOLEAN : EnterSleep(rc)
    BY <2>8, SleepOK
  <2>9. CASE Wake
    BY <2>9, WakeOK
  <2>10. CASE RestoreConfig
    BY <2>10, RestoreOK
  <2>11. CASE SetDblRxBuffMode
    BY <2>11, BuffersOK
  <2>12. CASE SoftReset
    BY <2>12, ResetOK
  <2>13. CASE UNCHANGED vars
    <3>1. /\ UNCHANGED <<sleep_mode, dblbuffon, otp, pc, cnt, config, result, state, kept, aon, lost>>
          /\ UNCHANGED <<locked, calibrated, toRestore>>
      BY <2>13 DEF vars, driver, call, radio
    <3>2. TypeOK'
      BY <3>1 DEF PowerInv, TypeOK
    <3>. QED
      BY <3>1, <3>2 DEF PowerInv, Calls, Noted, Down, Woken, Up, Awake
  <2>. QED
    BY <2>1, <2>2, <2>3, <2>4, <2>5, <2>6, <2>7, <2>8, <2>9, <2>10, <2>11, <2>12, <2>13 DEF Next
<1>. QED
  BY <1>1, <1>2, PTL DEF Spec

\* The driver's local data and the registers keep the values their types allow, and
\* no wait goes past its last retry.
THEOREM PowerTypeCorrect == Spec => []TypeOK
<1>1. PowerInv => TypeOK
  BY DEF PowerInv
<1>. QED
  BY <1>1, RadioTracked, PTL

\* dwt_restoreconfig puts back what dwt_configure chose, after any history.
THEOREM RestoredAsConfigured == Spec => []TunedAsConfigured
<1>1. PowerInv => TunedAsConfigured
  BY DEF PowerInv, Woken, Up, Awake, TunedAsConfigured, InUse
<1>. QED
  BY <1>1, RadioTracked, PTL

\* dblbuffon is the radio's mode whenever frames can come, after any history.
THEOREM BufferModeKnown == Spec => []BufferModesAgree
<1>1. PowerInv => BufferModesAgree
  BY DEF PowerInv, Woken, Up, Awake, BufferModesAgree, InUse
<1>. QED
  BY <1>1, RadioTracked, PTL

\* dwt_configure succeeds only with the PLL locked and the receiver calibrated,
\* however many retries it takes.
THEOREM SuccessIsReady == Spec => SuccessMeansReady
<1>1. PowerInv /\ [Next]_vars => [result' = "success" /\ result # "success" => locked' /\ calibrated']_vars
  <2>. SUFFICES ASSUME PowerInv, Next, result' = "success", result # "success"
                PROVE  locked' /\ calibrated'
    OBVIOUS
  <2>1. PgfPoll
    BY DEF Next, Initialise, PllLocks, StillLocked, PllPoll, Configure, SetDwState, SequencerRuns,
           ConfigureSleep, EnterSleep, Wake, RestoreConfig, SetDblRxBuffMode, SoftReset, call
  <2>. QED
    BY <2>1 DEF PgfPoll, PowerInv, Calls
<1>. QED
  BY <1>1, RadioTracked, PTL DEF Spec, SuccessMeansReady

=============================================================================
