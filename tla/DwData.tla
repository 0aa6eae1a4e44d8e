------------------------------- MODULE DwData -------------------------------
(***************************************************************************)
(* The data side of the DW3000 driver: what is written to the transmit      *)
(* buffer, what is read of a received frame and from where, and how the     *)
(* signed fields of the diagnostics become numbers.  Radio has the receive  *)
(* buffers changing under these reads; here is which of them a read sees.   *)
(***************************************************************************)
EXTENDS Integers

\* dblbuffon: double buffering off, or the buffer the host is reading.
Dbl == {"off", "buf0", "buf1"}

TX_BUFFER_MAX_LEN == 1024
RX_BUFFER_MAX_LEN == 1023
REG_DIRECT_OFFSET_MAX_LEN == 127
DWT_TX_BUFF_OFFSET_ADJUST == 128

\* A transfer: the memory, where it starts and how many bytes.  Past the reach of
\* a header the driver sets indirect pointer A and goes through that.
Direct(memory, offset) == offset <= REG_DIRECT_OFFSET_MAX_LEN
Transfer(memory, offset, length) ==
  [memory |-> memory, offset |-> offset, length |-> length,
   pointer |-> IF Direct(memory, offset) THEN "direct" ELSE "A"]
None == [memory |-> "none", offset |-> 0, length |-> 0, pointer |-> "direct"]

dwt_writetxdata(length, offset) ==
  IF offset + length < TX_BUFFER_MAX_LEN THEN Transfer("tx", offset, length) ELSE None

\* TX_FCTRL: ten bits of length (no more: the API asserts it), the ranging bit and,
\* from bit 16, ten bits of buffer offset; what does not fit spills past them.
AdjustedOffset(offset) ==
  IF offset <= 127 THEN offset ELSE offset + DWT_TX_BUFF_OFFSET_ADJUST
dwt_writetxfctrl(length, offset, ranging) ==
  [flen |-> length, tr |-> ranging, txb_offset |-> AdjustedOffset(offset) % 1024,
   spill |-> AdjustedOffset(offset) \div 1024]

\* Length 1023 with offset 0 is the whole buffer.  A read that does not fit is
\* not made and nobody is told.
dwt_readrxdata(dbl, length, offset) ==
  IF offset + length <= RX_BUFFER_MAX_LEN
    THEN Transfer(IF dbl = "buf1" THEN "rx1" ELSE "rx0", offset, length) ELSE None

\* The accumulator's clocks are on for the read and off after it.
ACC_BUFFER_MAX_LEN == 12289
dwt_readaccdata(length, offset) ==
  IF offset + length <= ACC_BUFFER_MAX_LEN THEN Transfer("acc", offset, length) ELSE None

----------------------------------------------------------------------------
(* Where a reader looks: the registers of the last frame received ("live"), *)
(* or the set that was copied beside the frame in one of the two buffers.   *)

BufferedReaders == {"clockoffset", "stsstatus", "diagnostics", "pdoa", "rxtimestamp",
                    "rxtimestamp_ipatov", "rxtimestamp_sts"}
LiveReaders == {"carrierintegrator", "stsquality", "tdoa", "rxtimestampunadj",
                "rxtimestamphi32", "rxtimestamplo32"}
Readers == BufferedReaders \cup LiveReaders

ReadsFrom(reader, dbl) ==
  IF reader \in BufferedReaders /\ dbl # "off" THEN dbl ELSE "live"

\* The two sets have the same layout: the first byte of every register in them.
SetBase == [buf0 |-> 0, buf1 |-> 232]
SetOffset == [RX_FINFO |-> 0, RX_TIME |-> 4, CIA_DIAG_0 |-> 12, TDOA |-> 16, PDOA |-> 20,
              IP_DIAG_12 |-> 28, IP_TS |-> 32, STS_TS |-> 40, STS_STAT |-> 44,
              STS1_TS |-> 48, STS1_STAT |-> 52, CIA_DIAG_1 |-> 56, IP_DIAG_0 |-> 60,
              STS_DIAG_0 |-> 108, STS1_DIAG_0 |-> 180, STS1_DIAG_12 |-> 228]

\* Buffer 0 is read by the register's own address, buffer 1 through pointer B,
\* which stands at the start of its set.
SetAddress(dbl, reg, extra) ==
  IF dbl = "buf1" THEN SetBase.buf1 + (SetOffset[reg] + extra)
  ELSE SetBase.buf0 + SetOffset[reg] + extra

----------------------------------------------------------------------------
(* dwt_readdiagnostics: how much of the set is fetched and how much of the  *)
(* array is then read, by the bits of cia_diagnostic.                       *)

CiaBits == {"all", "min", "mid", "max"}

DB_MAX_DIAG_SIZE == 232
DB_MID_DIAG_SIZE == 56
DB_MIN_DIAG_SIZE == 32

FetchedBuffered(cia) ==
  IF "max" \in cia THEN DB_MAX_DIAG_SIZE
  ELSE IF "mid" \in cia THEN DB_MID_DIAG_SIZE ELSE DB_MIN_DIAG_SIZE
ParsedBuffered(cia) ==
  IF "min" \in cia THEN SetOffset.IP_DIAG_12 + 2
  ELSE IF "mid" \in cia THEN SetOffset.STS1_TS + 5 ELSE SetOffset.STS1_DIAG_12 + 2

\* Without double buffering: 40 bytes from IP_TOA_LO, or 108 and 108 more from
\* STS_DIAG_4; the last field read is CIA_DIAG_1 or STS1_DIAG_12.
FetchedPlain(cia) == IF "all" \in cia THEN 216 ELSE 40
ParsedPlain(cia) == IF "all" \in cia THEN 108 + 104 + 2 ELSE 32 + 4 + 4

Fetched(dbl, cia) == IF dbl = "off" THEN FetchedPlain(cia) ELSE FetchedBuffered(cia)
Parsed(dbl, cia) == IF dbl = "off" THEN ParsedPlain(cia) ELSE ParsedBuffered(cia)

----------------------------------------------------------------------------
(* Signed fields.  A field of as many bits as Half * 2 values is read in an *)
(* unsigned word of Word values, the bits above its sign bit are set when   *)
(* the sign bit is, and the word is cast to a signed one of the same size.  *)

SignExtend(v, Half, Word) == IF v >= Half THEN v + (Word - 2 * Half) ELSE v
CastSigned(u, Word) == IF u < Word \div 2 THEN u ELSE u - Word
Signed(v, Half, Word) == CastSigned(SignExtend(v, Half, Word), Word)

ClockOffset(v) == Signed(v, 4096, 65536)
CarrierIntegrator(v) == Signed(v, 1048576, 4294967296)
StsQualityIndex(v) == Signed(v, 2048, 65536)
Pdoa(v) == Signed(v, 8192, 65536)

\* dwt_readstsquality tells the index and whether it is at the threshold or above.
dwt_readstsquality(v, ststhreshold) == StsQualityIndex(v) - ststhreshold

\* A 40-bit time is also read as its four high or its four low bytes.
Hi32(t) == t \div 256
Lo32(t) == t % 4294967296
\* The raw receive time has its low byte forced to 0.
Unadjusted(t) == (t \div 256) * 256

============================================================================
