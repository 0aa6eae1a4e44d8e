-------------------------------- MODULE Spi --------------------------------
(***************************************************************************)
(* The SPI transactions of the DW3000 driver (dw3000_device_api.cpp,        *)
(* dw3000_port.cpp): the header dwt_xfer3000 puts in front of the bytes,    *)
(* and the register reads, writes and and/or modifications made with it.    *)
(* A value is the set of its bits and memory is a byte per register file    *)
(* and offset, so that "and" is intersection and "or" is union.             *)
(***************************************************************************)
EXTENDS Integers, Sequences

Files == 0 .. 31
Offsets == 0 .. 127
Bits8 == 0 .. 7

\* A mode has the bit that tells a write from a read and the two low bits that
\* tell a plain access from an and/or one of 8, 16 or 32 bits.
Modes == [write : BOOLEAN, sub : 0 .. 3]
WR_BIT == [write |-> TRUE, sub |-> 0]
RD_BIT == [write |-> FALSE, sub |-> 0]
AND_OR(n) == [write |-> TRUE, sub |-> CASE n = 1 -> 1 [] n = 2 -> 2 [] n = 4 -> 3]
AsSent == {WR_BIT, RD_BIT, AND_OR(1), AND_OR(2), AND_OR(4)}

\* regFileID is [file, offset]; the sub-index is added to it, carries and all.
reg_file(r, indx) == (r.file + (r.offset + indx) \div 65536) % 32
reg_offset(r, indx) == (r.offset + indx) % 128

\* The three headers: a fast command, a register file from its first byte, and a
\* register file from any byte.  Nothing is sent after a header for length 0, and
\* the "command" is then the low bits of the address.
WBit(mode) == IF mode.write THEN 128 ELSE 0
FastCommand(cmd) == <<129 + 2 * (cmd % 32)>>
ShortHeader(file, mode) == <<WBit(mode) + 2 * file>>
LongHeader(file, offset, mode) ==
  <<WBit(mode) + 64 + 2 * file + offset \div 64, (offset % 64) * 4 + mode.sub>>

dwt_xfer3000(r, indx, length, mode) ==
  IF length = 0 THEN FastCommand(r.offset)
  ELSE IF reg_offset(r, indx) = 0 /\ mode \in {WR_BIT, RD_BIT}
    THEN ShortHeader(reg_file(r, indx), mode)
  ELSE LongHeader(reg_file(r, indx), reg_offset(r, indx), mode)

\* What the chip makes of a header (external).
IsCommand(h) == Len(h) = 1 /\ h[1] % 2 = 1
Extended(h) == (h[1] \div 64) % 2 = 1
Access(h) ==
  [file |-> (h[1] \div 2) % 32,
   offset |-> IF Extended(h) THEN (h[1] % 2) * 64 + h[2] \div 4 ELSE 0,
   mode |-> [write |-> h[1] \div 128 = 1, sub |-> IF Extended(h) THEN h[2] % 4 ELSE 0]]
Command(h) == (h[1] \div 2) % 32

----------------------------------------------------------------------------
(* Registers.  Bytes are in order from the lowest; n is the size, 1, 2 or 4. *)

Bytes(v, n) == [k \in 1 .. n |-> {b \in Bits8 : 8 * (k - 1) + b \in v}]
Value(bytes) == {i \in 0 .. (8 * Len(bytes) - 1) : i % 8 \in bytes[(i \div 8) + 1]}

Memory == [Files -> [Nat -> SUBSET Bits8]]

\* The chip's side of a transfer (external): the bytes from a register on are
\* read, replaced, or replaced bit by bit with an and part and an or part.
BytesAt(mem, r, n) == [k \in 1 .. n |-> mem[r.file][r.offset + k - 1]]
Stored(mem, r, bytes) ==
  [mem EXCEPT ![r.file] =
     [o \in Nat |-> IF o >= r.offset /\ o < r.offset + Len(bytes)
                      THEN bytes[o - r.offset + 1] ELSE mem[r.file][o]]]
AndOr(mem, r, buf, n) ==
  Stored(mem, r, [k \in 1 .. n |-> (mem[r.file][r.offset + k - 1] \cap buf[k]) \cup buf[n + k]])

dwt_read8bitoffsetreg(mem, r) == Value(BytesAt(mem, r, 1))
dwt_read16bitoffsetreg(mem, r) == Value(BytesAt(mem, r, 2))
dwt_read32bitoffsetreg(mem, r) == Value(BytesAt(mem, r, 4))

dwt_write8bitoffsetreg(mem, r, v) == Stored(mem, r, Bytes(v, 1))
dwt_write16bitoffsetreg(mem, r, v) == Stored(mem, r, Bytes(v, 2))
dwt_write32bitoffsetreg(mem, r, v) == Stored(mem, r, Bytes(v, 4))

AndOrBuffer(keep, set, n) == Bytes(keep, n) \o Bytes(set, n)
dwt_modify8bitoffsetreg(mem, r, keep, set) == AndOr(mem, r, AndOrBuffer(keep, set, 1), 1)
dwt_modify16bitoffsetreg(mem, r, keep, set) == AndOr(mem, r, AndOrBuffer(keep, set, 2), 2)
dwt_modify32bitoffsetreg(mem, r, keep, set) == AndOr(mem, r, AndOrBuffer(keep, set, 4), 4)

============================================================================
