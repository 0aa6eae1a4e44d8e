-------------------------------- MODULE Port --------------------------------
(***************************************************************************)
(* The board's side of the driver (dw3000_port.cpp): the SPI transfers that  *)
(* spiSelect makes before the driver is used.  They come from a driver for    *)
(* the DW1000 and have the DW1000's headers and registers, while the driver's *)
(* own transfers (Spi) only borrow readfromspi and writetospi from here.      *)
(*                                                                           *)
(* A byte is the set of its bits, a header a sequence of numbers.  What the   *)
(* chip answers to a read is a parameter.                                    *)
(***************************************************************************)
EXTENDS Spi

NO_SUB == 255
\* The registers used and, for those with sub-registers, their offsets.
PANADR == 3
SYS_CFG == 4
SYS_CTRL == 13
SYS_MASK == 14
OTP_IF == 45
PMSC == 54
PMSC_CTRL0_SUB == 0
OTP_ADDR_SUB == 4
OTP_CTRL_SUB == 6
OTP_RDAT_SUB == 10

\* A header names a register, or a byte of it by an offset of 7 or of 15 bits.
Header(write, cmd, offset) ==
  IF offset = NO_SUB THEN <<WBit([write |-> write]) + cmd>>
  ELSE IF offset < 128 THEN <<WBit([write |-> write]) + 64 + cmd, offset>>
  ELSE <<WBit([write |-> write]) + 64 + cmd, 128 + (offset % 128), (offset \div 128) % 256>>
\* What a DW1000 makes of it (external).
SubIndex(h) ==
  IF Len(h) = 1 THEN 0 ELSE IF Len(h) = 2 THEN h[2] ELSE (h[2] % 128) + (128 * h[3])

\* A transfer: chip select goes low, the bytes go out at the clock in use, it goes high.
Speed == {"fast", "slow"}
SpiTransfer(header, body, speed) == [header |-> header, body |-> body, speed |-> speed]
JUNK(n) == [k \in 1 .. n |-> {}]
readBytes(cmd, offset, n, speed) == SpiTransfer(Header(FALSE, cmd, offset), JUNK(n), speed)
writeBytes(cmd, offset, data, speed) == SpiTransfer(Header(TRUE, cmd, offset), data, speed)
\* The driver's transfers bring their own headers.
readfromspi(header, n, speed) == SpiTransfer(header, JUNK(n), speed)
writetospi(header, body, speed) == SpiTransfer(header, body, speed)

----------------------------------------------------------------------------
(* Bits of registers kept as bytes. *)
setBit(data, bit, val) ==
  IF bit \div 8 >= Len(data) THEN data
  ELSE [data EXCEPT ![(bit \div 8) + 1] = IF val THEN @ \cup {bit % 8} ELSE @ \ {bit % 8}]
getBit(data, bit) == bit \div 8 < Len(data) /\ bit % 8 \in data[(bit \div 8) + 1]
\* val is the set of the bits of a 32-bit value and n at most 4.
writeValueToBytes(val, n) == Bytes(val, n)

Zeros(n) == [k \in 1 .. n |-> {}]
TRXOFF_BIT == 6
HIRQ_POL_BIT == 9
DIS_DRXB_BIT == 12
setDoubleBuffering(syscfg, val) == setBit(syscfg, DIS_DRXB_BIT, ~val)
setInterruptPolarity(syscfg, val) == setBit(syscfg, HIRQ_POL_BIT, val)
GPDCE_BIT == 18
KHZCLKEN_BIT == 23

----------------------------------------------------------------------------
(* The steps of spiSelect.  pmsc: the four bytes read from PMSC_CTRL0.       *)
Pmsc(data, speed) == writeBytes(PMSC, PMSC_CTRL0_SUB, data, speed)
PmscRead(speed) == readBytes(PMSC, PMSC_CTRL0_SUB, 4, speed)

Clock == {"auto", "xti", "pll"}
SpeedFor(clock) == IF clock = "xti" THEN "slow" ELSE "fast"
ClockBits(clock, low) ==
  CASE clock = "auto" -> {}
    [] clock = "xti"  -> (low \ {0, 1}) \cup {0}
    [] clock = "pll"  -> (low \ {0, 1}) \cup {1}
\* The speed changes between the read and the write.
enableClock(clock, pmsc, speed) ==
  << PmscRead(speed),
     Pmsc(<<ClockBits(clock, pmsc[1]), IF clock = "auto" THEN pmsc[2] \ {0} ELSE pmsc[2]>>, SpeedFor(clock)) >>

idle(speed) == << writeBytes(SYS_CTRL, NO_SUB, setBit(Zeros(4), TRXOFF_BIT, TRUE), speed) >>
softReset(pmsc, speed) ==
  << PmscRead(speed), Pmsc(<<{0}, pmsc[2], pmsc[3], pmsc[4]>>, speed), Pmsc(<<{0}, pmsc[2], pmsc[3], {}>>, speed),
     Pmsc(<<{}, pmsc[2], pmsc[3], {4, 5, 6, 7}>>, speed) >> \o idle(speed)
\* A board without a reset pin has 0xff for it; the others pulse theirs.
reset(rst, pmsc, speed) == IF rst = 255 THEN softReset(pmsc, speed) ELSE idle(speed)

readBytesOTP(address, speed) ==
  << writeBytes(OTP_IF, OTP_ADDR_SUB, Bytes(address, 2), speed), writeBytes(OTP_IF, OTP_CTRL_SUB, <<{0, 1}>>, speed),
     writeBytes(OTP_IF, OTP_CTRL_SUB, <<{0}>>, speed), readBytes(OTP_IF, OTP_RDAT_SUB, 4, speed),
     writeBytes(OTP_IF, OTP_CTRL_SUB, <<{}>>, speed) >>
manageLDE(speed) ==
  readBytesOTP({2}, speed) \o
  << PmscRead(speed), readBytes(OTP_IF, OTP_CTRL_SUB, 2, speed), Pmsc(<<{0}, {0, 1}>>, speed),
     writeBytes(OTP_IF, OTP_CTRL_SUB, <<{}, {7}>>, speed), Pmsc(<<{}, {1}>>, speed) >>

writeNetworkIdAndDeviceAddress(speed) == << writeBytes(PANADR, NO_SUB, writeValueToBytes(0 .. 7, 4), speed) >>
DefaultSyscfg == setInterruptPolarity(setDoubleBuffering(Zeros(4), FALSE), TRUE)
writeSystemConfigurationRegister(speed) == << writeBytes(SYS_CFG, NO_SUB, DefaultSyscfg, speed) >>
writeSystemEventMaskRegister(speed) == << writeBytes(SYS_MASK, NO_SUB, Zeros(4), speed) >>

\* read[i]: what the i-th read of PMSC_CTRL0 returns.
spiSelect(rst, read) ==
  enableClock("auto", read[1], "fast") \o reset(rst, read[2], "fast")
  \o writeNetworkIdAndDeviceAddress("fast") \o writeSystemConfigurationRegister("fast")
  \o writeSystemEventMaskRegister("fast")
  \o enableClock("xti", read[3], "fast") \o manageLDE("slow") \o enableClock("auto", read[4], "slow")
  \o readBytesOTP({3}, "fast") \o readBytesOTP({0, 3}, "fast")

\* What the DW1000 makes of the transfers (external): a write to PMSC_CTRL0 chooses its clock,
\* and while it runs on the crystal's it takes slow transfers only.  onXti: whether it does
\* before the first of the transfers.
ChoosesClock(t) == t.header = Header(TRUE, PMSC, PMSC_CTRL0_SUB)
ChoosesXti(t) == ChoosesClock(t) /\ t.body[1] \cap {0, 1} = {0}
FindsXti(ts, k, onXti) ==
  \/ onXti /\ \A j \in 1 .. k - 1 : ~ ChoosesClock(ts[j])
  \/ \E j \in 1 .. k - 1 : ChoosesXti(ts[j]) /\ \A i \in j + 1 .. k - 1 : ~ ChoosesClock(ts[i])
TooFast(ts, onXti) == { k \in 1 .. Len(ts) : FindsXti(ts, k, onXti) /\ ts[k].speed = "fast" }

\* Waking the chip pulses chip select; nothing ever turns the debounce clock on.
enableDebounceClock(pmsc, speed) ==
  << PmscRead(speed), Pmsc(setBit(setBit(pmsc, GPDCE_BIT, TRUE), KHZCLKEN_BIT, TRUE), speed) >>
wakeup_device_with_io(debounceClockEnabled, pmsc, speed) ==
  IF debounceClockEnabled THEN enableDebounceClock(pmsc, speed) ELSE <<>>
=============================================================================
