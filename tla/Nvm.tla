--------------------------------- MODULE Nvm ---------------------------------
(***************************************************************************)
(* The chip's two memories behind windows of registers: the always-on memory *)
(* (AON), whose bytes are read and written, and the one-time programmable    *)
(* memory (OTP), whose bits are only ever set (dw3000_device_api.cpp).       *)
(***************************************************************************)
EXTENDS Naturals, Sequences

Byte == 0 .. 255

----------------------------------------------------------------------------
(* AON: addresses of nine bits; a write above 0xff needs an enable of its own. *)
AON_SLPCNT_LO == 258
AON_SLPCNT_HI == 259
AON_SLPCNT_CAL_CTRL == 260
AON_SLPCNT_CAL_LO == 270
AON_SLPCNT_CAL_HI == 271
AonAddress == 0 .. 511

\* What the chip does with AON_ADDR, AON_WDATA and the enables of AON_CTRL.
DcaWrite(aon, address, data, high) ==
  IF (address >= 256) = high THEN [aon EXCEPT ![address] = data] ELSE aon
DcaRead(aon, address) == aon[address]

dwt_aon_write(aon, address, data) == DcaWrite(aon, address, data % 256, address >= 256)
dwt_aon_read(aon, address) == DcaRead(aon, address)

dwt_configuresleepcnt(aon, sleepcnt) ==
  dwt_aon_write(dwt_aon_write(aon, AON_SLPCNT_LO, sleepcnt), AON_SLPCNT_HI, sleepcnt \div 256)
\* Started and stopped by its control byte; count is what the chip has there when it is
\* read, which is at once: the wait for it is deca_sleep, which does nothing (Port's file).
Counted(aon, count) ==
  [aon EXCEPT ![AON_SLPCNT_CAL_LO] = count % 256, ![AON_SLPCNT_CAL_HI] = (count \div 256) % 256]
Calibrated(aon, count) ==
  Counted(dwt_aon_write(dwt_aon_write(aon, AON_SLPCNT_CAL_CTRL, 0), AON_SLPCNT_CAL_CTRL, 4), count)
dwt_calibratesleepcnt(aon, count) ==
  LET counted == Calibrated(aon, count)
  IN [result |-> dwt_aon_read(counted, AON_SLPCNT_CAL_LO) + 256 * dwt_aon_read(counted, AON_SLPCNT_CAL_HI),
      aon |-> dwt_aon_write(counted, AON_SLPCNT_CAL_CTRL, 0)]

----------------------------------------------------------------------------
(* OTP: words, each the set of its bits that are programmed. *)
Bit == 0 .. 31
OtpAddress == 0 .. 127

\* The words pushed into OTP_WDATA one by one: the address, of eight bits, and the four
\* bytes of the word, the lowest first.
DataByte(data, n) == {b \in 0 .. 7 : 8 * n + b \in data}
Pushed(data, address) == <<address % 256>> \o [n \in 1 .. 4 |-> DataByte(data, n - 1)]
\* What the chip makes of them when it programs.
Program(otp, pushed) ==
  LET word == {b \in Bit : b % 8 \in pushed[2 + (b \div 8)]}
  IN [otp EXCEPT ![pushed[1]] = @ \cup word]

\* The supply that is raised for the programming is put back at its end.
_dwt_otpprogword32(otp, data, address) == Program(otp, Pushed(data, address))
_dwt_otpread(otp, address) == otp[address]
dwt_otpread(otp, address, length) == [i \in 1 .. length |-> _dwt_otpread(otp, address + i - 1)]
dwt_otpverify(otp, value, address) == _dwt_otpread(otp, address) = value
dwt_otpwriteandverify(otp, value, address) ==
  LET programmed == _dwt_otpprogword32(otp, value, address)
  IN [success |-> dwt_otpverify(programmed, value, address), otp |-> programmed]
=============================================================================
