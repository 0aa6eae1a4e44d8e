------------------------------- MODULE Analog -------------------------------
(***************************************************************************)
(* The driver's calibrations, measurements and test modes                    *)
(* (dw3000_device_api.cpp), as far as they switch the supplies, the blocks   *)
(* and the clocks of the transmitter by hand.                                *)
(***************************************************************************)
EXTENDS Naturals

\* LDO_CTRL: the supplies of its low byte, the supplies and references above it.
LowRails == {"ms1", "ms2", "ms3", "pll", "tx1", "tx2"}
Rails == LowRails \cup {"if2", "hvtx", "tx1 reference", "tx2 reference", "hvtx reference"}
TxRails == {"hvtx", "hvtx reference", "tx1", "tx2", "tx1 reference", "tx2 reference"}
\* RF_ENABLE and RF_CTRL_MASK
TxBlocks(channel) == {"switch", "tx", "buffer", "bias"} \cup (IF channel = 5 THEN {"channel 5"} ELSE {})
Blocks == TxBlocks(5)

(* What a call leaves of the chip c:                                         *)
(*   ldo     the supplies that are on                                        *)
(*   rf      the transmitter's blocks that are on                            *)
(*   mask    the blocks that obey rf instead of the sequencer                *)
(*   switch  the antenna switch: "auto" or held at "tx"                      *)
(*   clocks  "auto" or held for the transmitter                              *)
(*   cw, frames   the test modes: no continuous wave is 0, no repetition 0   *)
(*   fine    the fine-grain transmit sequencing                              *)
(*   pgDelay the pulse generator's delay                                     *)
(*   sar     the analogue-to-digital converter's enable and start            *)

Chip ==
  [ldo : SUBSET Rails, rf : SUBSET Blocks, mask : SUBSET Blocks, switch : {"auto", "tx"},
   clocks : {"auto", "tx"}, cw : 0 .. 4, frames : Nat, fine : BOOLEAN, pgDelay : Nat,
   sar : SUBSET {"read", "start"}]

dwt_enable_rf_tx(c, channel, switch_control) ==
  [c EXCEPT !.ldo = @ \cup TxRails, !.rf = @ \cup TxBlocks(channel),
            !.switch = IF switch_control THEN "tx" ELSE @]
dwt_disable_rf_tx(c, switch_config) ==
  [c EXCEPT !.ldo = {}, !.rf = {}, !.switch = IF switch_config THEN "auto" ELSE @]
dwt_enable_rftx_blocks(c, channel) == [c EXCEPT !.mask = @ \cup TxBlocks(channel)]
dwt_disable_rftx_blocks(c) == [c EXCEPT !.mask = {}]
dwt_force_clocks(c, mode) == [c EXCEPT !.clocks = mode]

dwt_repeated_cw(c, enable) == [c EXCEPT !.fine = FALSE, !.cw = IF enable \in 1 .. 3 THEN enable ELSE 4]
dwt_repeated_frames(c, rate) == [c EXCEPT !.frames = IF rate < 4 THEN 4 ELSE rate]

TxByHand(c, channel, switch_control) ==
  dwt_force_clocks(dwt_enable_rftx_blocks(dwt_enable_rf_tx(c, channel, switch_control), channel), "tx")
dwt_configcwmode(c, channel) == dwt_repeated_cw(TxByHand(c, channel, TRUE), 1)
dwt_configcontinuousframemode(c, rate, channel) == dwt_repeated_frames(TxByHand(c, channel, TRUE), rate)

\* The two calibrations of the pulse generator: to a given count, or of a given delay.
Automatic(c) == dwt_force_clocks(dwt_disable_rf_tx(dwt_disable_rftx_blocks(c), FALSE), "auto")
\* dwt_calcbandwidthadj finds the delay.
dwt_calcbandwidthadj(c, found, channel) == Automatic([TxByHand(c, channel, FALSE) EXCEPT !.pgDelay = found])
dwt_calcpgcount(c, pgdly, channel) == Automatic([TxByHand(c, channel, FALSE) EXCEPT !.pgDelay = pgdly])
\* dwt_configuretxrf calibrates only to a count that is not 0.
dwt_configuretxrf(c, PGcount, PGdly, found, channel) ==
  IF PGcount = 0 THEN [c EXCEPT !.pgDelay = PGdly] ELSE dwt_calcbandwidthadj(c, found, channel)

\* Temperature and battery: the low byte of LDO_CTRL is saved and written back.
Measuring(c) == [c EXCEPT !.ldo = @ \cup {"ms2"}, !.sar = {"read", "start"}]
dwt_readtempvbat(c) ==
  [Measuring(c) EXCEPT !.ldo = (@ \ LowRails) \cup (c.ldo \cap LowRails), !.sar = {}]
\* The calibration of the sleep counter leaves the PLL's supply off.
SleepCountLeaves(c) == [c EXCEPT !.ldo = @ \ {"pll"}]

----------------------------------------------------------------------------
VARIABLE analog   \* the chip
Idle == [ldo |-> {}, rf |-> {}, mask |-> {}, switch |-> "auto", clocks |-> "auto",
         cw |-> 0, frames |-> 0, fine |-> TRUE, pgDelay |-> 0, sar |-> {}]
AnalogInit == analog = Idle
Channel == {5, 9}
AnalogNext ==
  \/ \E channel \in Channel : analog' = dwt_configcwmode(analog, channel)
  \/ \E channel \in Channel, rate \in Nat : analog' = dwt_configcontinuousframemode(analog, rate, channel)
  \/ \E channel \in Channel, found \in Nat : analog' = dwt_calcbandwidthadj(analog, found, channel)
  \/ \E channel \in Channel, pgdly \in Nat : analog' = dwt_calcpgcount(analog, pgdly, channel)
  \/ analog' = dwt_readtempvbat(analog)
  \/ analog' = SleepCountLeaves(analog)
AnalogSpec == AnalogInit /\ [][AnalogNext]_analog

\* Whatever calls came before: blocks that are on by hand have their supplies and the
\* clock, and everything is off and automatic otherwise.
PoweredTogether ==
  /\ analog.rf = analog.mask
  /\ IF analog.rf = {} THEN analog.clocks = "auto" ELSE TxRails \subseteq analog.ldo /\ analog.clocks = "tx"

----------------------------------------------------------------------------
(* The thresholds of the STS: a share of cipher, rounded; shift 3 takes the  *)
(* square root of two into account.                                          *)
SQRT_FACTOR == 181
MOD_VALUE == 2048
HALF_MOD == MOD_VALUE \div 2
Scale(cipher, threshold, shift_val) ==
  IF shift_val = 3 THEN (cipher * threshold * SQRT_FACTOR) \div 128 ELSE cipher * threshold
get_sts_mnth(cipher, threshold, shift_val) ==
  LET value == Scale(cipher, threshold, shift_val)
  IN (value \div MOD_VALUE) + (IF (value % MOD_VALUE) + HALF_MOD >= MOD_VALUE THEN 1 ELSE 0)
=============================================================================
