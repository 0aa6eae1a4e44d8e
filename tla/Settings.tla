------------------------------ MODULE Settings ------------------------------
(***************************************************************************)
(* The DW3000 registers that several calls of the driver share, as the sets  *)
(* of their bits that are one, and the calls as read-modify-writes of them.  *)
(* "asked" remembers, for every setting, the bits the last call about it     *)
(* asked for.  One host thread; the reset and the sleep of the chip are in   *)
(* Power.                                                                    *)
(***************************************************************************)
EXTENDS Integers

Bits(offset, len) == offset .. offset + len - 1
Shift(v, n) == {b + n : b \in v}          \* v << n

(* The fields of the registers, from dw3000_regs.h. *)
SYS_CFG ==
  [FAST_AAT_EN |-> {18}, PDOA_MODE |-> {16, 17}, CP_SDC |-> {15}, CP_SPC |-> {12, 13},
   AUTO_ACK |-> {11}, RXAUTR |-> {10}, RXWTOE |-> {9}, CIA_STS |-> {8}, CIA_IPATOV |-> {7},
   SPI_CRC |-> {6}, PHR_6M8 |-> {5}, PHR_MODE |-> {4}, DIS_DRXB |-> {3}, DIS_FCE |-> {2},
   DIS_FCS_TX |-> {1}, FFEN |-> {0}]
CHAN_CTRL ==
  [RX_PCODE |-> Bits(8, 5), TX_PCODE |-> Bits(3, 5), SFD_TYPE |-> Bits(1, 2), RF_CHAN |-> {0}]
TX_FCTRL ==
  [TXB_OFFSET |-> Bits(16, 10), TXPSR |-> Bits(12, 4), TR |-> {11}, TXBR |-> {10},
   TXFLEN |-> Bits(0, 10)]
ACK_RESP == [ACK_TIM |-> Bits(24, 8), W4R_TIM |-> Bits(0, 20)]
CIA_CONF == [MINDIAG |-> {20}, RXANTD |-> Bits(0, 16)]
MSGP(pin) == Bits(3 * pin, 3)             \* GPIO_MODE
CLK_CTRL ==
  [LP |-> {23}, GPIO_DCLK |-> {18}, GPIO |-> {16}, ACC_MCLK |-> {15}, TX_BUF |-> {12},
   RX_BUF |-> {11}, OTP |-> {9}, ACC |-> {6}, TX_SEL |-> {4, 5}, SYS_SEL |-> {0, 1}]

(* The settings: the register and the bits each is kept in. *)
Register == {"SYS_CFG", "CHAN_CTRL", "TX_FCTRL", "ACK_RESP", "CIA_CONF", "GPIO_MODE", "CLK_CTRL"}
SysField ==
  [sts |-> SYS_CFG.CP_SPC \cup SYS_CFG.CP_SDC, pdoa |-> SYS_CFG.PDOA_MODE,
   phr |-> SYS_CFG.PHR_MODE \cup SYS_CFG.PHR_6M8, crc |-> SYS_CFG.SPI_CRC,
   filter |-> SYS_CFG.FFEN, ack |-> SYS_CFG.AUTO_ACK, single |-> SYS_CFG.DIS_DRXB,
   again |-> SYS_CFG.RXAUTR, timeout |-> SYS_CFG.RXWTOE]
ChanField ==
  [codes |-> CHAN_CTRL.RX_PCODE \cup CHAN_CTRL.TX_PCODE, sfd |-> CHAN_CTRL.SFD_TYPE,
   chan |-> CHAN_CTRL.RF_CHAN]
TxField ==
  [rate |-> TX_FCTRL.TXBR \cup TX_FCTRL.TXPSR,
   frame |-> TX_FCTRL.TXB_OFFSET \cup TX_FCTRL.TR \cup TX_FCTRL.TXFLEN]
AckField == [ackDelay |-> ACK_RESP.ACK_TIM, rxDelay |-> ACK_RESP.W4R_TIM]
CiaField == [diag |-> CIA_CONF.MINDIAG, antenna |-> CIA_CONF.RXANTD]
PinField ==
  [leds |-> MSGP(2) \cup MSGP(3),
   amps |-> MSGP(0) \cup MSGP(1) \cup MSGP(4) \cup MSGP(5) \cup MSGP(6)]
ClkField == [gpio |-> CLK_CTRL.GPIO, ledClk |-> CLK_CTRL.GPIO_DCLK \cup CLK_CTRL.LP]

Setting ==
  DOMAIN SysField \cup DOMAIN ChanField \cup DOMAIN TxField \cup DOMAIN AckField
    \cup DOMAIN CiaField \cup DOMAIN PinField \cup DOMAIN ClkField

VARIABLES chip, asked
settingsVars == <<chip, asked>>

\* dwt_modify32bitoffsetreg and its kin: keep what is not cleared, set the rest.
Modify(v, clear, set) == (v \ clear) \cup set

\* What the chip holds for a setting.
Held(s) ==
  CASE s \in DOMAIN SysField -> chip.SYS_CFG \cap SysField[s]
    [] s \in DOMAIN ChanField -> chip.CHAN_CTRL \cap ChanField[s]
    [] s \in DOMAIN TxField -> chip.TX_FCTRL \cap TxField[s]
    [] s \in DOMAIN AckField -> chip.ACK_RESP \cap AckField[s]
    [] s \in DOMAIN CiaField -> chip.CIA_CONF \cap CiaField[s]
    [] s \in DOMAIN PinField -> chip.GPIO_MODE \cap PinField[s]
    [] s \in DOMAIN ClkField -> chip.CLK_CTRL \cap ClkField[s]

\* From any content of the registers; what is there counts as asked for.
SettingsInit ==
  /\ chip \in [Register -> SUBSET (0 .. 31)]
  /\ asked = [s \in Setting |-> Held(s)]

----------------------------------------------------------------------------
(* The calls.  Arguments are the sets of their one bits. *)

\* (stsMode & DWT_STS_CONFIG_MASK) << SYS_CFG_CP_SPC_BIT_OFFSET
StsModeBits(stsMode) == Shift(stsMode \cap {0, 1, 3}, 12)

dwt_configurestsmode ==
  \E stsMode \in SUBSET (0 .. 7) :
    /\ chip' = [chip EXCEPT !.SYS_CFG =
                  Modify(@, SYS_CFG.CP_SPC \cup SYS_CFG.CP_SDC, StsModeBits(stsMode))]
    /\ asked' = [asked EXCEPT !.sts = StsModeBits(stsMode)]

dwt_configureframefilter ==
  \E v \in {{}, SYS_CFG.FFEN} :
    /\ chip' = [chip EXCEPT !.SYS_CFG = Modify(@, SYS_CFG.FFEN, v)]
    /\ asked' = [asked EXCEPT !.filter = v]

dwt_setrxtimeout ==
  \E v \in {{}, SYS_CFG.RXWTOE} :
    /\ chip' = [chip EXCEPT !.SYS_CFG = Modify(@, SYS_CFG.RXWTOE, v)]
    /\ asked' = [asked EXCEPT !.timeout = v]

dwt_enablespicrccheck ==
  \E v \in {{}, SYS_CFG.SPI_CRC} :
    /\ chip' = [chip EXCEPT !.SYS_CFG = Modify(@, SYS_CFG.SPI_CRC, v)]
    /\ asked' = [asked EXCEPT !.crc = v]

dwt_setdblrxbuffmode ==
  \E single \in {{}, SYS_CFG.DIS_DRXB}, again \in {{}, SYS_CFG.RXAUTR} :
    /\ chip' = [chip EXCEPT !.SYS_CFG =
                  Modify(@, (SYS_CFG.DIS_DRXB \ single) \cup (SYS_CFG.RXAUTR \ again),
                         single \cup again)]
    /\ asked' = [asked EXCEPT !.single = single, !.again = again]

\* The fast turnaround bit is set with the first acknowledgement and stays.
dwt_enableautoack ==
  \E on \in BOOLEAN, delay \in SUBSET (0 .. 7) :
    /\ chip' = [chip EXCEPT !.ACK_RESP = Modify(@, Bits(24, 8), Shift(delay, 24)),
                            !.SYS_CFG = IF on THEN @ \cup SYS_CFG.AUTO_ACK \cup SYS_CFG.FAST_AAT_EN
                                        ELSE @ \ SYS_CFG.AUTO_ACK]
    /\ asked' = [asked EXCEPT !.ackDelay = Shift(delay, 24),
                              !.ack = IF on THEN SYS_CFG.AUTO_ACK ELSE {}]

dwt_setrxaftertxdelay ==
  \E rxDelayTime \in SUBSET (0 .. 31) :
    LET v == rxDelayTime \cap ACK_RESP.W4R_TIM
    IN /\ chip' = [chip EXCEPT !.ACK_RESP = Modify(@, ACK_RESP.W4R_TIM, v)]
       /\ asked' = [asked EXCEPT !.rxDelay = v]

\* What dwt_configure writes of these registers.
dwt_configure ==
  \E stsMode \in SUBSET (0 .. 7), pdoa \in {{}, {16}, {16, 17}}, phrRate \in {{}, {5}},
     ext \in {{}, SYS_CFG.PHR_MODE}, chan9 \in {{}, CHAN_CTRL.RF_CHAN},
     rxCode \in SUBSET (0 .. 4), txCode \in SUBSET (0 .. 4), sfdType \in SUBSET (0 .. 1),
     dataRate \in {{}, {0}}, txPreambLength \in SUBSET (0 .. 3) :
    LET codes == Shift(rxCode, 8) \cup Shift(txCode, 3)
        sfd == Shift(sfdType, 1)
        rate == Shift(dataRate, 10) \cup Shift(txPreambLength, 12)
    IN /\ chip' =
            [chip EXCEPT
               !.SYS_CFG = Modify(@, SYS_CFG.PHR_MODE \cup SYS_CFG.PHR_6M8 \cup SYS_CFG.CP_SPC
                                       \cup SYS_CFG.PDOA_MODE \cup SYS_CFG.CP_SDC,
                                  pdoa \cup StsModeBits(stsMode) \cup phrRate \cup ext),
               !.CHAN_CTRL = Modify(@, CHAN_CTRL.RX_PCODE \cup CHAN_CTRL.TX_PCODE
                                         \cup CHAN_CTRL.SFD_TYPE \cup CHAN_CTRL.RF_CHAN,
                                    chan9 \cup codes \cup sfd),
               !.TX_FCTRL = Modify(@, TX_FCTRL.TXBR \cup TX_FCTRL.TXPSR, rate)]
       /\ asked' =
            [asked EXCEPT
               !.sts = StsModeBits(stsMode), !.pdoa = pdoa,
               !.phr = phrRate \cup ext, !.rate = rate,
               !.codes = codes, !.sfd = sfd, !.chan = chan9]

dwt_configuresfdtype ==
  \E sfdType \in SUBSET (0 .. 7) :
    LET sfd == CHAN_CTRL.SFD_TYPE \cap Shift(sfdType, 1)
    IN /\ chip' = [chip EXCEPT !.CHAN_CTRL = Modify(@, CHAN_CTRL.SFD_TYPE, sfd)]
       /\ asked' = [asked EXCEPT !.sfd = sfd]

\* Lengths up to 1023: the length is not masked, a longer one would reach TXBR.
dwt_writetxfctrl ==
  \E txFrameLength \in SUBSET (0 .. 9), txBufferOffset \in SUBSET (0 .. 9), ranging \in {{}, {0}} :
    LET frame == txFrameLength \cup Shift(txBufferOffset, 16) \cup Shift(ranging, 11)
    IN /\ chip' = [chip EXCEPT !.TX_FCTRL =
                    Modify(@, TX_FCTRL.TXB_OFFSET \cup TX_FCTRL.TR \cup TX_FCTRL.TXFLEN, frame)]
       /\ asked' = [asked EXCEPT !.frame = frame]

dwt_setrxantennadelay ==
  \E rxDelay \in SUBSET (0 .. 15) :
    /\ chip' = [chip EXCEPT !.CIA_CONF = Modify(@, Bits(0, 16), rxDelay)]
    /\ asked' = [asked EXCEPT !.antenna = rxDelay]

\* CIA_DIAGNOSTIC_OFF is bit 4 of the register's third byte.
dwt_configciadiag ==
  \E off \in {{}, Shift({4}, 16)} :
    /\ chip' = [chip EXCEPT !.CIA_CONF = Modify(@, Shift({4}, 16), off)]
    /\ asked' = [asked EXCEPT !.diag = off]

dwt_setlnapamode ==
  \E lna \in {{}, {18}}, pa \in {{}, {12, 15}}, txrx \in {{}, {1, 4}} :
    /\ chip' = [chip EXCEPT !.GPIO_MODE =
                  Modify(@, MSGP(0) \cup MSGP(1) \cup MSGP(4) \cup MSGP(5) \cup MSGP(6),
                         lna \cup pa \cup txrx)]
    /\ asked' = [asked EXCEPT !.amps = lna \cup pa \cup txrx]

\* The clocks of the lamps are turned on with them and stay on.
dwt_setleds ==
  \E on \in BOOLEAN :
    LET lamps == IF on THEN {6, 9} ELSE {}
        clocks == CLK_CTRL.GPIO_DCLK \cup CLK_CTRL.LP
    IN /\ chip' = [chip EXCEPT !.GPIO_MODE = Modify(@, MSGP(3) \cup MSGP(2), lamps),
                               !.CLK_CTRL = IF on THEN @ \cup clocks ELSE @]
       /\ asked' = [asked EXCEPT !.leds = lamps,
                                 !.ledClk = IF on THEN clocks ELSE @]

dwt_enablegpioclocks ==
  /\ chip' = [chip EXCEPT !.CLK_CTRL = @ \cup CLK_CTRL.GPIO]
  /\ asked' = [asked EXCEPT !.gpio = CLK_CTRL.GPIO]

\* FORCE_CLK_SYS_TX and FORCE_CLK_AUTO write the low half of CLK_CTRL.
dwt_force_clocks ==
  \E low \in {CLK_CTRL.TX_BUF \cup CLK_CTRL.RX_BUF \cup {5} \cup {1}, CLK_CTRL.OTP} :
    /\ chip' = [chip EXCEPT !.CLK_CTRL = Modify(@, Bits(0, 16), low)]
    /\ UNCHANGED asked

\* dwt_readaccdata turns the accumulator's clocks on and off again.
AccClocks ==
  \E on \in {{}, CLK_CTRL.ACC_MCLK \cup CLK_CTRL.ACC} :
    /\ chip' = [chip EXCEPT !.CLK_CTRL = Modify(@, CLK_CTRL.ACC_MCLK \cup CLK_CTRL.ACC, on)]
    /\ UNCHANGED asked

SettingsNext ==
  \/ dwt_configurestsmode \/ dwt_configureframefilter \/ dwt_setrxtimeout
  \/ dwt_enablespicrccheck \/ dwt_setdblrxbuffmode \/ dwt_enableautoack
  \/ dwt_setrxaftertxdelay \/ dwt_configure \/ dwt_configuresfdtype \/ dwt_writetxfctrl
  \/ dwt_setrxantennadelay \/ dwt_configciadiag \/ dwt_setlnapamode \/ dwt_setleds
  \/ dwt_enablegpioclocks \/ dwt_force_clocks \/ AccClocks

SettingsSpec == SettingsInit /\ [][SettingsNext]_settingsVars

\* A setting stays as it was last asked for, whatever else is set: the calls
\* share registers and none disturbs another's field.
SettingsStick == \A s \in Setting : Held(s) = asked[s]
=============================================================================
