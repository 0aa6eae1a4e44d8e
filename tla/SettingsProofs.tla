--------------------------- MODULE SettingsProofs ---------------------------
(***************************************************************************)
(* Theorems about the configurations the driver offers and what the STS     *)
(* ranging examples make of them, about the preamble codes dwt_restoreconfig *)
(* recognises, about the settings that share a register, and about the AES  *)
(* jobs and the frames that carry them.                                     *)
(***************************************************************************)
EXTENDS Configs, Settings, Codes, Aes, Boards, SequenceTheorems, TLAPS

Shapes == {64, 128, 512, 1024}

\* What the table's configurations have in common.
LEMMA OptionShape ==
  ASSUME NEW n \in 1 .. 33
  PROVE  LET c == config_options(n)
         IN /\ c.plen \in Shapes /\ c.kbps \in {850, 6800} /\ c.sts \in {64, 128}
            /\ c.sfdTO = c.plen + 1
<1>1. CASE n \in 1 .. 8
  BY <1>1 DEF config_options, Options850Code9, Eight, Config, PreambleOf, Shapes, SFD, PAC
<1>2. CASE n \in 9 .. 16
  BY <1>2 DEF config_options, Options850Code10, Eight, Config, PreambleOf, Shapes, SFD, PAC
<1>3. CASE n \in 17 .. 24
  BY <1>3 DEF config_options, Options6M8Code9, Eight, Config, PreambleOf, Shapes, SFD, PAC
<1>4. CASE n \in 25 .. 32
  BY <1>4 DEF config_options, Options6M8Code10, Eight, Config, PreambleOf, Shapes, SFD, PAC
<1>5. CASE n = 33
  BY <1>5 DEF config_options, Option33, Config, Shapes, SFD, PAC
<1> QED BY <1>1, <1>2, <1>3, <1>4, <1>5

\* The receiver's window for each length of preamble.
LEMMA Window ==
  ASSUME NEW c, c.plen \in Shapes, c.kbps \in {850, 6800}, c.sts \in {64, 128}
  PROVE  IF c.plen = 1024 THEN ReceiverOn(c) > AnswerEnds(c) ELSE Heard(c)
<1> USE DEF Heard, ReceiverOn, ReceiverOff, PreambleBegins, AnswerEnds, RespTx,
        SymbolTicks, UnitTicks, AnswerUnits, set_delayed_rx_time, set_resp_rx_timeout,
        get_rx_delay_time_data_rate, get_rx_delay_time_txpreamble, PreambleTaken, Shr8,
        Low32, Two32, UUS_TO_DWT_TIME, CPU_COMP, POLL_TX_TO_RESP_RX_DLY_UUS,
        RESP_RX_TIMEOUT_UUS, POLL_RX_TO_RESP_TX_DLY_UUS, SFD
<1>1. CASE c.plen = 64
  BY <1>1, SMTT(40)
<1>2. CASE c.plen = 128
  BY <1>2, SMTT(40)
<1>3. CASE c.plen = 512
  BY <1>3, SMTT(40)
<1>4. CASE c.plen = 1024
  BY <1>4, SMTT(40)
<1> QED BY <1>1, <1>2, <1>3, <1>4 DEF Shapes

\* The STS examples (NOTE 1): with preambles up to 512 symbols the receiver is
\* on before the answer's preamble and times out after its end, for every
\* configuration on offer.
THEOREM AnswersAreHeard ==
  ASSUME NEW n \in 1 .. 33, config_options(n).plen # 1024
  PROVE  Heard(config_options(n))
BY OptionShape, Window

\* set_delayed_rx_time: with 1024 symbols the delay falls below zero in
\* uint32_t arithmetic, and the receiver comes on after the answer has ended.
THEOREM LongPreambleIsMissed ==
  ASSUME NEW n \in 1 .. 33, config_options(n).plen = 1024
  PROVE  ReceiverOn(config_options(n)) > AnswerEnds(config_options(n))
BY OptionShape, Window

\* dwt_restoreconfig, "only enable DGC for PRF 64" (line 1211), after a sleep:
\* of the sixteen codes with PRF 64 its test knows two, and among those it
\* misses is 9, the code of the firmware and of most examples.
THEOREM FewCodesRegainDgc ==
  ASSUME NEW chan \in {5, 9}, NEW code \in 0 .. 31, Prf64(code)
  PROVE  LET cc == ChanCtrl([chan |-> chan, rxCode |-> code, txCode |-> code])
         IN Prf64(RestoredCode(cc)) <=> code \in {16, 24}
<1> DEFINE b == IF chan = 9 THEN 1 ELSE 0
           cc == code * 256 + code * 8 + b
<1>1. /\ b \in {0, 1} /\ code \in Int /\ 0 <= code /\ code <= 31
      /\ ChanCtrl([chan |-> chan, rxCode |-> code, txCode |-> code]) = cc
  BY DEF ChanCtrl
<1>2. cc \div 64 = 4 * code + code \div 8
  BY <1>1, SMT
<1>3. Prf64(8 * ((4 * code + code \div 8) % 32)) <=> code \in {16, 24}
  BY <1>1, Prf64(code), SMTT(60) DEF Prf64
<1> QED
  BY <1>1, <1>2, <1>3 DEF RestoredCode

----------------------------------------------------------------------------
(* The settings that share a register. *)

\* The registers and the requests have their domains; nothing else is needed of them.
Typed ==
  /\ chip = [r \in Register |-> chip[r]]
  /\ asked = [s \in Setting |-> asked[s]]
\* A register holds, bit by bit, what was asked of each of its settings.
Same(v, field) ==
  \A s \in DOMAIN field :
    asked[s] \subseteq field[s] /\ \A b \in field[s] : b \in v <=> b \in asked[s]
SysKept == Same(chip.SYS_CFG, SysField)
ChanKept == Same(chip.CHAN_CTRL, ChanField)
TxKept == Same(chip.TX_FCTRL, TxField)
AckKept == Same(chip.ACK_RESP, AckField)
CiaKept == Same(chip.CIA_CONF, CiaField)
PinKept == Same(chip.GPIO_MODE, PinField)
ClkKept == Same(chip.CLK_CTRL, ClkField)
Kept == SysKept /\ ChanKept /\ TxKept /\ AckKept /\ CiaKept /\ PinKept /\ ClkKept
IInv == Typed /\ Kept

\* The names of the settings of each register.
LEMMA Names ==
  /\ DOMAIN SysField = {"sts", "pdoa", "phr", "crc", "filter", "ack", "single", "again", "timeout"}
  /\ DOMAIN ChanField = {"codes", "sfd", "chan"}
  /\ DOMAIN TxField = {"rate", "frame"}
  /\ DOMAIN AckField = {"ackDelay", "rxDelay"}
  /\ DOMAIN CiaField = {"diag", "antenna"}
  /\ DOMAIN PinField = {"leds", "amps"}
  /\ DOMAIN ClkField = {"gpio", "ledClk"}
BY DEF SysField, ChanField, TxField, AckField, CiaField, PinField, ClkField

\* The bits of the settings of SYS_CFG.
LEMMA SysSets ==
  /\ SysField.sts = {12, 13, 15} /\ SysField.pdoa = {16, 17} /\ SysField.phr = {4, 5}
  /\ SysField.crc = {6} /\ SysField.filter = {0} /\ SysField.ack = {11}
  /\ SysField.single = {3} /\ SysField.again = {10} /\ SysField.timeout = {9}
BY DEF SysField, SYS_CFG

\* Register by register is setting by setting.
LEMMA KeptIsStick == Kept => SettingsStick
<1>1. \A s \in DOMAIN SysField : Held(s) = chip.SYS_CFG \cap SysField[s]
  BY Names DEF Held
<1>2. \A s \in DOMAIN ChanField : Held(s) = chip.CHAN_CTRL \cap ChanField[s]
  BY Names DEF Held
<1>3. \A s \in DOMAIN TxField : Held(s) = chip.TX_FCTRL \cap TxField[s]
  BY Names DEF Held
<1>4. \A s \in DOMAIN AckField : Held(s) = chip.ACK_RESP \cap AckField[s]
  BY Names DEF Held
<1>5. \A s \in DOMAIN CiaField : Held(s) = chip.CIA_CONF \cap CiaField[s]
  BY Names DEF Held
<1>6. \A s \in DOMAIN PinField : Held(s) = chip.GPIO_MODE \cap PinField[s]
  BY Names DEF Held
<1>7. \A s \in DOMAIN ClkField : Held(s) = chip.CLK_CTRL \cap ClkField[s]
  BY Names DEF Held
<1>8. ASSUME NEW v, NEW field, Same(v, field) PROVE \A s \in DOMAIN field : v \cap field[s] = asked[s]
  <2>1. TAKE s \in DOMAIN field
  <2>2. asked[s] \subseteq field[s] /\ \A b \in field[s] : b \in v <=> b \in asked[s]
    BY <1>8, <2>1 DEF Same
  <2> QED BY <2>2, Zenon
<1>9. Kept =>
      /\ \A s \in DOMAIN SysField : Held(s) = asked[s]
      /\ \A s \in DOMAIN ChanField : Held(s) = asked[s]
      /\ \A s \in DOMAIN TxField : Held(s) = asked[s]
      /\ \A s \in DOMAIN AckField : Held(s) = asked[s]
      /\ \A s \in DOMAIN CiaField : Held(s) = asked[s]
      /\ \A s \in DOMAIN PinField : Held(s) = asked[s]
      /\ \A s \in DOMAIN ClkField : Held(s) = asked[s]
  <2>1. ASSUME Kept PROVE \A s \in DOMAIN SysField : Held(s) = asked[s]
    <3>1. Same(chip.SYS_CFG, SysField)
      BY <2>1 DEF Kept, SysKept
    <3>2. \A s \in DOMAIN SysField : chip.SYS_CFG \cap SysField[s] = asked[s]
      BY <3>1, <1>8, Zenon
    <3> QED BY <3>2, <1>1
  <2>2. ASSUME Kept PROVE \A s \in DOMAIN ChanField : Held(s) = asked[s]
    <3>1. Same(chip.CHAN_CTRL, ChanField)
      BY <2>2 DEF Kept, ChanKept
    <3>2. \A s \in DOMAIN ChanField : chip.CHAN_CTRL \cap ChanField[s] = asked[s]
      BY <3>1, <1>8, Zenon
    <3> QED BY <3>2, <1>2
  <2>3. ASSUME Kept PROVE \A s \in DOMAIN TxField : Held(s) = asked[s]
    <3>1. Same(chip.TX_FCTRL, TxField)
      BY <2>3 DEF Kept, TxKept
    <3>2. \A s \in DOMAIN TxField : chip.TX_FCTRL \cap TxField[s] = asked[s]
      BY <3>1, <1>8, Zenon
    <3> QED BY <3>2, <1>3
  <2>4. ASSUME Kept PROVE \A s \in DOMAIN AckField : Held(s) = asked[s]
    <3>1. Same(chip.ACK_RESP, AckField)
      BY <2>4 DEF Kept, AckKept
    <3>2. \A s \in DOMAIN AckField : chip.ACK_RESP \cap AckField[s] = asked[s]
      BY <3>1, <1>8, Zenon
    <3> QED BY <3>2, <1>4
  <2>5. ASSUME Kept PROVE \A s \in DOMAIN CiaField : Held(s) = asked[s]
    <3>1. Same(chip.CIA_CONF, CiaField)
      BY <2>5 DEF Kept, CiaKept
    <3>2. \A s \in DOMAIN CiaField : chip.CIA_CONF \cap CiaField[s] = asked[s]
      BY <3>1, <1>8, Zenon
    <3> QED BY <3>2, <1>5
  <2>6. ASSUME Kept PROVE \A s \in DOMAIN PinField : Held(s) = asked[s]
    <3>1. Same(chip.GPIO_MODE, PinField)
      BY <2>6 DEF Kept, PinKept
    <3>2. \A s \in DOMAIN PinField : chip.GPIO_MODE \cap PinField[s] = asked[s]
      BY <3>1, <1>8, Zenon
    <3> QED BY <3>2, <1>6
  <2>7. ASSUME Kept PROVE \A s \in DOMAIN ClkField : Held(s) = asked[s]
    <3>1. Same(chip.CLK_CTRL, ClkField)
      BY <2>7 DEF Kept, ClkKept
    <3>2. \A s \in DOMAIN ClkField : chip.CLK_CTRL \cap ClkField[s] = asked[s]
      BY <3>1, <1>8, Zenon
    <3> QED BY <3>2, <1>7
  <2> QED BY <2>1, <2>2, <2>3, <2>4, <2>5, <2>6, <2>7
<1> QED BY <1>9 DEF SettingsStick, Setting

\* dwt_configure leaves what it does not set: the step that writes three registers.
LEMMA ConfigureKeeps == ASSUME IInv, dwt_configure PROVE IInv'
<1>1. PICK stsMode \in SUBSET (0 .. 7), pdoa \in {{}, {16}, {16, 17}}, phrRate \in {{}, {5}},
     ext \in {{}, SYS_CFG.PHR_MODE}, chan9 \in {{}, CHAN_CTRL.RF_CHAN},
     rxCode \in SUBSET (0 .. 4), txCode \in SUBSET (0 .. 4), sfdType \in SUBSET (0 .. 1),
     dataRate \in {{}, {0}}, txPreambLength \in SUBSET (0 .. 3) :
     dwt_configure!(stsMode, pdoa, phrRate, ext, chan9, rxCode, txCode, sfdType, dataRate, txPreambLength)
  BY Zenon DEF dwt_configure
<1> DEFINE codes == Shift(rxCode, 8) \cup Shift(txCode, 3)
           sfd == Shift(sfdType, 1)
           rate == Shift(dataRate, 10) \cup Shift(txPreambLength, 12)
           mode == StsModeBits(stsMode)
<1>2. /\ mode \subseteq {12, 13, 15} /\ codes \subseteq Bits(3, 10) /\ sfd \subseteq {1, 2}
      /\ rate \subseteq {10} \cup Bits(12, 4) /\ ext \subseteq {4} /\ chan9 \subseteq {0}
      /\ pdoa \subseteq {16, 17} /\ phrRate \subseteq {5}
  BY DEF StsModeBits, Shift, Bits, SYS_CFG, CHAN_CTRL
<1>3. /\ chip' = [chip EXCEPT
           !.SYS_CFG = Modify(@, SYS_CFG.PHR_MODE \cup SYS_CFG.PHR_6M8 \cup SYS_CFG.CP_SPC
                                       \cup SYS_CFG.PDOA_MODE \cup SYS_CFG.CP_SDC,
                                  pdoa \cup mode \cup phrRate \cup ext),
           !.CHAN_CTRL = Modify(@, CHAN_CTRL.RX_PCODE \cup CHAN_CTRL.TX_PCODE
                                         \cup CHAN_CTRL.SFD_TYPE \cup CHAN_CTRL.RF_CHAN,
                                    chan9 \cup codes \cup sfd),
           !.TX_FCTRL = Modify(@, TX_FCTRL.TXBR \cup TX_FCTRL.TXPSR, rate)]
      /\ asked' = [asked EXCEPT !.sts = mode, !.pdoa = pdoa,
               !.phr = phrRate \cup ext, !.rate = rate,
               !.codes = codes, !.sfd = sfd, !.chan = chan9]
  BY <1>1
<1> HIDE DEF codes, sfd, rate, mode
<1>4. /\ chip'.SYS_CFG = (chip.SYS_CFG \ {4, 5, 12, 13, 15, 16, 17}) \cup (pdoa \cup mode \cup phrRate \cup ext)
      /\ chip'.CHAN_CTRL = (chip.CHAN_CTRL \ Bits(0, 13)) \cup (chan9 \cup codes \cup sfd)
      /\ chip'.TX_FCTRL = (chip.TX_FCTRL \ ({10} \cup Bits(12, 4))) \cup rate
  <2>1. SYS_CFG.PHR_MODE \cup SYS_CFG.PHR_6M8 \cup SYS_CFG.CP_SPC
                \cup SYS_CFG.PDOA_MODE \cup SYS_CFG.CP_SDC = {4, 5, 12, 13, 15, 16, 17}
    BY DEF SYS_CFG
  <2>2. CHAN_CTRL.RX_PCODE \cup CHAN_CTRL.TX_PCODE
             \cup CHAN_CTRL.SFD_TYPE \cup CHAN_CTRL.RF_CHAN = Bits(0, 13)
    BY DEF CHAN_CTRL, Bits
  <2>3. TX_FCTRL.TXBR \cup TX_FCTRL.TXPSR = {10} \cup Bits(12, 4)
    BY DEF TX_FCTRL
  <2> QED BY <1>3, <2>1, <2>2, <2>3 DEF IInv, Typed, Register, Modify
<1>5. /\ asked'.sts = mode /\ asked'.pdoa = pdoa /\ asked'.phr = phrRate \cup ext
      /\ asked'.rate = rate /\ asked'.codes = codes /\ asked'.sfd = sfd /\ asked'.chan = chan9
      /\ \A s \in Setting \ {"sts", "pdoa", "phr", "rate", "codes", "sfd", "chan"} :
           asked'[s] = asked[s]
  BY <1>3, Names DEF IInv, Typed, Setting
<1>6. SysKept'
  <2>1. SysKept
    BY DEF IInv, Kept
  <2>2. \A s \in DOMAIN SysField :
          /\ asked'[s] \subseteq SysField[s]
          /\ \A b \in SysField[s] : b \in chip'.SYS_CFG <=> b \in asked'[s]
    <3>1. asked'.sts \subseteq SysField.sts /\ \A b \in SysField.sts : b \in chip'.SYS_CFG <=> b \in asked'.sts
      BY <1>2, <1>4, <1>5, SysSets
    <3>2. asked'.pdoa \subseteq SysField.pdoa /\ \A b \in SysField.pdoa : b \in chip'.SYS_CFG <=> b \in asked'.pdoa
      BY <1>2, <1>4, <1>5, SysSets
    <3>3. asked'.phr \subseteq SysField.phr /\ \A b \in SysField.phr : b \in chip'.SYS_CFG <=> b \in asked'.phr
      BY <1>2, <1>4, <1>5, SysSets
    <3>4. \A s \in DOMAIN SysField \ {"sts", "pdoa", "phr"} :
            /\ asked'[s] \subseteq SysField[s]
            /\ \A b \in SysField[s] : b \in chip'.SYS_CFG <=> b \in asked'[s]
      BY <1>2, <1>4, <1>5, <2>1, Names, SysSets DEF Same, SysKept, Setting
    <3> QED BY <3>1, <3>2, <3>3, <3>4, Names
  <2> QED BY <2>2 DEF Same, SysKept
<1>8. AckKept' /\ CiaKept' /\ PinKept' /\ ClkKept'
  BY <1>3, Names DEF Same, IInv, Typed, Kept, AckKept, CiaKept, PinKept, ClkKept, Register, Setting
<1>9. ChanKept'
  <2>1. /\ ChanField.codes = Bits(3, 10) /\ ChanField.sfd = {1, 2} /\ ChanField.chan = {0}
        /\ Bits(0, 13) = Bits(3, 10) \cup {0, 1, 2} /\ Bits(3, 10) \cap {0, 1, 2} = {}
    BY DEF ChanField, CHAN_CTRL, Bits
  <2> HIDE DEF Bits
  <2>2. \A b \in Bits(0, 13) : b \in chip'.CHAN_CTRL <=> b \in chan9 \cup codes \cup sfd
    BY <1>4
  <2>3. /\ asked'.codes \subseteq ChanField.codes
        /\ \A b \in ChanField.codes : b \in chip'.CHAN_CTRL <=> b \in asked'.codes
    <3>1. \A b \in Bits(3, 10) : b \in Bits(0, 13) /\ b \notin chan9 /\ b \notin sfd
      BY <1>2, <2>1
    <3> QED BY <1>2, <1>5, <2>1, <2>2, <3>1
  <2>4. /\ asked'.sfd \subseteq ChanField.sfd
        /\ \A b \in ChanField.sfd : b \in chip'.CHAN_CTRL <=> b \in asked'.sfd
    BY <1>2, <1>5, <2>1, <2>2
  <2>5. /\ asked'.chan \subseteq ChanField.chan
        /\ \A b \in ChanField.chan : b \in chip'.CHAN_CTRL <=> b \in asked'.chan
    BY <1>2, <1>5, <2>1, <2>2
  <2> QED BY <2>3, <2>4, <2>5, Names DEF Same, ChanKept
<1>10. TxKept'
  <2>1. /\ TxField.rate = {10} \cup Bits(12, 4)
        /\ TxField.frame \cap ({10} \cup Bits(12, 4)) = {}
    BY DEF TxField, TX_FCTRL, Bits
  <2>2. asked'.frame = asked.frame
    BY <1>5, Names DEF Setting
  <2>3. /\ asked.frame \subseteq TxField.frame
        /\ \A b \in TxField.frame : b \in chip.TX_FCTRL <=> b \in asked.frame
    BY Names DEF IInv, Kept, TxKept, Same
  <2> HIDE DEF Bits
  <2>4. /\ asked'.frame \subseteq TxField.frame
        /\ \A b \in TxField.frame : b \in chip'.TX_FCTRL <=> b \in asked'.frame
    BY <1>2, <1>4, <2>1, <2>2, <2>3
  <2>5. /\ asked'.rate \subseteq TxField.rate
        /\ \A b \in TxField.rate : b \in chip'.TX_FCTRL <=> b \in asked'.rate
    BY <1>2, <1>4, <1>5, <2>1
  <2> QED BY <2>4, <2>5, Names DEF Same, TxKept
<1>11. Typed'
  BY <1>3 DEF IInv, Typed
<1> QED
  BY <1>6, <1>8, <1>9, <1>10, <1>11 DEF IInv, Kept

\* Every other call touches the bits of its own settings alone.
LEMMA Steps == ASSUME IInv, SettingsNext PROVE IInv'
<1> USE Names DEF IInv, Typed, Kept
<1>1. CASE dwt_configurestsmode
  <2>1. Typed'
    BY <1>1 DEF dwt_configurestsmode
  <2>2. SysKept'
    <3>1. PICK stsMode \in SUBSET (0 .. 7) : dwt_configurestsmode!(stsMode)
      BY <1>1 DEF dwt_configurestsmode
    <3>2. StsModeBits(stsMode) \subseteq {12, 13, 15}
      BY DEF StsModeBits, Shift
    <3>3. SYS_CFG.CP_SPC \cup SYS_CFG.CP_SDC = {12, 13, 15}
      BY DEF SYS_CFG
    <3>4. /\ chip'.SYS_CFG = (chip.SYS_CFG \ {12, 13, 15}) \cup StsModeBits(stsMode)
          /\ asked'.sts = StsModeBits(stsMode)
          /\ \A s \in Setting \ {"sts"} : asked'[s] = asked[s]
      BY <3>1, <3>3 DEF Modify, Register, Setting
    <3>5. /\ asked'.sts \subseteq SysField.sts
          /\ \A b \in SysField.sts : b \in chip'.SYS_CFG <=> b \in asked'.sts
      BY <3>2, <3>4, SysSets
    <3>6. ASSUME NEW s \in DOMAIN SysField, s # "sts"
          PROVE  /\ SysField[s] \cap {12, 13, 15} = {} /\ asked'[s] = asked[s]
                 /\ asked[s] \subseteq SysField[s]
                 /\ \A b \in SysField[s] : b \in chip.SYS_CFG <=> b \in asked[s]
      <4>1. SysField[s] \cap {12, 13, 15} = {}
        BY <3>6, Names, SysSets
      <4>2. asked'[s] = asked[s]
        BY <3>4, <3>6 DEF Setting
      <4> QED BY <4>1, <4>2 DEF Same, SysKept
    <3>7. ASSUME NEW s \in DOMAIN SysField, s # "sts"
          PROVE  \A b \in SysField[s] : b \in chip'.SYS_CFG <=> b \in chip.SYS_CFG
      BY <3>2, <3>4, <3>6, <3>7
    <3> QED BY <3>5, <3>6, <3>7 DEF Same, SysKept
  <2>3. ChanKept' /\ TxKept' /\ AckKept' /\ CiaKept' /\ PinKept' /\ ClkKept'
    BY <1>1 DEF Same, dwt_configurestsmode, Register, Setting, ChanKept, TxKept, AckKept, CiaKept, PinKept, ClkKept
  <2> QED BY <2>1, <2>2, <2>3
<1>2. CASE dwt_configureframefilter
  <2>1. Typed'
    BY <1>2 DEF dwt_configureframefilter
  <2>2. SysKept'
    BY <1>2, SMTT(30) DEF Same, dwt_configureframefilter, Modify, Register, Setting, SysKept, SysField, SYS_CFG, Shift
  <2>3. ChanKept' /\ TxKept' /\ AckKept' /\ CiaKept' /\ PinKept' /\ ClkKept'
    BY <1>2 DEF Same, dwt_configureframefilter, Register, Setting, ChanKept, TxKept, AckKept, CiaKept, PinKept, ClkKept
  <2> QED BY <2>1, <2>2, <2>3
<1>3. CASE dwt_setrxtimeout
  <2>1. Typed'
    BY <1>3 DEF dwt_setrxtimeout
  <2>2. SysKept'
    BY <1>3, SMTT(30) DEF Same, dwt_setrxtimeout, Modify, Register, Setting, SysKept, SysField, SYS_CFG, Shift
  <2>3. ChanKept' /\ TxKept' /\ AckKept' /\ CiaKept' /\ PinKept' /\ ClkKept'
    BY <1>3 DEF Same, dwt_setrxtimeout, Register, Setting, ChanKept, TxKept, AckKept, CiaKept, PinKept, ClkKept
  <2> QED BY <2>1, <2>2, <2>3
<1>4. CASE dwt_enablespicrccheck
  <2>1. Typed'
    BY <1>4 DEF dwt_enablespicrccheck
  <2>2. SysKept'
    BY <1>4, SMTT(30) DEF Same, dwt_enablespicrccheck, Modify, Register, Setting, SysKept, SysField, SYS_CFG
  <2>3. ChanKept' /\ TxKept' /\ AckKept' /\ CiaKept' /\ PinKept' /\ ClkKept'
    BY <1>4 DEF Same, dwt_enablespicrccheck, Register, Setting, ChanKept, TxKept, AckKept, CiaKept, PinKept, ClkKept
  <2> QED BY <2>1, <2>2, <2>3
<1>5. CASE dwt_setdblrxbuffmode
  <2>1. Typed'
    BY <1>5 DEF dwt_setdblrxbuffmode
  <2>2. SysKept'
    <3>1. PICK single \in {{}, SYS_CFG.DIS_DRXB}, again \in {{}, SYS_CFG.RXAUTR} :
            dwt_setdblrxbuffmode!(single, again)
      BY <1>5 DEF dwt_setdblrxbuffmode
    <3>2. single \in {{}, {3}} /\ again \in {{}, {10}}
      BY DEF SYS_CFG
    <3>3. (SYS_CFG.DIS_DRXB \ single) \cup (SYS_CFG.RXAUTR \ again) = {3, 10} \ (single \cup again)
      BY <3>2 DEF SYS_CFG
    <3>4. /\ chip'.SYS_CFG = (chip.SYS_CFG \ {3, 10}) \cup (single \cup again)
          /\ asked'.single = single /\ asked'.again = again
          /\ \A s \in Setting \ {"single", "again"} : asked'[s] = asked[s]
      BY <3>1, <3>3 DEF Modify, Register, Setting
    <3>5. SysKept
      OBVIOUS
    <3> HIDE DEF IInv, Typed, Kept
    <3>6. \A b \in {3, 10} : b \in chip'.SYS_CFG <=> b \in single \cup again
      BY <3>4
    <3>7. \A b : b \notin {3, 10} => (b \in chip'.SYS_CFG <=> b \in chip.SYS_CFG)
      BY <3>2, <3>4
    <3>8. /\ asked'.single \subseteq {3} /\ \A b \in {3} : b \in chip'.SYS_CFG <=> b \in asked'.single
          /\ asked'.again \subseteq {10} /\ \A b \in {10} : b \in chip'.SYS_CFG <=> b \in asked'.again
      BY <3>2, <3>4, <3>6
    <3>9. \A s \in DOMAIN SysField \ {"single", "again"} :
            /\ SysField[s] \cap {3, 10} = {} /\ asked'[s] = asked[s]
      BY <3>4, SysSets DEF Setting
    <3> QED BY <3>5, <3>7, <3>8, <3>9, SysSets DEF Same, SysKept
  <2>3. ChanKept' /\ TxKept' /\ AckKept' /\ CiaKept' /\ PinKept' /\ ClkKept'
    BY <1>5 DEF Same, dwt_setdblrxbuffmode, Register, Setting, ChanKept, TxKept, AckKept, CiaKept, PinKept, ClkKept
  <2> QED BY <2>1, <2>2, <2>3
<1>6. CASE dwt_enableautoack
  <2>1. Typed'
    BY <1>6 DEF dwt_enableautoack
  <2> PICK on \in BOOLEAN, delay \in SUBSET (0 .. 7) : dwt_enableautoack!(on, delay)
    BY <1>6 DEF dwt_enableautoack
  <2>5. /\ \A s \in Setting \ {"ackDelay", "ack"} : asked'[s] = asked[s]
        /\ asked'.ackDelay = Shift(delay, 24) /\ asked'.ack = IF on THEN {11} ELSE {}
    BY DEF Setting, SYS_CFG
  <2>2. SysKept'
    <3>1. chip'.SYS_CFG = IF on THEN chip.SYS_CFG \cup {11, 18} ELSE chip.SYS_CFG \ {11}
      BY DEF Register, SYS_CFG
    <3>2. SysKept
      OBVIOUS
    <3> HIDE DEF IInv, Typed, Kept
    <3>3. \A b : b \notin {11, 18} => (b \in chip'.SYS_CFG <=> b \in chip.SYS_CFG)
      BY <3>1
    <3>4. /\ asked'.ack \subseteq {11}
          /\ \A b \in {11} : b \in chip'.SYS_CFG <=> b \in asked'.ack
      BY <2>5, <3>1
    <3>5. \A s \in DOMAIN SysField \ {"ack"} :
            /\ SysField[s] \cap {11, 18} = {} /\ asked'[s] = asked[s]
      BY <2>5, SysSets DEF Setting
    <3>6. ASSUME NEW s \in DOMAIN SysField
          PROVE  /\ asked'[s] \subseteq SysField[s]
                 /\ \A b \in SysField[s] : b \in chip'.SYS_CFG <=> b \in asked'[s]
      <4>1. CASE s = "ack"
        BY <4>1, <3>4, SysSets
      <4>2. CASE s # "ack"
        BY <4>2, <3>2, <3>3, <3>5 DEF Same, SysKept
      <4> QED BY <4>1, <4>2
    <3> QED BY <3>6 DEF Same, SysKept
  <2>3. AckKept'
    <3>1. chip'.ACK_RESP = (chip.ACK_RESP \ Bits(24, 8)) \cup Shift(delay, 24)
      BY DEF Register, Modify
    <3>2. Shift(delay, 24) \subseteq Bits(24, 8) /\ Bits(24, 8) \cap Bits(0, 20) = {}
      BY DEF Shift, Bits
    <3>3. AckField.ackDelay = Bits(24, 8) /\ AckField.rxDelay = Bits(0, 20)
      BY DEF AckField, ACK_RESP
    <3>4. AckKept
      OBVIOUS
    <3> HIDE DEF Bits, Shift, IInv, Typed, Kept
    <3>5. asked'.rxDelay = asked.rxDelay
      BY <2>5 DEF Setting
    <3>6. /\ asked.rxDelay \subseteq AckField.rxDelay
          /\ \A b \in AckField.rxDelay : b \in chip.ACK_RESP <=> b \in asked.rxDelay
      BY <3>4 DEF Same, AckKept
    <3>7. /\ asked'.rxDelay \subseteq AckField.rxDelay
          /\ \A b \in AckField.rxDelay : b \in chip'.ACK_RESP <=> b \in asked'.rxDelay
      BY <3>1, <3>2, <3>3, <3>5, <3>6
    <3>8. /\ asked'.ackDelay \subseteq AckField.ackDelay
          /\ \A b \in AckField.ackDelay : b \in chip'.ACK_RESP <=> b \in asked'.ackDelay
      BY <2>5, <3>1, <3>2, <3>3
    <3> QED BY <3>7, <3>8, Names DEF Same, AckKept
  <2>4. ChanKept' /\ TxKept' /\ CiaKept' /\ PinKept' /\ ClkKept'
    BY <1>6 DEF Same, dwt_enableautoack, Register, Setting, ChanKept, TxKept, CiaKept, PinKept, ClkKept
  <2> QED BY <2>1, <2>2, <2>3, <2>4
<1>7. CASE dwt_setrxaftertxdelay
  <2>1. Typed'
    BY <1>7 DEF dwt_setrxaftertxdelay
  <2>2. AckKept'
    BY <1>7 DEF Same, dwt_setrxaftertxdelay, Modify, Register, Setting, AckKept, AckField, ACK_RESP, Bits, Shift
  <2>3. SysKept' /\ ChanKept' /\ TxKept' /\ CiaKept' /\ PinKept' /\ ClkKept'
    BY <1>7 DEF Same, dwt_setrxaftertxdelay, Register, Setting, SysKept, ChanKept, TxKept, CiaKept, PinKept, ClkKept
  <2> QED BY <2>1, <2>2, <2>3
<1>8. CASE dwt_configuresfdtype
  <2>1. Typed'
    BY <1>8 DEF dwt_configuresfdtype
  <2>2. ChanKept'
    BY <1>8, SMTT(30) DEF Same, dwt_configuresfdtype, Modify, Register, Setting, ChanKept, ChanField, Bits, CHAN_CTRL, Shift
  <2>3. SysKept' /\ TxKept' /\ AckKept' /\ CiaKept' /\ PinKept' /\ ClkKept'
    BY <1>8 DEF Same, dwt_configuresfdtype, Register, Setting, SysKept, TxKept, AckKept, CiaKept, PinKept, ClkKept
  <2> QED BY <2>1, <2>2, <2>3
<1>9. CASE dwt_writetxfctrl
  <2>1. Typed'
    BY <1>9 DEF dwt_writetxfctrl
  <2>2. TxKept'
    BY <1>9, SMTT(30) DEF Same, dwt_writetxfctrl, Modify, Register, Setting, TxKept, TxField, Bits, Shift, TX_FCTRL
  <2>3. SysKept' /\ ChanKept' /\ AckKept' /\ CiaKept' /\ PinKept' /\ ClkKept'
    BY <1>9 DEF Same, dwt_writetxfctrl, Register, Setting, SysKept, ChanKept, AckKept, CiaKept, PinKept, ClkKept
  <2> QED BY <2>1, <2>2, <2>3
<1>10. CASE dwt_setrxantennadelay
  <2>1. Typed'
    BY <1>10 DEF dwt_setrxantennadelay
  <2>2. CiaKept'
    BY <1>10, SMTT(30) DEF Same, dwt_setrxantennadelay, Modify, Register, Setting, CiaKept, CiaField, Bits, CIA_CONF, Shift
  <2>3. SysKept' /\ ChanKept' /\ TxKept' /\ AckKept' /\ PinKept' /\ ClkKept'
    BY <1>10 DEF Same, dwt_setrxantennadelay, Register, Setting, SysKept, ChanKept, TxKept, AckKept, PinKept, ClkKept
  <2> QED BY <2>1, <2>2, <2>3
<1>11. CASE dwt_configciadiag
  <2>1. Typed'
    BY <1>11 DEF dwt_configciadiag
  <2>2. CiaKept'
    <3>1. /\ CiaField.diag = {20} /\ CiaField.antenna = 0 .. 15
          /\ Shift({4}, 16) = {20}
      BY DEF CiaField, CIA_CONF, Bits, Shift
    <3>2. PICK off \in {{}, Shift({4}, 16)} : dwt_configciadiag!(off)
      BY <1>11 DEF dwt_configciadiag
    <3>3. /\ chip'.CIA_CONF = (chip.CIA_CONF \ {20}) \cup off
          /\ asked'.diag = off /\ asked'.antenna = asked.antenna /\ off \subseteq {20}
      BY <3>1, <3>2 DEF Modify, Register, Setting
    <3> QED BY <3>1, <3>3 DEF Same, CiaKept
  <2>3. SysKept' /\ ChanKept' /\ TxKept' /\ AckKept' /\ PinKept' /\ ClkKept'
    BY <1>11 DEF Same, dwt_configciadiag, Register, Setting, SysKept, ChanKept, TxKept, AckKept, PinKept, ClkKept
  <2> QED BY <2>1, <2>2, <2>3
<1>12. CASE dwt_setlnapamode
  <2>1. Typed'
    BY <1>12 DEF dwt_setlnapamode
  <2>2. PinKept'
    BY <1>12, SMTT(30) DEF Same, dwt_setlnapamode, Modify, Register, Setting, PinKept, PinField, Bits, MSGP
  <2>3. SysKept' /\ ChanKept' /\ TxKept' /\ AckKept' /\ CiaKept' /\ ClkKept'
    BY <1>12 DEF Same, dwt_setlnapamode, Register, Setting, SysKept, ChanKept, TxKept, AckKept, CiaKept, ClkKept
  <2> QED BY <2>1, <2>2, <2>3
<1>13. CASE dwt_setleds
  <2>1. Typed'
    BY <1>13 DEF dwt_setleds
  <2> PICK on \in BOOLEAN : dwt_setleds!(on)
    BY <1>13 DEF dwt_setleds
  <2>5. /\ \A s \in Setting \ {"leds", "ledClk"} : asked'[s] = asked[s]
        /\ asked'.leds = IF on THEN {6, 9} ELSE {}
        /\ asked'.ledClk = IF on THEN {18, 23} ELSE asked.ledClk
    BY DEF Setting, CLK_CTRL
  <2>2. PinKept'
    <3>1. chip'.GPIO_MODE = (chip.GPIO_MODE \ (6 .. 11)) \cup IF on THEN {6, 9} ELSE {}
      <4>1. MSGP(3) \cup MSGP(2) = 6 .. 11
        BY DEF MSGP, Bits
      <4> QED BY <4>1 DEF Register, Modify
    <3>2. PinField.leds = 6 .. 11 /\ PinField.amps \cap (6 .. 11) = {}
      BY DEF PinField, MSGP, Bits
    <3>3. PinKept
      OBVIOUS
    <3> DEFINE Lamps == 6 .. 11
    <3>12. 6 \in Lamps /\ 9 \in Lamps
      OBVIOUS
    <3>6. 6 \in Lamps /\ 9 \in Lamps /\ chip'.GPIO_MODE = (chip.GPIO_MODE \ Lamps) \cup IF on THEN {6, 9} ELSE {}
      BY <3>1, <3>12, Zenon
    <3>7. PinField.leds = Lamps /\ PinField.amps \cap Lamps = {}
      BY <3>2
    <3> HIDE DEF IInv, Typed, Kept, Lamps
    <3>4. /\ asked'.leds \subseteq Lamps
          /\ \A b \in Lamps : b \in chip'.GPIO_MODE <=> b \in asked'.leds
      <4>1. CASE on
        <5>1. /\ asked'.leds = {6, 9} /\ chip'.GPIO_MODE = (chip.GPIO_MODE \ Lamps) \cup {6, 9}
          BY <2>5, <3>6, <4>1, Zenon
        <5> QED BY <3>6, <5>1, Zenon
      <4>2. CASE ~on
        BY <2>5, <3>6, <4>2
      <4> QED BY <4>1, <4>2
    <3>5. \A b : b \notin Lamps => (b \in chip'.GPIO_MODE <=> b \in chip.GPIO_MODE)
      BY <3>6
    <3>8. asked'.amps = asked.amps
      BY <2>5 DEF Setting
    <3>9. /\ asked.amps \subseteq PinField.amps
          /\ \A b \in PinField.amps : b \in chip.GPIO_MODE <=> b \in asked.amps
      BY <3>3 DEF Same, PinKept
    <3>10. /\ asked'.amps \subseteq PinField.amps
           /\ \A b \in PinField.amps : b \in chip'.GPIO_MODE <=> b \in asked'.amps
      BY <3>5, <3>7, <3>8, <3>9
    <3>11. /\ asked'.leds \subseteq PinField.leds
           /\ \A b \in PinField.leds : b \in chip'.GPIO_MODE <=> b \in asked'.leds
      BY <3>4, <3>7
    <3> QED BY <3>10, <3>11, Names DEF Same, PinKept
  <2>3. ClkKept'
    <3>1. chip'.CLK_CTRL = IF on THEN chip.CLK_CTRL \cup {18, 23} ELSE chip.CLK_CTRL
      BY DEF Register, CLK_CTRL
    <3>2. ClkField.gpio = {16} /\ ClkField.ledClk = {18, 23}
      BY DEF ClkField, CLK_CTRL
    <3>3. ClkKept
      OBVIOUS
    <3> HIDE DEF IInv, Typed, Kept
    <3>4. asked'.gpio = asked.gpio
      BY <2>5 DEF Setting
    <3>5. /\ asked'.ledClk \subseteq {18, 23}
          /\ \A b \in {18, 23} : b \in chip'.CLK_CTRL <=> b \in asked'.ledClk
      BY <2>5, <3>1, <3>2, <3>3 DEF Same, ClkKept
    <3>6. /\ asked'.gpio \subseteq {16}
          /\ \A b \in {16} : b \in chip'.CLK_CTRL <=> b \in asked'.gpio
      BY <3>1, <3>2, <3>3, <3>4 DEF Same, ClkKept
    <3>7. ASSUME NEW s \in DOMAIN ClkField
          PROVE  /\ asked'[s] \subseteq ClkField[s]
                 /\ \A b \in ClkField[s] : b \in chip'.CLK_CTRL <=> b \in asked'[s]
      <4>1. CASE s = "ledClk"
        BY <4>1, <3>5, <3>2
      <4>2. CASE s = "gpio"
        BY <4>2, <3>6, <3>2
      <4> QED BY <4>1, <4>2, Names
    <3> QED BY <3>7 DEF Same, ClkKept
  <2>4. SysKept' /\ ChanKept' /\ TxKept' /\ AckKept' /\ CiaKept'
    BY <1>13 DEF Same, dwt_setleds, Register, Setting, SysKept, ChanKept, TxKept, AckKept, CiaKept
  <2> QED BY <2>1, <2>2, <2>3, <2>4
<1>14. CASE dwt_enablegpioclocks
  <2>1. Typed'
    BY <1>14 DEF dwt_enablegpioclocks
  <2>2. ClkKept'
    BY <1>14 DEF Same, dwt_enablegpioclocks, Modify, Register, Setting, ClkKept, ClkField, Bits, CLK_CTRL
  <2>3. SysKept' /\ ChanKept' /\ TxKept' /\ AckKept' /\ CiaKept' /\ PinKept'
    BY <1>14 DEF Same, dwt_enablegpioclocks, Register, Setting, SysKept, ChanKept, TxKept, AckKept, CiaKept, PinKept
  <2> QED BY <2>1, <2>2, <2>3
<1>15. CASE dwt_force_clocks
  <2>1. Typed'
    BY <1>15 DEF dwt_force_clocks
  <2>2. ClkKept'
    BY <1>15 DEF Same, dwt_force_clocks, Modify, Register, Setting, ClkKept, ClkField, Bits, CLK_CTRL
  <2>3. SysKept' /\ ChanKept' /\ TxKept' /\ AckKept' /\ CiaKept' /\ PinKept'
    BY <1>15 DEF Same, dwt_force_clocks, Register, Setting, SysKept, ChanKept, TxKept, AckKept, CiaKept, PinKept
  <2> QED BY <2>1, <2>2, <2>3
<1>16. CASE AccClocks
  <2>1. Typed'
    BY <1>16 DEF AccClocks
  <2>2. ClkKept'
    BY <1>16 DEF Same, AccClocks, Modify, Register, Setting, ClkKept, ClkField, Bits, CLK_CTRL
  <2>3. SysKept' /\ ChanKept' /\ TxKept' /\ AckKept' /\ CiaKept' /\ PinKept'
    BY <1>16 DEF Same, AccClocks, Register, Setting, SysKept, ChanKept, TxKept, AckKept, CiaKept, PinKept
  <2> QED BY <2>1, <2>2, <2>3
<1>17. CASE dwt_configure
  BY <1>17, ConfigureKeeps
<1> QED
  BY <1>1, <1>2, <1>3, <1>4, <1>5, <1>6, <1>7, <1>8, <1>9, <1>10, <1>11, <1>12, <1>13, <1>14, <1>15, <1>16, <1>17 DEF SettingsNext

\* Whatever the registers held, and in whatever order the driver is asked, a setting
\* stays as the last call about it left it (dw3000_device_api.cpp, the calls above).
THEOREM SettingsHold == SettingsSpec => []SettingsStick
<1>1. SettingsInit => IInv
  <2> SUFFICES ASSUME SettingsInit PROVE IInv
    OBVIOUS
  <2>1. Typed
    BY DEF SettingsInit, Typed
  <2>2. \A s \in Setting : asked[s] = Held(s)
    BY DEF SettingsInit
  <2>3. Same(chip.SYS_CFG, SysField)
    <3>1. \A s \in DOMAIN SysField : asked[s] = chip.SYS_CFG \cap SysField[s]
      BY <2>2, Names DEF Held, Setting
    <3> QED BY <3>1 DEF Same
  <2>4. Same(chip.CHAN_CTRL, ChanField)
    <3>1. \A s \in DOMAIN ChanField : asked[s] = chip.CHAN_CTRL \cap ChanField[s]
      BY <2>2, Names DEF Held, Setting
    <3> QED BY <3>1 DEF Same
  <2>5. Same(chip.TX_FCTRL, TxField)
    <3>1. \A s \in DOMAIN TxField : asked[s] = chip.TX_FCTRL \cap TxField[s]
      BY <2>2, Names DEF Held, Setting
    <3> QED BY <3>1 DEF Same
  <2>6. Same(chip.ACK_RESP, AckField)
    <3>1. \A s \in DOMAIN AckField : asked[s] = chip.ACK_RESP \cap AckField[s]
      BY <2>2, Names DEF Held, Setting
    <3> QED BY <3>1 DEF Same
  <2>7. Same(chip.CIA_CONF, CiaField)
    <3>1. \A s \in DOMAIN CiaField : asked[s] = chip.CIA_CONF \cap CiaField[s]
      BY <2>2, Names DEF Held, Setting
    <3> QED BY <3>1 DEF Same
  <2>8. Same(chip.GPIO_MODE, PinField)
    <3>1. \A s \in DOMAIN PinField : asked[s] = chip.GPIO_MODE \cap PinField[s]
      BY <2>2, Names DEF Held, Setting
    <3> QED BY <3>1 DEF Same
  <2>9. Same(chip.CLK_CTRL, ClkField)
    <3>1. \A s \in DOMAIN ClkField : asked[s] = chip.CLK_CTRL \cap ClkField[s]
      BY <2>2, Names DEF Held, Setting
    <3> QED BY <3>1 DEF Same
  <2> QED BY <2>1, <2>3, <2>4, <2>5, <2>6, <2>7, <2>8, <2>9 DEF IInv, Kept, SysKept, ChanKept, TxKept, AckKept, CiaKept, PinKept, ClkKept
<1>2. IInv /\ [SettingsNext]_settingsVars => IInv'
  <2>1. CASE UNCHANGED settingsVars
    BY <2>1 DEF settingsVars, IInv, Typed, Kept, Same, SysKept, ChanKept, TxKept, AckKept, CiaKept,
       PinKept, ClkKept
  <2> QED BY <2>1, Steps
<1>3. IInv => SettingsStick
  BY KeptIsStick DEF IInv
<1> QED
  BY <1>1, <1>2, <1>3, PTL DEF SettingsSpec

(***************************************************************************)
(* The AES jobs and the frames that carry them                              *)
(***************************************************************************)
Levels == 0 .. 7
Counter == {v \in Nat : v < 4294967296}

LEMMA MicSizes ==
  ASSUME NEW level \in Levels
  PROVE  mac_frame_get_aux_mic_size(level) \in {0, 4, 8, 16, MIC_ERROR}
BY DEF Levels, mac_frame_get_aux_mic_size, MIC_ERROR

\* dwt_mic_size_from_bytes: the code given to the engine names the tag's length
\* the header announces, for every level that is not reserved.
THEOREM TagSizeSurvives ==
  ASSUME NEW level \in Levels, mac_frame_get_aux_mic_size(level) # MIC_ERROR
  PROVE  BytesOfCode(dwt_mic_size_from_bytes(mac_frame_get_aux_mic_size(level)))
           = mac_frame_get_aux_mic_size(level)
BY DEF Levels, mac_frame_get_aux_mic_size, MIC_ERROR, dwt_mic_size_from_bytes, BytesOfCode

\* mac_frame_update_aux_frame_cnt and mac_frame_get_aux_frame_cnt: a 32-bit
\* counter survives the header.
THEOREM FrameCountRoundTrip ==
  ASSUME NEW v \in Counter
  PROVE  mac_frame_get_aux_frame_cnt(mac_frame_update_aux_frame_cnt(v)) = v
<1> DEFINE a == v \div 256  b == a \div 256  c == b \div 256
<1>0. v \in Nat
  BY DEF Counter
<1>1. a \in Nat /\ v = a * 256 + (v % 256) /\ v % 256 \in Nat /\ v % 256 < 256
  BY SMT, <1>0
<1>2. b \in Nat /\ a = b * 256 + (a % 256) /\ a % 256 \in Nat /\ a % 256 < 256
  BY SMT, <1>1
<1>3. c \in Nat /\ b = c * 256 + (b % 256) /\ b % 256 \in Nat /\ b % 256 < 256
  BY SMT, <1>2
<1>4. mac_frame_get_aux_frame_cnt(mac_frame_update_aux_frame_cnt(v))
        = (v % 256) + 256 * (a % 256) + 65536 * (b % 256) + 16777216 * (c % 256)
  BY DEF mac_frame_get_aux_frame_cnt, mac_frame_update_aux_frame_cnt
<1> HIDE DEF a, b, c
<1> DEFINE x == v % 256  y == a % 256  z == b % 256
<1>5. /\ x \in Nat /\ y \in Nat /\ z \in Nat
      /\ x < 256 /\ y < 256 /\ z < 256
  BY <1>1, <1>2, <1>3
<1>6. v = a * 256 + x /\ a = b * 256 + y /\ b = c * 256 + z
  BY <1>1, <1>2, <1>3
<1> HIDE DEF x, y, z
<1>7. v = x + 256 * y + 65536 * z + 16777216 * c
  BY SMT, <1>1, <1>2, <1>3, <1>5, <1>6
<1>8. c < 256
  BY SMT, <1>3, <1>5, <1>7 DEF Counter
<1>9. c % 256 = c
  BY SMT, <1>3, <1>8
<1> QED BY <1>4, <1>7, <1>9 DEF x, y, z

\* dwt_update_nonce_CCM: what the core is given determines the nonce, so two
\* frames of one length with different nonces never get the same block.
THEOREM NonceIsKept ==
  ASSUME NEW n1 \in [0 .. 12 -> Nat], NEW n2 \in [0 .. 12 -> Nat], NEW plen \in Nat,
         dwt_update_nonce_CCM(n1, plen) = dwt_update_nonce_CCM(n2, plen)
  PROVE  n1 = n2
<1> DEFINE b(n) == dwt_update_nonce_CCM(n, plen)
<1>1. \A i \in 0 .. 10 : n1[10 - i] = b(n1)[i] /\ n2[10 - i] = b(n2)[i]
  BY DEF dwt_update_nonce_CCM
<1>2. n1[11] = b(n1)[15] /\ n2[11] = b(n2)[15] /\ n1[12] = b(n1)[14] /\ n2[12] = b(n2)[14]
  BY DEF dwt_update_nonce_CCM
<1>3. b(n1) = b(n2)
  OBVIOUS
<1>4. \A j \in 0 .. 10 : n1[j] = n2[j]
  <2> SUFFICES ASSUME NEW j \in 0 .. 10 PROVE n1[j] = n2[j]
    OBVIOUS
  <2>1. 10 - j \in 0 .. 10 /\ 10 - (10 - j) = j
    OBVIOUS
  <2> HIDE DEF b
  <2> QED BY <1>1, <1>3, <2>1
<1>5. \A j \in 0 .. 12 : n1[j] = n2[j]
  <2> HIDE DEF b
  <2> QED BY <1>2, <1>3, <1>4
<1> QED BY <1>5

\* rx_aes_802_15_4: an accepted frame is addressed to us and is exactly header,
\* payload, tag and checksum, its payload fits the caller's buffer, and the
\* engine ended without an error.
THEOREM AcceptedFrame ==
  ASSUME NEW f, f.len \in Nat, f.level \in Levels, f.secure \in BOOLEAN, f.forMe \in BOOLEAN,
         NEW h \in Nat, NEW max \in Nat, NEW second \in BOOLEAN, NEW end \in EngineEnds,
         rx_aes_802_15_4(f, h, max, second, end) = "OK"
  PROVE  /\ f.secure /\ f.forMe /\ end = "done"
         /\ rx_payload_len(f, h) \in 0 .. max
         /\ f.len = h + rx_payload_len(f, h) + mac_frame_get_aux_mic_size(f.level) + FCS_LEN
         /\ f.len <= RX_BUFFER_MAX_LEN
<1> DEFINE m == mac_frame_get_aux_mic_size(f.level)
<1>1. m \in {0, 4, 8, 16, MIC_ERROR}
  BY MicSizes
<1>2. /\ f.secure /\ f.forMe /\ m # MIC_ERROR
      /\ rx_payload_len(f, h) \in 0 .. max
      /\ Refusal(RxJob(f, h)) = "none" /\ end = "done"
  BY DEF rx_aes_802_15_4, dwt_do_aes, EngineEnds, Refusal
<1>3. h + rx_payload_len(f, h) <= RX_BUFFER_MAX_LEN - m - FCS_LEN
  <2> DEFINE j == RxJob(f, h)
  <2>1. ~(j.hlen + j.plen > AllowSize(j) - j.mic - FCS_LEN)
    BY <1>2 DEF Refusal
  <2>2. /\ j.hlen = h /\ j.plen = rx_payload_len(f, h) /\ j.mic = m
        /\ AllowSize(j) = RX_BUFFER_MAX_LEN
    BY DEF RxJob, AllowSize
  <2> QED BY <1>1, <1>2, <2>1, <2>2 DEF FCS_LEN, RX_BUFFER_MAX_LEN, MIC_ERROR
<1> QED BY <1>1, <1>2, <1>3 DEF rx_payload_len, FCS_LEN, MIC_ERROR, RX_BUFFER_MAX_LEN

\* The AES examples: a frame sent with dwt_do_aes and dwt_writetxfctrl is taken
\* by the peer with the same payload length when it fits both radios' buffers.
THEOREM SentIsReceived ==
  ASSUME NEW level \in Levels, mac_frame_get_aux_mic_size(level) # MIC_ERROR,
         NEW h \in Nat, NEW p \in Nat, NEW max \in Nat, p <= max,
         NEW second \in BOOLEAN,
         Secured(h, p, level).len <= RX_BUFFER_MAX_LEN
  PROVE  /\ Refusal(TxJob(h, p, level)) = "none"
         /\ rx_payload_len(Secured(h, p, level), h) = p
         /\ rx_aes_802_15_4(Secured(h, p, level), h, max, second, "done") = "OK"
<1> DEFINE m == mac_frame_get_aux_mic_size(level)
<1>1. m \in {0, 4, 8, 16}
  BY MicSizes
<1>2. h + p <= RX_BUFFER_MAX_LEN - m - FCS_LEN /\ h + p <= TX_BUFFER_MAX_LEN - m - FCS_LEN
  BY <1>1 DEF Secured, FCS_LEN, RX_BUFFER_MAX_LEN, TX_BUFFER_MAX_LEN
<1>3. Refusal(TxJob(h, p, level)) = "none"
  BY <1>1, <1>2 DEF Refusal, TxJob, AllowSize, FCS_LEN, TX_BUFFER_MAX_LEN, MIC_ERROR
<1>4. rx_payload_len(Secured(h, p, level), h) = p
  BY <1>1 DEF rx_payload_len, Secured, FCS_LEN
<1>5. Secured(h, p, level).len - FCS_LEN >= h
  BY <1>1 DEF Secured, FCS_LEN
<1>6. Refusal(RxJob(Secured(h, p, level), h)) = "none"
  BY <1>1, <1>2, <1>4 DEF Refusal, RxJob, AllowSize, FCS_LEN, RX_BUFFER_MAX_LEN, MIC_ERROR, Secured
<1>7. rx_aes_802_15_4(Secured(h, p, level), h, max, second, "done") = "OK"
  BY <1>1, <1>4, <1>5, <1>6 DEF rx_aes_802_15_4, dwt_do_aes, EngineEnds, Secured, FCS_LEN, MIC_ERROR
<1> QED BY <1>3, <1>4, <1>7

\* dwt_do_aes: every accepted job fits the two lengths of DMA_CFG1, unless its
\* header is longer than the seven bits the register keeps of it.
THEOREM DmaLengthsAreExact ==
  ASSUME NEW job, job.hlen \in Nat, job.plen \in Nat, job.mic \in {0, 4, 8, 16, MIC_ERROR},
         job.hlen < 128, Refusal(job) = "none"
  PROVE  DmaLengths(job).hlen = job.hlen /\ DmaLengths(job).plen = job.plen
<1>1. ~(job.hlen + job.plen > AllowSize(job) - job.mic - FCS_LEN) /\ job.mic # MIC_ERROR
  BY DEF Refusal
<1>2. AllowSize(job) <= 1024 /\ AllowSize(job) \in Nat
  BY DEF AllowSize, SCRATCH_BUFFER_MAX_LEN, TX_BUFFER_MAX_LEN, RX_BUFFER_MAX_LEN
<1>3. job.plen < 1024
  BY <1>1, <1>2 DEF FCS_LEN, MIC_ERROR
<1> QED BY <1>3 DEF DmaLengths

----------------------------------------------------------------------------
(***************************************************************************)
(* The sketches (Boards)                                                    *)
(***************************************************************************)
Place == {"setup", "loop", "wait", "wait2", "answer", "report", "asleep", "halted", "hung"}
Call == {"idlerc", "devid", "softreset", "initialise", "leds", "configure", "txrf", "antennas", "rxaftertx",
         "rxtimeout", "lnapa", "room", "jobs", "sleep", "aftertx", "interrupt"}
WithSts == example \in {"sts", "nodata"}

\* The settings a board needs in its loop; in the calls it has still to make, what is
\* undone is done again.
Need(n) == Range(SetupOf(n)) \ {"idlerc", "devid", "softreset"}
Redoes(t, need) ==
  \A i \in 1 .. Len(t) : \A x \in Undone(t[i]) \cap need : \E j \in i + 1 .. Len(t) : t[j] = x
SettingUp(n) ==
  /\ todo[n] # <<>> /\ Redoes(todo[n], Need(n))
  /\ \A x \in Need(n) : x \in inForce[n] \/ \E j \in 1 .. Len(todo[n]) : todo[n][j] = x
\* A board that is not configured anew after its sleep lacks no more than dwt_restoreconfig
\* writes again.
Sleeping(n) == example # "sleep" => Need(n) \subseteq inForce[n] \cup Restored
Setups ==
  /\ example \in DOMAIN Sketches /\ pc \in [Node -> Place]
  /\ todo \in [Node -> Seq(Call)] /\ inForce \in [Node -> SUBSET Call]
  /\ \A n \in Node : pc[n] = "setup" => SettingUp(n)
  /\ \A n \in Node : pc[n] = "asleep" => Sleeping(n)
  /\ SetupInForce

\* The parts the two boards play.
Roles ==
  /\ pc.ini \notin {"answer", "report"} /\ pc.res \notin {"wait2", "asleep"}
  /\ example \notin Ranging => pc.ini \notin {"wait", "wait2"} /\ pc.res # "answer"
  /\ pc.ini = "wait2" \/ pc.res = "report" => example = "nodata"
  /\ pc.ini = "asleep" => example \in {"sleep", "autosleep"}

\* The chips of two boards that are at the same point of a round expect the same of a
\* frame: its STS mode, and the counter of the STS where one is used.
Chips ==
  /\ sts \in [Node -> {"ND", "OFF", "on"}] /\ iv \in [Node -> 0 .. 2]
  /\ \A n \in Node : /\ example # "nodata" \/ pc[n] \in {"wait", "answer"} => sts[n] = ConfiguredMode
                     /\ pc[n] \in {"wait2", "report"} => sts[n] = "OFF"
  /\ WithSts => /\ pc.res = "wait" => iv.res = 0
                /\ pc.res = "answer" => iv.res = 1
                /\ pc.ini = "wait" => iv.ini = 1

\* The one frame on the air.
OnAir ==
  [what : {"poll", "answer", "report", "blink"}, sts : {"ND", "OFF", "on"}, iv : 0 .. 2,
   number : 0 .. Counts - 1]
Air ==
  /\ air = {} \/ \E f \in OnAir : air = {f}
  /\ air # {} => pc.res # "answer"
  /\ pc.ini = "wait2" => pc.res # "answer"
  /\ \A f \in air :
       /\ f.what = "blink" <=> example \notin Ranging
       /\ f.what = "report" => f.sts = "OFF" /\ example = "nodata"
       /\ f.what # "report" => f.sts = ConfiguredMode
       /\ f.what = "poll" => pc.ini = "wait" /\ (WithSts => f.iv = 0)
       /\ f.what = "answer" => pc.ini # "wait2" /\ (WithSts => f.iv = 1)

\* A round that no fault has touched goes on: whoever waits is going to be answered.
Round ==
  /\ ~spoiled /\ pc.ini = "wait" =>
       \/ pc.res = "wait" /\ \E f \in air : f.what = "poll"
       \/ pc.res = "answer" /\ air = {}
       \/ (example = "nodata" => pc.res = "report") /\ \E f \in air : f.what = "answer"
  /\ ~spoiled /\ pc.ini = "wait2" =>
       \/ pc.res = "report" /\ air = {}
       \/ \E f \in air : f.what = "report"
  /\ spoiled \in BOOLEAN /\ outcome \in {"none", "ranged", "failed"}
  /\ FailsOnlyIfSpoiled

\* The answer to a poll has the number after the poll's.
Numbers ==
  /\ number \in [Node -> 0 .. Counts - 1] /\ rounds \in 0 .. Counts - 1 /\ faults \in 0 .. Faults
  /\ example = "aes" =>
       /\ number.ini = rounds
       /\ pc.ini = "wait" /\ pc.res = "answer" => number.res = (number.ini + 1) % Counts
       /\ \A f \in air : /\ f.what = "poll" => f.number = number.ini
                         /\ f.what = "answer" /\ pc.ini = "wait" =>
                              f.number = (number.ini + 1) % Counts

BoardsInv == Setups /\ Roles /\ Chips /\ Air /\ Round /\ Numbers


(***************************************************************************)
(* The loops and the setups                                                 *)
(***************************************************************************)
LEMMA Examples ==
  DOMAIN Sketches = Ranging \cup {"tx", "sleep", "autosleep", "selfcheck"}
BY DEF Sketches, Ranging

LEMMA Loops ==
  ASSUME example \in DOMAIN Sketches, NEW n \in Node
  PROVE  LoopOf(n) = IF example = "sts" THEN StsLoop
                     ELSE IF example = "nodata" THEN NoDataLoop
                     ELSE IF example = "aes" THEN AesLoop
                     ELSE IF example = "sleep" /\ n = "ini" THEN TxSleepLoop
                     ELSE IF example = "autosleep" /\ n = "ini" THEN TxSleepAutoLoop
                     ELSE Loop
<1>. USE DEF LoopOf, Sketches, Sketch, Firmware, Node
<1>1. CASE example \in {"hub", "anchor1", "anchor2"}
  BY <1>1 DEF Tag, HubLoop, Anchor1Loop, Anchor2Loop, TagLoop
<1>2. CASE example = "plain"
  BY <1>2 DEF InitiatorLoop, ResponderLoop
<1>3. CASE example = "sts"
  BY <1>3 DEF StsInitiatorLoop, StsResponderLoop
<1>4. CASE example = "nodata"
  BY <1>4 DEF NoDataInitiatorLoop, NoDataResponderLoop
<1>5. CASE example = "aes"
  BY <1>5 DEF AesInitiatorLoop, AesResponderLoop
<1>6. CASE example = "tx"
  BY <1>6 DEF TxLoop, Receiver, RxLoop
<1>7. CASE example \in {"sleep", "autosleep"}
  BY <1>7 DEF Receiver, RxLoop
<1>8. CASE example = "selfcheck"
  BY <1>8 DEF SelfCheck, DiagnosticLoop, Receiver, RxLoop
<1>. QED
  BY <1>1, <1>2, <1>3, <1>4, <1>5, <1>6, <1>7, <1>8, Examples DEF Ranging

LEMMA LoopFields ==
  ASSUME example \in DOMAIN Sketches, NEW n \in Node
  PROVE  /\ LoopOf(n).mode = IF example = "nodata" THEN "ND" ELSE "kept"
         /\ LoopOf(n).reloads <=> WithSts
         /\ LoopOf(n).data = (example # "nodata")
         /\ LoopOf(n).numbers = (example = "aes")
         /\ LoopOf(n).stray = IF example = "aes" THEN "hung" ELSE "loop"
         /\ LoopOf("ini").rest = "configured" <=> example = "sleep"
         /\ LoopOf("ini").rest # "loop" => example \in {"sleep", "autosleep"}
<1>2. /\ Loop.mode = "kept" /\ Loop.reloads = FALSE /\ Loop.data = TRUE
      /\ Loop.stray = "loop" /\ Loop.numbers = FALSE /\ Loop.rest = "loop"
  BY DEF Loop
<1>3. /\ TxSleepLoop.mode = "kept" /\ TxSleepLoop.reloads = FALSE /\ TxSleepLoop.data = TRUE
      /\ TxSleepLoop.stray = "loop" /\ TxSleepLoop.numbers = FALSE /\ TxSleepLoop.rest = "configured"
  BY DEF TxSleepLoop, Loop
<1>4. /\ TxSleepAutoLoop.mode = "kept" /\ TxSleepAutoLoop.reloads = FALSE /\ TxSleepAutoLoop.data = TRUE
      /\ TxSleepAutoLoop.stray = "loop" /\ TxSleepAutoLoop.numbers = FALSE
      /\ TxSleepAutoLoop.rest = "restored"
  BY DEF TxSleepAutoLoop, Loop
<1>5. /\ StsLoop.mode = "kept" /\ StsLoop.reloads = TRUE /\ StsLoop.data = TRUE
      /\ StsLoop.stray = "loop" /\ StsLoop.numbers = FALSE /\ StsLoop.rest = "loop"
  BY DEF StsLoop, Loop
<1>6. /\ AesLoop.mode = "kept" /\ AesLoop.reloads = FALSE /\ AesLoop.data = TRUE
      /\ AesLoop.stray = "hung" /\ AesLoop.numbers = TRUE /\ AesLoop.rest = "loop"
  BY DEF AesLoop, Loop
<1>7. /\ NoDataLoop.mode = "ND" /\ NoDataLoop.reloads = TRUE /\ NoDataLoop.data = FALSE
      /\ NoDataLoop.stray = "loop" /\ NoDataLoop.numbers = FALSE /\ NoDataLoop.rest = "loop"
  BY DEF NoDataLoop, StsLoop, Loop
<1>8. "ini" \in Node
  BY DEF Node
<1>. QED
  <2>1. LoopOf(n).mode = IF example = "nodata" THEN "ND" ELSE "kept"
    BY <1>2, <1>3, <1>4, <1>5, <1>6, <1>7, Loops
  <2>2. LoopOf(n).stray = IF example = "aes" THEN "hung" ELSE "loop"
    BY <1>2, <1>3, <1>4, <1>5, <1>6, <1>7, Loops
  <2>3. LoopOf(n).reloads <=> WithSts
    BY <1>2, <1>3, <1>4, <1>5, <1>6, <1>7, Loops DEF WithSts
  <2>4. LoopOf(n).data = (example # "nodata")
    BY <1>2, <1>3, <1>4, <1>5, <1>6, <1>7, Loops
  <2>5. LoopOf(n).numbers = (example = "aes")
    BY <1>2, <1>3, <1>4, <1>5, <1>6, <1>7, Loops
  <2>6. /\ LoopOf("ini").rest = "configured" <=> example = "sleep"
        /\ LoopOf("ini").rest # "loop" => example \in {"sleep", "autosleep"}
    BY <1>2, <1>3, <1>4, <1>5, <1>6, <1>7, <1>8, Loops
  <2>. QED
    BY <2>1, <2>2, <2>3, <2>4, <2>5, <2>6

\* The calls after Start, and a setup that is Start and such calls.
After4(t) ==
  /\ t \in Seq(Call) /\ t # <<>>
  /\ t[1] = "txrf" /\ \A j \in 1 .. Len(t) : t[j] \notin {"initialise", "configure", "softreset"}

LEMMA ConcatAt ==
  ASSUME NEW S, NEW s1 \in Seq(S), NEW s2 \in Seq(S)
  PROVE  /\ s1 \o s2 \in Seq(S) /\ Len(s1 \o s2) = Len(s1) + Len(s2)
         /\ \A i \in 1 .. Len(s1) : (s1 \o s2)[i] = s1[i]
         /\ \A i \in 1 .. Len(s2) : (s1 \o s2)[Len(s1) + i] = s2[i]
<1>1. /\ s1 \o s2 \in Seq(S) /\ Len(s1 \o s2) = Len(s1) + Len(s2)
      /\ \A i \in 1 .. Len(s1) + Len(s2) :
           (s1 \o s2)[i] = IF i <= Len(s1) THEN s1[i] ELSE s2[i - Len(s1)]
  BY SMT, ConcatProperties
<1>. QED
  BY <1>1

LEMMA CallsAt ==
  \A s1 \in Seq(Call) : \A s2 \in Seq(Call) :
    /\ s1 \o s2 \in Seq(Call)
    /\ Len(s1 \o s2) = Len(s1) + Len(s2)
    /\ \A i \in 1 .. Len(s1) : (s1 \o s2)[i] = s1[i]
    /\ \A i \in 1 .. Len(s2) : (s1 \o s2)[Len(s1) + i] = s2[i]
<1>1. ASSUME NEW s1 \in Seq(Call), NEW s2 \in Seq(Call)
      PROVE  /\ s1 \o s2 \in Seq(Call)
             /\ Len(s1 \o s2) = Len(s1) + Len(s2)
             /\ \A i \in 1 .. Len(s1) : (s1 \o s2)[i] = s1[i]
             /\ \A i \in 1 .. Len(s2) : (s1 \o s2)[Len(s1) + i] = s2[i]
  BY ConcatAt
<1>. QED
  BY <1>1

LEMMA StartRedoes ==
  ASSUME NEW t, After4(t)
  PROVE  /\ Start \o t \in Seq(Call) /\ Start \o t # <<>>
         /\ Redoes(Start \o t, Range(Start \o t))
<1>. DEFINE s == Start \o t
<1>1. /\ Start \in Seq(Call) /\ Len(Start) = 4
      /\ Start[1] = "idlerc" /\ Start[2] = "initialise" /\ Start[3] = "leds" /\ Start[4] = "configure"
  BY DEF Start, Call
<1>2. t \in Seq(Call) /\ Len(t) \in Nat \ {0}
  BY DEF After4
<1>3. /\ s \in Seq(Call) /\ Len(s) = 4 + Len(t)
      /\ \A i \in 1 .. 4 : s[i] = Start[i]
      /\ \A i \in 1 .. Len(t) : s[4 + i] = t[i]
  <2>1. /\ Start \o t \in Seq(Call) /\ Len(Start \o t) = Len(Start) + Len(t)
        /\ \A i \in 1 .. Len(Start) : (Start \o t)[i] = Start[i]
        /\ \A i \in 1 .. Len(t) : (Start \o t)[Len(Start) + i] = t[i]
    <3>. HIDE DEF s
    <3>. QED
      BY <1>1, <1>2, CallsAt, Zenon
  <2>. QED
    BY <1>1, <2>1
<1>. HIDE DEF s
<1>4. \A i \in 5 .. Len(s) : s[i] \notin {"initialise", "configure", "softreset"}
  <2>1. ASSUME NEW i \in 5 .. Len(s) PROVE s[i] \notin {"initialise", "configure", "softreset"}
    <3>1. i - 4 \in 1 .. Len(t) /\ 4 + (i - 4) = i
      BY <1>2, <1>3
    <3>. QED
      BY <1>3, <3>1 DEF After4
  <2>. QED
    BY <2>1
<1>5. s[5] = "txrf" /\ 5 \in 1 .. Len(s)
  <2>1. 1 \in 1 .. Len(t) /\ 4 + 1 = 5
    BY <1>2
  <2>. QED
    BY <1>2, <1>3, <2>1 DEF After4
<1>6. s[1] = "idlerc" /\ s[2] = "initialise" /\ s[3] = "leds" /\ s[4] = "configure"
  BY <1>1, <1>3
<1>7. ASSUME NEW i \in 1 .. Len(s), NEW x \in Undone(s[i]) \cap Range(s)
      PROVE  \E j \in i + 1 .. Len(s) : s[j] = x
  <2>1. \/ i = 2 /\ x \in {"sleep", "configure"}
        \/ i = 4 /\ x \in {"txrf", "sleep"}
    <3>1. i \in {1, 2, 3, 4} \/ i \in 5 .. Len(s)
      BY <1>3
    <3>2. s[i] \in {"initialise", "configure", "softreset"}
      BY DEF Undone
    <3>3. i = 2 \/ i = 4
      BY <1>4, <1>6, <3>1, <3>2
    <3>. QED
      BY <1>6, <3>3 DEF Undone
  <2>2. PICK k \in 1 .. Len(s) : s[k] = x
    <3>1. DOMAIN s = 1 .. Len(s)
      BY <1>3
    <3>. QED
      BY <3>1 DEF Range
  <2>3. x = "sleep" => k \in 5 .. Len(s)
    BY <1>3, <1>6, <2>2
  <2>. QED
    BY <1>3, <1>5, <1>6, <2>1, <2>2, <2>3
<1>8. s # <<>>
  BY <1>5
<1>. QED
  BY <1>3, <1>7, <1>8 DEF Redoes, s

LEMMA Tails ==
  /\ After4(<<"txrf", "lnapa", "sleep">>)
  /\ After4(<<"txrf", "sleep", "aftertx", "interrupt">>)
  /\ After4(<<"txrf", "antennas", "lnapa">>)
  /\ After4(<<"txrf", "antennas", "lnapa", "jobs">>)
  /\ After4(<<"txrf", "antennas", "rxtimeout", "lnapa">>)
  /\ After4(<<"txrf", "antennas", "rxaftertx", "rxtimeout", "lnapa">>)
  /\ After4(<<"txrf", "antennas", "rxaftertx", "rxtimeout", "lnapa", "room">>)
  /\ After4(<<"txrf", "antennas", "rxaftertx", "rxtimeout", "lnapa", "jobs">>)
<1>. USE DEF After4, Call
<1>2. After4(<<"txrf", "lnapa", "sleep">>)
  OBVIOUS
<1>3. After4(<<"txrf", "sleep", "aftertx", "interrupt">>)
  OBVIOUS
<1>4. After4(<<"txrf", "antennas", "lnapa">>)
  OBVIOUS
<1>5. After4(<<"txrf", "antennas", "lnapa", "jobs">>)
  OBVIOUS
<1>6. After4(<<"txrf", "antennas", "rxtimeout", "lnapa">>)
  OBVIOUS
<1>7. After4(<<"txrf", "antennas", "rxaftertx", "rxtimeout", "lnapa">>)
  OBVIOUS
<1>8. After4(<<"txrf", "antennas", "rxaftertx", "rxtimeout", "lnapa", "room">>)
  OBVIOUS
<1>9. After4(<<"txrf", "antennas", "rxaftertx", "rxtimeout", "lnapa", "jobs">>)
  OBVIOUS
<1>. HIDE DEF After4, Call
<1>. QED
  BY <1>2, <1>3, <1>4, <1>5, <1>6, <1>7, <1>8, <1>9

\* A setup that makes up for what it undoes.
Good(t, need) == t \in Seq(Call) /\ t # <<>> /\ Redoes(t, need)
Fine(t) == Good(t, Range(t))

LEMMA FineIsGood ==
  ASSUME NEW t, NEW need, Fine(t), need \subseteq Range(t)
  PROVE  Good(t, need)
BY DEF Fine, Good, Redoes

\* The other setups, call by call.
LEMMA TxSetupIsGood ==
  /\ Good(TxSetup, {"initialise", "leds", "configure", "txrf"})
  /\ Len(TxSetup) = 7
  /\ \A i \in 1 .. 7 : TxSetup[i] \in {"idlerc", "softreset", "initialise", "leds", "configure", "txrf"}
<1>1. /\ Restart \in Seq(Call) /\ Len(Restart) = 6
      /\ Restart[1] = "idlerc" /\ Restart[2] = "softreset" /\ Restart[3] = "idlerc"
      /\ Restart[4] = "initialise" /\ Restart[5] = "leds" /\ Restart[6] = "configure"
  BY DEF Restart, Call
<1>2. <<"txrf">> \in Seq(Call) /\ Len(<<"txrf">>) = 1 /\ <<"txrf">>[1] = "txrf"
  BY DEF Call
<1>3. /\ TxSetup \in Seq(Call) /\ Len(TxSetup) = 7
      /\ TxSetup[7] = "txrf"
      /\ \A i \in 1 .. 6 : TxSetup[i] = Restart[i]
  <2>. DEFINE t == <<"txrf">>
  <2>1. /\ t \in Seq(Call) /\ Len(t) = 1 /\ t[1] = "txrf" /\ TxSetup = Restart \o t
    BY <1>2 DEF TxSetup
  <2>. HIDE DEF t
  <2>2. /\ Restart \o t \in Seq(Call) /\ Len(Restart \o t) = Len(Restart) + Len(t)
        /\ \A i \in 1 .. Len(Restart) : (Restart \o t)[i] = Restart[i]
        /\ \A i \in 1 .. Len(t) : (Restart \o t)[Len(Restart) + i] = t[i]
    BY <1>1, <2>1, CallsAt, Zenon
  <2>3. TxSetup[6 + 1] = t[1]
    BY <1>1, <2>1, <2>2
  <2>. QED
    BY <1>1, <2>1, <2>2, <2>3
<1>4. /\ TxSetup[1] = "idlerc" /\ TxSetup[2] = "softreset" /\ TxSetup[3] = "idlerc"
      /\ TxSetup[4] = "initialise" /\ TxSetup[5] = "leds" /\ TxSetup[6] = "configure"
  BY <1>1, <1>3
<1>5. TxSetup # <<>>
  <2>1. \A q \in Seq(Call) : Len(q) = 7 => q # <<>>
    OBVIOUS
  <2>. QED
    BY <1>3, <2>1, Zenon
<1>6. Redoes(TxSetup, {"initialise", "leds", "configure", "txrf"})
  BY <1>3, <1>4 DEF Redoes, Undone
<1>. QED
  BY <1>3, <1>4, <1>5, <1>6 DEF Good

LEMMA RxSetupIsGood == Good(RxSetup, {"initialise", "leds", "configure"})
<1>1. RxSetup \in Seq(Call) /\ RxSetup # <<>> /\ Len(RxSetup) = 5
  BY DEF Call, RxSetup
<1>. QED
  BY <1>1 DEF Good, Redoes, Undone, RxSetup

LEMMA DiagnosticIsGood == Fine(Diagnostic)
<1>1. Diagnostic \in Seq(Call) /\ Diagnostic # <<>> /\ Len(Diagnostic) = 5
  BY DEF Call, Diagnostic
<1>2. \A i \in 1 .. 5 : Diagnostic[i] # "sleep"
  BY DEF Diagnostic
<1>3. DOMAIN Diagnostic = 1 .. 5
  BY DEF Diagnostic
<1>4. "sleep" \notin Range(Diagnostic)
  BY <1>2, <1>3 DEF Range
<1>. QED
  BY <1>1, <1>4 DEF Fine, Good, Redoes, Undone, Diagnostic

LEMMA NoDataIsGood ==
  Fine(NoDataInitiatorSetup) /\ Fine(NoDataResponderSetup)
<1>1. NoDataInitiatorSetup \in Seq(Call) /\ NoDataInitiatorSetup # <<>> /\ Len(NoDataInitiatorSetup) = 7
  BY DEF Call, NoDataInitiatorSetup
<1>2. NoDataResponderSetup = NoDataInitiatorSetup
  BY DEF NoDataInitiatorSetup, NoDataResponderSetup
<1>3. \A i \in 1 .. 7 : NoDataInitiatorSetup[i] # "sleep"
  BY DEF NoDataInitiatorSetup
<1>4. DOMAIN NoDataInitiatorSetup = 1 .. 7
  BY DEF NoDataInitiatorSetup
<1>5. "sleep" \notin Range(NoDataInitiatorSetup)
  BY <1>3, <1>4 DEF Range
<1>. QED
  BY <1>1, <1>2, <1>5 DEF Fine, Good, Redoes, Undone, NoDataInitiatorSetup

\* The setups that begin with Start.
LEMMA StartersAreGood ==
  /\ Fine(HubSetup) /\ Fine(Anchor1Setup) /\ Fine(Anchor2Setup)
  /\ Fine(TagSetup) /\ Fine(InitiatorSetup) /\ Fine(ResponderSetup)
  /\ Fine(StsInitiatorSetup) /\ Fine(StsResponderSetup)
  /\ Fine(AesInitiatorSetup) /\ Fine(AesResponderSetup)
  /\ Fine(TxSleepSetup) /\ Fine(TxSleepAutoSetup)
<1>1. \A t : After4(t) => Fine(Start \o t)
  BY StartRedoes DEF Fine, Good
<1>2. Fine(HubSetup)
  BY <1>1, Tails DEF HubSetup
<1>3. Fine(Anchor1Setup) /\ Fine(Anchor2Setup) /\ Fine(InitiatorSetup)
  BY <1>1, Tails DEF Anchor1Setup, Anchor2Setup, InitiatorSetup
<1>4. Fine(TagSetup) /\ Fine(ResponderSetup) /\ Fine(StsResponderSetup)
  BY <1>1, Tails DEF TagSetup, ResponderSetup, StsResponderSetup
<1>5. Fine(StsInitiatorSetup)
  BY <1>1, Tails DEF StsInitiatorSetup
<1>6. Fine(AesInitiatorSetup)
  BY <1>1, Tails DEF AesInitiatorSetup
<1>7. Fine(AesResponderSetup)
  BY <1>1, Tails DEF AesResponderSetup
<1>8. Fine(TxSleepSetup)
  BY <1>1, Tails DEF TxSleepSetup
<1>9. Fine(TxSleepAutoSetup)
  BY <1>1, Tails DEF TxSleepAutoSetup
<1>. QED
  BY <1>2, <1>3, <1>4, <1>5, <1>6, <1>7, <1>8, <1>9

LEMMA SetupIsGood ==
  ASSUME example \in DOMAIN Sketches, NEW n \in Node
  PROVE  Good(SetupOf(n), Need(n))
<1>. DEFINE mine == SetupOf(n)
<1>0. Fine(mine) => Good(mine, Need(n))
  <2>1. Need(n) \subseteq Range(mine)
    BY DEF Need
  <2>. QED
    BY <2>1, FineIsGood
<1>1. CASE example \in {"hub", "anchor1", "anchor2"}
  <2>1. SetupOf(n) \in {HubSetup, Anchor1Setup, Anchor2Setup, TagSetup}
    BY <1>1 DEF SetupOf, Sketches, Firmware, Node, Tag
  <2>. QED
    BY <1>0, <2>1, StartersAreGood
<1>2. CASE example = "plain"
  <2>1. SetupOf(n) \in {InitiatorSetup, ResponderSetup}
    BY <1>2 DEF SetupOf, Sketches, Sketch, Node
  <2>. QED
    BY <1>0, <2>1, StartersAreGood
<1>3. CASE example = "sts"
  <2>1. SetupOf(n) \in {StsInitiatorSetup, StsResponderSetup}
    BY <1>3 DEF SetupOf, Sketches, Sketch, Node
  <2>. QED
    BY <1>0, <2>1, StartersAreGood
<1>4. CASE example = "nodata"
  BY <1>0, <1>4, NoDataIsGood DEF SetupOf, Sketches, Sketch, Node
<1>5. CASE example = "aes"
  <2>1. SetupOf(n) \in {AesInitiatorSetup, AesResponderSetup}
    BY <1>5 DEF SetupOf, Sketches, Sketch, Node
  <2>. QED
    BY <1>0, <2>1, StartersAreGood
<1>6. CASE example \in {"tx", "sleep", "autosleep", "selfcheck"} /\ n = "res"
  <2>1. SetupOf(n) = RxSetup
    BY <1>6 DEF SetupOf, Sketches, Sketch, Receiver
  <2>2. \A i \in 1 .. 5 : RxSetup[i] \in {"idlerc", "softreset", "initialise", "leds", "configure"}
    BY DEF RxSetup
  <2>3. DOMAIN RxSetup = 1 .. 5
    BY DEF RxSetup
  <2>4. Need(n) \subseteq {"initialise", "leds", "configure"}
    BY <2>1, <2>2, <2>3 DEF Need, Range
  <2>. QED
    BY <2>1, <2>4, RxSetupIsGood DEF Good, Redoes
<1>7. CASE example = "tx" /\ n = "ini"
  <2>1. SetupOf(n) = TxSetup
    BY <1>7 DEF SetupOf, Sketches, Sketch
  <2>2. DOMAIN TxSetup = 1 .. 7
    BY TxSetupIsGood DEF Good
  <2>4. Need(n) \subseteq {"initialise", "leds", "configure", "txrf"}
    BY <2>1, <2>2, TxSetupIsGood DEF Need, Range
  <2>. QED
    BY <2>1, <2>4, TxSetupIsGood DEF Good, Redoes
<1>8. CASE example \in {"sleep", "autosleep"} /\ n = "ini"
  <2>1. SetupOf(n) \in {TxSleepSetup, TxSleepAutoSetup}
    BY <1>8 DEF SetupOf, Sketches, Sketch
  <2>. QED
    BY <1>0, <2>1, StartersAreGood
<1>9. CASE example = "selfcheck" /\ n = "ini"
  BY <1>0, <1>9, DiagnosticIsGood DEF SetupOf, Sketches, SelfCheck
<1>. QED
  BY <1>1, <1>2, <1>3, <1>4, <1>5, <1>6, <1>7, <1>8, <1>9, Examples DEF Ranging, Node

\* What the calls of a board's setup are, and what it needs.
LEMMA SetupFacts ==
  ASSUME example \in DOMAIN Sketches, NEW n \in Node
  PROVE  /\ SetupOf(n) \in Seq(Call) /\ SetupOf(n) # <<>>
         /\ Redoes(SetupOf(n), Need(n))
         /\ \A x \in Need(n) : \E j \in 1 .. Len(SetupOf(n)) : SetupOf(n)[j] = x
<1>1. SetupOf(n) \in Seq(Call) /\ SetupOf(n) # <<>> /\ Redoes(SetupOf(n), Need(n))
  BY SetupIsGood DEF Good
<1>2. DOMAIN SetupOf(n) = 1 .. Len(SetupOf(n))
  BY <1>1
<1>3. \A x \in Need(n) : \E j \in 1 .. Len(SetupOf(n)) : SetupOf(n)[j] = x
  BY <1>2 DEF Need, Range
<1>. QED
  BY <1>1, <1>3

----------------------------------------------------------------------------
(***************************************************************************)
(* The setups                                                               *)
(***************************************************************************)
\* A step after which no board is at another place of its setup keeps what is in force.
LEMMA SetupsKept ==
  ASSUME Setups, UNCHANGED <<example, todo, inForce>>, pc' \in [Node -> Place],
         \A n \in Node : \/ pc'[n] \in {pc[n], "halted"}
                         \/ pc[n] \notin {"setup", "asleep", "halted"} /\ pc'[n] \notin {"setup", "asleep"}
  PROVE  Setups'
<1>1. \A n \in Node : Need(n)' = Need(n) /\ SetupOf(n)' = SetupOf(n)
  BY DEF Need, SetupOf
<1>2. \A n \in Node : pc'[n] = "setup" => SettingUp(n)'
  BY <1>1, ZenonT(40) DEF Setups, SettingUp
<1>3. SetupInForce'
  BY <1>1 DEF Setups, SetupInForce, Need
<1>4. \A n \in Node : pc'[n] = "asleep" => Sleeping(n)'
  BY <1>1, ZenonT(40) DEF Setups, Sleeping
<1>. QED
  BY <1>2, <1>3, <1>4 DEF Setups

\* Nor does one that begins a setup, or a part of it that needs no more.
LEMMA SetupsBegun ==
  ASSUME Setups, NEW n \in Node, example' = example,
         NEW calls \in Seq(Call), calls # <<>>, Redoes(calls, Need(n)),
         \A x \in Need(n) : x \in inForce'[n] \/ \E j \in 1 .. Len(calls) : calls[j] = x,
         pc' = [pc EXCEPT ![n] = "setup"], todo' = [todo EXCEPT ![n] = calls],
         inForce' \in [Node -> SUBSET Call], \A m \in Node \ {n} : inForce'[m] = inForce[m]
  PROVE  Setups'
<1>1. \A m \in Node : Need(m)' = Need(m) /\ SetupOf(m)' = SetupOf(m)
  BY DEF Need, SetupOf
<1>2. \A x \in Need(n) : x \in inForce'[n] \/ \E j \in 1 .. Len(calls) : calls[j] = x
  OBVIOUS
<1>3. /\ pc \in [Node -> Place] /\ todo \in [Node -> Seq(Call)]
      /\ "setup" \in Place
  BY DEF Setups, Place
<1>4. /\ pc'[n] = "setup" /\ \A m \in Node \ {n} : pc'[m] = pc[m] /\ todo'[m] = todo[m]
      /\ todo'[n] = calls /\ todo' \in [Node -> Seq(Call)] /\ pc' \in [Node -> Place]
  BY <1>2, <1>3, Zenon
<1>5. SettingUp(n)'
  BY <1>1, <1>2, <1>4, Zenon DEF SettingUp
<1>6. \A m \in Node \ {n} : pc'[m] = "setup" => SettingUp(m)'
  <2>1. SUFFICES ASSUME NEW m \in Node \ {n}, pc'[m] = "setup" PROVE SettingUp(m)'
    OBVIOUS
  <2>2. m \in Node /\ m # n
    OBVIOUS
  <2>3. pc[m] = "setup" /\ todo'[m] = todo[m] /\ inForce'[m] = inForce[m] /\ Need(m)' = Need(m)
    BY <1>1, <1>4, <2>1, <2>2, Zenon
  <2>4. SettingUp(m)
    BY <2>2, <2>3, Zenon DEF Setups
  <2>. QED
    BY <2>3, <2>4, Zenon DEF SettingUp
<1>7. SetupInForce'
  BY <1>1, <1>4 DEF Setups, SetupInForce, Need
<1>8. \A m \in Node : pc'[m] = "asleep" => Sleeping(m)'
  BY <1>1, <1>4, SMTT(40) DEF Setups, Sleeping
<1>. QED
  BY <1>4, <1>5, <1>6, <1>7, <1>8, Zenon DEF Setups

\* Nor does one after which a board is in its loop, or asleep, with what it needs there.
LEMMA SetupsRest ==
  ASSUME Setups, NEW n \in Node, UNCHANGED <<example, todo>>, pc' \in [Node -> Place],
         pc'[n] \in {"loop", "asleep"},
         pc'[n] = "loop" => Need(n) \subseteq inForce'[n],
         pc'[n] = "asleep" /\ example # "sleep" => Need(n) \subseteq inForce'[n] \cup Restored,
         inForce' \in [Node -> SUBSET Call],
         \A m \in Node \ {n} : inForce'[m] = inForce[m] /\ pc'[m] = pc[m]
  PROVE  Setups'
<1>1. \A m \in Node : Need(m)' = Need(m) /\ SetupOf(m)' = SetupOf(m)
  BY DEF Need, SetupOf
<1>2. \A m \in Node : pc'[m] = "setup" => SettingUp(m)'
  <2>1. SUFFICES ASSUME NEW m \in Node, pc'[m] = "setup" PROVE SettingUp(m)'
    OBVIOUS
  <2>2. m # n /\ pc[m] = "setup" /\ todo' = todo /\ inForce'[m] = inForce[m] /\ Need(m)' = Need(m)
    BY <1>1, <2>1
  <2>3. SettingUp(m)
    BY <2>2, Zenon DEF Setups
  <2>. QED
    BY <2>2, <2>3, Zenon DEF SettingUp
<1>3. SetupInForce'
  BY <1>1 DEF Setups, SetupInForce, Need
<1>4. \A m \in Node : pc'[m] = "asleep" => Sleeping(m)'
  <2>1. SUFFICES ASSUME NEW m \in Node, pc'[m] = "asleep" PROVE Sleeping(m)'
    OBVIOUS
  <2>2. CASE m = n
    BY <1>1, <2>1, <2>2, Zenon DEF Sleeping, Restored
  <2>3. CASE m # n
    <3>1. pc[m] = "asleep" /\ inForce'[m] = inForce[m] /\ Need(m)' = Need(m)
      BY <1>1, <2>1, <2>3
    <3>2. Sleeping(m)
      BY <3>1, Zenon DEF Setups
    <3>. QED
      BY <3>1, <3>2, Zenon DEF Sleeping
  <2>. QED
    BY <2>2, <2>3
<1>. QED
  BY <1>2, <1>3, <1>4, Zenon DEF Setups

LEMMA SetupsBegunAnew ==
  ASSUME Setups, NEW n \in Node, example' = example,
         pc' = [pc EXCEPT ![n] = "setup"], todo' = [todo EXCEPT ![n] = SetupOf(n)],
         inForce' \in [Node -> SUBSET Call], \A m \in Node \ {n} : inForce'[m] = inForce[m]
  PROVE  Setups'
<1>1. example \in DOMAIN Sketches
  BY DEF Setups
<1>2. /\ SetupOf(n) \in Seq(Call) /\ SetupOf(n) # <<>> /\ Redoes(SetupOf(n), Need(n))
      /\ \A x \in Need(n) : x \in inForce'[n] \/ \E j \in 1 .. Len(SetupOf(n)) : SetupOf(n)[j] = x
  BY <1>1, SetupFacts
<1>. QED
  BY <1>2, SetupsBegun

LEMMA SetupsConfigured ==
  ASSUME Setups, NEW n \in Node, Configured(n)
  PROVE  Setups'
<1>. DEFINE t == todo[n]
<1>1. /\ pc \in [Node -> Place] /\ todo \in [Node -> Seq(Call)] /\ inForce \in [Node -> SUBSET Call]
      /\ pc[n] = "setup" /\ SettingUp(n) /\ example' = example
  BY DEF Setups, Configured
<1>2. /\ t \in Seq(Call) /\ t # <<>> /\ Len(t) \in Nat \ {0} /\ Head(t) = t[1] /\ t[1] \in Call
      /\ Tail(t) \in Seq(Call) /\ Len(Tail(t)) = Len(t) - 1
      /\ \A i \in 1 .. Len(t) - 1 : Tail(t)[i] = t[i + 1]
  <2>1. t \in Seq(Call) /\ t # <<>>
    BY <1>1 DEF SettingUp
  <2>. HIDE DEF t
  <2>2. \A s \in Seq(Call) : s # <<>> =>
          /\ Len(s) \in Nat \ {0} /\ Head(s) = s[1] /\ s[1] \in Call
          /\ Tail(s) \in Seq(Call) /\ Len(Tail(s)) = Len(s) - 1
          /\ \A i \in 1 .. Len(s) - 1 : Tail(s)[i] = s[i + 1]
    BY SMT
  <2>. QED
    BY <2>1, <2>2
<1>3. /\ Redoes(t, Need(n))
      /\ \A x \in Need(n) : x \in inForce[n] \/ \E j \in 1 .. Len(t) : t[j] = x
  BY <1>1 DEF SettingUp
<1>4. /\ todo' = [todo EXCEPT ![n] = Tail(t)]
      /\ inForce' = [inForce EXCEPT ![n] = (inForce[n] \ Undone(t[1])) \cup {t[1]}]
      /\ pc' = [pc EXCEPT ![n] = IF Len(t) = 1 THEN "loop" ELSE pc[n]]
  BY <1>2 DEF Configured
<1>. HIDE DEF t
<1>5. /\ pc' \in [Node -> Place] /\ todo' \in [Node -> Seq(Call)] /\ inForce' \in [Node -> SUBSET Call]
  <2>1. "loop" \in Place
    BY DEF Place
  <2>2. (inForce[n] \ Undone(t[1])) \cup {t[1]} \in SUBSET Call
    BY <1>1, <1>2
  <2>. QED
    BY <1>1, <1>2, <1>4, <2>1, <2>2
<1>6. \A m \in Node : Need(m)' = Need(m) /\ SetupOf(m)' = SetupOf(m)
  BY <1>1 DEF Need, SetupOf
<1>7. \A m \in Node \ {n} : pc'[m] = pc[m] /\ todo'[m] = todo[m] /\ inForce'[m] = inForce[m]
  BY <1>1, <1>4
<1>8. /\ todo'[n] = Tail(t) /\ inForce'[n] = (inForce[n] \ Undone(t[1])) \cup {t[1]}
      /\ pc'[n] = IF Len(t) = 1 THEN "loop" ELSE "setup"
  BY <1>1, <1>4
<1>9. \A x \in Need(n) : x \in inForce'[n] \/ \E j \in 1 .. Len(t) - 1 : Tail(t)[j] = x
  <2>1. SUFFICES ASSUME NEW x \in Need(n), x \notin inForce'[n]
                 PROVE  \E j \in 1 .. Len(t) - 1 : Tail(t)[j] = x
    OBVIOUS
  <2>2. x # t[1] /\ (x \in inForce[n] => x \in Undone(t[1]))
    BY <1>8, <2>1
  <2>3. PICK k \in 2 .. Len(t) : t[k] = x
    <3>1. CASE x \in inForce[n]
      BY <1>2, <1>3, <2>2, <3>1 DEF Redoes
    <3>2. CASE x \notin inForce[n]
      BY <1>2, <1>3, <2>2, <3>2
    <3>. QED
      BY <3>1, <3>2
  <2>4. k - 1 \in 1 .. Len(t) - 1 /\ (k - 1) + 1 = k
    BY <1>2
  <2>. QED
    BY <1>2, <2>3, <2>4
<1>10. Redoes(Tail(t), Need(n))
  <2>1. SUFFICES ASSUME NEW i \in 1 .. Len(t) - 1, NEW x \in Undone(Tail(t)[i]) \cap Need(n)
                 PROVE  \E j \in i + 1 .. Len(t) - 1 : Tail(t)[j] = x
    BY <1>2, ZenonT(40) DEF Redoes
  <2>2. i + 1 \in 1 .. Len(t) /\ Tail(t)[i] = t[i + 1]
    BY <1>2
  <2>3. PICK k \in i + 2 .. Len(t) : t[k] = x
    <3>1. \E k \in (i + 1) + 1 .. Len(t) : t[k] = x
      BY <1>3, <2>1, <2>2 DEF Redoes
    <3>2. (i + 1) + 1 = i + 2
      OBVIOUS
    <3>. QED
      BY <3>1, <3>2
  <2>4. k - 1 \in 1 .. Len(t) - 1 /\ k - 1 \in i + 1 .. Len(t) - 1 /\ (k - 1) + 1 = k
    BY <1>2
  <2>. QED
    BY <1>2, <2>3, <2>4
<1>11. pc'[n] = "setup" => SettingUp(n)'
  <2>1. SUFFICES ASSUME pc'[n] = "setup" PROVE SettingUp(n)'
    OBVIOUS
  <2>2. Len(t) # 1
    BY <1>8, <2>1
  <2>3. Tail(t) # <<>>
    <3>1. \A s \in Seq(Call) : s = <<>> => Len(s) = 0
      OBVIOUS
    <3>2. Len(Tail(t)) # 0
      BY <1>2, <2>2
    <3>. QED
      BY <1>2, <3>1, <3>2, Zenon
  <2>4. \A x \in Need(n) : x \in inForce'[n] \/ \E j \in 1 .. Len(Tail(t)) : Tail(t)[j] = x
    BY <1>2, <1>9
  <2>. QED
    BY <1>6, <1>8, <1>10, <2>3, <2>4, Zenon DEF SettingUp
<1>12. pc'[n] # "setup" => Need(n) \subseteq inForce'[n]
  <2>1. SUFFICES ASSUME pc'[n] # "setup" PROVE Need(n) \subseteq inForce'[n]
    OBVIOUS
  <2>2. Len(t) = 1
    BY <1>8, <2>1
  <2>3. 1 .. Len(t) - 1 = {}
    BY <2>2
  <2>. QED
    BY <1>9, <2>3
<1>13. \A m \in Node \ {n} : pc'[m] = "setup" => SettingUp(m)'
  <2>1. SUFFICES ASSUME NEW m \in Node \ {n}, pc'[m] = "setup" PROVE SettingUp(m)'
    OBVIOUS
  <2>2. m \in Node /\ m # n
    OBVIOUS
  <2>3. pc[m] = "setup" /\ todo'[m] = todo[m] /\ inForce'[m] = inForce[m] /\ Need(m)' = Need(m)
    BY <1>6, <1>7, <2>1, <2>2, Zenon
  <2>4. SettingUp(m)
    BY <2>2, <2>3, Zenon DEF Setups
  <2>. QED
    BY <2>3, <2>4, Zenon DEF SettingUp
<1>14. SetupInForce'
  BY <1>6, <1>7, <1>12, Zenon DEF Setups, SetupInForce, Need
<1>15. \A m \in Node : pc'[m] = "asleep" => Sleeping(m)'
  BY <1>1, <1>6, <1>7, <1>8, SMTT(40) DEF Setups, Sleeping
<1>. QED
  BY <1>1, <1>5, <1>11, <1>13, <1>14, <1>15, Zenon DEF Setups

----------------------------------------------------------------------------
(***************************************************************************)
(* The loops                                                                *)
(***************************************************************************)
LEMMA ModeFacts ==
  ASSUME example \in DOMAIN Sketches, Chips, NEW n \in Node
  PROVE  /\ Mode(n) = ConfiguredMode
         /\ Reloaded(n) = IF WithSts THEN 0 ELSE iv[n]
         /\ WithSts <=> ConfiguredMode # "OFF"
         /\ ConfiguredMode \in {"ND", "OFF", "on"}
         /\ example = "nodata" => ConfiguredMode = "ND"
<1>1. Mode(n) = ConfiguredMode
  <2>1. LoopOf(n).mode = IF example = "nodata" THEN "ND" ELSE "kept"
    BY LoopFields
  <2>2. example # "nodata" => sts[n] = ConfiguredMode
    BY DEF Chips
  <2>3. example = "nodata" => ConfiguredMode = "ND"
    BY DEF ConfiguredMode
  <2>. QED
    BY <2>1, <2>2, <2>3 DEF Mode
<1>2. Reloaded(n) = IF WithSts THEN 0 ELSE iv[n]
  <2>1. LoopOf(n).reloads <=> WithSts
    BY LoopFields
  <2>. QED
    BY <2>1 DEF Reloaded
<1>. QED
  BY <1>1, <1>2 DEF ConfiguredMode, WithSts

LEMMA SameExample ==
  ASSUME example' = example
  PROVE  ConfiguredMode' = ConfiguredMode /\ (WithSts' <=> WithSts)
BY DEF ConfiguredMode, WithSts

LEMMA PollKeeps ==
  ASSUME BoardsInv, Poll
  PROVE  BoardsInv'
<1>1. /\ example \in DOMAIN Sketches /\ pc \in [Node -> Place] /\ Chips /\ "ini" \in Node /\ "res" \in Node
      /\ sts \in [Node -> {"ND", "OFF", "on"}] /\ iv \in [Node -> 0 .. 2]
      /\ number \in [Node -> 0 .. Counts - 1]
  BY DEF BoardsInv, Setups, Chips, Numbers, Node
<1>2. /\ example \in Ranging /\ pc.ini = "loop" /\ air = {} /\ pc.res \notin {"loop", "answer", "report"}
      /\ UNCHANGED <<example, todo, inForce, rounds, faults, number>>
      /\ spoiled' = (pc.res # "wait") /\ outcome' = "none"
  BY DEF Poll
<1>3. /\ pc' \in [Node -> Place] /\ pc'.ini = "wait" /\ pc'.res = pc.res
  <2>1. pc' = [pc EXCEPT !.ini = "wait"] /\ "wait" \in Place
    BY DEF Poll, Place
  <2>. QED
    BY <1>1, <2>1
<1>4. /\ Mode("ini") = ConfiguredMode
      /\ Reloaded("ini") = IF WithSts THEN 0 ELSE iv.ini
      /\ WithSts <=> ConfiguredMode # "OFF"
      /\ ConfiguredMode \in {"ND", "OFF", "on"}
      /\ ConfiguredMode' = ConfiguredMode /\ (WithSts' <=> WithSts)
  BY <1>1, <1>2, ModeFacts, SameExample
<1>5. /\ sts' \in [Node -> {"ND", "OFF", "on"}] /\ sts'.ini = ConfiguredMode /\ sts'.res = sts.res
  BY <1>1, <1>4 DEF Poll
<1>6. /\ iv' \in [Node -> 0 .. 2] /\ (WithSts => iv'.ini = 1) /\ iv'.res = iv.res
  <2>1. iv' = [iv EXCEPT !.ini = IF WithSts THEN 1 ELSE iv.ini]
    BY <1>1, <1>4 DEF Poll, Moved
  <2>. QED
    BY <1>1, <2>1
<1>7. PICK f \in OnAir : /\ air' = {f}
                         /\ f.what = "poll" /\ f.sts = ConfiguredMode /\ (WithSts => f.iv = 0)
                         /\ f.number = number.ini
  <2>. DEFINE f == [what |-> "poll", sts |-> ConfiguredMode, iv |-> IF WithSts THEN 0 ELSE iv.ini,
                    number |-> number.ini]
  <2>1. air' = {f}
    BY <1>4 DEF Poll, Frame
  <2>2. f \in OnAir
    BY <1>1, <1>4 DEF OnAir
  <2>. QED
    BY <2>1, <2>2
<1>8. Setups'
  <2>1. \A n \in Node : n = "ini" \/ n = "res"
    BY DEF Node
  <2>. QED
    BY <1>2, <1>3, <2>1, SetupsKept DEF BoardsInv
<1>9. Roles'
  BY <1>2, <1>3 DEF BoardsInv, Roles, Ranging
<1>10. Chips'
  BY <1>1, <1>2, <1>3, <1>4, <1>5, <1>6 DEF Chips, Node
<1>11. Air'
  BY <1>2, <1>3, <1>4, <1>7 DEF BoardsInv, Air, OnAir
<1>12. Round'
  BY <1>2, <1>3, <1>7 DEF BoardsInv, Round, FailsOnlyIfSpoiled
<1>13. Numbers'
  BY <1>2, <1>3, <1>7 DEF BoardsInv, Numbers
<1>. QED
  BY <1>8, <1>9, <1>10, <1>11, <1>12, <1>13 DEF BoardsInv

LEMMA Known ==
  ASSUME BoardsInv
  PROVE  /\ example \in DOMAIN Sketches /\ pc \in [Node -> Place]
         /\ "ini" \in Node /\ "res" \in Node /\ \A n \in Node : n = "ini" \/ n = "res"
         /\ sts \in [Node -> {"ND", "OFF", "on"}] /\ iv \in [Node -> 0 .. 2]
         /\ number \in [Node -> 0 .. Counts - 1] /\ rounds \in 0 .. Counts - 1
         /\ Setups /\ Roles /\ Chips /\ Air /\ Round /\ Numbers
BY DEF BoardsInv, Setups, Chips, Numbers, Node

LEMMA AutoSleeps == "sleep" \in Range(TxSleepAutoSetup)
<1>. DEFINE t == <<"txrf", "sleep", "aftertx", "interrupt">>
<1>1. Start \in Seq(Call) /\ Len(Start) = 4 /\ t \in Seq(Call) /\ Len(t) = 4 /\ t[2] = "sleep"
  BY DEF Start, Call
<1>2. TxSleepAutoSetup = Start \o t
  BY DEF TxSleepAutoSetup
<1>. HIDE DEF t
<1>3. /\ Start \o t \in Seq(Call) /\ Len(Start \o t) = Len(Start) + Len(t)
      /\ \A i \in 1 .. Len(t) : (Start \o t)[Len(Start) + i] = t[i]
  BY <1>1, CallsAt, Zenon
<1>4. 6 \in DOMAIN TxSleepAutoSetup /\ TxSleepAutoSetup[4 + 2] = "sleep"
  BY <1>1, <1>2, <1>3
<1>. QED
  BY <1>4 DEF Range

LEMMA SendKeeps ==
  ASSUME BoardsInv, Send
  PROVE  BoardsInv'
<1>1. /\ example \notin Ranging /\ pc.ini = "loop" /\ air = {} /\ pc.res # "loop"
      /\ UNCHANGED <<example, todo, rounds, faults, number, sts, iv>>
      /\ spoiled' = (pc.res # "wait") /\ outcome' = "none"
  BY DEF Send
<1>2. /\ pc' \in [Node -> Place] /\ pc'.ini \in {"loop", "asleep"} /\ pc'.res = pc.res
      /\ pc'.ini = "asleep" => example \in {"sleep", "autosleep"}
      /\ inForce' \in [Node -> SUBSET Call] /\ inForce'["res"] = inForce["res"]
      /\ inForce'["ini"] = IF pc'.ini = "asleep" THEN Preserved(inForce["ini"]) ELSE inForce["ini"]
  <2>0. inForce \in [Node -> SUBSET Call] /\ "ini" \in Node /\ "res" \in Node
    BY Known DEF Setups, Node
  <2>1. CASE LoopOf("ini").rest = "loop"
    <3>1. pc' = pc /\ inForce' = inForce
      BY <2>1 DEF Send
    <3>. QED
      BY <1>1, <2>0, <3>1, Known
  <2>2. CASE LoopOf("ini").rest # "loop"
    <3>1. /\ pc' = [pc EXCEPT !.ini = "asleep"]
          /\ inForce' = [inForce EXCEPT !.ini = Preserved(inForce["ini"])]
      BY <2>2 DEF Send
    <3>2. Preserved(inForce["ini"]) \in SUBSET Call
      BY <2>0 DEF Preserved
    <3>3. "asleep" \in Place
      BY DEF Place
    <3>4. example \in {"sleep", "autosleep"}
      BY <2>2, Known, LoopFields
    <3>. QED
      BY <2>0, <3>1, <3>2, <3>3, <3>4, Known
  <2>. QED
    BY <2>1, <2>2
<1>3. ~WithSts /\ example # "nodata" /\ example # "aes" /\ ConfiguredMode = "OFF"
  BY <1>1 DEF WithSts, ConfiguredMode, Ranging
<1>4. PICK f \in OnAir : air' = {f} /\ f.what = "blink" /\ f.sts = ConfiguredMode
  <2>. DEFINE f == [what |-> "blink", sts |-> sts.ini, iv |-> 0, number |-> number.ini]
  <2>1. air' = {f}
    BY DEF Send, Frame
  <2>2. f \in OnAir
    BY Known DEF OnAir
  <2>3. sts.ini = ConfiguredMode
    BY <1>3, Known DEF Chips
  <2>. QED
    BY <2>1, <2>2, <2>3
<1>5. ConfiguredMode' = ConfiguredMode /\ (WithSts' <=> WithSts)
  BY <1>1, SameExample
<1>6. Setups'
  <2>1. Need("ini") \subseteq inForce["ini"] /\ "ini" \in Node /\ \A m \in Node \ {"ini"} : m = "res"
    BY <1>1, Known DEF Setups, SetupInForce, Need, Node
  <2>2. pc'.ini = "asleep" /\ example # "sleep" => Need("ini") \subseteq inForce'["ini"] \cup Restored
    <3>1. SUFFICES ASSUME pc'.ini = "asleep", example # "sleep"
                   PROVE  Need("ini") \subseteq inForce'["ini"] \cup Restored
      OBVIOUS
    <3>2. SetupOf("ini") = TxSleepAutoSetup
      BY <1>2, <3>1 DEF SetupOf, Sketches, Sketch
    <3>3. "sleep" \in Need("ini")
      BY <3>2, AutoSleeps DEF Need
    <3>. QED
      BY <1>2, <2>1, <3>1, <3>3 DEF Preserved
  <2>. QED
    BY <1>1, <1>2, <2>1, <2>2, SetupsRest, Known
<1>7. Roles'
  BY <1>1, <1>2, Known DEF Roles
<1>8. Chips'
  BY <1>1, <1>2, <1>3, <1>5, Known DEF Chips
<1>9. Air'
  BY <1>1, <1>2, <1>3, <1>4, <1>5, Known DEF Air, Roles
<1>10. Round'
  BY <1>1, <1>2, Known DEF Round, FailsOnlyIfSpoiled
<1>11. Numbers'
  BY <1>1, <1>3, Known DEF Numbers
<1>. QED
  BY <1>6, <1>7, <1>8, <1>9, <1>10, <1>11 DEF BoardsInv

LEMMA ListenKeeps ==
  ASSUME BoardsInv, Listen
  PROVE  BoardsInv'
<1>1. /\ pc.res = "loop"
      /\ UNCHANGED <<example, todo, inForce, rounds, faults, number, air, spoiled, outcome>>
  BY DEF Listen
<1>2. /\ pc' \in [Node -> Place] /\ pc'.res = "wait" /\ pc'.ini = pc.ini
  <2>1. pc' = [pc EXCEPT !.res = "wait"] /\ "wait" \in Place
    BY DEF Listen, Place
  <2>. QED
    BY <2>1, Known
<1>3. /\ Mode("res") = ConfiguredMode
      /\ Reloaded("res") = IF WithSts THEN 0 ELSE iv.res
      /\ ConfiguredMode \in {"ND", "OFF", "on"}
      /\ ConfiguredMode' = ConfiguredMode /\ (WithSts' <=> WithSts)
  BY <1>1, ModeFacts, SameExample, Known
<1>4. /\ sts' \in [Node -> {"ND", "OFF", "on"}] /\ sts'.res = ConfiguredMode /\ sts'.ini = sts.ini
  BY <1>3, Known DEF Listen
<1>5. /\ iv' \in [Node -> 0 .. 2] /\ (WithSts => iv'.res = 0) /\ iv'.ini = iv.ini
  BY <1>3, Known DEF Listen
<1>6. Setups'
  BY <1>1, <1>2, SetupsKept, Known
<1>7. Roles'
  BY <1>1, <1>2, Known DEF Roles
<1>8. Chips'
  BY <1>1, <1>2, <1>3, <1>4, <1>5, Known DEF Chips
<1>9. Air'
  BY <1>1, <1>2, <1>3, Known DEF Air, OnAir
<1>10. Round'
  BY <1>1, <1>2, Known DEF Round, FailsOnlyIfSpoiled
<1>11. Numbers'
  BY <1>1, <1>2, Known DEF Numbers
<1>. QED
  BY <1>6, <1>7, <1>8, <1>9, <1>10, <1>11 DEF BoardsInv

LEMMA TimesOutKeeps ==
  ASSUME BoardsInv, TimesOut
  PROVE  BoardsInv'
<1>1. /\ pc.ini \in {"wait", "wait2"} /\ air = {} /\ pc.res \notin {"answer", "report"}
      /\ UNCHANGED <<example, todo, inForce, iv, sts, air, spoiled, faults>> /\ outcome' = "failed"
  BY DEF TimesOut
<1>2. /\ pc' \in [Node -> Place] /\ pc'.ini = "loop" /\ pc'.res = pc.res
  <2>1. pc' = [pc EXCEPT !.ini = "loop"] /\ "loop" \in Place
    BY DEF TimesOut, Place
  <2>. QED
    BY <2>1, Known
<1>3. ConfiguredMode' = ConfiguredMode /\ (WithSts' <=> WithSts)
  BY <1>1, SameExample
<1>4. spoiled
  BY <1>1, Known DEF Round
<1>5. /\ number' \in [Node -> 0 .. Counts - 1] /\ rounds' \in 0 .. Counts - 1
      /\ example = "aes" => number'.ini = rounds'
  <2>1. Counted("ini") = (rounds + 1) % Counts /\ (rounds + 1) % Counts \in 0 .. Counts - 1
    BY Known, CountsAssumption DEF Counted
  <2>2. LoopOf("ini").numbers <=> example = "aes"
    BY Known, LoopFields
  <2>3. CASE example = "aes"
    <3>1. rounds' = Counted("ini") /\ number' = [number EXCEPT !.ini = Counted("ini")]
      BY <2>2, <2>3 DEF TimesOut
    <3>. QED
      BY <2>1, <3>1, Known
  <2>4. CASE example # "aes"
    <3>1. rounds' = rounds /\ number' = number
      BY <2>2, <2>4 DEF TimesOut
    <3>. QED
      BY <2>4, <3>1, Known
  <2>. QED
    BY <2>3, <2>4
<1>6. Setups'
  BY <1>1, <1>2, SetupsKept, Known
<1>7. Roles'
  BY <1>1, <1>2, Known DEF Roles
<1>8. Chips'
  BY <1>1, <1>2, <1>3, Known DEF Chips
<1>9. Air'
  BY <1>1, <1>2, Known DEF Air
<1>10. Round'
  BY <1>1, <1>2, <1>4, Known DEF Round, FailsOnlyIfSpoiled
<1>11. Numbers'
  BY <1>1, <1>2, <1>5, Known DEF Numbers
<1>. QED
  BY <1>6, <1>7, <1>8, <1>9, <1>10, <1>11 DEF BoardsInv

LEMMA AnswerKeeps ==
  ASSUME BoardsInv, Answer
  PROVE  BoardsInv'
<1>1. /\ pc.res = "answer" /\ air = {} /\ example \in Ranging
      /\ UNCHANGED <<example, todo, inForce, rounds, number, spoiled, outcome, faults>>
  BY Known DEF Answer, Roles
<1>2. LoopOf("res").data <=> example # "nodata"
  BY Known, LoopFields
<1>3. /\ pc' \in [Node -> Place] /\ pc'.ini = pc.ini
      /\ pc'.res = IF example = "nodata" THEN "report" ELSE "loop"
  <2>1. PICK p \in {"loop", "report"} : /\ pc' = [pc EXCEPT !.res = p]
                                        /\ p = IF LoopOf("res").data THEN "loop" ELSE "report"
    BY Zenon DEF Answer
  <2>2. p \in Place
    BY DEF Place
  <2>. QED
    BY <1>2, <2>1, <2>2, Known
<1>4. /\ ConfiguredMode' = ConfiguredMode /\ (WithSts' <=> WithSts)
      /\ ConfiguredMode \in {"ND", "OFF", "on"} /\ (WithSts <=> ConfiguredMode # "OFF")
      /\ sts.res = ConfiguredMode /\ (WithSts => iv.res = 1)
  BY <1>1, SameExample, ModeFacts, Known DEF Chips
<1>5. /\ sts' \in [Node -> {"ND", "OFF", "on"}] /\ sts'.ini = sts.ini
      /\ sts'.res = IF example = "nodata" THEN "OFF" ELSE ConfiguredMode
  <2>1. sts' = [sts EXCEPT !.res = IF LoopOf("res").data THEN sts.res ELSE "OFF"]
    BY DEF Answer
  <2>. QED
    BY <1>2, <1>4, <2>1, Known
<1>6. iv' \in [Node -> 0 .. 2] /\ iv'.ini = iv.ini
  <2>1. iv' = [iv EXCEPT !.res = IF WithSts THEN 2 ELSE iv.res]
    BY <1>4, Known DEF Answer, Moved
  <2>. QED
    BY <2>1, Known
<1>7. PICK f \in OnAir : /\ air' = {f} /\ f.what = "answer" /\ f.sts = ConfiguredMode
                         /\ (WithSts => f.iv = 1) /\ f.number = number.res
  <2>. DEFINE f == [what |-> "answer", sts |-> sts.res, iv |-> iv.res, number |-> number.res]
  <2>1. air' = {f}
    BY DEF Answer, Frame
  <2>2. f \in OnAir
    BY Known DEF OnAir
  <2>. QED
    BY <1>4, <2>1, <2>2
<1>8. Setups'
  BY <1>1, <1>3, SetupsKept, Known
<1>9. Roles'
  BY <1>1, <1>3, Known DEF Roles
<1>10. Chips'
  BY <1>1, <1>3, <1>4, <1>5, <1>6, Known DEF Chips
<1>11. Air'
  BY <1>1, <1>3, <1>4, <1>7, Known DEF Air
<1>12. Round'
  BY <1>1, <1>3, <1>7, Known DEF Round, FailsOnlyIfSpoiled
<1>13. Numbers'
  BY <1>1, <1>3, <1>7, Known DEF Numbers
<1>. QED
  BY <1>8, <1>9, <1>10, <1>11, <1>12, <1>13 DEF BoardsInv

LEMMA ReportKeeps ==
  ASSUME BoardsInv, Report
  PROVE  BoardsInv'
<1>1. /\ pc.res = "report" /\ air = {} /\ example = "nodata" /\ sts.res = "OFF"
      /\ UNCHANGED <<example, todo, inForce, iv, sts, rounds, number, spoiled, outcome, faults>>
  BY Known DEF Report, Roles, Chips
<1>2. /\ pc' \in [Node -> Place] /\ pc'.ini = pc.ini /\ pc'.res = "loop"
  <2>1. pc' = [pc EXCEPT !.res = "loop"] /\ "loop" \in Place
    BY DEF Report, Place
  <2>. QED
    BY <2>1, Known
<1>3. ConfiguredMode' = ConfiguredMode /\ (WithSts' <=> WithSts)
  BY <1>1, SameExample
<1>4. PICK f \in OnAir : air' = {f} /\ f.what = "report" /\ f.sts = "OFF"
  <2>. DEFINE f == [what |-> "report", sts |-> sts.res, iv |-> 0, number |-> number.res]
  <2>1. air' = {f}
    BY DEF Report, Frame
  <2>2. f \in OnAir
    BY Known DEF OnAir
  <2>. QED
    BY <1>1, <2>1, <2>2
<1>5. example \in Ranging
  BY <1>1 DEF Ranging
<1>6. Setups'
  BY <1>1, <1>2, SetupsKept, Known
<1>7. Roles'
  BY <1>1, <1>2, Known DEF Roles
<1>8. Chips'
  BY <1>1, <1>2, <1>3, Known DEF Chips
<1>9. Air'
  BY <1>1, <1>2, <1>3, <1>4, <1>5, Known DEF Air
<1>10. Round'
  BY <1>1, <1>2, <1>4, Known DEF Round, FailsOnlyIfSpoiled
<1>11. Numbers'
  BY <1>1, <1>2, <1>4, Known DEF Numbers
<1>. QED
  BY <1>6, <1>7, <1>8, <1>9, <1>10, <1>11 DEF BoardsInv

LEMMA FaultsCounted ==
  ASSUME Fault, faults \in 0 .. Faults
  PROVE  faults' \in 0 .. Faults
BY FaultsAssumption DEF Fault

LEMMA TooLateKeeps ==
  ASSUME BoardsInv, TooLate
  PROVE  BoardsInv'
<1>1. /\ pc.res \in {"answer", "report"} /\ air = {} /\ spoiled' = TRUE
      /\ UNCHANGED <<example, todo, inForce, iv, sts, number, rounds, air, outcome>>
      /\ faults' \in 0 .. Faults
  BY Known, FaultsCounted DEF TooLate, Numbers
<1>2. /\ pc' \in [Node -> Place] /\ pc'.ini = pc.ini /\ pc'.res = "loop"
  <2>1. pc' = [pc EXCEPT !.res = "loop"] /\ "loop" \in Place
    BY DEF TooLate, Place
  <2>. QED
    BY <2>1, Known
<1>3. ConfiguredMode' = ConfiguredMode /\ (WithSts' <=> WithSts)
  BY <1>1, SameExample
<1>4. Setups'
  BY <1>1, <1>2, SetupsKept, Known
<1>5. Roles'
  BY <1>1, <1>2, Known DEF Roles
<1>6. Chips'
  BY <1>1, <1>2, <1>3, Known DEF Chips
<1>7. Air'
  BY <1>1, <1>2, Known DEF Air
<1>8. Round'
  BY <1>1, Known DEF Round, FailsOnlyIfSpoiled
<1>9. Numbers'
  BY <1>1, <1>2, Known DEF Numbers
<1>. QED
  BY <1>4, <1>5, <1>6, <1>7, <1>8, <1>9 DEF BoardsInv

LEMMA LostKeeps ==
  ASSUME BoardsInv, Lost
  PROVE  BoardsInv'
<1>1. /\ air' = {} /\ spoiled' = TRUE
      /\ UNCHANGED <<example, pc, todo, inForce, iv, sts, number, rounds, outcome>>
      /\ faults' \in 0 .. Faults /\ air # {}
  BY Known, FaultsCounted DEF Lost, boards, Numbers
<1>2. ConfiguredMode' = ConfiguredMode /\ (WithSts' <=> WithSts)
  BY <1>1, SameExample
<1>3. Setups'
  BY <1>1, SetupsKept, Known
<1>4. Roles'
  BY <1>1, Known DEF Roles
<1>5. Chips'
  BY <1>1, <1>2, Known DEF Chips
<1>6. Air'
  BY <1>1, Known DEF Air
<1>7. Round'
  BY <1>1, Known DEF Round, FailsOnlyIfSpoiled
<1>8. Numbers'
  BY <1>1, Known DEF Numbers
<1>. QED
  BY <1>3, <1>4, <1>5, <1>6, <1>7, <1>8 DEF BoardsInv

LEMMA WakeUpKeeps ==
  ASSUME BoardsInv, WakeUp
  PROVE  BoardsInv'
<1>1. /\ pc.ini = "asleep" /\ air = {}
      /\ UNCHANGED <<example, iv, sts, number, rounds, air, spoiled, outcome, faults>>
  BY DEF WakeUp
<1>2. /\ pc' \in [Node -> Place] /\ pc'.ini \in {"setup", "loop"} /\ pc'.res = pc.res
  <2>1. PICK p \in {"setup", "loop"} : pc' = [pc EXCEPT !.ini = p]
    BY Zenon DEF WakeUp
  <2>2. p \in Place
    BY DEF Place
  <2>. QED
    BY <2>1, <2>2, Known
<1>3. ConfiguredMode' = ConfiguredMode /\ (WithSts' <=> WithSts)
  BY <1>1, SameExample
<1>4. Setups'
  <2>0. /\ example \in {"sleep", "autosleep"} /\ "ini" \in Node
        /\ LoopOf("ini").rest = "configured" <=> example = "sleep"
        /\ inForce \in [Node -> SUBSET Call] /\ Restored \subseteq Call
    BY <1>1, LoopFields, Known DEF Setups, Roles, Node, Restored, Call
  <2>1. CASE example = "sleep"
    <3>1. SetupOf("ini") = Reconfigure
      BY <2>1 DEF SetupOf, Sketches, Sketch, TxSleepSetup, Reconfigure
    <3>2. /\ pc' = [pc EXCEPT !.ini = "setup"] /\ todo' = [todo EXCEPT !.ini = SetupOf("ini")]
          /\ inForce' = [inForce EXCEPT !.ini = {}]
      BY <2>0, <2>1, <3>1 DEF WakeUp
    <3>3. inForce' \in [Node -> SUBSET Call] /\ \A m \in Node \ {"ini"} : inForce'[m] = inForce[m]
      BY <2>0, <3>2
    <3>. QED
      BY <1>1, <2>0, <3>2, <3>3, SetupsBegunAnew, Known
  <2>2. CASE example # "sleep"
    <3>1. /\ pc' = [pc EXCEPT !.ini = "loop"] /\ todo' = todo
          /\ inForce' = [inForce EXCEPT !.ini = inForce["ini"] \cup Restored]
      BY <2>0, <2>2 DEF WakeUp
    <3>2. /\ inForce' \in [Node -> SUBSET Call] /\ inForce'["ini"] = inForce["ini"] \cup Restored
          /\ \A m \in Node \ {"ini"} : inForce'[m] = inForce[m] /\ pc'[m] = pc[m]
          /\ pc'["ini"] = "loop"
      BY <2>0, <3>1, Known
    <3>3. Need("ini") \subseteq inForce'["ini"]
      BY <1>1, <2>0, <2>2, <3>2, Known DEF Setups, Sleeping
    <3>. QED
      BY <1>1, <1>2, <2>0, <3>1, <3>2, <3>3, SetupsRest, Known
  <2>. QED
    BY <2>1, <2>2
<1>5. Roles'
  BY <1>1, <1>2, Known DEF Roles
<1>6. Chips'
  BY <1>1, <1>2, <1>3, Known DEF Chips
<1>7. Air'
  BY <1>1, <1>2, Known DEF Air
<1>8. Round'
  BY <1>1, <1>2, Known DEF Round, FailsOnlyIfSpoiled
<1>9. Numbers'
  BY <1>1, <1>2, Known DEF Numbers
<1>. QED
  BY <1>4, <1>5, <1>6, <1>7, <1>8, <1>9 DEF BoardsInv

LEMMA ConfiguredKeeps ==
  ASSUME BoardsInv, NEW n \in Node, Configured(n)
  PROVE  BoardsInv'
<1>1. /\ pc[n] = "setup"
      /\ UNCHANGED <<example, iv, sts, number, rounds, air, spoiled, outcome, faults>>
  BY DEF Configured
<1>2. Setups'
  BY SetupsConfigured, Known
<1>3. /\ pc'[n] \in {"setup", "loop"} /\ \A m \in Node : m # n => pc'[m] = pc[m]
  BY <1>1, Known DEF Configured
<1>4. ConfiguredMode' = ConfiguredMode /\ (WithSts' <=> WithSts)
  BY <1>1, SameExample
<1>5. Roles'
  BY <1>1, <1>3, Known DEF Roles
<1>6. Chips'
  BY <1>1, <1>3, <1>4, Known DEF Chips
<1>7. Air'
  BY <1>1, <1>3, <1>4, Known DEF Air, OnAir
<1>8. Round'
  BY <1>1, <1>3, Known DEF Round, FailsOnlyIfSpoiled
<1>9. Numbers'
  BY <1>1, <1>3, Known DEF Numbers
<1>. QED
  BY <1>2, <1>5, <1>6, <1>7, <1>8, <1>9 DEF BoardsInv

LEMMA SetupFailsKeeps ==
  ASSUME BoardsInv, NEW n \in Node, SetupFails(n)
  PROVE  BoardsInv'
<1>1. /\ pc[n] = "setup" /\ faults' \in 0 .. Faults
      /\ UNCHANGED <<example, inForce, iv, sts, number, rounds, air, spoiled, outcome>>
  BY FaultsCounted, Known DEF SetupFails, Numbers
<1>2. /\ pc'[n] \in {"setup", "halted"} /\ pc' \in [Node -> Place]
      /\ \A m \in Node : m # n => pc'[m] = pc[m]
  <2>1. PICK p \in {"setup", "halted"} : pc' = [pc EXCEPT ![n] = p]
    BY <1>1, Zenon DEF SetupFails
  <2>2. p \in Place
    BY DEF Place
  <2>. QED
    BY <2>1, <2>2, Known
<1>3. ConfiguredMode' = ConfiguredMode /\ (WithSts' <=> WithSts)
  BY <1>1, SameExample
<1>4. Setups'
  <2>1. CASE Sketches[example][n].again = "setup"
    <3>1. pc' = [pc EXCEPT ![n] = "setup"] /\ todo' = [todo EXCEPT ![n] = SetupOf(n)]
      BY <1>1, <2>1, Zenon DEF SetupFails
    <3>2. inForce' = inForce /\ inForce \in [Node -> SUBSET Call]
      BY <1>1, Known DEF Setups
    <3>. QED
      BY <1>1, <3>1, <3>2, SetupsBegunAnew, Known
  <2>2. CASE Sketches[example][n].again # "setup"
    <3>1. todo' = todo
      BY <2>2, Known DEF SetupFails, Setups
    <3>. QED
      BY <1>1, <1>2, <3>1, SetupsKept, Known
  <2>. QED
    BY <2>1, <2>2
<1>5. Roles'
  BY <1>1, <1>2, Known DEF Roles
<1>6. Chips'
  BY <1>1, <1>2, <1>3, Known DEF Chips
<1>7. Air'
  BY <1>1, <1>2, <1>3, Known DEF Air, OnAir
<1>8. Round'
  BY <1>1, <1>2, Known DEF Round, FailsOnlyIfSpoiled
<1>9. Numbers'
  BY <1>1, <1>2, Known DEF Numbers
<1>. QED
  BY <1>4, <1>5, <1>6, <1>7, <1>8, <1>9 DEF BoardsInv

LEMMA ResetKeeps ==
  ASSUME BoardsInv, NEW n \in Node, Reset(n)
  PROVE  BoardsInv'
<1>1. /\ example' = example /\ air' = {} /\ spoiled' = TRUE /\ outcome' \in {"none", outcome}
      /\ faults' \in 0 .. Faults
      /\ pc' = [pc EXCEPT ![n] = "setup"] /\ todo' = [todo EXCEPT ![n] = SetupOf(n)]
      /\ inForce' = [inForce EXCEPT ![n] = {}]
      /\ iv' = [iv EXCEPT ![n] = 0] /\ number' = [number EXCEPT ![n] = 0]
      /\ sts' = [sts EXCEPT ![n] = ConfiguredMode]
      /\ rounds' = IF n = "ini" THEN 0 ELSE rounds
  BY FaultsCounted, Known DEF Reset, Numbers
<1>2. ConfiguredMode' = ConfiguredMode /\ (WithSts' <=> WithSts) /\ ConfiguredMode \in {"ND", "OFF", "on"}
  BY <1>1, SameExample, ModeFacts, Known
<1>3. 0 \in 0 .. 2 /\ 0 \in 0 .. Counts - 1
  BY CountsAssumption
<1>4. /\ pc'[n] = "setup" /\ \A m \in Node : m # n => pc'[m] = pc[m]
      /\ sts' \in [Node -> {"ND", "OFF", "on"}] /\ sts'[n] = ConfiguredMode
      /\ \A m \in Node : m # n => sts'[m] = sts[m]
      /\ iv' \in [Node -> 0 .. 2] /\ \A m \in Node : m # n => iv'[m] = iv[m]
      /\ number' \in [Node -> 0 .. Counts - 1] /\ number'[n] = 0
      /\ \A m \in Node : m # n => number'[m] = number[m]
  BY <1>1, <1>2, <1>3, Known
<1>5. Setups'
  <2>1. inForce' \in [Node -> SUBSET Call] /\ \A m \in Node \ {n} : inForce'[m] = inForce[m]
    BY <1>1, Known DEF Setups
  <2>. QED
    BY <1>1, <2>1, SetupsBegunAnew, Known
<1>6. Roles'
  BY <1>1, <1>4, Known DEF Roles
<1>7. Chips'
  BY <1>1, <1>2, <1>4, Known DEF Chips
<1>8. Air'
  BY <1>1, <1>4, Known DEF Air
<1>9. Round'
  BY <1>1, Known DEF Round, FailsOnlyIfSpoiled
<1>10. Numbers'
  BY <1>1, <1>3, <1>4, Known DEF Numbers
<1>. QED
  BY <1>5, <1>6, <1>7, <1>8, <1>9, <1>10 DEF BoardsInv

\* What the initiator counts, whatever ends its round.
LEMMA RoundCounted ==
  ASSUME BoardsInv
  PROVE  /\ Counted("ini") = (rounds + 1) % Counts /\ Counted("ini") \in 0 .. Counts - 1
         /\ \A n \in Node : LoopOf(n).numbers <=> example = "aes"
<1>1. Counted("ini") = (rounds + 1) % Counts /\ (rounds + 1) % Counts \in 0 .. Counts - 1
  BY Known, CountsAssumption DEF Counted
<1>. QED
  BY <1>1, Known, LoopFields

LEMMA ReceiveErrorKeeps ==
  ASSUME BoardsInv, NEW n \in Node, ReceiveError(n)
  PROVE  BoardsInv'
<1>1. /\ pc[n] \in {"wait", "wait2"} /\ air' = {} /\ spoiled' = TRUE
      /\ UNCHANGED <<example, todo, inForce, iv, sts>>
      /\ faults' \in 0 .. Faults /\ outcome' \in {"failed", outcome}
  BY FaultsCounted, Known DEF ReceiveError, Numbers
<1>2. /\ pc' \in [Node -> Place] /\ pc'[n] = "loop" /\ \A m \in Node : m # n => pc'[m] = pc[m]
  <2>1. pc' = [pc EXCEPT ![n] = "loop"] /\ "loop" \in Place
    BY DEF ReceiveError, Place
  <2>. QED
    BY <2>1, Known
<1>3. ConfiguredMode' = ConfiguredMode /\ (WithSts' <=> WithSts)
  BY <1>1, SameExample
<1>4. /\ number' \in [Node -> 0 .. Counts - 1] /\ rounds' \in 0 .. Counts - 1
      /\ example = "aes" => number'.ini = rounds'
  <2>1. CASE example = "aes" /\ n = "ini"
    <3>1. rounds' = Counted("ini") /\ number' = [number EXCEPT !.ini = Counted("ini")]
      BY <2>1, RoundCounted DEF ReceiveError
    <3>. QED
      BY <3>1, RoundCounted, Known
  <2>2. CASE ~(example = "aes" /\ n = "ini")
    <3>1. rounds' = rounds /\ number' = number
      BY <2>2, RoundCounted DEF ReceiveError
    <3>. QED
      BY <3>1, Known DEF Numbers
  <2>. QED
    BY <2>1, <2>2
<1>5. Setups'
  BY <1>1, <1>2, SetupsKept, Known
<1>6. Roles'
  BY <1>1, <1>2, Known DEF Roles
<1>7. Chips'
  BY <1>1, <1>2, <1>3, Known DEF Chips
<1>8. Air'
  BY <1>1, <1>2, Known DEF Air
<1>9. Round'
  BY <1>1, Known DEF Round, FailsOnlyIfSpoiled
<1>10. Numbers'
  BY <1>1, <1>2, <1>4, Known DEF Numbers
<1>. QED
  BY <1>5, <1>6, <1>7, <1>8, <1>9, <1>10 DEF BoardsInv

\* A frame that finds the receiver off is gone: nobody was waiting for it.
LEMMA MissedKeeps ==
  ASSUME BoardsInv, NEW f \in air, pc[For(f)] \notin {"wait", "wait2"}, air' = {},
         UNCHANGED <<example, pc, todo, inForce, iv, sts, number, rounds, spoiled, outcome, faults>>
  PROVE  BoardsInv'
<1>1. ConfiguredMode' = ConfiguredMode /\ (WithSts' <=> WithSts)
  BY SameExample
<1>2. air = {f} /\ f.what \in {"poll", "answer", "report", "blink"}
  BY Known DEF Air, OnAir
<1>3. Setups'
  BY SetupsKept, Known
<1>4. Roles'
  BY Known DEF Roles
<1>5. Chips'
  BY <1>1, Known DEF Chips
<1>6. Air'
  BY Known DEF Air
<1>7. Round'
  BY <1>2, Known DEF Round, FailsOnlyIfSpoiled, For
<1>8. Numbers'
  BY Known DEF Numbers
<1>. QED
  BY <1>3, <1>4, <1>5, <1>6, <1>7, <1>8 DEF BoardsInv

\* The responder gets a poll, the receiver a blink.
LEMMA ResponderKeeps ==
  ASSUME BoardsInv, NEW f \in air, For(f) = "res", pc.res \in {"wait", "wait2"}, air' = {},
         Receives("res", f), UNCHANGED <<example, todo, inForce, spoiled, faults>>
  PROVE  BoardsInv'
<1>1. /\ ConfiguredMode' = ConfiguredMode /\ (WithSts' <=> WithSts)
      /\ ConfiguredMode \in {"ND", "OFF", "on"} /\ (WithSts <=> ConfiguredMode # "OFF")
  BY SameExample, ModeFacts, Known
<1>2. /\ air = {f} /\ f \in OnAir /\ f.what \in {"poll", "blink"} /\ (f.what = "poll" <=> example \in Ranging)
      /\ pc.res = "wait" /\ f.sts = ConfiguredMode /\ sts.res = ConfiguredMode
      /\ (WithSts /\ example \in Ranging => f.iv = 0 /\ iv.res = 0)
      /\ (f.what = "poll" => pc.ini = "wait")
  BY Known DEF Air, Roles, Chips, OnAir, For
<1>3. WithSts => example \in Ranging
  BY DEF WithSts, Ranging
<1>4. Understood("res", f)
  BY <1>1, <1>2, <1>3 DEF Understood
<1>5. Matches("res", f)
  BY <1>2 DEF Matches, Expected
<1>6. After("res") = IF example \in Ranging THEN "answer" ELSE "loop"
  BY DEF After
<1>7. /\ pc' \in [Node -> Place] /\ pc'.ini = pc.ini
      /\ pc'.res = IF example \in Ranging THEN "answer" ELSE "loop"
  <2>1. pc' = [pc EXCEPT !.res = After("res")]
    BY <1>4, <1>5 DEF Receives
  <2>2. After("res") \in Place
    BY <1>6 DEF Place
  <2>. QED
    BY <1>6, <2>1, <2>2, Known
<1>8. sts' = sts
  <2>1. sts' = [sts EXCEPT !.res = sts.res]
    BY <1>4, <1>5, <1>6, Zenon DEF Receives
  <2>. QED
    BY <2>1, Known
<1>9. iv' \in [Node -> 0 .. 2] /\ iv'.ini = iv.ini /\ (WithSts => iv'.res = 1)
  <2>1. iv' = [iv EXCEPT !.res = Moved(iv.res, f.sts)]
    BY Zenon DEF Receives
  <2>2. Moved(iv.res, f.sts) = IF WithSts THEN 1 ELSE iv.res
    BY <1>1, <1>2, <1>3 DEF Moved
  <2>. QED
    BY <2>1, <2>2, Known
<1>10. rounds' = rounds
  BY <1>4, <1>5, <1>6, Zenon DEF Receives
<1>11. /\ number' \in [Node -> 0 .. Counts - 1] /\ number'.ini = number.ini
       /\ example = "aes" => number'.res = (f.number + 1) % Counts
  <2>1. CASE example = "aes"
    <3>1. number' = [number EXCEPT !.res = Numbered("res", f)]
      BY <1>4, <1>5, <2>1, RoundCounted, Known DEF Receives
    <3>2. Numbered("res", f) = (f.number + 1) % Counts /\ (f.number + 1) % Counts \in 0 .. Counts - 1
      BY <1>2, CountsAssumption DEF Numbered, OnAir
    <3>. QED
      BY <3>1, <3>2, Known
  <2>2. CASE example # "aes"
    <3>1. number' = number
      BY <2>2, RoundCounted, Known DEF Receives
    <3>. QED
      BY <2>2, <3>1, Known
  <2>. QED
    BY <2>1, <2>2
<1>12. outcome' = IF example \in Ranging THEN outcome ELSE "ranged"
  <2>. QED
    BY <1>4, <1>5, <1>6, Zenon DEF Receives
<1>13. Setups'
  BY <1>2, <1>7, SetupsKept, Known
<1>14. Roles'
  BY <1>2, <1>7, Known DEF Roles
<1>15. Chips'
  BY <1>1, <1>2, <1>3, <1>7, <1>8, <1>9, Known DEF Chips
<1>16. Air'
  BY <1>2, <1>7, Known DEF Air, Roles
<1>17. Round'
  BY <1>2, <1>7, <1>12, Known DEF Round, Roles, FailsOnlyIfSpoiled
<1>18. Numbers'
  BY <1>2, <1>7, <1>10, <1>11, Known DEF Numbers, Ranging
<1>. QED
  BY <1>13, <1>14, <1>15, <1>16, <1>17, <1>18 DEF BoardsInv

\* The initiator gets an answer, or the report that follows one without data.
LEMMA InitiatorKeeps ==
  ASSUME BoardsInv, NEW f \in air, For(f) = "ini", pc.ini \in {"wait", "wait2"}, air' = {},
         Receives("ini", f), UNCHANGED <<example, todo, inForce, spoiled, faults>>
  PROVE  BoardsInv'
<1>1. /\ ConfiguredMode' = ConfiguredMode /\ (WithSts' <=> WithSts)
      /\ ConfiguredMode \in {"ND", "OFF", "on"} /\ (WithSts <=> ConfiguredMode # "OFF")
      /\ example = "nodata" => ConfiguredMode = "ND"
  BY SameExample, ModeFacts, Known
<1>2. /\ air = {f} /\ f \in OnAir /\ f.what \in {"answer", "report"} /\ pc.res # "answer"
      /\ example \in Ranging
      /\ f.what = "answer" => /\ pc.ini = "wait" /\ f.sts = ConfiguredMode /\ sts.ini = ConfiguredMode
                              /\ (WithSts => f.iv = 1 /\ iv.ini = 1)
      /\ f.what = "report" => f.sts = "OFF" /\ example = "nodata"
      /\ pc.ini = "wait" => sts.ini = ConfiguredMode
      /\ pc.ini = "wait2" => sts.ini = "OFF" /\ example = "nodata"
  BY Known DEF Air, Roles, Chips, OnAir, For
<1>3. LoopOf("ini").data <=> example # "nodata"
  BY Known, LoopFields
<1>4. After("ini") = IF example = "nodata" /\ pc.ini = "wait" THEN "wait2" ELSE "loop"
  BY <1>3 DEF After
\* A report that comes while the answer is awaited is not understood.
<1>5. (Understood("ini", f) /\ Matches("ini", f)) <=> ~(f.what = "report" /\ pc.ini = "wait")
  <2>1. CASE f.what = "answer"
    BY <1>1, <1>2, <2>1 DEF Understood, Matches, Expected
  <2>2. CASE f.what = "report"
    BY <1>1, <1>2, <2>2 DEF Understood, Matches, Expected
  <2>. QED
    BY <1>2, <2>1, <2>2
<1>6. (f.what = "report" /\ pc.ini = "wait") => ~Understood("ini", f) /\ spoiled
  BY <1>1, <1>2, Known DEF Understood, Round
<1>. DEFINE more == f.what = "answer" /\ example = "nodata"
<1>7. /\ pc' \in [Node -> Place] /\ pc'.res = pc.res
      /\ pc'.ini = IF more THEN "wait2" ELSE "loop"
  <2>1. CASE f.what = "report" /\ pc.ini = "wait"
    <3>1. pc' = [pc EXCEPT !.ini = "loop"] /\ "loop" \in Place
      BY <1>5, <1>6, <2>1 DEF Receives, Place
    <3>. QED
      BY <2>1, <3>1, Known
  <2>2. CASE ~(f.what = "report" /\ pc.ini = "wait")
    <3>1. pc' = [pc EXCEPT !.ini = After("ini")]
      BY <1>5, <2>2 DEF Receives
    <3>2. After("ini") = IF more THEN "wait2" ELSE "loop"
      BY <1>2, <1>4, <2>2
    <3>3. After("ini") \in Place
      BY <3>2 DEF Place
    <3>. QED
      BY <3>1, <3>2, <3>3, Known
  <2>. QED
    BY <2>1, <2>2
<1>8. /\ sts' \in [Node -> {"ND", "OFF", "on"}] /\ sts'.res = sts.res
      /\ sts'.ini = IF more THEN "OFF" ELSE sts.ini
  <2>1. (Understood("ini", f) /\ Matches("ini", f) /\ After("ini") = "wait2") <=> more
    BY <1>2, <1>4, <1>5
  <2>2. sts' = [sts EXCEPT !.ini = IF more THEN "OFF" ELSE sts.ini]
    BY <2>1, Zenon DEF Receives
  <2>. QED
    BY <2>2, Known
<1>9. iv' \in [Node -> 0 .. 2] /\ iv'.res = iv.res
  <2>1. iv' = [iv EXCEPT !.ini = Moved(iv.ini, f.sts)]
    BY Zenon DEF Receives
  <2>2. Moved(iv.ini, f.sts) \in 0 .. 2
    BY <1>1, <1>2, Known DEF Moved
  <2>. QED
    BY <2>1, <2>2, Known
<1>10. outcome' = IF more THEN outcome ELSE IF f.what = "report" /\ pc.ini = "wait" THEN "failed" ELSE "ranged"
  BY <1>2, <1>4, <1>5 DEF Receives
<1>11. /\ number' \in [Node -> 0 .. Counts - 1] /\ rounds' \in 0 .. Counts - 1
       /\ example = "aes" => number'.ini = rounds'
  <2>1. CASE example = "aes"
    <3>1. f.what = "answer" /\ ~more
      BY <1>2, <2>1
    <3>2. rounds' = Counted("ini") /\ number' = [number EXCEPT !.ini = Numbered("ini", f)]
      BY <1>4, <1>5, <2>1, <3>1, RoundCounted, Known DEF Receives
    <3>3. Numbered("ini", f) = (number.ini + 1) % Counts /\ number.ini = rounds
      BY <1>2, <2>1, <3>1, Known DEF Numbered, Numbers
    <3>. QED
      BY <3>2, <3>3, RoundCounted, Known
  <2>2. CASE example # "aes"
    <3>1. number' = number /\ rounds' = rounds
      BY <2>2, RoundCounted, Known DEF Receives
    <3>. QED
      BY <2>2, <3>1, Known
  <2>. QED
    BY <2>1, <2>2
<1>. HIDE DEF more
<1>12. more => example = "nodata" /\ f.what = "answer"
  BY DEF more
<1>13. Setups'
  BY <1>7, SetupsKept, Known
<1>14. Roles'
  BY <1>2, <1>7, <1>12, Known DEF Roles
<1>15. Chips'
  BY <1>1, <1>7, <1>8, <1>9, <1>12, Known DEF Chips
<1>16. Air'
  BY <1>2, <1>7, Known DEF Air
<1>17. Round'
  <2>1. more /\ ~spoiled => pc.res = "report"
    BY <1>2, <1>12, Known DEF Round
  <2>. QED
    BY <1>2, <1>6, <1>7, <1>10, <2>1, Known DEF Round, FailsOnlyIfSpoiled
<1>18. Numbers'
  BY <1>7, <1>11, <1>12, Known DEF Numbers
<1>. QED
  BY <1>13, <1>14, <1>15, <1>16, <1>17, <1>18 DEF BoardsInv

LEMMA ArrivesKeeps ==
  ASSUME BoardsInv, Arrives
  PROVE  BoardsInv'
<1>1. PICK f \in air :
        /\ air' = {} /\ UNCHANGED <<example, todo, inForce, spoiled, faults>>
        /\ IF pc[For(f)] \in {"wait", "wait2"}
           THEN Receives(For(f), f)
           ELSE UNCHANGED <<pc, sts, iv, rounds, number, outcome>>
  BY Zenon DEF Arrives
<1>2. For(f) = "ini" \/ For(f) = "res"
  BY DEF For
<1>3. CASE pc[For(f)] \notin {"wait", "wait2"}
  BY <1>1, <1>3, MissedKeeps
<1>4. CASE pc[For(f)] \in {"wait", "wait2"} /\ For(f) = "res"
  BY <1>1, <1>4, ResponderKeeps
<1>5. CASE pc[For(f)] \in {"wait", "wait2"} /\ For(f) = "ini"
  BY <1>1, <1>5, InitiatorKeeps
<1>. QED
  BY <1>2, <1>3, <1>4, <1>5

\* A frame of somebody else is never what a ranging board waits for.
LEMMA ForeignKeeps ==
  ASSUME BoardsInv, NEW n \in Node, Foreign(n)
  PROVE  BoardsInv'
<1>. DEFINE f == [what |-> "foreign", sts |-> "OFF", iv |-> 0, number |-> 0]
<1>1. /\ pc[n] \in {"wait", "wait2"} /\ air = {} /\ air' = {} /\ spoiled' = TRUE
      /\ faults' \in 0 .. Faults /\ UNCHANGED <<example, todo, inForce>>
      /\ Receives(n, f)
  BY FaultsCounted, Known DEF Foreign, Numbers
<1>2. f.what = "foreign" /\ f.sts = "OFF" /\ f.iv = 0
  OBVIOUS
<1>. HIDE DEF f
<1>3. /\ ConfiguredMode' = ConfiguredMode /\ (WithSts' <=> WithSts)
  BY <1>1, SameExample
<1>4. example \in Ranging => ~(Understood(n, f) /\ Matches(n, f))
  BY <1>2 DEF Understood, Matches, Expected
<1>5. example \notin Ranging => n = "res" /\ example # "aes" /\ After(n) = "loop"
  BY <1>1, Known DEF Roles, After, Ranging
<1>6. /\ pc' \in [Node -> Place] /\ pc'[n] \in {"loop", "hung"}
      /\ \A m \in Node : m # n => pc'[m] = pc[m]
  <2>1. PICK p \in {"loop", "hung"} : pc' = [pc EXCEPT ![n] = p]
    <3>1. LoopOf(n).stray \in {"loop", "hung"}
      BY Known, LoopFields
    <3>2. CASE example \in Ranging
      BY <1>1, <1>4, <3>1, <3>2 DEF Receives
    <3>3. CASE example \notin Ranging
      BY <1>1, <1>5, <3>1, <3>3 DEF Receives
    <3>. QED
      BY <3>2, <3>3
  <2>2. p \in Place
    BY DEF Place
  <2>. QED
    BY <2>1, <2>2, Known
<1>7. sts' = sts
  <2>1. sts' = [sts EXCEPT ![n] = sts[n]]
    BY <1>1, <1>4, <1>5, Zenon DEF Receives
  <2>. QED
    BY <2>1, Known
<1>8. iv' = iv
  <2>1. iv' = [iv EXCEPT ![n] = Moved(iv[n], f.sts)]
    BY <1>1, Zenon DEF Receives
  <2>2. Moved(iv[n], f.sts) = iv[n]
    BY <1>2 DEF Moved
  <2>. QED
    BY <2>1, <2>2, Known
<1>9. outcome' \in {"none", "ranged", "failed"}
  BY <1>1, Known DEF Receives, Round
<1>10. /\ number' \in [Node -> 0 .. Counts - 1] /\ rounds' \in 0 .. Counts - 1
       /\ example = "aes" => number'.ini = rounds'
  <2>1. CASE example = "aes"
    <3>1. example \in Ranging
      BY <2>1 DEF Ranging
    <3>2. /\ rounds' = IF n = "ini" THEN Counted(n) ELSE rounds
          /\ number' = [number EXCEPT ![n] = IF n = "ini" THEN Counted(n) ELSE number[n]]
      BY <1>1, <1>4, <2>1, <3>1, RoundCounted, Known DEF Receives
    <3>3. CASE n = "ini"
      BY <3>2, <3>3, RoundCounted, Known
    <3>4. CASE n # "ini"
      BY <2>1, <3>2, <3>4, Known DEF Numbers
    <3>. QED
      BY <3>3, <3>4
  <2>2. CASE example # "aes"
    <3>1. number' = number /\ rounds' = rounds
      BY <1>1, <2>2, RoundCounted, Known DEF Receives
    <3>. QED
      BY <2>2, <3>1, Known
  <2>. QED
    BY <2>1, <2>2
<1>11. Setups'
  BY <1>1, <1>6, SetupsKept, Known
<1>12. Roles'
  BY <1>1, <1>6, Known DEF Roles
<1>13. Chips'
  BY <1>1, <1>3, <1>6, <1>7, <1>8, Known DEF Chips
<1>14. Air'
  BY <1>1, <1>6, Known DEF Air
<1>15. Round'
  BY <1>1, <1>9, Known DEF Round, FailsOnlyIfSpoiled
<1>16. Numbers'
  BY <1>1, <1>6, <1>10, Known DEF Numbers
<1>. QED
  BY <1>11, <1>12, <1>13, <1>14, <1>15, <1>16 DEF BoardsInv

----------------------------------------------------------------------------
(***************************************************************************)
(* The theorems                                                             *)
(***************************************************************************)
LEMMA BoardsBegin == Init => BoardsInv
<1>1. SUFFICES ASSUME Init PROVE BoardsInv
  OBVIOUS
<1>2. /\ example \in DOMAIN Sketches /\ pc = [n \in Node |-> "setup"]
      /\ todo = [n \in Node |-> SetupOf(n)] /\ inForce = [n \in Node |-> {}]
      /\ iv = [n \in Node |-> 0] /\ sts = [n \in Node |-> ConfiguredMode]
      /\ number = [n \in Node |-> 0]
      /\ rounds = 0 /\ air = {} /\ spoiled = FALSE /\ outcome = "none" /\ faults = 0
  BY <1>1 DEF Init
<1>3. "ini" \in Node /\ "res" \in Node /\ "setup" \in Place /\ ConfiguredMode \in {"ND", "OFF", "on"}
  BY DEF Node, Place, ConfiguredMode
<1>4. Setups
  <2>1. /\ pc \in [Node -> Place] /\ inForce \in [Node -> SUBSET Call]
        /\ \A n \in Node : pc[n] = "setup"
    BY <1>2, <1>3
  <2>2. /\ todo \in [Node -> Seq(Call)]
        /\ \A n \in Node : todo[n] = SetupOf(n)
    BY <1>2, SetupFacts
  <2>3. ASSUME NEW n \in Node PROVE SettingUp(n)
    <3>1. todo[n] = SetupOf(n)
      BY <2>2
    <3>. QED
      BY <1>2, <3>1, SetupFacts DEF SettingUp
  <2>4. SetupInForce
    BY <2>1 DEF SetupInForce
  <2>. QED
    BY <1>2, <2>1, <2>2, <2>3, <2>4 DEF Setups
<1>5. \A n \in Node : pc[n] = "setup" /\ sts[n] = ConfiguredMode
  BY <1>2
<1>6. Roles
  BY <1>3, <1>5 DEF Roles
<1>7. Chips
  BY <1>2, <1>3, <1>5 DEF Chips
<1>8. Air
  BY <1>2, <1>3, <1>5 DEF Air
<1>9. Round
  BY <1>2, <1>3, <1>5 DEF Round, FailsOnlyIfSpoiled
<1>10. Numbers
  BY <1>2, <1>3, <1>5, FaultsAssumption, CountsAssumption DEF Numbers
<1>. QED
  BY <1>4, <1>6, <1>7, <1>8, <1>9, <1>10 DEF BoardsInv

LEMMA BoardsStep == BoardsInv /\ [Next]_vars => BoardsInv'
<1>1. SUFFICES ASSUME BoardsInv, [Next]_vars PROVE BoardsInv'
  OBVIOUS
<1>2. CASE Setup
  BY <1>1, <1>2, ConfiguredKeeps DEF Setup
<1>3. CASE Initiator
  BY <1>1, <1>3, PollKeeps, SendKeeps, WakeUpKeeps, TimesOutKeeps DEF Initiator
<1>4. CASE Responder
  BY <1>1, <1>4, ListenKeeps, AnswerKeeps, ReportKeeps DEF Responder
<1>5. CASE Arrives
  BY <1>1, <1>5, ArrivesKeeps
<1>6. CASE Environment
  BY <1>1, <1>6, TooLateKeeps, LostKeeps, SetupFailsKeeps, ResetKeeps, ReceiveErrorKeeps, ForeignKeeps
     DEF Environment
<1>7. CASE UNCHANGED vars
  <2>1. UNCHANGED <<example, pc, todo, inForce, iv, sts, number, rounds, air, spoiled, outcome, faults>>
    BY <1>7 DEF vars
  <2>2. ConfiguredMode' = ConfiguredMode /\ (WithSts' <=> WithSts)
    BY <2>1, SameExample
  <2>3. Setups'
    BY <1>1, <2>1, SetupsKept, Known
  <2>4. Roles' /\ Chips'
    BY <1>1, <2>1, <2>2, Known DEF Roles, Chips
  <2>5. Air'
    BY <1>1, <2>1, <2>2, Known DEF Air
  <2>6. Round' /\ Numbers'
    BY <1>1, <2>1, Known DEF Round, Numbers, FailsOnlyIfSpoiled
  <2>. QED
    BY <2>3, <2>4, <2>5, <2>6 DEF BoardsInv
<1>. QED
  BY <1>1, <1>2, <1>3, <1>4, <1>5, <1>6, <1>7 DEF Next

\* Two boards of the sketches stay in step: the parts they play, the settings they have
\* still to make, the STS modes and counters of their chips and the numbers of their frames
\* agree as the invariant says, whatever is lost, spoiled or reset, for every number of
\* faults and every size of the frame counter.
THEOREM BoardsAgree == Spec => []BoardsInv
<1>. QED
  BY BoardsBegin, BoardsStep, PTL DEF Spec

\* Every value stays in its range: the STS counters too, which start anew with each round.
THEOREM BoardsTypeCorrect == Spec => []TypeOK
<1>1. BoardsInv => TypeOK
  <2>1. SUFFICES ASSUME BoardsInv PROVE TypeOK
    OBVIOUS
  <2>2. iv \in [Node -> 0 .. 3]
    <3>1. 0 .. 2 \subseteq 0 .. 3
      OBVIOUS
    <3>. QED
      BY <2>1, <3>1, Known
  <2>. QED
    BY <2>1, <2>2, Known DEF TypeOK, Place, Round, Numbers
<1>. QED
  BY <1>1, BoardsAgree, PTL

\* In its loop a board has every setting of its setup in force, however often a call of the
\* setup failed and began it again, and after every sleep.
THEOREM SetupKept == Spec => []SetupInForce
<1>1. BoardsInv => SetupInForce
  BY Known DEF Setups
<1>. QED
  BY <1>1, BoardsAgree, PTL

\* A round fails only when a fault touched it.
THEOREM FailuresAreFaults == Spec => []FailsOnlyIfSpoiled
<1>1. BoardsInv => FailsOnlyIfSpoiled
  BY Known DEF Round
<1>. QED
  BY <1>1, BoardsAgree, PTL

\* The AES initiator's next poll carries the number of its round.
THEOREM NumbersKept == Spec => []NumbersAgree
<1>1. BoardsInv => NumbersAgree
  <2>1. SUFFICES ASSUME BoardsInv, LoopOf("ini").numbers PROVE number.ini = rounds
    BY DEF NumbersAgree
  <2>2. example = "aes"
    BY <2>1, RoundCounted, Known
  <2>. QED
    BY <2>1, <2>2, Known DEF Numbers
<1>. QED
  BY <1>1, BoardsAgree, PTL
=============================================================================
