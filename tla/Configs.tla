------------------------------ MODULE Configs ------------------------------
(***************************************************************************)
(* The radio configurations dw3000_config_options.cpp offers, and what the  *)
(* STS ranging examples make of them: when the responder answers, and when  *)
(* the initiator's receiver is on (Twr has the functions they use).         *)
(* Times are ticks of the radio after the poll's ranging marker.            *)
(***************************************************************************)
EXTENDS Twr

SFD == 8   \* symbols, for SFD type 3
PAC == 8

Config(chan, plen, code, kbps, mode, sts) ==
  [chan |-> chan, plen |-> plen, code |-> code, kbps |-> kbps,
   sfdTO |-> plen + 1 + SFD - PAC, mode |-> mode, sts |-> sts]

\* Eight options run through the preamble lengths, each for both channels.
PreambleOf(i) == CASE i \div 2 = 0 -> 64 [] i \div 2 = 1 -> 128
                   [] i \div 2 = 2 -> 512 [] i \div 2 = 3 -> 1024
ChannelOf(i) == IF i % 2 = 0 THEN 5 ELSE 9
Eight(first, code, kbps) ==
  [n \in first .. first + 7 |->
     Config(ChannelOf(n - first), PreambleOf(n - first), code, kbps, "sts1", 64)]

Options850Code9 == Eight(1, 9, 850)
Options850Code10 == Eight(9, 10, 850)
Options6M8Code9 == Eight(17, 9, 6800)
Options6M8Code10 == Eight(25, 10, 6800)
Option33 == Config(5, 128, 9, 6800, "sts1", 128)
config_option_sp3 == Config(5, 128, 9, 6800, "nd", 128)
config_option_sp0 == Config(5, 128, 9, 6800, "off", 128)

config_options(n) ==
  CASE n \in 1 .. 8 -> Options850Code9[n] [] n \in 9 .. 16 -> Options850Code10[n]
    [] n \in 17 .. 24 -> Options6M8Code9[n] [] n \in 25 .. 32 -> Options6M8Code10[n]
    [] n = 33 -> Option33

----------------------------------------------------------------------------
(* The exchange of ex_06a_ss_twr_initiator_sts and                          *)
(* ex_06b_ss_twr_responder_sts, both with the same configuration.           *)

CPU_COMP == 400
POLL_TX_TO_RESP_RX_DLY_UUS == 300 + CPU_COMP
RESP_RX_TIMEOUT_UUS == 700
POLL_RX_TO_RESP_TX_DLY_UUS == 450 + CPU_COMP

\* The ranging marker of the answer; the flight, a few ticks, is left out.
RespTx(c) ==
  (POLL_RX_TO_RESP_TX_DLY_UUS + get_rx_delay_time_data_rate(c.kbps)
     + get_rx_delay_time_txpreamble(c.plen) + c.sts) * UUS_TO_DWT_TIME

\* The radio (external): a preamble symbol lasts 508 chips and a timeout's unit
\* 512, of 128 ticks; what follows the marker of an answer takes no longer
\* than AnswerUnits.
SymbolTicks == 508 * 128
UnitTicks == 512 * 128
AnswerUnits == 400
PreambleBegins(c) == RespTx(c) - (c.plen + SFD) * SymbolTicks
AnswerEnds(c) == RespTx(c) + AnswerUnits * UnitTicks

ReceiverOn(c) == set_delayed_rx_time(POLL_TX_TO_RESP_RX_DLY_UUS, c.plen, c.sts) * 256
ReceiverOff(c) ==
  ReceiverOn(c) + set_resp_rx_timeout(RESP_RX_TIMEOUT_UUS, c.kbps, c.plen, c.sts) * UnitTicks

Heard(c) == ReceiverOn(c) <= PreambleBegins(c) /\ AnswerEnds(c) <= ReceiverOff(c)
=============================================================================
