-------------------------------- MODULE Twr --------------------------------
(***************************************************************************)
(* The time arithmetic of single-sided two-way ranging: what the tag puts   *)
(* in its answer, what an anchor makes of it, and the delays and timeouts   *)
(* of dw3000_shared_functions.cpp.  The radio counts 40-bit ticks, half of  *)
(* the arithmetic has 32 bits, and both clocks may wrap at any moment.      *)
(* Exchange has the messages; here they are answered, and only time counts. *)
(***************************************************************************)
EXTENDS Integers, FiniteSets

Two40 == 1099511627776
Two32 == 4294967296
Two31 == 2147483648
UUS_TO_DWT_TIME == 63898

Low40(t) == t % Two40
Low32(t) == t % Two32
Shr8(n) == n \div 256
Low8(n) == n % 256

\* The difference of two uint32_t assigned to an int32_t.
Int32(u) == IF u < Two31 THEN u ELSE u - Two32
Difference(a, b) == Int32(Low32(a - b))

----------------------------------------------------------------------------
(* Timestamps in a frame: four bytes, the lowest first.                      *)

resp_msg_set_ts(ts) ==
  <<Low8(ts), Low8(Shr8(ts)), Low8(Shr8(Shr8(ts))), Low8(Shr8(Shr8(Shr8(ts))))>>
resp_msg_get_ts(field) ==
  field[1] + field[2] * 256 + field[3] * 65536 + field[4] * 16777216

\* Five bytes from the radio, the highest first into the number.
get_timestamp_u64(tab) ==
  (((tab[5] * 256 + tab[4]) * 256 + tab[3]) * 256 + tab[2]) * 256 + tab[1]

----------------------------------------------------------------------------
(* The tag.  The radio starts a delayed transmission when the upper 32 bits *)
(* of its clock reach the value set, whose lowest bit it ignores; the       *)
(* antenna delay comes on top of that.                                      *)

resp_tx_time(poll_rx_ts, delay) == Low32(Shr8(poll_rx_ts + delay))
DelayedTx(time) == (time \div 2) * 512
resp_tx_ts(poll_rx_ts, delay, antenna) == DelayedTx(resp_tx_time(poll_rx_ts, delay)) + antenna

\* The radio (external): the first moment from now on at which the 40-bit clock
\* shows the time set, in ticks from now.
Until(now, time) == Low40(DelayedTx(time) - now)

\* From the poll's arrival to the answer's departure, as the tag's clock sees it.
Reply(poll_rx_ts, delay, antenna) ==
  Until(poll_rx_ts, resp_tx_time(poll_rx_ts, delay)) + antenna

(* The anchor: twice the time of flight, in ticks, before the correction    *)
(* for the clocks' rates and the scaling to metres.                         *)

rtd_init(poll_tx_ts, resp_rx_ts) == Difference(resp_rx_ts, poll_tx_ts)
rtd_resp(poll_rx_ts, tx_ts) == Difference(tx_ts, poll_rx_ts)
TwiceToF(poll_tx_ts, resp_rx_ts, poll_rx_ts, tx_ts) ==
  rtd_init(poll_tx_ts, resp_rx_ts) - rtd_resp(poll_rx_ts, tx_ts)

\* A distance below zero is sent as zero.
Sent(distance) == IF distance < 0 THEN 0 ELSE distance

\* What an exchange measures: the poll leaves the anchor at clock value a, takes
\* tof ticks, and reaches a tag whose clock then shows t.
Measured(a, t, tof, delay, antenna) ==
  TwiceToF(Low32(a), Low32(a + tof + Reply(t, delay, antenna) + tof),
           Low32(t), Low32(resp_tx_ts(t, delay, antenna)))

----------------------------------------------------------------------------
(* Delays and timeouts, in UWB microseconds (about one preamble symbol).    *)

PreambleLengths == {32, 64, 72, 128, 256, 512, 1024, 1536, 2048, 4096}
STSLengths == {32, 64, 128, 256, 512, 1024, 2048}

get_rx_delay_time_txpreamble(plen) == IF plen >= 256 THEN plen - 128 ELSE 0
get_rx_delay_time_data_rate(kbps) == IF kbps = 850 THEN 200 ELSE 0

\* uint32_t throughout: a delay shorter than the preamble wraps, and so does the
\* product; 4096 symbols are taken for 2048.
PreambleTaken(plen) == IF plen = 4096 THEN 2048 ELSE plen
set_delayed_rx_time(delay, plen, sts) ==
  Shr8(Low32(Low32(delay - PreambleTaken(plen) + sts) * UUS_TO_DWT_TIME))

set_resp_rx_timeout(delay, kbps, plen, sts) ==
  Low32(delay + get_rx_delay_time_data_rate(kbps) + get_rx_delay_time_txpreamble(plen) + 500
          + (IF sts >= 256 THEN sts ELSE 0))

\* The STS counter of a receiver is put in the middle of the transmitter's.
resync_sts(newCount, sts) == Low32(newCount + sts \div 2)

----------------------------------------------------------------------------
(* check_for_status_errors: the counters a status word adds to.             *)

StsBits == {"peak_growth", "adc_count", "sfd_count", "late_first_path", "late_coarse",
            "coarse_empty", "high_noise", "non_triangle", "log_reg_failed"}

check_for_status_errors(reg, stsStatus) ==
  {c \in {"BAD_FRAME", "RSE", "PHE", "PTO", "ARFE", "CRC", "RTO", "SFDTO", "STS_PREAMBLE"} :
     CASE c = "BAD_FRAME" -> "RXFCG" \notin reg
       [] c = "RSE" -> "RXFSL" \in reg
       [] c = "PHE" -> "RXPHE" \in reg
       [] c = "PTO" -> "RXPTO" \in reg
       [] c = "ARFE" -> "ARFE" \in reg
       [] c = "CRC" -> "RXFR" \in reg /\ "RXFCG" \notin reg
       [] c = "RTO" -> reg \cap {"RXFTO", "RXPTO"} # {}
       [] c = "SFDTO" -> "RXSTO" \in reg
       [] c = "STS_PREAMBLE" -> "CPERR" \in reg}
  \cup (IF "CPERR" \in reg THEN stsStatus \cap StsBits ELSE {})

============================================================================
