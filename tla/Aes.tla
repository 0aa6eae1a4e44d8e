-------------------------------- MODULE Aes --------------------------------
(***************************************************************************)
(* The AES jobs of the DW3000 driver and the 802.15.4 frames that carry     *)
(* their payloads: what dwt_do_aes refuses, where it reads and writes, and  *)
(* what rx_aes_802_15_4 makes of a received frame.  Bytes of a payload are  *)
(* left out; lengths, places and outcomes are kept.                         *)
(***************************************************************************)
EXTENDS Integers, Sequences

FCS_LEN == 2
STS_LEN_128BIT == 16
RX_BUFFER_MAX_LEN == 1023
TX_BUFFER_MAX_LEN == 1024
SCRATCH_BUFFER_MAX_LEN == 127
MIC_ERROR == 255
EXTENDED_ADDR == 8

----------------------------------------------------------------------------
(* The header (mhr_802_15_4_t): its fields, its length, its counter.        *)

\* frame control, sequence number, PAN, two addresses, control, counter, key
HeaderLen == 2 + 1 + 2 + 2 * EXTENDED_ADDR + 1 + 4 + 1

\* The counter as the bytes of the header, least significant first.
mac_frame_update_aux_frame_cnt(v) ==
  LET a == v \div 256
      b == a \div 256
      c == b \div 256
  IN <<v % 256, a % 256, b % 256, c % 256>>
mac_frame_get_aux_frame_cnt(b) == b[1] + 256 * b[2] + 65536 * b[3] + 16777216 * b[4]

\* Bits 0..2 of the auxiliary security control; 4 is reserved.
mac_frame_get_aux_mic_size(level) ==
  CASE level = 0 -> 0 [] level \in {1, 5} -> 4 [] level \in {2, 6} -> 8
    [] level \in {3, 7} -> 16 [] OTHER -> MIC_ERROR

\* The code AES_CFG wants for a tag of that many bytes: MIC_0, MIC_4 .. MIC_16.
dwt_mic_size_from_bytes(bytes) == IF bytes # 0 THEN (bytes \div 2) - 1 ELSE 0
BytesOfCode(code) == IF code = 0 THEN 0 ELSE 2 * (code + 1)   \* dwt_mic_size_e

\* The nonce: source address, counter, level; and where the CCM core wants it.
mac_frame_get_nonce(src, cnt, level) ==
  [i \in 0 .. 12 |-> CASE i \in 0 .. 7 -> src[i] [] i \in 8 .. 11 -> cnt[i - 7]
                       [] i = 12 -> level]
dwt_update_nonce_CCM(nonce, plen) ==
  [i \in 0 .. 15 |-> CASE i \in 0 .. 10 -> nonce[10 - i] [] i = 11 -> 0
                       [] i = 12 -> plen % 256 [] i = 13 -> (plen \div 256) % 256
                       [] i = 14 -> nonce[12] [] i = 15 -> nonce[11]]

----------------------------------------------------------------------------
(* A job: [mode, src, dst, hlen, plen, mic].                    *)

RxPort == {"rx0", "rx1"}

\* The room a job has, in the buffer it works on.
AllowSize(job) ==
  IF job.mode = "encrypt"
  THEN IF job.src = "scratch" THEN SCRATCH_BUFFER_MAX_LEN ELSE TX_BUFFER_MAX_LEN
  ELSE IF job.dst = "scratch" THEN SCRATCH_BUFFER_MAX_LEN ELSE RX_BUFFER_MAX_LEN

\* dwt_do_aes's refusals in their order; the last one comes after the data has
\* been written to the chip, all but the first after the nonce has.
Refusal(job) ==
  IF job.mic = MIC_ERROR THEN "ERROR_WRONG_MIC_SIZE"
  ELSE IF job.mode \notin {"encrypt", "decrypt"} THEN "ERROR_WRONG_MODE"
  ELSE IF job.hlen + job.plen > AllowSize(job) - job.mic - FCS_LEN THEN "ERROR_DATA_SIZE"
  ELSE IF job.dst = "sts_key" /\ job.plen > STS_LEN_128BIT THEN "ERROR_PAYLOAD_SIZE"
  ELSE "none"

NonceWritten(job) == Refusal(job) # "ERROR_WRONG_MIC_SIZE"
DataWritten(job) ==
  job.mode = "encrypt" /\ Refusal(job) \in {"none", "ERROR_PAYLOAD_SIZE"}

\* The receiver's port is the buffer the driver reads, whatever the job says.
Port(port, second) ==
  IF port \in RxPort THEN IF second THEN "rx1" ELSE "rx0" ELSE port

\* The lengths as DMA_CFG1 takes them: 7 and 10 bits.
DmaLengths(job) == [hlen |-> job.hlen % 128, plen |-> job.plen % 1024]

\* After a clean end of a decryption the host reads the result from here.
ReadBackFrom(job, second) ==
  CASE job.dst \in RxPort -> Port(job.dst, second)
    [] job.dst = "tx" -> "tx"
    [] OTHER -> "scratch"

\* AES_STS at the end of dwt_wait_aes_poll, the two RAM bits left out.
EngineEnds == {"done", "auth_err", "trans_err", "mem_conf"}

dwt_do_aes(job, second, end) ==
  IF Refusal(job) # "none" THEN [ret |-> Refusal(job), read |-> FALSE, from |-> "none"]
  ELSE [ret |-> end, read |-> job.mode = "decrypt" /\ end = "done",
        from |-> ReadBackFrom(job, second)]

----------------------------------------------------------------------------
(* The receiver of a frame [len, secure, level, forMe].                     *)

rx_payload_len(f, hlen) ==
  f.len - (hlen + mac_frame_get_aux_mic_size(f.level) + FCS_LEN)

RxJob(f, hlen) ==
  [mode |-> "decrypt", src |-> "rx0", dst |-> "rx0", hlen |-> hlen,
   plen |-> rx_payload_len(f, hlen), mic |-> mac_frame_get_aux_mic_size(f.level)]

rx_aes_802_15_4(f, hlen, max_payload, second, end) ==
  LET status == dwt_do_aes(RxJob(f, hlen), second, end).ret
  IN IF f.len - FCS_LEN < hlen THEN "ERROR_FRAME"
     ELSE IF ~f.secure \/ ~f.forMe THEN "ERROR_IGNORE_FRAME"
     ELSE IF mac_frame_get_aux_mic_size(f.level) = MIC_ERROR THEN "ERROR_FRAME"
     ELSE IF rx_payload_len(f, hlen) \notin 0 .. max_payload THEN "ERROR_FRAME"
     ELSE IF status \notin EngineEnds THEN "ERROR_LENGTH"
     ELSE IF status # "done" THEN "ERROR" ELSE "OK"

\* The frame the AES examples send (their dwt_writetxfctrl).
Secured(hlen, plen, level) ==
  [len |-> hlen + plen + mac_frame_get_aux_mic_size(level) + FCS_LEN,
   secure |-> TRUE, level |-> level, forMe |-> TRUE]

TxJob(hlen, plen, level) ==
  [mode |-> "encrypt", src |-> "tx", dst |-> "tx", hlen |-> hlen, plen |-> plen,
   mic |-> mac_frame_get_aux_mic_size(level)]
=============================================================================
