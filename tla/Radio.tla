------------------------------- MODULE Radio -------------------------------
(***************************************************************************)
(* The DW3000 driver while the radio works, dw3000_device_api.cpp: starting *)
(* transmissions and the receiver, dwt_isr() with its callbacks, and the    *)
(* double receive buffer.  The host is sequential and polls dwt_isr(), as   *)
(* this port does (nothing is attached to the interrupt pin); the radio     *)
(* runs on between any two register accesses.                               *)
(*                                                                          *)
(* The host follows what the driver asks of it: one operation at a time,    *)
(* the receiver re-enabled by hand and from a callback (the ISR "does not   *)
(* support automatic RX re-enabling"), in single buffer mode after the      *)
(* frame has been read, and a turned-off radio polled until it is quiet.    *)
(* Bits that only say more of an event stand with it (RXERR for all of      *)
(* SYS_STATUS_ALL_RX_ERR, a frame's length and RNG bit are the frame's);    *)
(* RXFCE of a frame without CRC, which the handler clears and FINT_STAT     *)
(* ignores, is left out.                                                    *)
(***************************************************************************)
EXTENDS Naturals, Sequences

CONSTANT FRAMES  \* frames are numbered modulo FRAMES, which tells those around apart

ASSUME RadioAssumption == FRAMES \in Nat /\ FRAMES > 2

Frame == 0 .. FRAMES - 1
None == FRAMES
Off == 2   \* DBL_BUFF_OFF
Cia == {"CIADONE", "CIAERR", "CPERR"}
RxGood == {"RXFR", "RXFCG", "CIADONE"}
Events == RxGood \cup {"CIAERR", "CPERR", "TXFRS", "RXERR", "RXTO"}
\* CMDERR for what dwt_isr handles of SYS_PANIC (a command or SPI error), RCINIT
\* for SPIRDY and RCINIT.  The bits it does not handle change nothing.
ChipEvents == {"CMDERR", "RCINIT"}

VARIABLES
  \* pdw3000local
  dbl,     \* dblbuffon: Off, or the buffer the host accesses, 0 or 1
  noData,  \* stsconfig is DWT_STS_MODE_ND: frames carry no data and no CRC
  cb,      \* cbData: rx_flags and the datalength, given by the frame it is of
  \* locals of the driver and state of the application
  pc,      \* "app", "txcheck" in dwt_starttx, or the place in dwt_isr
  rxen,    \* the place in a dwt_rxenable called from there: "no", "check", "again"
  fstat, snap,  \* fstat and status of dwt_isr, with what it read of status_hi
  waits,   \* what the host polls dwt_isr() for: "tx", "rx", "off" (quiet)
  got,     \* the frame whose data the RxOk callback has read
  \* the radio
  trx,     \* "idle", "late", "txerr", "txwait", "tx", "rxlate", "rx"
  w4r,     \* the receiver goes on after the transmission
  fwto,    \* SYS_CFG_RXWTOE
  status, rdb,  \* SYS_STATUS; the buffers RDB_STATUS has events for
  chip,    \* the bits of SYS_STATUS that are about the chip
  buf, fill,    \* the receive buffers and the one the next frame goes to
  full,    \* buffers filled and not yet given back by CMD_DB_TOGGLE
  \* history
  owed,    \* frames received and not reported, each with its CIA and STS result
  txOwed,  \* frames sent and not reported
  nextFrame

hostVars == <<dbl, noData, cb, pc, rxen, fstat, snap, waits, got>>
radioVars == <<trx, w4r, fwto, status, rdb, chip, buf, fill, full>>
hostButPc == <<dbl, noData, cb, rxen, fstat, snap, waits, got>>
history == <<owed, txOwed, nextFrame>>
vars == <<hostVars, radioVars, history>>

\* The CIA ends with DONE or ERR, whatever the quality of the STS.
Result == {r \in SUBSET Cia : "CIADONE" \in r <=> "CIAERR" \notin r}
Received == [frame : Frame, cia : Result]

RadioEvents == {"TXOK", "RXOK", "RXERR", "RXTO"}

TypeOK ==
  /\ dbl \in {Off, 0, 1} /\ noData \in BOOLEAN
  /\ cb \in [len : Frame \cup {None}, flags : SUBSET Cia]
  /\ pc \in {"app", "txcheck", "status", "panic", "panicclr", "tx", "txdone", "sys", "syscb",
             "rx", "rxinfo", "rxlen", "rxclr", "rxok", "err", "errcb", "to", "tocb", "end"}
  /\ rxen \in {"no", "check", "again"}
  /\ fstat \subseteq RadioEvents \cup {"PANIC", "EVENT"}
  /\ snap \subseteq Events \cup {"CMDERR"}
  /\ waits \subseteq {"tx", "rx", "off"}
  /\ got \in Frame \cup {None}
  /\ trx \in {"idle", "late", "txerr", "txwait", "tx", "rxlate", "rx"}
  /\ w4r \in BOOLEAN /\ fwto \in BOOLEAN
  /\ status \subseteq Events /\ rdb \subseteq {0, 1} /\ chip \subseteq ChipEvents
  /\ buf \in [{0, 1} -> Frame \cup {None}] /\ fill \in {0, 1} /\ full \subseteq {0, 1}
  /\ owed \in Seq(Received) /\ Len(owed) <= 2
  /\ txOwed \in 0 .. 2
  /\ nextFrame \in Frame

Init ==
  /\ dbl = Off /\ noData \in BOOLEAN /\ cb = [len |-> None, flags |-> {}]
  /\ pc = "app" /\ rxen = "no" /\ fstat = {} /\ snap = {} /\ waits = {} /\ got = None
  /\ trx = "idle" /\ w4r = FALSE /\ fwto = FALSE
  /\ status = {} /\ rdb = {} /\ chip = {"RCINIT"} /\ buf = [b \in {0, 1} |-> None]
  /\ fill = 0 /\ full = {}
  /\ owed = <<>> /\ txOwed = 0 /\ nextFrame = 0

(***************************************************************************)
(* The application's calls.                                                 *)
(***************************************************************************)
AppMayCall == pc = "app" /\ rxen = "no" /\ waits = {}
InCallback == pc \in {"txdone", "syscb", "rxok", "errcb", "tocb"} /\ rxen = "no"
DataRead == noData \/ got # None
TxOff == trx' = "idle" /\ w4r' = FALSE

\* dwt_starttx: an immediate command, or a delayed one that the radio finds
\* in time, too late (HPDWARN) or too close (SYS_STATE TXERR).
StartTx(state, response) ==
  /\ AppMayCall
  /\ trx' = state /\ w4r' = response
  /\ waits' = {"tx"} \cup (IF response THEN {"rx"} ELSE {})
  /\ pc' = "txcheck"
  /\ UNCHANGED <<dbl, noData, cb, rxen, fstat, snap, got, fwto, status, rdb, chip, buf, fill, full,
                 history>>

\* Fault: after HPDWARN the radio is not turned off and sends 8.6 s later.
TxCheckedKeepsLate ==
  /\ pc = "txcheck" /\ pc' = "app"
  /\ IF trx \in {"late", "txerr"}
       THEN waits' = {} /\ (IF trx = "late" THEN UNCHANGED <<trx, w4r>> ELSE TxOff)
       ELSE UNCHANGED <<waits, trx, w4r>>
  /\ UNCHANGED <<dbl, noData, cb, rxen, fstat, snap, got, fwto, status, rdb, chip, buf, fill, full,
                 history>>

\* DWT_ERROR after CMD_TXRXOFF, else DWT_SUCCESS.
TxChecked ==
  /\ pc = "txcheck" /\ pc' = "app"
  /\ IF trx \in {"late", "txerr"} THEN TxOff /\ waits' = {}
                                  ELSE UNCHANGED <<waits, trx, w4r>>
  /\ UNCHANGED <<dbl, noData, cb, rxen, fstat, snap, got, fwto, status, rdb, chip, buf, fill, full,
                 history>>

\* dwt_rxenable, called by the application or from a callback; a wrong mode
\* does nothing.  Single buffer mode: read first.
MayEnable ==
  /\ trx = "idle" /\ waits = {}
  /\ AppMayCall \/ (InCallback /\ (pc = "rxok" /\ dbl = Off => DataRead))

RxEnable ==
  /\ MayEnable
  /\ \/ trx' = "rx" /\ UNCHANGED rxen                        \* CMD_RX
     \/ trx' \in {"rx", "rxlate"} /\ rxen' = "check"          \* CMD_DRX...
  /\ waits' = {"rx"}
  /\ UNCHANGED <<dbl, noData, cb, pc, fstat, snap, got, w4r, fwto, status, rdb, chip, buf, fill,
                 full, history>>

\* A delayed start that is late (HPDWARN) turns the radio off, and goes on to
\* CMD_RX unless the mode has DWT_IDLE_ON_DLY_ERR.
RxChecked ==
  /\ rxen = "check"
  /\ IF trx = "rxlate" THEN TxOff /\ waits' = {} /\ rxen' \in {"no", "again"}
                       ELSE rxen' = "no" /\ UNCHANGED <<trx, w4r, waits>>
  /\ UNCHANGED <<dbl, noData, cb, pc, fstat, snap, got, fwto, status, rdb, chip, buf, fill,
                 full, history>>

RxAgain ==
  /\ rxen = "again" /\ rxen' = "no"
  /\ trx' = "rx" /\ waits' = {"rx"}
  /\ UNCHANGED <<dbl, noData, cb, pc, fstat, snap, got, w4r, fwto, status, rdb, chip, buf, fill,
                 full, history>>

ForceTrxOff ==
  /\ pc = "app" /\ rxen = "no" /\ waits \cap {"tx", "rx"} # {}
  /\ TxOff /\ waits' = {"off"}
  /\ UNCHANGED <<dbl, noData, cb, pc, rxen, fstat, snap, got, fwto, status, rdb, chip, buf, fill,
                 full, history>>

SetRxTimeout ==
  /\ AppMayCall
  /\ fwto' = ~fwto
  /\ UNCHANGED <<hostVars, trx, w4r, status, rdb, chip, buf, fill, full, history>>

\* dwt_setdblrxbuffmode, to change the mode: the radio then fills RX_BUFFER_0
\* first.  RDB_STATUS keeps what it has.
SetDblRxBuffMode ==
  /\ AppMayCall
  /\ dbl' = IF dbl = Off THEN 0 ELSE Off
  /\ fill' = 0 /\ full' = {}
  /\ UNCHANGED <<noData, cb, pc, rxen, fstat, snap, waits, got, trx, w4r, fwto, status, rdb, chip,
                 buf, history>>

(***************************************************************************)
(* dwt_isr().                                                               *)
(***************************************************************************)
\* FINT_STAT as the radio derives it.  In no data mode it knows nothing of a
\* reception (lines 3327-3334), in RDB_STATUS either.
Fast ==
  {e \in RadioEvents \cup {"PANIC", "EVENT"} :
     \/ e \in status
     \/ e = "TXOK" /\ "TXFRS" \in status
     \/ e = "RXOK" /\ ("RXFCG" \in status \/ (~noData /\ rdb # {}))
     \/ e = "PANIC" /\ "CMDERR" \in chip
     \/ e = "EVENT" /\ "RCINIT" \in chip}

IsrStart ==
  /\ pc = "app" /\ rxen = "no" /\ waits # {}
  /\ fstat' = Fast
  /\ pc' = "status"
  /\ UNCHANGED <<dbl, noData, cb, rxen, snap, waits, got, radioVars, history>>

\* The status register is read after the fast one.
ReadStatus ==
  /\ pc = "status" /\ pc' = "panic"
  /\ snap' = status
  /\ fstat' = fstat \cup {"RXOK" : x \in {e \in status : e = "RXFR" /\ noData}}
  /\ UNCHANGED <<dbl, noData, cb, rxen, waits, got, radioVars, history>>

\* The blocks of the handler, the bit each looks for, and what follows.
Blocks == {<<"panic", "PANIC", "tx">>, <<"tx", "TXOK", "sys">>, <<"sys", "EVENT", "rx">>,
           <<"rx", "RXOK", "err">>, <<"err", "RXERR", "to">>, <<"to", "RXTO", "end">>}

SkipBlock ==
  /\ \E b \in Blocks : pc = b[1] /\ b[2] \notin fstat /\ pc' = b[3]
  /\ UNCHANGED <<dbl, noData, cb, rxen, fstat, snap, waits, got, radioVars, history>>

\* status_hi is read, and what it has of the errors handled here cleared.
PanicRead ==
  /\ pc = "panic" /\ "PANIC" \in fstat /\ pc' = "panicclr"
  /\ snap' = snap \cup (chip \cap {"CMDERR"})
  /\ UNCHANGED <<dbl, noData, cb, rxen, fstat, waits, got, radioVars, history>>

PanicClear ==
  /\ pc = "panicclr" /\ pc' = "tx"
  /\ chip' = chip \ (snap \cap {"CMDERR"})
  /\ UNCHANGED <<hostButPc, trx, w4r, fwto, status, rdb, buf, fill, full, history>>

\* cbSPIRdy, and only after it the bits are cleared.
SysEvent ==
  /\ pc = "sys" /\ "EVENT" \in fstat /\ pc' = "syscb"
  /\ UNCHANGED <<hostButPc, radioVars, history>>

SysReturns ==
  /\ pc = "syscb" /\ rxen = "no" /\ pc' = "rx"
  /\ chip' = chip \ {"RCINIT"}
  /\ UNCHANGED <<hostButPc, trx, w4r, fwto, status, rdb, buf, fill, full, history>>

\* Fault: the whole status register is cleared, not only SYS_STATUS_ALL_TX.
TxOkClearsAll ==
  /\ pc = "tx" /\ "TXOK" \in fstat /\ pc' = "txdone"
  /\ status' = {}
  /\ waits' = waits \ {"tx"}
  /\ txOwed' = txOwed - 1
  /\ UNCHANGED <<dbl, noData, cb, rxen, fstat, snap, got, trx, w4r, fwto, rdb, chip, buf, fill,
                 full, owed, nextFrame>>

TxOk ==
  /\ pc = "tx" /\ "TXOK" \in fstat /\ pc' = "txdone"
  /\ status' = status \ {"TXFRS"}
  /\ waits' = waits \ {"tx"}
  /\ txOwed' = txOwed - 1
  /\ UNCHANGED <<dbl, noData, cb, rxen, fstat, snap, got, trx, w4r, fwto, rdb, chip, buf, fill,
                 full, owed, nextFrame>>

\* dwt_isr, dwt_readrxdata and the other readers go by dblbuffon.
HostBuffer == IF dbl = 1 THEN 1 ELSE 0

\* RDB_STATUS adds the events of the buffer the host has come to; without
\* data it has no RXFCG.
Seen ==
  snap \cup (IF dbl # Off /\ HostBuffer \in rdb
               THEN RxGood \ (IF noData THEN {"RXFCG"} ELSE {}) ELSE {})

FlagsOf(s) ==
  (IF "CIAERR" \in s THEN {"CIAERR"} ELSE s \cap {"CIADONE"}) \cup (s \cap {"CPERR"})

\* Fault: a CIA error stays in the status register.
ClearedForgetsCia(s) == RxGood

\* Line 3501: what is cleared of the status register.
Cleared(s) == RxGood \cup (s \cap {"CIAERR", "CPERR"})

HasData == ~noData /\ "RXFCG" \in snap

\* Up to the call of cbRxOk: RDB_STATUS and the flags; the events of the
\* buffer; the frame's length, which is 0 without data; the status register.
RxFlags ==
  /\ pc = "rx" /\ "RXOK" \in fstat /\ pc' = "rxinfo"
  /\ snap' = Seen
  /\ cb' = [cb EXCEPT !.flags = FlagsOf(Seen)]
  /\ UNCHANGED <<dbl, noData, rxen, fstat, waits, got, radioVars, history>>

RxFreesEvents ==
  /\ pc = "rxinfo" /\ pc' = "rxlen"
  /\ rdb' = IF HasData /\ dbl # Off THEN rdb \ {HostBuffer} ELSE rdb
  /\ UNCHANGED <<hostButPc, trx, w4r, fwto, status, chip, buf, fill, full, history>>

RxLength ==
  /\ pc = "rxlen" /\ pc' = "rxclr"
  /\ cb' = [cb EXCEPT !.len = IF HasData THEN buf[HostBuffer] ELSE None]
  /\ UNCHANGED <<dbl, noData, rxen, fstat, snap, waits, got, radioVars, history>>

RxOk ==
  /\ pc = "rxclr" /\ pc' = "rxok"
  /\ status' = status \ Cleared(snap)
  /\ got' = None
  /\ waits' = waits \ {"rx"}
  /\ UNCHANGED <<dbl, noData, cb, rxen, fstat, snap, trx, w4r, fwto, rdb, chip, buf, fill, full,
                 history>>

ReadRxData ==
  /\ pc = "rxok" /\ rxen = "no" /\ ~DataRead
  /\ got' = buf[HostBuffer]
  /\ UNCHANGED <<dbl, noData, cb, pc, rxen, fstat, snap, waits, radioVars, history>>

\* dwt_signal_rx_buff_free(): CMD_DB_TOGGLE and the driver's own note of it.
SignalRxBuffFree ==
  IF dbl = Off THEN UNCHANGED <<dbl, noData, full>>
  ELSE full' = full \ {HostBuffer} /\ dbl' = 1 - dbl

RxOkReturns ==
  /\ pc = "rxok" /\ rxen = "no" /\ DataRead /\ pc' = "err"
  /\ SignalRxBuffFree
  /\ owed' = Tail(owed)
  /\ UNCHANGED <<noData, cb, rxen, fstat, snap, waits, got, trx, w4r, fwto, status, rdb, chip, buf,
                 fill, txOwed, nextFrame>>

\* SYS_STATUS_ALL_RX_ERR, which has CIAERR, and SYS_STATUS_ALL_RX_TO.
ErrorClears(bit) == IF bit = "RXERR" THEN {"RXERR", "CIAERR"} ELSE {bit}

RxErrOrTimeout ==
  /\ \E b \in Blocks :
       /\ b[2] \in {"RXERR", "RXTO"} \cap fstat /\ pc = b[1]
       /\ pc' = IF b[1] = "err" THEN "errcb" ELSE "tocb"
       /\ status' = status \ ErrorClears(b[2])
  /\ waits' = waits \ {"rx"}
  /\ UNCHANGED <<dbl, noData, cb, rxen, fstat, snap, got, trx, w4r, fwto, rdb, chip, buf, fill,
                 full, history>>

CallbackReturns ==
  /\ rxen = "no"
  /\ \/ pc = "txdone" /\ pc' = "sys"
     \/ pc = "errcb" /\ pc' = "to"
     \/ pc = "tocb" /\ pc' = "end"
  /\ UNCHANGED <<hostButPc, radioVars, history>>

\* A radio that was turned off is polled until it has nothing more to say.  The
\* locals are gone; cbData is written anew before a callback uses it.
IsrEnds ==
  /\ pc = "end" /\ pc' = "app"
  /\ waits' = IF fstat \cap RadioEvents = {} THEN waits \ {"off"} ELSE waits
  /\ fstat' = {} /\ snap' = {} /\ got' = None
  /\ cb' = [len |-> None, flags |-> {}]
  /\ UNCHANGED <<dbl, noData, rxen, radioVars, history>>

(***************************************************************************)
(* The radio.  It stops after a frame, an error or a timeout.               *)
(***************************************************************************)
TxBegins ==
  /\ trx = "txwait" /\ trx' = "tx"
  /\ UNCHANGED <<hostVars, w4r, fwto, status, rdb, chip, buf, fill, full, history>>

TxEnds ==
  /\ trx = "tx"
  /\ trx' = (IF w4r THEN "rx" ELSE "idle") /\ w4r' = FALSE
  /\ status' = status \cup {"TXFRS"}
  /\ txOwed' = txOwed + 1
  /\ UNCHANGED <<hostVars, fwto, rdb, chip, buf, fill, full, owed, nextFrame>>

Receive ==
  /\ trx = "rx" /\ trx' = "idle"
  /\ \E c \in Result :
       /\ status' = status \cup {"RXFR"} \cup c \cup (IF noData THEN {} ELSE {"RXFCG"})
       /\ owed' = Append(owed, [frame |-> nextFrame, cia |-> c])
  /\ buf' = [buf EXCEPT ![fill] = nextFrame]
  /\ IF dbl = Off THEN UNCHANGED <<rdb, fill, full>>
     ELSE rdb' = rdb \cup {fill} /\ full' = full \cup {fill} /\ fill' = 1 - fill
  /\ nextFrame' = (nextFrame + 1) % FRAMES
  /\ UNCHANGED <<hostVars, w4r, fwto, chip, txOwed>>

ReceiveFails ==
  /\ trx = "rx" /\ trx' = "idle"
  /\ \/ status' = status \cup {"RXERR"}
     \/ fwto /\ status' = status \cup {"RXTO"}
  /\ UNCHANGED <<hostVars, w4r, fwto, rdb, chip, buf, fill, full, history>>

\* An SPI transaction or a command of something else has failed.
Panic ==
  /\ chip' = chip \cup {"CMDERR"}
  /\ UNCHANGED <<hostVars, trx, w4r, fwto, status, rdb, buf, fill, full, history>>

----------------------------------------------------------------------------
AppStep ==
  \/ \E state \in {"late", "txerr", "txwait"}, r \in BOOLEAN : StartTx(state, r)
  \/ RxEnable \/ ForceTrxOff \/ SetRxTimeout \/ SetDblRxBuffMode

EnableStep == RxChecked \/ RxAgain

IsrStep ==
  \/ TxChecked \/ IsrStart \/ ReadStatus \/ SkipBlock
  \/ PanicRead \/ PanicClear \/ TxOk \/ SysEvent \/ SysReturns
  \/ RxFlags \/ RxFreesEvents \/ RxLength \/ RxOk \/ ReadRxData \/ RxOkReturns
  \/ RxErrOrTimeout \/ CallbackReturns \/ IsrEnds

RadioStep == TxBegins \/ TxEnds \/ Receive \/ ReceiveFails

Next == AppStep \/ EnableStep \/ IsrStep \/ RadioStep \/ Panic

Spec == Init /\ [][Next]_vars

\* The host polls dwt_isr() as long as it waits for something and returns
\* from its callbacks, which make finitely many calls (hence SF); the radio
\* carries out what it was told.  Nothing makes the host start an operation,
\* and a frame need not come.
FairSpec ==
  /\ Spec
  /\ WF_vars(EnableStep) /\ SF_vars(IsrStep)
  /\ WF_vars(TxBegins) /\ WF_vars(TxEnds) /\ WF_vars(fwto /\ ReceiveFails)

----------------------------------------------------------------------------
(***************************************************************************)
(* Properties                                                               *)
(***************************************************************************)

\* dwt_isr's header, "received frame information and frame control are read
\* before calling the callback ... it will also toggle between reception
\* buffers": each cbRxOk is about the oldest frame not yet reported, with that
\* frame's length, data and CIA result, while the radio may already fill the
\* other buffer.
ReportsOldestFrame ==
  pc = "rxok" =>
    /\ owed # <<>>
    /\ cb.flags = Head(owed).cia
    /\ cb.len = IF noData THEN None ELSE Head(owed).frame
    /\ got # None => got = Head(owed).frame

\* dwt_starttx and dwt_rxenable: a call that failed leaves nothing behind that
\* could start the radio later (lines 3740-3760, 3895-3904).
NothingLeftArmed == AppMayCall => trx = "idle" /\ ~w4r

\* dwt_isr's header, "for all events, corresponding interrupts are cleared":
\* whatever the radio has sent or received is reported in the end.
Owed(f) == \E i \in DOMAIN owed : owed[i].frame = f
EverythingReported ==
  /\ txOwed > 0 ~> txOwed = 0
  /\ \A f \in Frame : Owed(f) ~> ~Owed(f)
=============================================================================
