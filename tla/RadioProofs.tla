---------------------------- MODULE RadioProofs ----------------------------
(***************************************************************************)
(* That dwt_isr() reports the oldest frame received with that frame's data, *)
(* and that no operation is left behind, whatever the radio does between    *)
(* the driver's register accesses.                                          *)
(***************************************************************************)
EXTENDS Radio, SequenceTheorems, TLAPS

Sending == trx \in {"late", "txerr", "txwait", "tx"}
Receiving == trx \in {"rx", "rxlate"} \/ w4r
RxEnded == {"RXFR", "RXERR", "RXTO"} \cap status # {}

\* The host waits for an operation from its start until its event is cleared,
\* and for one at a time.
OneOperation ==
  /\ IF "off" \in waits
       THEN "tx" \notin waits /\ "rx" \notin waits /\ trx = "idle" /\ ~w4r
       ELSE /\ "tx" \in waits <=> Sending \/ "TXFRS" \in status
            /\ "rx" \in waits <=> Receiving \/ RxEnded
  /\ w4r => Sending
  /\ Sending => status = {}
  /\ trx \in {"rx", "rxlate"} => ~RxEnded
  /\ "RXFR" \in status => "RXERR" \notin status /\ "RXTO" \notin status
  /\ "RXERR" \in status => "RXTO" \notin status
  /\ txOwed = IF "TXFRS" \in status THEN 1 ELSE 0

\* An event that dwt_isr has seen and not yet come to is still there.
BeforeTx == pc \in {"status", "panic", "panicclr", "tx"}
BeforeFlags == BeforeTx \/ pc \in {"txdone", "sys", "syscb", "rx"}
InRx == pc \in {"rxinfo", "rxlen", "rxclr"}
BeforeRx == BeforeFlags \/ InRx
BeforeErr == BeforeRx \/ pc \in {"rxok", "err"}
BeforeTo == BeforeErr \/ pc \in {"errcb", "to"}
Seeing ==
  /\ BeforeTx /\ "TXOK" \in fstat => "TXFRS" \in status
  /\ BeforeRx /\ "RXOK" \in fstat => "RXFR" \in status
  /\ BeforeErr /\ "RXERR" \in fstat => "RXERR" \in status
  /\ BeforeTo /\ "RXTO" \in fstat => "RXTO" \in status
  /\ BeforeFlags /\ pc # "status" /\ "RXOK" \in fstat =>
       \A e \in {"RXFCG", "CIADONE", "CIAERR", "CPERR"} : e \in snap <=> e \in status
  /\ InRx => /\ "RXOK" \in fstat
             /\ \A e \in {"RXFCG", "CIAERR", "CPERR"} : e \in snap <=> e \in status

\* While the host waits for quiet the radio does nothing.
Quiet ==
  "off" \in waits =>
    /\ pc = "status" => \A e \in RadioEvents : e \in fstat <=> e \in Fast
    /\ pc \notin {"app", "status"} /\ fstat \cap RadioEvents = {} => status = {}

\* Inside dwt_rxenable the host waits for the reception it may just have begun.
Enabling ==
  rxen # "no" =>
    /\ pc \in {"app", "txdone", "syscb", "rxok", "errcb", "tocb"}
    /\ pc = "rxok" /\ dbl = Off => DataRead
    /\ waits \subseteq (IF rxen = "check" THEN {"rx"} ELSE {})

\* The frames not reported: the one of the callback and then the one whose
\* event is pending, in the buffer the host will come to.
Frames ==
  /\ Len(owed) = (IF pc = "rxok" THEN 1 ELSE 0) + (IF "RXFR" \in status THEN 1 ELSE 0)
  /\ "RXFCG" \in status <=> "RXFR" \in status /\ ~noData
  /\ \A c \in Cia : c \in status <=> "RXFR" \in status /\ c \in owed[Len(owed)].cia
  /\ ~noData => rdb = IF dbl # Off /\ "RXFR" \in status /\ pc \notin {"rxlen", "rxclr"}
                      THEN {1 - fill} ELSE {}
  /\ "RXFR" \in status => buf[IF dbl = Off THEN 0 ELSE 1 - fill] = owed[Len(owed)].frame
  /\ dbl = Off => fill = 0
  /\ dbl # Off => dbl = IF pc = "rxok" <=> "RXFR" \in status THEN fill ELSE 1 - fill

\* What the callback is told, and until it has read the frame the radio does
\* not write over it.
LenOfOldest == cb.len = IF noData THEN None ELSE owed[1].frame
Reporting ==
  /\ InRx => cb.flags = owed[1].cia /\ (pc = "rxclr" => LenOfOldest)
  /\ pc = "rxok" =>
    /\ cb.flags = owed[1].cia /\ LenOfOldest
    /\ got # None => got = owed[1].frame
    /\ ~DataRead => buf[HostBuffer] = owed[1].frame /\ (dbl = Off => ~Receiving)

IInv == TypeOK /\ OneOperation /\ Seeing /\ Quiet /\ Enabling /\ Frames /\ Reporting

----------------------------------------------------------------------------
(***************************************************************************)
(* Sequences and sets                                                       *)
(***************************************************************************)
LEMMA Appended ==
  ASSUME NEW s \in Seq(Received), NEW r \in Received
  PROVE  /\ Append(s, r) \in Seq(Received) /\ Len(Append(s, r)) = Len(s) + 1
         /\ Append(s, r)[Len(s) + 1] = r
         /\ Len(s) = 1 => Append(s, r)[1] = s[1]
BY DEF Received

LEMMA Tailed ==
  ASSUME NEW s \in Seq(Received), Len(s) \in {1, 2}
  PROVE  /\ Tail(s) \in Seq(Received) /\ Len(Tail(s)) = Len(s) - 1
         /\ Len(s) = 2 => Tail(s)[1] = s[2]
<1>. s # <<>>
  BY EmptySeq
<1>. QED
  BY HeadTailProperties

LEMMA Lengths ==
  ASSUME Frames, TypeOK
  PROVE  /\ Len(owed) \in 0 .. 2 /\ owed \in Seq(Received)
         /\ pc = "rxok" \/ "RXFR" \in status => Len(owed) >= 1
         /\ Len(owed) >= 1 => owed[1] \in Received /\ owed[Len(owed)] \in Received
         /\ pc = "rxok" /\ "RXFR" \in status <=> Len(owed) = 2
<1>1. owed \in Seq(Received) /\ Len(owed) \in Nat
  BY DEF TypeOK
<1>2. Len(owed) >= 1 => owed[1] \in Received /\ owed[Len(owed)] \in Received
  BY <1>1, ElementOfSeq
<1>. QED
  BY <1>1, <1>2 DEF Frames

\* Nothing is pending when nobody waits.
LEMMA Silence ==
  ASSUME TypeOK, OneOperation, Frames
  PROVE  /\ waits = {} => status = {} /\ trx = "idle" /\ ~w4r
         /\ Sending \/ Receiving => ~RxEnded
<1>1. ~RxEnded => \A c \in {"RXFR", "RXERR", "RXTO", "RXFCG", "CIADONE", "CIAERR", "CPERR"} : c \notin status
  BY DEF RxEnded, Frames, Cia
<1>2. "TXFRS" \notin status /\ ~RxEnded => status = {}
  BY <1>1 DEF TypeOK, Events, RxGood
<1>3. trx = "idle" \/ trx \in {"rx", "rxlate"} \/ Sending
  BY DEF TypeOK, Sending
<1>4. Sending \/ Receiving => ~RxEnded
  BY DEF OneOperation, Receiving, RxEnded
<1>. QED
  BY <1>2, <1>3, <1>4 DEF OneOperation, Receiving

(***************************************************************************)
(* Type correctness                                                         *)
(***************************************************************************)
LEMMA TypeInit == Init => TypeOK
<1>. SUFFICES ASSUME Init PROVE TypeOK
  OBVIOUS
<1>1. owed \in Seq(Received) /\ Len(owed) <= 2
  BY DEF Init
<1>2. cb \in [len : Frame \cup {None}, flags : SUBSET Cia] /\ buf \in [{0, 1} -> Frame \cup {None}]
  BY DEF Init
<1>3. nextFrame \in Frame
  BY RadioAssumption DEF Init, Frame
<1>4. fstat \subseteq RadioEvents \cup {"PANIC", "EVENT"} /\ snap \subseteq Events \cup {"CMDERR"}
      /\ waits \subseteq {"tx", "rx", "off"} /\ status \subseteq Events /\ rdb \subseteq {0, 1}
      /\ chip \subseteq ChipEvents /\ full \subseteq {0, 1}
  BY DEF Init, ChipEvents
<1>5. dbl \in {Off, 0, 1} /\ noData \in BOOLEAN /\ got \in Frame \cup {None} /\ fill \in {0, 1}
      /\ txOwed \in 0 .. 2
  BY DEF Init
<1>6. pc = "app" /\ rxen = "no" /\ trx = "idle" /\ w4r \in BOOLEAN /\ fwto \in BOOLEAN
  BY DEF Init
<1>. QED
  BY <1>1, <1>2, <1>3, <1>4, <1>5, <1>6 DEF TypeOK

LEMMA TypeAppStep == IInv /\ AppStep => TypeOK'
<1>. SUFFICES ASSUME IInv, AppStep PROVE TypeOK'
  OBVIOUS
<1>. USE DEF IInv, TypeOK, radioVars, hostVars, hostButPc, history
<1>1. ASSUME NEW state \in {"late", "txerr", "txwait"}, NEW r \in BOOLEAN, StartTx(state, r)
      PROVE  TypeOK'
  BY <1>1 DEF StartTx
<1>2. CASE RxEnable
  <2>1. trx' \in {"rx", "rxlate"} /\ rxen' \in {rxen, "check"} /\ waits' = {"rx"}
    BY <1>2 DEF RxEnable
  <2>. QED
    BY <1>2, <2>1 DEF RxEnable
<1>3. CASE ForceTrxOff
  BY <1>3 DEF ForceTrxOff, TxOff
<1>4. CASE SetRxTimeout
  BY <1>4 DEF SetRxTimeout
<1>5. CASE SetDblRxBuffMode
  BY <1>5 DEF SetDblRxBuffMode, Off
<1>. QED
  BY <1>1, <1>2, <1>3, <1>4, <1>5 DEF AppStep

LEMMA TypeEnableStep == IInv /\ EnableStep => TypeOK'
<1>. SUFFICES ASSUME IInv, EnableStep PROVE TypeOK'
  OBVIOUS
<1>. USE DEF IInv, TypeOK, radioVars, hostVars, history
<1>1. CASE RxChecked
  <2>1. /\ trx' \in {trx, "idle"} /\ w4r' \in {w4r, FALSE} /\ waits' \in {waits, {}}
        /\ rxen' \in {"no", "again"}
    BY <1>1 DEF RxChecked, TxOff
  <2>2. trx' \in {"idle", "late", "txerr", "txwait", "tx", "rxlate", "rx"} /\ w4r' \in BOOLEAN
    BY <2>1
  <2>. QED
    BY <1>1, <2>1, <2>2 DEF RxChecked
<1>2. CASE RxAgain
  BY <1>2 DEF RxAgain
<1>. QED
  BY <1>1, <1>2 DEF EnableStep

LEMMA TypeIsrStep == IInv /\ IsrStep => TypeOK'
<1>. SUFFICES ASSUME IInv, IsrStep PROVE TypeOK'
  OBVIOUS
<1>. USE DEF IInv, TypeOK, radioVars, hostVars, hostButPc, history
<1>1. CASE TxChecked
  <2>1. trx' \in {trx, "idle"} /\ w4r' \in {w4r, FALSE} /\ waits' \in {waits, {}}
    BY <1>1 DEF TxChecked, TxOff
  <2>2. trx' \in {"idle", "late", "txerr", "txwait", "tx", "rxlate", "rx"} /\ w4r' \in BOOLEAN
    BY <2>1
  <2>. QED
    BY <1>1, <2>1, <2>2 DEF TxChecked
<1>2. CASE IsrStart
  BY <1>2 DEF IsrStart, Fast
<1>3. CASE ReadStatus
  <2>1. fstat' \subseteq RadioEvents \cup {"PANIC", "EVENT"}
    BY <1>3 DEF ReadStatus, RadioEvents
  <2>2. snap' \subseteq Events \cup {"CMDERR"}
    BY <1>3 DEF ReadStatus
  <2>. QED
    BY <1>3, <2>1, <2>2 DEF ReadStatus
<1>4. CASE SkipBlock
  BY <1>4 DEF SkipBlock, Blocks
<1>5. CASE TxOk
  <2>1. "TXFRS" \in status
    BY <1>5 DEF TxOk, Seeing, BeforeTx
  <2>2. txOwed' \in 0 .. 2
    BY <1>5, <2>1 DEF TxOk, OneOperation
  <2>. QED
    BY <1>5, <2>2 DEF TxOk
<1>6. CASE RxOk
  BY <1>6 DEF RxOk
<1>12. CASE PanicRead
  <2>1. snap' \subseteq Events \cup {"CMDERR"}
    BY <1>12 DEF PanicRead
  <2>. QED
    BY <1>12, <2>1 DEF PanicRead
<1>13. CASE PanicClear \/ SysReturns
  <2>1. chip' \subseteq chip /\ pc' \in {"tx", "rx"}
    BY <1>13 DEF PanicClear, SysReturns
  <2>2. chip' \subseteq ChipEvents
    BY <2>1
  <2>. QED
    BY <1>13, <2>1, <2>2 DEF PanicClear, SysReturns
<1>14. CASE SysEvent
  BY <1>14 DEF SysEvent
<1>15. CASE RxFlags
  <2>1. FlagsOf(Seen) \in SUBSET Cia
    BY DEF FlagsOf, Cia
  <2>2. cb' \in [len : Frame \cup {None}, flags : SUBSET Cia]
    BY <1>15, <2>1 DEF RxFlags
  <2>3. snap' \subseteq Events \cup {"CMDERR"}
    BY <1>15 DEF RxFlags, Seen, Events, RxGood
  <2>. QED
    BY <1>15, <2>2, <2>3 DEF RxFlags
<1>16. CASE RxFreesEvents
  <2>1. rdb' \subseteq rdb
    BY <1>16 DEF RxFreesEvents
  <2>2. rdb' \subseteq {0, 1}
    BY <2>1
  <2>. QED
    BY <1>16, <2>2 DEF RxFreesEvents
<1>17. CASE RxLength
  <2>1. buf[HostBuffer] \in Frame \cup {None}
    BY DEF HostBuffer
  <2>2. cb' \in [len : Frame \cup {None}, flags : SUBSET Cia]
    BY <1>17, <2>1 DEF RxLength
  <2>. QED
    BY <1>17, <2>2 DEF RxLength
<1>7. CASE ReadRxData
  BY <1>7 DEF ReadRxData, HostBuffer
<1>8. CASE RxOkReturns
  <2>1. owed' \in Seq(Received) /\ Len(owed') <= 2
    BY <1>8, Lengths, Tailed DEF RxOkReturns
  <2>2. dbl' \in {Off, 0, 1} /\ noData' \in BOOLEAN /\ full' \subseteq {0, 1}
    <3>1. CASE dbl = Off
      BY <1>8, <3>1 DEF RxOkReturns, SignalRxBuffFree
    <3>2. CASE dbl # Off
      <4>1. dbl' = 1 - dbl /\ full' \subseteq full /\ noData' = noData
        BY <1>8, <3>2 DEF RxOkReturns, SignalRxBuffFree
      <4>. QED
        BY <3>2, <4>1
    <3>. QED
      BY <3>1, <3>2
  <2>. QED
    BY <1>8, <2>1, <2>2 DEF RxOkReturns
<1>9. CASE RxErrOrTimeout
  BY <1>9 DEF RxErrOrTimeout
<1>10. CASE CallbackReturns
  BY <1>10 DEF CallbackReturns
<1>11. CASE IsrEnds
  BY <1>11 DEF IsrEnds
<1>. QED
  BY <1>1, <1>2, <1>3, <1>4, <1>5, <1>6, <1>7, <1>8, <1>9, <1>10, <1>11, <1>12,
     <1>13, <1>14, <1>15, <1>16, <1>17 DEF IsrStep

LEMMA TypeRadioStep == IInv /\ RadioStep => TypeOK'
<1>. SUFFICES ASSUME IInv, RadioStep PROVE TypeOK'
  OBVIOUS
<1>. USE DEF IInv, TypeOK, radioVars, hostVars, hostButPc, history
<1>1. CASE TxBegins
  BY <1>1 DEF TxBegins
<1>2. CASE TxEnds
  <2>1. txOwed' \in 0 .. 2
    BY <1>2 DEF TxEnds, OneOperation
  <2>. QED
    BY <1>2, <2>1, SMTT(30) DEF TxEnds, Events, RxGood
<1>3. CASE Receive
  <2>1. nextFrame' \in Frame
    BY <1>3, RadioAssumption DEF Receive, Frame
  <2>2. owed' \in Seq(Received) /\ Len(owed') <= 2
    <3>1. PICK c \in Result : owed' = Append(owed, [frame |-> nextFrame, cia |-> c])
      BY <1>3 DEF Receive
    <3>2. [frame |-> nextFrame, cia |-> c] \in Received
      BY DEF Received
    <3>3. Len(owed) \in {0, 1}
      <4>1. "RXFR" \notin status
        BY <1>3 DEF Receive, OneOperation, RxEnded
      <4>. QED
        BY <4>1, Lengths
    <3>. QED
      BY <3>1, <3>2, <3>3, Appended
  <2>3. status' \subseteq Events
    BY <1>3 DEF Receive, Result, Events, RxGood, Cia
  <2>4. buf' \in [{0, 1} -> Frame \cup {None}]
    BY <1>3 DEF Receive
  <2>5. rdb' \subseteq {0, 1} /\ fill' \in {0, 1} /\ full' \subseteq {0, 1}
    <3>1. fill \in {0, 1} /\ 1 - fill \in {0, 1}
      OBVIOUS
    <3>2. rdb' \subseteq rdb \cup {fill} /\ full' \subseteq full \cup {fill} /\ fill' \in {fill, 1 - fill}
      BY <1>3 DEF Receive
    <3>. QED
      BY <3>1, <3>2
  <2>. QED
    BY <1>3, <2>1, <2>2, <2>3, <2>4, <2>5 DEF Receive
<1>4. CASE ReceiveFails
  <2>1. status' \subseteq Events
    BY <1>4 DEF ReceiveFails, Events
  <2>. QED
    BY <1>4, <2>1 DEF ReceiveFails
<1>. QED
  BY <1>1, <1>2, <1>3, <1>4 DEF RadioStep

(***************************************************************************)
(* One operation at a time                                                  *)
(***************************************************************************)
LEMMA OperationAppStep == IInv /\ AppStep => OneOperation'
<1>. SUFFICES ASSUME IInv, AppStep PROVE OneOperation'
  OBVIOUS
<1>. USE DEF radioVars, hostVars, hostButPc, history, Sending, Receiving, RxEnded
<1>1. ASSUME NEW state \in {"late", "txerr", "txwait"}, NEW r \in BOOLEAN, StartTx(state, r)
      PROVE  OneOperation'
  <2>1. status = {} /\ trx = "idle" /\ ~w4r /\ txOwed = 0
    BY <1>1, Silence DEF StartTx, AppMayCall, IInv, OneOperation
  <2>2. /\ status' = {} /\ txOwed' = 0 /\ trx' = state /\ w4r' = r
        /\ "tx" \in waits' /\ "off" \notin waits' /\ ("rx" \in waits' <=> r)
    BY <1>1, <2>1 DEF StartTx
  <2>. QED
    BY <2>2 DEF OneOperation
<1>2. CASE RxEnable
  <2>1. waits = {}
    BY <1>2 DEF RxEnable, MayEnable
  <2>2. status = {} /\ ~w4r /\ txOwed = 0
    BY <2>1, Silence DEF IInv, OneOperation
  <2>3. /\ status' = status /\ w4r' = w4r /\ txOwed' = txOwed
        /\ trx' \in {"rx", "rxlate"} /\ waits' = {"rx"}
    BY <1>2 DEF RxEnable
  <2>. QED
    BY <2>1, <2>2, <2>3 DEF IInv, OneOperation
<1>3. CASE ForceTrxOff
  BY <1>3 DEF ForceTrxOff, TxOff, IInv, OneOperation
<1>4. CASE SetRxTimeout
  BY <1>4 DEF SetRxTimeout, IInv, OneOperation
<1>5. CASE SetDblRxBuffMode
  BY <1>5 DEF SetDblRxBuffMode, IInv, OneOperation
<1>. QED
  BY <1>1, <1>2, <1>3, <1>4, <1>5 DEF AppStep

LEMMA OperationEnableStep == IInv /\ EnableStep => OneOperation'
<1>. SUFFICES ASSUME IInv, EnableStep PROVE OneOperation'
  OBVIOUS
<1>. USE DEF history, Sending, Receiving, RxEnded
<1>1. CASE RxChecked /\ trx = "rxlate"
  <2>1. waits \subseteq {"rx"} /\ ~RxEnded
    BY <1>1 DEF RxChecked, IInv, Enabling, OneOperation
  <2>2. "TXFRS" \notin status /\ txOwed = 0
    BY <2>1 DEF IInv, OneOperation
  <2>3. status' = status /\ w4r' = FALSE /\ txOwed' = txOwed /\ trx' = "idle" /\ waits' = {}
    BY <1>1 DEF RxChecked, TxOff
  <2>. QED
    BY <2>1, <2>2, <2>3 DEF IInv, OneOperation
<1>2. CASE RxChecked /\ trx # "rxlate"
  BY <1>2 DEF RxChecked, IInv, OneOperation
<1>3. CASE RxAgain
  <2>1. waits = {}
    BY <1>3 DEF RxAgain, IInv, Enabling
  <2>2. status = {} /\ ~w4r /\ txOwed = 0
    BY <2>1, Silence DEF IInv, OneOperation
  <2>3. status' = status /\ w4r' = w4r /\ txOwed' = txOwed /\ trx' = "rx" /\ waits' = {"rx"}
    BY <1>3 DEF RxAgain
  <2>. QED
    BY <2>1, <2>2, <2>3 DEF IInv, OneOperation
<1>. QED
  BY <1>1, <1>2, <1>3 DEF EnableStep

LEMMA OperationIsrStep == IInv /\ IsrStep => OneOperation'
<1>. SUFFICES ASSUME IInv, IsrStep PROVE OneOperation'
  OBVIOUS
<1>. USE DEF radioVars, hostVars, hostButPc, history, Sending, Receiving, RxEnded
<1>1. CASE TxChecked
  <2>1. CASE trx \in {"late", "txerr"}
    <3>1. status = {} /\ txOwed = 0
      BY <2>1 DEF IInv, OneOperation
    <3>2. trx' = "idle" /\ w4r' = FALSE /\ waits' = {} /\ status' = status /\ txOwed' = txOwed
      BY <1>1, <2>1 DEF TxChecked, TxOff
    <3>. QED
      BY <3>1, <3>2 DEF OneOperation
  <2>2. CASE trx \notin {"late", "txerr"}
    BY <1>1, <2>2 DEF TxChecked, IInv, OneOperation
  <2>. QED
    BY <2>1, <2>2
<1>2. CASE UNCHANGED <<trx, w4r, waits, status, txOwed>>
  BY <1>2 DEF IInv, OneOperation
<1>8. CASE \/ IsrStart \/ ReadStatus \/ SkipBlock \/ PanicRead \/ PanicClear \/ SysEvent \/ SysReturns
           \/ RxFlags \/ RxFreesEvents \/ RxLength \/ ReadRxData \/ RxOkReturns \/ CallbackReturns
  BY <1>2, <1>8 DEF IsrStart, ReadStatus, SkipBlock, PanicRead, PanicClear, SysEvent, SysReturns,
     RxFlags, RxFreesEvents, RxLength, ReadRxData, RxOkReturns, CallbackReturns
<1>3. CASE TxOk
  <2>1. "TXFRS" \in status /\ txOwed = 1 /\ ~Sending
    BY <1>3 DEF TxOk, IInv, Seeing, BeforeTx, OneOperation
  <2>2. /\ status' = status \ {"TXFRS"} /\ waits' = waits \ {"tx"} /\ txOwed' = 0
        /\ trx' = trx /\ w4r' = w4r
    BY <1>3, <2>1 DEF TxOk
  <2>. QED
    BY <2>1, <2>2 DEF IInv, OneOperation
<1>4. CASE RxOk
  <2>1. "RXFR" \in status /\ ~Receiving
    BY <1>4 DEF RxOk, IInv, Seeing, InRx, BeforeRx, OneOperation
  <2>2. /\ "RXFR" \notin status' /\ \A e \in {"TXFRS", "RXERR", "RXTO"} : e \in status' <=> e \in status
        /\ waits' = waits \ {"rx"} /\ txOwed' = txOwed /\ trx' = trx /\ w4r' = w4r
    BY <1>4 DEF RxOk, Cleared, RxGood
  <2>. QED
    BY <2>1, <2>2 DEF IInv, OneOperation
<1>6. CASE RxErrOrTimeout
  <2>1. PICK e \in {"RXERR", "RXTO"} :
          e \in fstat /\ status' = status \ ErrorClears(e) /\ pc = IF e = "RXERR" THEN "err" ELSE "to"
    BY <1>6 DEF RxErrOrTimeout, Blocks
  <2>5. \A f \in {"TXFRS", "RXFR", "RXERR", "RXTO"} : f \in status' <=> f \in status /\ f # e
    BY <2>1 DEF ErrorClears
  <2>2. e \in status
    BY <2>1 DEF IInv, Seeing, BeforeTo, BeforeErr
  <2>3. "RXFR" \notin status /\ ("RXERR" \notin status \/ "RXTO" \notin status) /\ ~Receiving
    BY <2>1, <2>2 DEF IInv, OneOperation
  <2>4. waits' = waits \ {"rx"} /\ txOwed' = txOwed /\ trx' = trx /\ w4r' = w4r
    BY <1>6 DEF RxErrOrTimeout
  <2>. QED
    BY <2>1, <2>2, <2>3, <2>4, <2>5 DEF IInv, OneOperation
<1>7. CASE IsrEnds
  <2>1. CASE "off" \in waits /\ fstat \cap RadioEvents = {}
    <3>1. status = {}
      BY <1>7, <2>1 DEF IsrEnds, IInv, Quiet
    <3>. QED
      BY <1>7, <2>1, <3>1 DEF IsrEnds, IInv, OneOperation
  <2>2. CASE ~("off" \in waits /\ fstat \cap RadioEvents = {})
    <3>1. /\ \A w \in {"tx", "rx", "off"} : w \in waits' <=> w \in waits
          /\ status' = status /\ trx' = trx /\ w4r' = w4r /\ txOwed' = txOwed
      BY <1>7, <2>2 DEF IsrEnds
    <3>. QED
      BY <3>1 DEF IInv, OneOperation
  <2>. QED
    BY <2>1, <2>2
<1>. QED
  BY <1>1, <1>2, <1>3, <1>4, <1>6, <1>7, <1>8 DEF IsrStep

LEMMA OperationRadioStep == IInv /\ RadioStep => OneOperation'
<1>. SUFFICES ASSUME IInv, RadioStep PROVE OneOperation'
  OBVIOUS
<1>. USE DEF radioVars, hostVars, hostButPc, history, Sending, Receiving, RxEnded
<1>1. CASE TxBegins
  BY <1>1 DEF TxBegins, IInv, OneOperation
<1>2. CASE TxEnds
  <2>1. status = {} /\ txOwed = 0 /\ "off" \notin waits /\ "tx" \in waits
    BY <1>2 DEF TxEnds, IInv, OneOperation
  <2>2. /\ trx' = (IF w4r THEN "rx" ELSE "idle") /\ w4r' = FALSE /\ waits' = waits
        /\ status' = {"TXFRS"} /\ txOwed' = 1
    BY <1>2, <2>1 DEF TxEnds
  <2>. QED
    BY <1>2, <2>1, <2>2 DEF TxEnds, IInv, OneOperation, TypeOK
<1>3. CASE Receive
  <2>1. ~RxEnded /\ "off" \notin waits /\ "rx" \in waits /\ ~w4r
    BY <1>3 DEF Receive, IInv, OneOperation
  <2>2. /\ "RXFR" \in status' /\ \A e \in {"TXFRS", "RXERR", "RXTO"} : e \in status' <=> e \in status
        /\ trx' = "idle" /\ w4r' = w4r /\ waits' = waits /\ txOwed' = txOwed
    BY <1>3 DEF Receive, Result, Cia
  <2>. QED
    BY <1>3, <2>1, <2>2 DEF Receive, IInv, OneOperation
<1>4. CASE ReceiveFails
  <2>1. ~RxEnded /\ "off" \notin waits /\ "rx" \in waits /\ ~w4r
    BY <1>4 DEF ReceiveFails, IInv, OneOperation
  <2>2. PICK e \in {"RXERR", "RXTO"} : status' = status \cup {e}
    BY <1>4 DEF ReceiveFails
  <2>3. trx' = "idle" /\ w4r' = w4r /\ waits' = waits /\ txOwed' = txOwed
    BY <1>4 DEF ReceiveFails
  <2>. QED
    BY <1>4, <2>1, <2>2, <2>3 DEF ReceiveFails, IInv, OneOperation
<1>. QED
  BY <1>1, <1>2, <1>3, <1>4 DEF RadioStep

(***************************************************************************)
(* What dwt_isr has seen                                                    *)
(***************************************************************************)
\* The radio only adds to the status register, and only when it is at work.
LEMMA EventsAdded ==
  ASSUME IInv, RadioStep
  PROVE  /\ status \subseteq status' /\ UNCHANGED hostVars /\ "off" \notin waits
         /\ \A e \in {"RXFCG", "CIADONE", "CIAERR", "CPERR"} :
              "RXFR" \in status => (e \in status' <=> e \in status)
<1>1. "off" \notin waits
  BY DEF RadioStep, TxBegins, TxEnds, Receive, ReceiveFails, IInv, OneOperation, Sending
<1>2. CASE TxBegins
  BY <1>1, <1>2 DEF TxBegins
<1>3. CASE TxEnds
  BY <1>1, <1>3 DEF TxEnds
<1>4. CASE Receive
  BY <1>1, <1>4 DEF Receive, IInv, OneOperation, RxEnded
<1>5. CASE ReceiveFails
  BY <1>1, <1>5 DEF ReceiveFails
<1>. QED
  BY <1>2, <1>3, <1>4, <1>5 DEF RadioStep

LEMMA SeeingRadioStep == IInv /\ RadioStep => Seeing' /\ Quiet' /\ Enabling'
<1>. SUFFICES ASSUME IInv, RadioStep PROVE Seeing' /\ Quiet' /\ Enabling'
  OBVIOUS
<1>. USE DEF InRx, BeforeTx, BeforeFlags, BeforeRx, BeforeErr, BeforeTo
<1>1. Quiet'
  BY EventsAdded DEF Quiet, hostVars
<1>2. Seeing'
  <2>1. "RXOK" \in fstat /\ BeforeRx => "RXFR" \in status
    BY DEF IInv, Seeing
  <2>2. fstat' = fstat /\ pc' = pc /\ snap' = snap
    BY EventsAdded DEF hostVars
  <2>. QED
    BY <2>1, <2>2, EventsAdded DEF IInv, Seeing
<1>3. Enabling'
  BY EventsAdded DEF hostVars, IInv, Enabling, DataRead
<1>. QED
  BY <1>1, <1>2, <1>3

LEMMA SeeingAppStep == IInv /\ AppStep => Seeing' /\ Quiet' /\ Enabling'
<1>. SUFFICES ASSUME IInv, AppStep PROVE Seeing' /\ Quiet' /\ Enabling'
  OBVIOUS
<1>. USE DEF radioVars, hostVars, hostButPc, history, InRx, BeforeTx, BeforeFlags, BeforeRx,
             BeforeErr, BeforeTo
<1>1. ASSUME NEW state \in {"late", "txerr", "txwait"}, NEW r \in BOOLEAN, StartTx(state, r)
      PROVE  Seeing' /\ Quiet' /\ Enabling'
  BY <1>1 DEF StartTx, AppMayCall, Seeing, Quiet, Enabling
<1>2. CASE RxEnable
  <2>1. /\ pc \in {"app", "txdone", "syscb", "rxok", "errcb", "tocb"}
        /\ pc = "rxok" /\ dbl = Off => DataRead
    BY <1>2 DEF RxEnable, MayEnable, AppMayCall, InCallback
  <2>2. UNCHANGED <<dbl, noData, pc, fstat, snap, got, status>> /\ waits' = {"rx"}
        /\ rxen' \in {rxen, "check"} /\ rxen = "no"
    BY <1>2 DEF RxEnable, MayEnable, AppMayCall, InCallback
  <2>. QED
    BY <2>1, <2>2 DEF IInv, Seeing, Quiet, Enabling, DataRead
<1>3. CASE ForceTrxOff
  BY <1>3 DEF ForceTrxOff, Seeing, Quiet, Enabling
<1>4. CASE SetRxTimeout \/ SetDblRxBuffMode
  BY <1>4 DEF SetRxTimeout, SetDblRxBuffMode, AppMayCall, Seeing, Quiet, Enabling
<1>. QED
  BY <1>1, <1>2, <1>3, <1>4 DEF AppStep

LEMMA SeeingEnableStep == IInv /\ EnableStep => Seeing' /\ Quiet' /\ Enabling'
<1>. SUFFICES ASSUME IInv, EnableStep PROVE Seeing' /\ Quiet' /\ Enabling'
  OBVIOUS
<1>. USE DEF history
<1>1. /\ UNCHANGED <<dbl, noData, pc, fstat, snap, got, status>>
      /\ waits' \in {waits, {}, {"rx"}}
      /\ rxen' # "no" => waits' = {} /\ rxen # "no"
  BY DEF EnableStep, RxChecked, RxAgain
<1>2. Seeing'
  BY <1>1 DEF IInv, Seeing, InRx, BeforeTx, BeforeFlags, BeforeRx, BeforeErr, BeforeTo
<1>3. "off" \in waits' => waits' = waits
  BY <1>1
<1>4. Quiet'
  <2>1. CASE waits' = waits /\ "off" \in waits
    <3>1. rxen = "no"
      BY <2>1 DEF IInv, Enabling
    <3>. QED
      BY <3>1 DEF EnableStep, RxChecked, RxAgain
  <2>. QED
    BY <1>3, <2>1 DEF Quiet
<1>5. Enabling'
  BY <1>1 DEF IInv, Enabling, DataRead
<1>. QED
  BY <1>2, <1>4, <1>5

LEMMA SeeingIsrStep == IInv /\ IsrStep => Seeing' /\ Quiet'
<1>. SUFFICES ASSUME IInv, IsrStep PROVE Seeing' /\ Quiet'
  OBVIOUS
<1>. USE DEF radioVars, hostVars, hostButPc, history, InRx, BeforeTx, BeforeFlags, BeforeRx,
             BeforeErr, BeforeTo
<1>1. CASE TxChecked
  BY <1>1 DEF TxChecked, Seeing, Quiet
<1>2. CASE IsrStart
  <2>1. /\ pc = "app" /\ pc' = "status" /\ fstat' = Fast
        /\ status' = status /\ rdb' = rdb /\ noData' = noData /\ chip' = chip
    BY <1>2 DEF IsrStart
  <2>2. Quiet'
    BY <2>1 DEF Quiet, Fast
  <2>3. "RXFCG" \in status \/ (~noData /\ rdb # {}) => "RXFR" \in status
    BY <2>1 DEF IInv, Frames
  <2>4. "TXOK" \notin status /\ "RXOK" \notin status
    BY DEF IInv, TypeOK, Events, RxGood
  <2>. QED
    BY <2>1, <2>2, <2>3, <2>4 DEF Seeing, Fast
<1>3. CASE ReadStatus
  <2>1. /\ pc = "status" /\ pc' = "panic" /\ snap' = status /\ status' = status /\ waits' = waits
        /\ \A e \in {"TXOK", "RXERR", "RXTO"} : e \in fstat' <=> e \in fstat
        /\ "RXOK" \in fstat' <=> "RXOK" \in fstat \/ ("RXFR" \in status /\ noData)
    BY <1>3 DEF ReadStatus
  <2>2. Seeing'
    BY <2>1 DEF IInv, Seeing
  <2>3. Quiet'
    <3>1. SUFFICES ASSUME "off" \in waits, fstat' \cap RadioEvents = {} PROVE status = {}
      BY <2>1 DEF Quiet
    <3>2. (\A e \in RadioEvents : e \notin Fast) /\ ~("RXFR" \in status /\ noData)
      BY <2>1, <3>1 DEF IInv, Quiet, RadioEvents
    <3>3. "TXFRS" \notin status /\ "RXERR" \notin status /\ "RXTO" \notin status /\ "RXFCG" \notin status
      BY <3>2 DEF Fast, RadioEvents
    <3>4. "RXFR" \notin status
      BY <3>2, <3>3 DEF IInv, Frames
    <3>. QED
      BY <3>3, <3>4 DEF IInv, Frames, Cia, TypeOK, Events, RxGood
  <2>. QED
    BY <2>2, <2>3
<1>4. CASE SkipBlock
  <2>1. PICK b \in Blocks : pc = b[1] /\ b[2] \notin fstat /\ pc' = b[3]
    BY <1>4 DEF SkipBlock
  <2>2. UNCHANGED <<fstat, snap, status, waits>>
    BY <1>4 DEF SkipBlock
  <2>3. \/ pc = "panic" /\ pc' = "tx"
        \/ pc = "tx" /\ pc' = "sys" /\ "TXOK" \notin fstat
        \/ pc = "sys" /\ pc' = "rx"
        \/ pc = "rx" /\ pc' = "err" /\ "RXOK" \notin fstat
        \/ pc = "err" /\ pc' = "to" /\ "RXERR" \notin fstat
        \/ pc = "to" /\ pc' = "end" /\ "RXTO" \notin fstat
    BY <2>1 DEF Blocks
  <2>4. Seeing'
    BY <2>2, <2>3 DEF IInv, Seeing
  <2>5. Quiet'
    BY <2>2, <2>3 DEF IInv, Quiet
  <2>. QED
    BY <2>4, <2>5
<1>5. CASE TxOk
  <2>1. /\ pc = "tx" /\ pc' = "txdone" /\ UNCHANGED <<fstat, snap>> /\ "TXOK" \in fstat
        /\ \A e \in Events \ {"TXFRS"} : e \in status' <=> e \in status
    BY <1>5 DEF TxOk
  <2>. QED
    BY <2>1 DEF IInv, Seeing, Quiet, RadioEvents, Events, RxGood
<1>6. CASE RxOk
  <2>1. "RXFR" \in status /\ "RXERR" \notin fstat /\ "RXTO" \notin fstat
    BY <1>6 DEF RxOk, IInv, Seeing, OneOperation
  <2>2. "RXOK" \in fstat
    BY <1>6 DEF RxOk, IInv, Seeing
  <2>. QED
    BY <1>6, <2>1, <2>2 DEF RxOk, Seeing, Quiet, RadioEvents
<1>7. CASE ReadRxData \/ RxOkReturns
  BY <1>7 DEF ReadRxData, RxOkReturns, IInv, Seeing, Quiet
<1>8. CASE RxErrOrTimeout
  <2>1. PICK e \in {"RXERR", "RXTO"} :
          /\ e \in fstat /\ status' = status \ ErrorClears(e) /\ fstat' = fstat
          /\ pc = (IF e = "RXERR" THEN "err" ELSE "to") /\ pc' = (IF e = "RXERR" THEN "errcb" ELSE "tocb")
    BY <1>8 DEF RxErrOrTimeout, Blocks
  <2>2. e = "RXERR" => ("RXTO" \in status' <=> "RXTO" \in status)
    BY <2>1 DEF ErrorClears
  <2>. QED
    BY <2>1, <2>2 DEF IInv, Seeing, Quiet, RadioEvents
<1>9. CASE CallbackReturns
  BY <1>9 DEF CallbackReturns, IInv, Seeing, Quiet
<1>10. CASE IsrEnds
  BY <1>10 DEF IsrEnds, Seeing, Quiet
<1>11. CASE PanicRead \/ PanicClear \/ SysEvent \/ SysReturns
  <2>1. UNCHANGED <<fstat, status, waits>>
        /\ \A e \in {"RXFCG", "CIADONE", "CIAERR", "CPERR"} : e \in snap' <=> e \in snap
    BY <1>11 DEF PanicRead, PanicClear, SysEvent, SysReturns
  <2>2. /\ pc \in {"panic", "panicclr", "sys", "syscb"} /\ pc' \in {"panicclr", "tx", "syscb", "rx"}
        /\ pc \in {"sys", "syscb"} => pc' \in {"syscb", "rx"}
    BY <1>11 DEF PanicRead, PanicClear, SysEvent, SysReturns
  <2>3. Seeing'
    BY <2>1, <2>2 DEF IInv, Seeing
  <2>4. Quiet'
    BY <2>1, <2>2 DEF IInv, Quiet
  <2>. QED
    BY <2>3, <2>4
<1>12. CASE RxFlags
  <2>1. /\ pc = "rx" /\ pc' = "rxinfo" /\ "RXOK" \in fstat /\ snap' = Seen
        /\ UNCHANGED <<fstat, status, waits>>
    BY <1>12 DEF RxFlags
  <2>2. \A e \in {"RXFCG", "CIAERR", "CPERR"} : e \in snap <=> e \in status
    BY <2>1 DEF IInv, Seeing
  <2>3. "RXFR" \in status /\ ("RXFCG" \in status <=> ~noData)
    BY <2>1 DEF IInv, Seeing, Frames
  <2>4. \A e \in {"RXFCG", "CIAERR", "CPERR"} : e \in Seen <=> e \in status
    BY <2>2, <2>3 DEF Seen, RxGood
  <2>5. Seeing'
    BY <2>1, <2>3, <2>4 DEF IInv, Seeing
  <2>6. Quiet'
    BY <2>1 DEF IInv, Quiet
  <2>. QED
    BY <2>5, <2>6
<1>13. CASE RxFreesEvents \/ RxLength
  BY <1>13 DEF RxFreesEvents, RxLength, IInv, Seeing, Quiet
<1>. QED
  BY <1>1, <1>2, <1>3, <1>4, <1>5, <1>6, <1>7, <1>8, <1>9, <1>10, <1>11, <1>12, <1>13 DEF IsrStep

\* The handler goes on only when its callback is not inside dwt_rxenable.
LEMMA EnablingIsrStep == IInv /\ IsrStep => Enabling'
<1>. SUFFICES ASSUME IInv, IsrStep, rxen' # "no" PROVE Enabling'
  BY DEF Enabling
<1>. USE DEF radioVars, hostVars, hostButPc, history
<1>1. rxen = rxen'
  BY DEF IsrStep, TxChecked, IsrStart, ReadStatus, SkipBlock, PanicRead, PanicClear, TxOk, SysEvent,
     SysReturns, RxFlags, RxFreesEvents, RxLength, RxOk, ReadRxData, RxOkReturns, RxErrOrTimeout,
     CallbackReturns, IsrEnds
<1>2. pc \in {"app", "txdone", "syscb", "rxok", "errcb", "tocb"}
  BY <1>1 DEF IInv, Enabling
<1>3. FALSE
  BY <1>1, <1>2 DEF IsrStep, TxChecked, IsrStart, ReadStatus, SkipBlock, Blocks, PanicRead,
     PanicClear, TxOk, SysEvent, SysReturns, RxFlags, RxFreesEvents, RxLength, RxOk, ReadRxData,
     RxOkReturns, RxErrOrTimeout, CallbackReturns, IsrEnds
<1>. QED
  BY <1>3

(***************************************************************************)
(* The frames and the callback                                              *)
(***************************************************************************)
InLength == pc \in {"rxlen", "rxclr"}

LEMMA FramesKept ==
  ASSUME Frames, UNCHANGED <<dbl, noData, fill, rdb, buf, owed>>,
         pc' = "rxok" <=> pc = "rxok", InLength' <=> InLength,
         \A e \in {"RXFR", "RXFCG", "CIADONE", "CIAERR", "CPERR"} : e \in status' <=> e \in status
  PROVE  Frames'
BY DEF Frames, Cia, InLength

LEMMA ReportKept ==
  ASSUME Reporting, UNCHANGED <<noData, owed, cb>>,
         InRx' => pc' = pc,
         pc' = "rxok" => pc = "rxok" /\ UNCHANGED <<dbl, buf>>
                                    /\ got' = got /\ (Receiving' => Receiving \/ DataRead)
  PROVE  Reporting'
BY DEF Reporting, InRx, LenOfOldest, DataRead, HostBuffer

\* dwt_rxenable in a callback does not reach the buffer that is being read.
LEMMA ReportBegun ==
  ASSUME Reporting, UNCHANGED <<dbl, noData, owed, cb, pc, buf, got>>,
         pc = "rxok" /\ dbl = Off => DataRead
  PROVE  Reporting'
BY DEF Reporting, InRx, LenOfOldest, DataRead, HostBuffer

LEMMA FramesEnableStep == IInv /\ EnableStep => Frames' /\ Reporting'
<1>. SUFFICES ASSUME IInv, EnableStep PROVE Frames' /\ Reporting'
  OBVIOUS
<1>. USE DEF history
<1>1. /\ UNCHANGED <<dbl, noData, cb, pc, got, status, rdb, buf, fill, owed>>
      /\ rxen # "no"
  BY DEF EnableStep, RxChecked, RxAgain
<1>2. Frames'
  BY <1>1, FramesKept DEF IInv, InLength
<1>3. Reporting'
  BY <1>1, ReportBegun DEF IInv, Enabling
<1>. QED
  BY <1>2, <1>3

LEMMA FramesAppStep == IInv /\ AppStep => Frames' /\ Reporting'
<1>. SUFFICES ASSUME IInv, AppStep PROVE Frames' /\ Reporting'
  OBVIOUS
<1>. USE DEF radioVars, hostVars, hostButPc, history
<1>1. ASSUME NEW state \in {"late", "txerr", "txwait"}, NEW r \in BOOLEAN, StartTx(state, r)
      PROVE  Frames' /\ Reporting'
  BY <1>1, FramesKept, ReportKept DEF StartTx, AppMayCall, IInv, InLength, InRx
<1>2. CASE RxEnable
  <2>1. Frames'
    BY <1>2, FramesKept DEF RxEnable, IInv, InLength
  <2>2. Reporting'
    <3>1. pc = "rxok" /\ dbl = Off => DataRead
      BY <1>2 DEF RxEnable, MayEnable, AppMayCall
    <3>. QED
      BY <1>2, <3>1, ReportBegun DEF RxEnable, IInv
  <2>. QED
    BY <2>1, <2>2
<1>3. CASE ForceTrxOff
  BY <1>3, FramesKept, ReportKept DEF ForceTrxOff, IInv, InLength, InRx
<1>4. CASE SetRxTimeout
  BY <1>4, FramesKept, ReportKept DEF SetRxTimeout, AppMayCall, IInv, InLength, InRx
<1>5. CASE SetDblRxBuffMode
  <2>1. status = {} /\ pc = "app"
    BY <1>5, Silence DEF SetDblRxBuffMode, AppMayCall, IInv
  <2>2. status' = status /\ pc' = pc /\ noData' = noData /\ rdb' = rdb /\ owed' = owed /\ fill' = 0
    BY <1>5 DEF SetDblRxBuffMode
  <2>3. dbl' # Off => dbl' = 0
    BY <1>5 DEF SetDblRxBuffMode
  <2>. QED
    BY <2>1, <2>2, <2>3 DEF IInv, Frames, Reporting, InRx
<1>. QED
  BY <1>1, <1>2, <1>3, <1>4, <1>5 DEF AppStep

LEMMA FramesRadioStep == IInv /\ RadioStep => Frames' /\ Reporting'
<1>. SUFFICES ASSUME IInv, RadioStep PROVE Frames' /\ Reporting'
  OBVIOUS
<1>. USE DEF radioVars, hostVars, hostButPc, history
<1>1. CASE TxBegins \/ TxEnds
  <2>1. UNCHANGED <<hostVars, rdb, buf, fill, owed>> /\ (Receiving' => Receiving)
    BY <1>1 DEF TxBegins, TxEnds, Receiving
  <2>2. \A e \in {"RXFR", "RXFCG", "CIADONE", "CIAERR", "CPERR"} : e \in status' <=> e \in status
    BY <1>1 DEF TxBegins, TxEnds
  <2>. QED
    BY <2>1, <2>2, FramesKept, ReportKept DEF IInv, InLength, InRx
<1>2. CASE ReceiveFails
  <2>1. UNCHANGED <<hostVars, rdb, buf, fill, owed>> /\ (Receiving' => Receiving)
    BY <1>2 DEF ReceiveFails, Receiving
  <2>2. \A e \in {"RXFR", "RXFCG", "CIADONE", "CIAERR", "CPERR"} : e \in status' <=> e \in status
    BY <1>2 DEF ReceiveFails
  <2>. QED
    BY <2>1, <2>2, FramesKept, ReportKept DEF IInv, InLength, InRx
<1>3. CASE Receive
  <2>1. "RXFR" \notin status /\ Receiving
    BY <1>3 DEF Receive, IInv, OneOperation, RxEnded, Receiving
  <2>0. ~InRx /\ ~InLength
    BY <2>1 DEF IInv, Seeing, BeforeRx, InRx, InLength
  <2>2. PICK c \in Result :
          /\ status' = status \cup {"RXFR"} \cup c \cup (IF noData THEN {} ELSE {"RXFCG"})
          /\ owed' = Append(owed, [frame |-> nextFrame, cia |-> c])
    BY <1>3 DEF Receive
  <2>3. /\ Len(owed) = (IF pc = "rxok" THEN 1 ELSE 0) /\ Len(owed') = Len(owed) + 1
        /\ owed'[Len(owed')] = [frame |-> nextFrame, cia |-> c]
        /\ pc = "rxok" => owed'[1] = owed[1]
    <3>1. [frame |-> nextFrame, cia |-> c] \in Received /\ owed \in Seq(Received)
      BY DEF Received, IInv, TypeOK
    <3>2. Len(owed) = (IF pc = "rxok" THEN 1 ELSE 0)
      BY <2>1 DEF IInv, Frames
    <3>. QED
      BY <2>2, <3>1, <3>2, Appended
  <2>4. /\ "RXFCG" \notin status /\ \A d \in Cia : d \notin status
        /\ ~noData => rdb = {}
        /\ dbl = Off => fill = 0
        /\ dbl # Off => dbl = IF pc = "rxok" THEN 1 - fill ELSE fill
    BY <2>1 DEF IInv, Frames
  <2>5. /\ dbl' = dbl /\ noData' = noData /\ pc' = pc /\ cb' = cb /\ got' = got
        /\ buf' = [buf EXCEPT ![fill] = nextFrame] /\ fill \in {0, 1}
        /\ buf \in [{0, 1} -> Frame \cup {None}] /\ dbl \in {Off, 0, 1}
        /\ IF dbl = Off THEN rdb' = rdb /\ fill' = fill ELSE rdb' = rdb \cup {fill} /\ fill' = 1 - fill
    BY <1>3 DEF Receive, IInv, TypeOK
  <2>6. /\ buf'[fill] = nextFrame /\ (dbl # Off => 1 - fill' = fill)
        /\ \A b \in {0, 1} : b # fill => buf'[b] = buf[b]
    BY <2>5
  <2>7. Frames'
    <3>1. "RXFR" \in status' /\ ("RXFCG" \in status' <=> ~noData)
      BY <2>2, <2>4 DEF Result, Cia
    <3>2. \A d \in Cia : d \in status' <=> d \in c
      BY <2>2, <2>4 DEF Cia
    <3>3. ~noData => rdb' = IF dbl # Off THEN {1 - fill'} ELSE {}
      BY <2>4, <2>5, <2>6
    <3>4. Len(owed') = (IF pc' = "rxok" THEN 1 ELSE 0) + 1
      BY <2>3, <2>5
    <3>5. /\ buf'[IF dbl' = Off THEN 0 ELSE 1 - fill'] = owed'[Len(owed')].frame
          /\ owed'[Len(owed')].cia = c
      BY <2>3, <2>4, <2>5, <2>6
    <3>6. dbl' # Off => dbl' = IF pc' = "rxok" THEN fill' ELSE 1 - fill'
      BY <2>4, <2>5
    <3>7. dbl' = Off => fill' = 0
      BY <2>4, <2>5
    <3>. QED
      BY <2>0, <2>5, <3>1, <3>2, <3>3, <3>4, <3>5, <3>6, <3>7 DEF Frames, InLength
  <2>8. Reporting'
    <3>1. SUFFICES ASSUME pc = "rxok", ~DataRead PROVE buf'[HostBuffer] = buf[HostBuffer] /\ dbl # Off
      BY <1>3, <2>0, <2>3, <2>5 DEF IInv, InRx, Reporting, LenOfOldest, DataRead, HostBuffer
    <3>2. dbl # Off
      BY <2>1, <3>1 DEF IInv, Reporting
    <3>3. HostBuffer = 1 - fill
      BY <2>4, <2>5, <3>1, <3>2 DEF HostBuffer
    <3>. QED
      BY <2>5, <2>6, <3>2, <3>3
  <2>. QED
    BY <2>7, <2>8
<1>. QED
  BY <1>1, <1>2, <1>3 DEF RadioStep

\* Inside the block of RXOK: the frame is the only one not reported, its bits are
\* in the status register and the host is at its buffer.
LEMMA OldestAtHand ==
  ASSUME IInv, (pc = "rx" /\ "RXOK" \in fstat) \/ InRx
  PROVE  /\ "RXFR" \in status /\ ~Receiving /\ Len(owed) = 1 /\ owed[1].cia \in Result
         /\ \A c \in Cia : c \in status <=> c \in owed[1].cia
         /\ "RXFCG" \in status <=> ~noData
         /\ buf[HostBuffer] = owed[1].frame
         /\ InRx => (HasData <=> ~noData)
<1>1. "RXFR" \in status /\ ~Receiving /\ pc # "rxok"
  BY DEF IInv, Seeing, BeforeRx, BeforeFlags, InRx, OneOperation, RxEnded, Receiving, Sending
<1>2. /\ Len(owed) = 1 /\ ("RXFCG" \in status <=> ~noData)
      /\ \A c \in Cia : c \in status <=> c \in owed[1].cia
      /\ buf[IF dbl = Off THEN 0 ELSE 1 - fill] = owed[1].frame
      /\ dbl # Off => dbl = 1 - fill
  BY <1>1 DEF IInv, Frames
<1>3. dbl \in {Off, 0, 1} /\ fill \in {0, 1} /\ Off = 2 /\ owed[1].cia \in Result
  BY <1>2, Lengths DEF IInv, TypeOK, Off, Received
<1>4. HostBuffer = (IF dbl = Off THEN 0 ELSE 1 - fill)
  BY <1>2, <1>3 DEF HostBuffer
<1>5. InRx => ("RXFCG" \in snap <=> "RXFCG" \in status)
  BY DEF IInv, Seeing
<1>. QED
  BY <1>1, <1>2, <1>3, <1>4, <1>5 DEF HasData

\* RDB_STATUS adds nothing to the flags that the frame's own bits do not say.
LEMMA RxFlagsReports == IInv /\ RxFlags => Frames' /\ Reporting'
<1>. SUFFICES ASSUME IInv, RxFlags PROVE Frames' /\ Reporting'
  OBVIOUS
<1>1. pc = "rx" /\ "RXOK" \in fstat /\ pc' = "rxinfo" /\ cb'.flags = FlagsOf(Seen)
  BY DEF RxFlags, IInv, TypeOK
<1>2. UNCHANGED <<dbl, noData, fill, rdb, buf, owed, status>>
  BY DEF RxFlags, radioVars, history
<1>3. \A e \in {"RXFCG", "CIADONE", "CIAERR", "CPERR"} : e \in snap <=> e \in status
  BY <1>1 DEF IInv, Seeing, BeforeFlags
<1>4. \A c \in Cia : c \in snap <=> c \in owed[1].cia
  BY <1>1, <1>3, OldestAtHand DEF Cia
<1>5. \A c \in {"CIAERR", "CPERR"} : c \in Seen <=> c \in owed[1].cia
  BY <1>4 DEF Seen, RxGood, Cia
<1>6. owed[1].cia \subseteq Cia /\ ("CIADONE" \in owed[1].cia <=> "CIAERR" \notin owed[1].cia)
  BY <1>1, OldestAtHand DEF Result
<1>7. "CIADONE" \in owed[1].cia => "CIADONE" \in Seen
  BY <1>4 DEF Seen, Cia
<1>8. \A c \in Cia : c \in FlagsOf(Seen) <=> c \in owed[1].cia
  BY <1>5, <1>6, <1>7 DEF FlagsOf, Cia
<1>9. FlagsOf(Seen) \subseteq Cia
  BY DEF FlagsOf, Cia
<1>10. FlagsOf(Seen) = owed[1].cia
  BY <1>6, <1>8, <1>9
<1>11. Reporting'
  BY <1>1, <1>2, <1>10 DEF Reporting, InRx
<1>12. Frames'
  BY <1>1, <1>2, FramesKept DEF IInv, InLength
<1>. QED
  BY <1>11, <1>12

LEMMA RxFreesReports == IInv /\ RxFreesEvents => Frames' /\ Reporting'
<1>. SUFFICES ASSUME IInv, RxFreesEvents PROVE Frames' /\ Reporting'
  OBVIOUS
<1>1. /\ pc = "rxinfo" /\ pc' = "rxlen" /\ InRx
      /\ rdb' = IF HasData /\ dbl # Off THEN rdb \ {HostBuffer} ELSE rdb
  BY DEF RxFreesEvents, InRx
<1>2. UNCHANGED <<dbl, noData, fill, buf, owed, status, cb>>
  BY DEF RxFreesEvents, hostButPc, history
<1>3. "RXFR" \in status /\ (HasData <=> ~noData)
  BY <1>1, OldestAtHand
<1>4. ~noData => rdb' = {}
  <2>1. SUFFICES ASSUME ~noData PROVE rdb' = {}
    OBVIOUS
  <2>2. rdb = (IF dbl # Off THEN {1 - fill} ELSE {}) /\ (dbl # Off => dbl = 1 - fill)
    BY <1>1, <1>3, <2>1 DEF IInv, Frames
  <2>3. dbl \in {Off, 0, 1} /\ fill \in {0, 1} /\ Off = 2
    BY DEF IInv, TypeOK, Off
  <2>4. dbl # Off => HostBuffer = 1 - fill
    BY <2>2, <2>3 DEF HostBuffer
  <2>. QED
    BY <1>1, <1>3, <2>1, <2>2, <2>4
<1>5. Frames'
  BY <1>1, <1>2, <1>4 DEF IInv, Frames
<1>6. Reporting'
  BY <1>1, <1>2 DEF IInv, Reporting, InRx
<1>. QED
  BY <1>5, <1>6

LEMMA RxLengthReports == IInv /\ RxLength => Frames' /\ Reporting'
<1>. SUFFICES ASSUME IInv, RxLength PROVE Frames' /\ Reporting'
  OBVIOUS
<1>1. pc = "rxlen" /\ pc' = "rxclr" /\ InRx
      /\ cb' = [cb EXCEPT !.len = IF HasData THEN buf[HostBuffer] ELSE None]
  BY DEF RxLength, InRx
<1>2. UNCHANGED <<dbl, noData, fill, rdb, buf, owed, status>>
  BY DEF RxLength, radioVars, history
<1>3. (HasData <=> ~noData) /\ buf[HostBuffer] = owed[1].frame
  BY <1>1, OldestAtHand
<1>4. cb'.flags = cb.flags /\ cb'.len = IF noData THEN None ELSE owed[1].frame
  BY <1>1, <1>3 DEF IInv, TypeOK
<1>5. Reporting'
  BY <1>1, <1>2, <1>4 DEF IInv, Reporting, LenOfOldest, InRx
<1>6. Frames'
  BY <1>1, <1>2, FramesKept DEF IInv, InLength
<1>. QED
  BY <1>5, <1>6

\* What is passed on to the callback is of the oldest frame.
LEMMA RxOkReports == IInv /\ RxOk => Frames' /\ Reporting'
<1>. SUFFICES ASSUME IInv, RxOk PROVE Frames' /\ Reporting'
  OBVIOUS
<1>1. pc = "rxclr" /\ pc' = "rxok" /\ InRx /\ got' = None /\ status' = status \ Cleared(snap)
  BY DEF RxOk, InRx
<1>2. UNCHANGED <<dbl, noData, cb, fill, rdb, buf, owed, trx, w4r>>
  BY DEF RxOk, history
<1>3. /\ "RXFR" \in status /\ ~Receiving /\ Len(owed) = 1
      /\ buf[HostBuffer] = owed[1].frame
  BY <1>1, OldestAtHand
<1>4. \A e \in {"CIAERR", "CPERR"} : e \in snap <=> e \in status
  BY <1>1 DEF IInv, Seeing
<1>5. \A e \in {"RXFR", "RXFCG", "CIADONE", "CIAERR", "CPERR"} : e \notin status'
  BY <1>1, <1>4 DEF Cleared, RxGood
<1>6. /\ ~noData => rdb = {}
      /\ dbl = Off => fill = 0
      /\ dbl # Off => dbl = 1 - fill
  BY <1>1, <1>3 DEF IInv, Frames
<1>7. Frames'
  BY <1>1, <1>2, <1>3, <1>5, <1>6 DEF Frames, Cia
<1>8. HostBuffer' = HostBuffer /\ ~Receiving'
  BY <1>2, <1>3 DEF HostBuffer, Receiving
<1>9. Reporting'
  BY <1>1, <1>2, <1>3, <1>8 DEF IInv, Reporting, LenOfOldest, InRx
<1>. QED
  BY <1>7, <1>9

\* After the callback the host is at the buffer of the frame to come.
LEMMA RxOkReturned == IInv /\ RxOkReturns => Frames' /\ Reporting'
<1>. SUFFICES ASSUME IInv, RxOkReturns PROVE Frames' /\ Reporting'
  OBVIOUS
<1>1. pc = "rxok" /\ pc' = "err" /\ owed' = Tail(owed)
      /\ UNCHANGED <<noData, status, rdb, buf, fill>>
  BY DEF RxOkReturns
<1>2. Len(owed) = 1 + (IF "RXFR" \in status THEN 1 ELSE 0) /\ owed \in Seq(Received)
  BY <1>1 DEF IInv, Frames, TypeOK
<1>3. Len(owed') = Len(owed) - 1 /\ (Len(owed) = 2 => owed'[1] = owed[2])
  BY <1>1, <1>2, Tailed
<1>4. dbl' = IF dbl = Off THEN Off ELSE 1 - dbl
  BY DEF RxOkReturns, SignalRxBuffFree
<1>5. dbl \in {Off, 0, 1} /\ fill \in {0, 1} /\ Off = 2
  BY DEF IInv, TypeOK, Off
<1>6. dbl' # Off => dbl # Off /\ dbl' = IF "RXFR" \in status THEN 1 - fill ELSE fill
  BY <1>1, <1>4, <1>5 DEF IInv, Frames
<1>7. dbl' = Off <=> dbl = Off
  BY <1>4, <1>5
<1>8. "RXFR" \in status => owed'[Len(owed')] = owed[Len(owed)]
  BY <1>2, <1>3
<1>9. Frames'
  <2>1. Len(owed') = IF "RXFR" \in status THEN 1 ELSE 0
    BY <1>2, <1>3
  <2>2. \A c \in Cia : c \in status' <=> "RXFR" \in status' /\ c \in owed'[Len(owed')].cia
    BY <1>1, <1>8 DEF IInv, Frames
  <2>3. "RXFR" \in status' => buf'[IF dbl' = Off THEN 0 ELSE 1 - fill'] = owed'[Len(owed')].frame
    BY <1>1, <1>7, <1>8 DEF IInv, Frames
  <2>4. ~noData' => rdb' = IF dbl' # Off /\ "RXFR" \in status' THEN {1 - fill'} ELSE {}
    BY <1>1, <1>7 DEF IInv, Frames
  <2>5. dbl' = Off => fill' = 0
    BY <1>1, <1>7 DEF IInv, Frames
  <2>6. "RXFCG" \in status' <=> "RXFR" \in status' /\ ~noData'
    BY <1>1 DEF IInv, Frames
  <2>. QED
    BY <1>1, <1>6, <2>1, <2>2, <2>3, <2>4, <2>5, <2>6 DEF Frames
<1>. QED
  BY <1>1, <1>9 DEF Reporting, InRx

LEMMA FramesIsrStep == IInv /\ IsrStep => Frames' /\ Reporting'
<1>. SUFFICES ASSUME IInv, IsrStep PROVE Frames' /\ Reporting'
  OBVIOUS
<1>. USE DEF radioVars, hostVars, hostButPc, history
<1>1. CASE /\ UNCHANGED <<dbl, noData, fill, rdb, buf, owed, cb>> /\ pc \notin {"rxok", "rxlen", "rxclr"}
           /\ pc' \notin {"rxok", "rxinfo", "rxlen", "rxclr"}
           /\ \A e \in {"RXFR", "RXFCG", "CIADONE", "CIAERR", "CPERR"} : e \in status' <=> e \in status
  BY <1>1, FramesKept, ReportKept DEF IInv, InLength, InRx
<1>2. CASE TxChecked \/ IsrStart \/ ReadStatus \/ PanicRead \/ PanicClear \/ TxOk \/ SysEvent \/ SysReturns
  BY <1>1, <1>2 DEF TxChecked, IsrStart, ReadStatus, PanicRead, PanicClear, TxOk, SysEvent, SysReturns
<1>3. CASE SkipBlock \/ CallbackReturns
  BY <1>1, <1>3 DEF SkipBlock, Blocks, CallbackReturns
<1>4. CASE RxFlags \/ RxFreesEvents \/ RxLength \/ RxOk
  BY <1>4, RxFlagsReports, RxFreesReports, RxLengthReports, RxOkReports
<1>6. CASE ReadRxData
  <2>1. Frames'
    BY <1>6, FramesKept DEF ReadRxData, IInv, InLength
  <2>2. buf[HostBuffer] = owed[1].frame
    BY <1>6 DEF ReadRxData, IInv, Reporting
  <2>. QED
    BY <1>6, <2>1, <2>2 DEF ReadRxData, IInv, InRx, Reporting, LenOfOldest, DataRead, HostBuffer,
       Receiving
<1>7. CASE RxOkReturns
  BY <1>7, RxOkReturned
<1>8. CASE RxErrOrTimeout
  <2>1. PICK e \in {"RXERR", "RXTO"} :
          /\ e \in fstat /\ status' = status \ ErrorClears(e)
          /\ pc = (IF e = "RXERR" THEN "err" ELSE "to") /\ pc' = (IF e = "RXERR" THEN "errcb" ELSE "tocb")
    BY <1>8 DEF RxErrOrTimeout, Blocks
  <2>2. e \in status
    BY <2>1 DEF IInv, Seeing, BeforeTo, BeforeErr
  <2>3. "RXFR" \notin status
    BY <2>2 DEF IInv, OneOperation
  <2>4. "CIAERR" \notin status
    BY <2>3 DEF IInv, Frames, Cia
  <2>5. \A f \in {"RXFR", "RXFCG", "CIADONE", "CIAERR", "CPERR"} : f \in status' <=> f \in status
    BY <2>1, <2>4 DEF ErrorClears
  <2>6. UNCHANGED <<dbl, noData, fill, rdb, buf, owed, cb>>
    BY <1>8 DEF RxErrOrTimeout
  <2>. QED
    BY <1>1, <2>1, <2>5, <2>6
<1>9. CASE IsrEnds
  <2>1. Frames'
    BY <1>9, FramesKept DEF IsrEnds, IInv, InLength
  <2>2. Reporting'
    BY <1>9 DEF IsrEnds, Reporting, InRx
  <2>. QED
    BY <2>1, <2>2
<1>. QED
  BY <1>2, <1>3, <1>4, <1>6, <1>7, <1>8, <1>9 DEF IsrStep

----------------------------------------------------------------------------
(***************************************************************************)
(* The theorems                                                             *)
(***************************************************************************)
LEMMA IInvInit == Init => IInv
<1>. SUFFICES ASSUME Init PROVE IInv
  OBVIOUS
<1>1. owed = <<>> /\ Len(owed) = 0 /\ status = {} /\ pc = "app" /\ waits = {} /\ trx = "idle"
      /\ rxen = "no" /\ w4r = FALSE /\ txOwed = 0 /\ rdb = {} /\ dbl = Off /\ fill = 0
  BY DEF Init
<1>. QED
  BY <1>1, TypeInit DEF IInv, OneOperation, Sending, Receiving, RxEnded, Seeing, BeforeTx,
                        BeforeFlags, InRx, BeforeRx, BeforeErr, BeforeTo, Quiet, Enabling, Frames,
                        Reporting

\* FINT_STAT's bits of the radio do not depend on the chip's.
LEMMA OnlyChip ==
  ASSUME IInv, UNCHANGED <<hostVars, trx, w4r, fwto, status, rdb, buf, fill, full, history>>,
         chip' \in {chip, chip \cup {"CMDERR"}}
  PROVE  IInv'
<1>1. UNCHANGED <<dbl, noData, cb, pc, rxen, fstat, snap, waits, got>>
  BY DEF hostVars
<1>2. UNCHANGED <<trx, w4r, fwto, status, rdb, buf, fill, full, owed, txOwed, nextFrame>>
  BY DEF history
<1>3. TypeOK'
  <2>1. chip' \subseteq ChipEvents
    BY DEF IInv, TypeOK, ChipEvents
  <2>. QED
    BY <1>1, <1>2, <2>1 DEF IInv, TypeOK
<1>4. OneOperation'
  BY <1>1, <1>2 DEF IInv, OneOperation, Sending, Receiving, RxEnded
<1>5. Seeing'
  BY <1>1, <1>2 DEF IInv, Seeing, BeforeTx, BeforeFlags, InRx, BeforeRx, BeforeErr, BeforeTo
<1>6. \A e \in RadioEvents : e \in Fast' <=> e \in Fast
  BY <1>1, <1>2 DEF Fast, RadioEvents
<1>7. Quiet' /\ Enabling'
  BY <1>1, <1>2, <1>6 DEF IInv, Quiet, Enabling, DataRead
<1>8. Frames' /\ Reporting'
  BY <1>1, <1>2 DEF IInv, Frames, Reporting, InRx, LenOfOldest, DataRead, HostBuffer, Receiving
<1>. QED
  BY <1>3, <1>4, <1>5, <1>7, <1>8 DEF IInv

LEMMA IInvStep == IInv /\ [Next]_vars => IInv'
<1>. SUFFICES ASSUME IInv, [Next]_vars PROVE IInv'
  OBVIOUS
<1>1. CASE AppStep
  BY <1>1, TypeAppStep, OperationAppStep, SeeingAppStep, FramesAppStep DEF IInv
<1>2. CASE IsrStep
  BY <1>2, TypeIsrStep, OperationIsrStep, SeeingIsrStep, EnablingIsrStep, FramesIsrStep DEF IInv
<1>5. CASE EnableStep
  BY <1>5, TypeEnableStep, OperationEnableStep, SeeingEnableStep, FramesEnableStep DEF IInv
<1>6. CASE Panic
  <2>1. /\ UNCHANGED <<hostVars, trx, w4r, fwto, status, rdb, buf, fill, full, history>>
        /\ chip' = chip \cup {"CMDERR"}
    BY <1>6 DEF Panic
  <2>. QED
    BY <2>1, OnlyChip
<1>3. CASE RadioStep
  BY <1>3, TypeRadioStep, OperationRadioStep, SeeingRadioStep, FramesRadioStep DEF IInv
<1>4. CASE UNCHANGED vars
  BY <1>4, OnlyChip DEF vars, radioVars
<1>. QED
  BY <1>1, <1>2, <1>3, <1>4, <1>5, <1>6 DEF Next

\* The host waits for one operation at a time, an event dwt_isr has seen is there
\* until its block clears it, and the frames not reported are in the buffers the
\* host will come to.
THEOREM OneByOne == Spec => []IInv
BY IInvInit, IInvStep, PTL DEF Spec

\* No variable of the driver or the radio leaves its range: never more than two
\* frames and one transmission are unreported, dwt_isr (dw3000_device_api.cpp:3320-3547).
THEOREM TypeCorrect == Spec => []TypeOK
<1>1. IInv => TypeOK
  BY DEF IInv
<1>. QED
  BY <1>1, OneByOne, PTL

\* Every cbRxOk is about the oldest frame not yet reported and has its length,
\* data and CIA result, with single and double buffering and with no data,
\* however the radio's steps fall between the register accesses of dwt_isr.
THEOREM OldestReported == Spec => []ReportsOldestFrame
<1>1. IInv => ReportsOldestFrame
  <2>. SUFFICES ASSUME IInv, pc = "rxok"
                PROVE  /\ owed # <<>> /\ cb.flags = Head(owed).cia
                       /\ cb.len = IF noData THEN None ELSE Head(owed).frame
                       /\ got # None => got = Head(owed).frame
    BY DEF ReportsOldestFrame
  <2>1. Len(owed) >= 1 /\ owed \in Seq(Received)
    BY Lengths DEF IInv
  <2>2. owed # <<>>
    BY <2>1, Len(<<>>) = 0
  <2>3. Head(owed) = owed[1]
    BY <2>1, <2>2, HeadTailProperties
  <2>. QED
    BY <2>2, <2>3 DEF IInv, Reporting, LenOfOldest
<1>. QED
  BY <1>1, OneByOne, PTL

\* When the application has nothing to wait for, no transmission and no reception
\* is left that could still begin: a start that failed was turned off.
THEOREM NothingLeft == Spec => []NothingLeftArmed
<1>1. IInv => NothingLeftArmed
  BY Silence DEF IInv, NothingLeftArmed, AppMayCall
<1>. QED
  BY <1>1, OneByOne, PTL
=============================================================================
