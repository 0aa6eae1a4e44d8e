------------------------------- MODULE Power -------------------------------
(***************************************************************************)
(* The DW3000 driver and the life of the radio around ranging,              *)
(* dw3000_device_api.cpp: dwt_initialise, dwt_configure with its waits for  *)
(* the PLL and the PGF calibration, sleep, wake-up and dwt_restoreconfig,   *)
(* soft reset.  What the radio loses in its sleep, the host must put back.  *)
(*                                                                          *)
(* The radio is external, modelled from what the driver does about it: the  *)
(* always-on array keeps CHAN_CTRL, SYS_CFG and SEQ_CTRL and is downloaded  *)
(* on wake-up when AON_DIG_CFG says so (DWT_CONFIG); everything else is as  *)
(* after a reset, with the short OPS table, the only one that               *)
(* _dwt_kick_ops_table_on_wakeup has no command for.                        *)
(***************************************************************************)
EXTENDS Codes

CONSTANTS
  MAX_RETRIES_FOR_PLL, MAX_RETRIES_FOR_PGF,
  RxCodes, TxCodes,  \* preamble codes used
  WakeModes          \* sets of bits passed to dwt_configuresleep

Bits == {"ALT_OPS", "SEL_OPS1", "RUNSAR", "CONFIG", "GOTOIDLE", "GOTORX"}

ASSUME PowerAssumption ==
  /\ MAX_RETRIES_FOR_PLL \in Nat \ {0} /\ MAX_RETRIES_FOR_PGF \in Nat \ {0}
  /\ RxCodes \subseteq 1 .. 29 /\ TxCodes \subseteq 1 .. 29
  /\ WakeModes \subseteq SUBSET (Bits \ {"ALT_OPS", "SEL_OPS1"})

\* dwt_config_t, as far as it decides what is put back after a sleep;
\* long: the preamble and the STS together are 256 symbols or more.
Config == [chan : {5, 9}, rxCode : RxCodes, txCode : TxCodes, long : BOOLEAN]
NoConfig == [chan |-> 0]

VARIABLES
  \* pdw3000local
  sleep_mode,
  dblbuffon,  \* FALSE for DBL_BUFF_OFF
  otp,        \* the chip: "tuned", "untuned", and "bias": the LDO words are 0
  \* dwt_configure in progress, what it was given, what it returned last
  pc, cnt, config, result,
  \* the radio: its state, and registers that the always-on array keeps
  state,      \* "none" before dwt_initialise
  kept,       \* CHAN_CTRL, SYS_CFG (double buffer), SEQ_CTRL (AINIT2IDLE)
  aon,        \* the always-on array and AON_DIG_CFG
  \* registers that it loses
  lost,
  locked, calibrated,  \* CP_LOCK, and the result of the calibration
  \* history
  toRestore   \* woken, and dwt_restoreconfig not yet called

driver == <<sleep_mode, dblbuffon>>
call == <<pc, cnt, config, result>>
radio == <<state, kept, aon, lost, locked, calibrated>>
vars == <<driver, otp, call, radio, toRestore>>

KeptAtReset == [chanCtrl |-> 9 * 256 + 9 * 8, double |-> FALSE, ainit |-> FALSE]
LostAtReset == [ops |-> "short", dgc |-> 0, rxTune |-> TRUE, bias |-> FALSE,
                rload |-> FALSE, bufB |-> FALSE]
AonAtReset == [kept |-> KeptAtReset, dig |-> {}]

TypeOK ==
  /\ sleep_mode \subseteq Bits /\ dblbuffon \in BOOLEAN
  /\ otp \in {"tuned", "untuned", "bias"}
  /\ pc \in {"app", "pll", "pgf"}
  /\ cnt \in Nat
  /\ (pc = "pll" => cnt < MAX_RETRIES_FOR_PLL) /\ (pc = "pgf" => cnt < MAX_RETRIES_FOR_PGF)
  /\ config \in Config \cup {NoConfig} /\ result \in {"none", "success", "error"}
  /\ state \in {"none", "init_rc", "idle_rc", "idle_pll", "sleep"}
  /\ kept \in [chanCtrl : Nat, double : BOOLEAN, ainit : BOOLEAN]
  /\ aon \in [kept : [chanCtrl : Nat, double : BOOLEAN, ainit : BOOLEAN], dig : SUBSET Bits]
  /\ lost \in [ops : {"short", "long", "scp"}, dgc : {0, 5, 9}, rxTune : BOOLEAN, bias : BOOLEAN,
               rload : BOOLEAN, bufB : BOOLEAN]
  /\ locked \in BOOLEAN /\ calibrated \in BOOLEAN
  /\ toRestore \in BOOLEAN

Init ==
  /\ sleep_mode = {} /\ dblbuffon = FALSE
  /\ otp \in {"tuned", "untuned", "bias"}
  /\ pc = "app" /\ cnt = 0 /\ config = NoConfig /\ result = "none"
  /\ state = "none" /\ kept = KeptAtReset /\ aon = AonAtReset /\ lost = LostAtReset
  /\ locked = FALSE /\ calibrated = FALSE /\ toRestore = FALSE

Awake == state \in {"idle_rc", "idle_pll"}
AppMayCall == pc = "app" /\ Awake

(***************************************************************************)
(* Coming up.                                                               *)
(***************************************************************************)

\* dwt_initialise, after a reset: an unknown device is refused before
\* anything is programmed.
Initialise ==
  /\ pc = "app" /\ state = "none"
  /\ dblbuffon' = FALSE /\ sleep_mode' = {"RUNSAR"}
  /\ \/ UNCHANGED <<state, lost>>
     \/ state' = "idle_rc" /\ lost' = [lost EXCEPT !.bias = otp = "tuned"]
  /\ UNCHANGED <<otp, call, kept, aon, locked, calibrated, toRestore>>

\* Fault: the bits of an earlier configuration stay in sleep_mode.
OpsModeStale(c) ==
  IF c.rxCode > 24 \/ c.txCode > 24 THEN sleep_mode \cup {"ALT_OPS", "SEL_OPS1"}
  ELSE IF c.long THEN sleep_mode \cup {"ALT_OPS"} ELSE sleep_mode

\* Which OPS table dwt_configure selects, and how it is noted for the wake-up:
\* DWT_SEL_OPS0 is the absence of bits, the short table that of DWT_ALT_OPS.
OpsMode(c) ==
  (sleep_mode \ {"ALT_OPS", "SEL_OPS1"}) \cup
    (IF c.rxCode > 24 \/ c.txCode > 24 THEN {"ALT_OPS", "SEL_OPS1"}
     ELSE IF c.long THEN {"ALT_OPS"} ELSE {})

Ops(c) == IF c.rxCode > 24 \/ c.txCode > 24 THEN "scp"
          ELSE IF c.long THEN "long" ELSE "short"

\* dwt_setdwstate(DWT_DW_IDLE): AINIT2IDLE, on which the PLL is started.
SetIdle(k) == [k EXCEPT !.ainit = TRUE]

\* dwt_configure up to its wait for the PLL.
Configure(c) ==
  /\ AppMayCall
  /\ sleep_mode' = OpsMode(c)
  /\ kept' = SetIdle([kept EXCEPT !.chanCtrl = ChanCtrl(c)])
  /\ lost' = [lost EXCEPT !.ops = Ops(c), !.rload = TRUE]
  /\ config' = c /\ result' = "none"
  /\ locked' = FALSE /\ calibrated' = FALSE
  /\ pc' = "pll" /\ cnt' = 0
  /\ UNCHANGED <<dblbuffon, otp, state, aon, toRestore>>

\* The radio: AINIT2IDLE takes it out of IDLE_RC when the PLL has locked.
PllLocks ==
  /\ state = "idle_rc" /\ kept.ainit
  /\ state' = "idle_pll" /\ locked' = TRUE
  /\ UNCHANGED <<driver, otp, call, kept, aon, lost, calibrated, toRestore>>

\* With a PLL that was locked already CP_LOCK comes back at once.
StillLocked ==
  /\ pc = "pll" /\ state = "idle_pll" /\ ~locked /\ locked' = TRUE
  /\ UNCHANGED <<driver, otp, call, state, kept, aon, lost, calibrated, toRestore>>

\* Lines 1500-1518: DGC, from OTP or from software, "only for PRF 64".
\* Nothing sets RX_TUNE_EN again once it has been cleared.
WithDgc(c) == IF Prf64(c.rxCode) THEN [lost EXCEPT !.dgc = c.chan]
                                 ELSE [lost EXCEPT !.rxTune = FALSE]

LastRetry(max) == cnt + 1 = max   \* of lines 1482-1492 and 1588-1598

\* Fault: with the retries used up dwt_configure goes on.
PllLockedOrTired == locked \/ LastRetry(MAX_RETRIES_FOR_PLL)

PllLocked == locked

PllPoll ==
  /\ pc = "pll"
  /\ IF PllLocked
       THEN pc' = "pgf" /\ cnt' = 0 /\ lost' = WithDgc(config) /\ UNCHANGED result
       ELSE /\ UNCHANGED lost
            /\ IF LastRetry(MAX_RETRIES_FOR_PLL)
                 THEN pc' = "app" /\ cnt' = 0 /\ result' = "error"
                 ELSE cnt' = cnt + 1 /\ UNCHANGED <<pc, result>>
  /\ UNCHANGED <<driver, otp, config, state, kept, aon, locked, calibrated, toRestore>>

\* dwt_run_pgfcal: complete, and then with a result for I and for Q, or not
\* within the retries.  Zero or not is what dwt_configure's result comes to.
PgfPoll ==
  /\ pc = "pgf"
  /\ \/ /\ UNCHANGED calibrated
        /\ IF LastRetry(MAX_RETRIES_FOR_PGF)
             THEN pc' = "app" /\ cnt' = 0 /\ result' = "error"
             ELSE cnt' = cnt + 1 /\ UNCHANGED <<pc, result>>
     \/ \E ok \in BOOLEAN :
          /\ calibrated' = ok
          /\ result' = IF ok THEN "success" ELSE "error"
          /\ pc' = "app" /\ cnt' = 0
  /\ UNCHANGED <<driver, otp, config, state, kept, aon, lost, locked, toRestore>>

(***************************************************************************)
(* The states of the radio.                                                 *)
(***************************************************************************)

\* dwt_setdwstate: IDLE_RC, or INIT_RC from where the sequencer comes back.
SetDwState(s) ==
  /\ AppMayCall
  /\ IF s = "idle_pll"
     THEN kept' = SetIdle(kept) /\ UNCHANGED <<state, locked>>
     ELSE state' = s /\ kept' = [kept EXCEPT !.ainit = FALSE] /\ locked' = FALSE
  /\ UNCHANGED <<driver, otp, call, aon, lost, calibrated, toRestore>>

SequencerRuns ==
  /\ state = "init_rc" /\ state' = "idle_rc"
  /\ UNCHANGED <<driver, otp, call, kept, aon, lost, locked, calibrated, toRestore>>

\* dwt_configuresleep; ANA_CFG's wake-up sources are left out.
ConfigureSleep(mode) ==
  /\ AppMayCall
  /\ sleep_mode' = sleep_mode \cup mode
  /\ aon' = [aon EXCEPT !.dig = sleep_mode']
  /\ UNCHANGED <<dblbuffon, otp, call, state, kept, lost, locked, calibrated, toRestore>>

\* The array is saved and the radio sleeps.
Sleeps(k) ==
  /\ state' = "sleep" /\ aon' = [aon EXCEPT !.kept = k]
  /\ kept' = KeptAtReset /\ lost' = LostAtReset
  /\ locked' = FALSE /\ calibrated' = FALSE /\ toRestore' = FALSE

\* dwt_entersleep(), or, with FALSE, the end of a transmission after
\* dwt_entersleepaftertx(1).
EnterSleep(idleRc) ==
  /\ AppMayCall
  /\ Sleeps(IF idleRc THEN [kept EXCEPT !.ainit = FALSE] ELSE kept)
  /\ UNCHANGED <<driver, otp, call>>

\* The radio wakes as after a reset, and with DWT_CONFIG the array is
\* downloaded; without it the host has to start with dwt_initialise.
Wake ==
  /\ state = "sleep"
  /\ IF "CONFIG" \in aon.dig
       THEN /\ state' = "init_rc" /\ kept' = aon.kept /\ toRestore' = TRUE
            /\ UNCHANGED <<config, result>>
       ELSE /\ state' = "none" /\ config' = NoConfig /\ result' = "none"
            /\ UNCHANGED <<kept, toRestore>>
  /\ UNCHANGED <<driver, otp, pc, cnt, aon, lost, locked, calibrated>>

\* _dwt_kick_ops_table_on_wakeup
KickOps == IF {"ALT_OPS", "SEL_OPS1"} \subseteq sleep_mode THEN "scp"
           ELSE IF "ALT_OPS" \in sleep_mode THEN "long" ELSE lost.ops

RestoredDgc ==
  IF Prf64(RestoredCode(kept.chanCtrl))
    THEN IF kept.chanCtrl % 2 = 1 THEN 9 ELSE 5
    ELSE lost.dgc

\* Fault: the pointer to the second buffer's frame information is left out.
RestoredNoPointer ==
  [lost EXCEPT !.ops = KickOps, !.bias = otp # "untuned", !.rload = TRUE,
               !.dgc = RestoredDgc]

Restored ==
  [lost EXCEPT !.ops = KickOps, !.bias = otp # "untuned", !.rload = TRUE,
               !.bufB = TRUE, !.dgc = RestoredDgc]

\* dwt_restoreconfig()
RestoreConfig ==
  /\ AppMayCall /\ toRestore
  /\ lost' = Restored
  /\ toRestore' = FALSE
  /\ UNCHANGED <<driver, otp, call, state, kept, aon, locked, calibrated>>

\* dwt_setdblrxbuffmode
SetDblRxBuffMode ==
  /\ AppMayCall /\ ~toRestore
  /\ dblbuffon' = ~dblbuffon
  /\ kept' = [kept EXCEPT !.double = dblbuffon']
  /\ lost' = IF dblbuffon' THEN [lost EXCEPT !.bufB = TRUE] ELSE lost
  /\ UNCHANGED <<sleep_mode, otp, call, state, aon, locked, calibrated, toRestore>>

\* dwt_softreset, with dwt_clearaonconfig.  dblbuffon is set to
\* DBL_BUFF_ACCESS_BUFFER_0 whatever it was.
SoftReset ==
  /\ AppMayCall
  /\ state' = "none" /\ kept' = KeptAtReset /\ lost' = LostAtReset
  /\ aon' = AonAtReset
  /\ dblbuffon' = TRUE /\ sleep_mode' = {}
  /\ config' = NoConfig /\ result' = "none"
  /\ locked' = FALSE /\ calibrated' = FALSE
  /\ toRestore' = FALSE
  /\ UNCHANGED <<otp, pc, cnt>>

----------------------------------------------------------------------------
Next ==
  \/ Initialise \/ PllLocks \/ StillLocked \/ PllPoll \/ PgfPoll
  \/ \E c \in Config : Configure(c)
  \/ \E s \in {"init_rc", "idle_rc", "idle_pll"} : SetDwState(s)
  \/ SequencerRuns
  \/ \E m \in WakeModes : ConfigureSleep(m)
  \/ \E rc \in BOOLEAN : EnterSleep(rc)
  \/ Wake
  \/ RestoreConfig \/ SetDblRxBuffMode \/ SoftReset

Spec == Init /\ [][Next]_vars

----------------------------------------------------------------------------
(***************************************************************************)
(* Properties                                                               *)
(***************************************************************************)

InUse == Awake /\ pc = "app" /\ config # NoConfig /\ ~toRestore

\* dwt_restoreconfig and dwt_configure, between them and whatever sequence of
\* configurations and sleeps came before, leave the radio with the OPS table
\* of the configuration in force, and with the tuning its OTP holds.
TunedAsConfigured ==
  InUse => lost.ops = Ops(config) /\ lost.rload /\ (otp = "tuned" => lost.bias)

\* The driver reads the receive buffers by dblbuffon: it agrees with the
\* radio's SYS_CFG, and the second buffer can be reached, also after a sleep
\* (lines 3189-3193 say the pointer must be set again) and after a soft reset
\* that leaves dblbuffon set until dwt_initialise.
BufferModesAgree ==
  InUse => dblbuffon = kept.double /\ (dblbuffon => lost.bufB)

\* dwt_configure: DWT_SUCCESS only with the PLL locked and the receiver
\* calibrated.
SuccessMeansReady ==
  [][result' = "success" /\ result # "success" => locked' /\ calibrated']_vars
=============================================================================
