------------------------------- MODULE Boards -------------------------------
(***************************************************************************)
(* The sketches, two boards at a time: the firmwares of the Hub and of the   *)
(* anchors with the tag's, the examples of the DW3000 library they derive    *)
(* from, and the self-check.  One board starts ("ini": a ranging initiator   *)
(* or a sender), one waits ("res": a ranging responder or a receiver).       *)
(* Every sketch is a setup, a sequence of driver calls some of which may     *)
(* fail, and a loop.  Frames may be lost, spoiled, foreign or answered too   *)
(* late and boards may be reset, Faults times in all.                        *)
(*                                                                           *)
(* Taken from the sketches' timing: an answer that is sent comes inside the  *)
(* initiator's window (see Configs), and the pause between two rounds is     *)
(* longer than a responder needs to come back to its receiver.  The cycle of *)
(* SYNCs that starts the firmwares' rounds is Tdma's.                        *)
(***************************************************************************)
EXTENDS Naturals, Sequences, SequencesExt

CONSTANTS
  Faults,   \* how many faults the environment commits at most
  Counts    \* numbers of the AES frames, counted modulo this

ASSUME FaultsAssumption == Faults \in Nat
ASSUME CountsAssumption == Counts \in Nat \ {0, 1}

(* The setups, call by call.  "delay" and the serial port are left out. *)
Start == <<"idlerc", "initialise", "leds", "configure">>
Diagnostic == <<"devid", "initialise", "configure", "leds", "txrf">>
Restart == <<"idlerc", "softreset", "idlerc", "initialise", "leds", "configure">>

TxSetup == Restart \o <<"txrf">>
TxSleepSetup == Start \o <<"txrf", "lnapa", "sleep">>
TxSleepAutoSetup == Start \o <<"txrf", "sleep", "aftertx", "interrupt">>
RxSetup == <<"idlerc", "softreset", "initialise", "leds", "configure">>
HubSetup == Start \o <<"txrf", "antennas", "rxaftertx", "rxtimeout", "lnapa", "room">>
Anchor1Setup == Start \o <<"txrf", "antennas", "rxaftertx", "rxtimeout", "lnapa">>
Anchor2Setup == Start \o <<"txrf", "antennas", "rxaftertx", "rxtimeout", "lnapa">>
\* The receiver, which the tag's setup turns on, is Listen's.
TagSetup == Start \o <<"txrf", "antennas", "lnapa">>
InitiatorSetup == Start \o <<"txrf", "antennas", "rxaftertx", "rxtimeout", "lnapa">>
ResponderSetup == Start \o <<"txrf", "antennas", "lnapa">>
StsInitiatorSetup == Start \o <<"txrf", "antennas", "rxtimeout", "lnapa">>
StsResponderSetup == Start \o <<"txrf", "antennas", "lnapa">>
NoDataInitiatorSetup == <<"idlerc", "initialise", "leds", "antennas", "lnapa", "configure", "txrf">>
NoDataResponderSetup == <<"idlerc", "initialise", "leds", "antennas", "lnapa", "configure", "txrf">>
AesInitiatorSetup == Start \o <<"txrf", "antennas", "rxaftertx", "rxtimeout", "lnapa", "jobs">>
AesResponderSetup == Start \o <<"txrf", "antennas", "lnapa", "jobs">>
\* Fault: only what a transmission needs is configured again.
ReconfigureForTx == Start \o <<"txrf">>
\* restoreconfig of ex_01b, after every sleep.
Reconfigure == Start \o <<"txrf", "lnapa", "sleep">>

(* The loops, told apart by what a round does with its frames: *)
(*   mode     the STS mode set at the beginning of a loop ("kept": none is set) *)
(*   reloads  the STS counter is loaded again at the beginning of a loop        *)
(*   data     the polls and answers have data; otherwise a report follows       *)
(*   stray    where a good frame that is not the expected one leads             *)
(*   numbers  the frames carry a number                                         *)
(*   rest     what follows a transmission: "loop", or a sleep and its end       *)
Loop ==
  [mode |-> "kept", reloads |-> FALSE, data |-> TRUE, stray |-> "loop", numbers |-> FALSE, rest |-> "loop"]
StsLoop == [Loop EXCEPT !.reloads = TRUE]
NoDataLoop == [StsLoop EXCEPT !.mode = "ND", !.data = FALSE]
AesLoop == [Loop EXCEPT !.stray = "hung", !.numbers = TRUE]

HubLoop == Loop
Anchor1Loop == Loop
Anchor2Loop == Loop
TagLoop == Loop
InitiatorLoop == Loop
ResponderLoop == Loop
StsInitiatorLoop == StsLoop
StsResponderLoop == StsLoop
NoDataInitiatorLoop == NoDataLoop
NoDataResponderLoop == NoDataLoop
AesInitiatorLoop == AesLoop
AesResponderLoop == AesLoop
TxLoop == Loop
TxSleepLoop == [Loop EXCEPT !.rest = "configured"]
TxSleepAutoLoop == [Loop EXCEPT !.rest = "restored"]
RxLoop == Loop
DiagnosticLoop == Loop

\* again: what a sketch does over when a call of its setup fails.
Sketch(setup, loop) == [setup |-> setup, loop |-> loop, again |-> "nothing"]
Firmware(setup, loop) == [setup |-> setup, loop |-> loop, again |-> "idlerc"]
SelfCheck == [setup |-> Diagnostic, loop |-> DiagnosticLoop, again |-> "setup"]
Tag == Firmware(TagSetup, TagLoop)
Receiver == Sketch(RxSetup, RxLoop)
Sketches ==
  [hub |-> [ini |-> Firmware(HubSetup, HubLoop), res |-> Tag],
   anchor1 |-> [ini |-> Firmware(Anchor1Setup, Anchor1Loop), res |-> Tag],
   anchor2 |-> [ini |-> Firmware(Anchor2Setup, Anchor2Loop), res |-> Tag],
   plain |-> [ini |-> Sketch(InitiatorSetup, InitiatorLoop),
              res |-> Sketch(ResponderSetup, ResponderLoop)],
   sts |-> [ini |-> Sketch(StsInitiatorSetup, StsInitiatorLoop),
            res |-> Sketch(StsResponderSetup, StsResponderLoop)],
   nodata |-> [ini |-> Sketch(NoDataInitiatorSetup, NoDataInitiatorLoop),
               res |-> Sketch(NoDataResponderSetup, NoDataResponderLoop)],
   aes |-> [ini |-> Sketch(AesInitiatorSetup, AesInitiatorLoop),
            res |-> Sketch(AesResponderSetup, AesResponderLoop)],
   tx |-> [ini |-> Sketch(TxSetup, TxLoop), res |-> Receiver],
   sleep |-> [ini |-> Sketch(TxSleepSetup, TxSleepLoop), res |-> Receiver],
   autosleep |-> [ini |-> Sketch(TxSleepAutoSetup, TxSleepAutoLoop), res |-> Receiver],
   selfcheck |-> [ini |-> SelfCheck, res |-> Receiver]]
Ranging == {"hub", "anchor1", "anchor2", "plain", "sts", "nodata", "aes"}

Node == {"ini", "res"}
MayFail == {"idlerc", "devid", "initialise", "configure"}
\* What a call undoes of the calls before it.  dwt_initialise forgets the sleep mode and
\* the STS configuration; dwt_configure writes the PG delay and changes the sleep mode
\* without writing it to the chip.
Undone(call) ==
  CASE call = "softreset" -> {"initialise", "leds", "configure", "txrf", "antennas", "rxaftertx",
                              "rxtimeout", "lnapa", "sleep", "aftertx", "interrupt"}
    [] call = "initialise" -> {"sleep", "configure"}
    [] call = "configure" -> {"txrf", "sleep"}
    [] OTHER -> {}

VARIABLES
  example,   \* which sketches the two boards run
  pc,        \* where each board is
  todo,      \* the setup calls a board has still to make
  inForce,   \* the settings in force on a board
  iv,        \* the STS counter of a board's chip
  sts,       \* whether a board's chip sends and expects an STS: "ND", "OFF", "on"
  number,    \* the frame counter in a board's MAC header
  rounds,    \* frame_cnt: the rounds the initiator has made
  air,       \* the frames on the air: none or one
  spoiled,   \* whether a fault has touched this round
  outcome,   \* of this round, or of the last one once it is over
  faults     \* faults so far
boards == <<pc, todo, inForce, iv, sts, number, rounds>>
vars == <<example, pc, todo, inForce, iv, sts, number, rounds, air, spoiled, outcome, faults>>

SetupOf(n) == Sketches[example][n].setup
LoopOf(n) == Sketches[example][n].loop
\* The STS mode of the sketches' configuration.
ConfiguredMode == CASE example = "nodata" -> "ND" [] example = "sts" -> "on" [] OTHER -> "OFF"

Init ==
  /\ example \in DOMAIN Sketches
  /\ pc = [n \in Node |-> "setup"]
  /\ todo = [n \in Node |-> SetupOf(n)]
  /\ inForce = [n \in Node |-> {}]
  /\ iv = [n \in Node |-> 0]
  /\ sts = [n \in Node |-> ConfiguredMode]
  /\ number = [n \in Node |-> 0]
  /\ rounds = 0 /\ air = {} /\ spoiled = FALSE /\ outcome = "none" /\ faults = 0

Fault == faults < Faults /\ faults' = faults + 1
Stuck == \E n \in Node : pc[n] \in {"halted", "hung"}

----------------------------------------------------------------------------
(* Setup. *)

\* The next call succeeds; after the last one the loop begins.
Configured(n) ==
  /\ pc[n] = "setup"
  /\ todo' = [todo EXCEPT ![n] = Tail(@)]
  /\ inForce' = [inForce EXCEPT ![n] = (@ \ Undone(Head(todo[n]))) \cup {Head(todo[n])}]
  /\ pc' = [pc EXCEPT ![n] = IF Len(todo[n]) = 1 THEN "loop" ELSE @]
  /\ UNCHANGED <<example, iv, sts, number, rounds, air, spoiled, outcome, faults>>

\* A call fails.  The firmwares wait for IDLE_RC and the self-check starts again; all
\* else stops in an empty loop.
SetupFails(n) ==
  LET call == Head(todo[n])
      again == Sketches[example][n].again
  IN /\ pc[n] = "setup" /\ call \in MayFail
     /\ Fault
     /\ pc' = [pc EXCEPT ![n] = IF again \in {call, "setup"} THEN @ ELSE "halted"]
     /\ todo' = [todo EXCEPT ![n] = IF again = "setup" THEN SetupOf(n) ELSE @]
     /\ UNCHANGED <<example, inForce, iv, sts, number, rounds, air, spoiled, outcome>>

\* A board is reset.
Reset(n) ==
  /\ Fault
  /\ pc' = [pc EXCEPT ![n] = "setup"]
  /\ todo' = [todo EXCEPT ![n] = SetupOf(n)]
  /\ inForce' = [inForce EXCEPT ![n] = {}]
  /\ iv' = [iv EXCEPT ![n] = 0]
  /\ number' = [number EXCEPT ![n] = 0]
  /\ rounds' = IF n = "ini" THEN 0 ELSE rounds
  /\ air' = {}
  /\ spoiled' = TRUE
  /\ outcome' = IF n = "ini" THEN "none" ELSE outcome
  /\ sts' = [sts EXCEPT ![n] = ConfiguredMode]
  /\ UNCHANGED example

----------------------------------------------------------------------------
(* The loops. *)

ReloadedOnce(n) == iv[n]
\* The STS counter at the beginning of a loop: the low word of the IV is loaded again.
Reloaded(n) == IF LoopOf(n).reloads THEN 0 ELSE iv[n]
ModeKept(n) == sts[n]
\* dwt_configurestsmode at the beginning of a loop.
Mode(n) == IF LoopOf(n).mode = "kept" THEN sts[n] ELSE LoopOf(n).mode

\* The counter moves on with every frame that carries an STS.
Moved(count, mode) == IF mode = "OFF" THEN count ELSE count + 1
\* A frame leaves with the counter of the sender's chip, which moves on.
Frame(what, n, mode, count) ==
  [what |-> what, sts |-> mode, iv |-> count, number |-> number[n]]

\* A round begins: send_tx_poll_msg, or the poll with the response expected.
Poll ==
  /\ example \in Ranging
  /\ pc.ini = "loop" /\ air = {} /\ pc.res \notin {"loop", "answer", "report"}
  /\ sts' = [sts EXCEPT !.ini = Mode("ini")]
  /\ iv' = [iv EXCEPT !.ini = Moved(Reloaded("ini"), Mode("ini"))]
  /\ UNCHANGED number
  /\ air' = {Frame("poll", "ini", Mode("ini"), Reloaded("ini"))}
  /\ pc' = [pc EXCEPT !.ini = "wait"]
  /\ spoiled' = (pc.res # "wait") /\ outcome' = "none"
  /\ UNCHANGED <<example, todo, inForce, rounds, faults>>

\* What dwt_restoreconfig writes again, because a sleep does not preserve it: the bias of
\* dwt_initialise, the OPS and gain tables of dwt_configure.
Restored == {"initialise", "configure"}
\* What is in force when the chip wakes: the registers, when dwt_configuresleep had them saved.
Preserved(settings) == IF "sleep" \in settings THEN settings \ Restored ELSE {}

\* A sender's loop: send, and sleep where the sketch sleeps.
Send ==
  /\ example \notin Ranging
  /\ pc.ini = "loop" /\ air = {} /\ pc.res # "loop"
  /\ UNCHANGED <<sts, iv, number>>
  /\ air' = {Frame("blink", "ini", sts.ini, 0)}
  /\ IF LoopOf("ini").rest = "loop"
     THEN UNCHANGED <<pc, inForce>>
     ELSE /\ pc' = [pc EXCEPT !.ini = "asleep"]
          /\ inForce' = [inForce EXCEPT !.ini = Preserved(@)]
  /\ spoiled' = (pc.res # "wait") /\ outcome' = "none"
  /\ UNCHANGED <<example, todo, rounds, faults>>

\* ex_01b resets the chip after a sleep (spiSelect) and configures it anew, ex_01c calls
\* dwt_restoreconfig.
WakeUp ==
  /\ pc.ini = "asleep" /\ air = {}
  /\ IF LoopOf("ini").rest = "configured"
     THEN /\ pc' = [pc EXCEPT !.ini = "setup"] /\ todo' = [todo EXCEPT !.ini = Reconfigure]
          /\ inForce' = [inForce EXCEPT !.ini = {}]
     ELSE /\ pc' = [pc EXCEPT !.ini = "loop"] /\ UNCHANGED todo
          /\ inForce' = [inForce EXCEPT !.ini = @ \cup Restored]
  /\ UNCHANGED <<example, iv, sts, number, rounds, air, spoiled, outcome, faults>>

\* The waiting board turns its receiver on.
Listen ==
  /\ pc.res = "loop"
  /\ pc' = [pc EXCEPT !.res = "wait"]
  /\ sts' = [sts EXCEPT !.res = Mode("res")]
  /\ iv' = [iv EXCEPT !.res = Reloaded("res")]
  /\ UNCHANGED <<example, todo, inForce, number, rounds, air, spoiled, outcome, faults>>

\* What a board makes of a frame: RXFCG or RXFR, and a good STS where one is used.
Understood(n, f) == f.sts = sts[n] /\ (f.sts # "OFF" => f.iv = iv[n])
\* The bytes that are compared; a frame without data has none.
Expected(n) ==
  IF example \notin Ranging THEN {"blink", "foreign"}
  ELSE IF pc[n] = "wait2" THEN {"report"}
  ELSE IF n = "res" THEN {"poll"} ELSE {"answer"}
Matches(n, f) == f.sts = "ND" \/ f.what \in Expected(n)

\* Where a board goes with the frame it waited for.
After(n) ==
  IF n = "res" THEN (IF example \in Ranging THEN "answer" ELSE "loop")
  ELSE IF ~LoopOf(n).data /\ pc.ini = "wait" THEN "wait2" ELSE "loop"
NumberedAsReceived(n, f) == f.number
\* The MAC header is received in place of the board's own, and the responder counts on.
Numbered(n, f) == IF n = "ini" THEN f.number ELSE (f.number + 1) % Counts
\* The initiator counts the round before it looks at the answer.
Counted(n) == IF n = "ini" THEN (rounds + 1) % Counts ELSE rounds

\* A board whose receiver is on gets the frame.
Receives(n, f) ==
  LET good == Understood(n, f) /\ Matches(n, f)
      ends == n = "ini" /\ ~(good /\ After(n) = "wait2")
  IN /\ pc' = [pc EXCEPT ![n] = IF good THEN After(n)
                                ELSE IF Understood(n, f) THEN LoopOf(n).stray ELSE "loop"]
     /\ sts' = [sts EXCEPT ![n] = IF good /\ After(n) = "wait2" THEN "OFF" ELSE @]
     /\ iv' = [iv EXCEPT ![n] = Moved(@, f.sts)]
     /\ rounds' = IF LoopOf(n).numbers /\ ends THEN Counted(n) ELSE rounds
     /\ number' = IF LoopOf(n).numbers
                  THEN [number EXCEPT ![n] = IF good THEN Numbered(n, f)
                                             ELSE IF n = "ini" THEN Counted(n) ELSE @]
                  ELSE number
     /\ outcome' = IF ends \/ example \notin Ranging
                   THEN (IF good THEN "ranged" ELSE "failed") ELSE outcome

\* The frame on the air arrives, or finds the other board's receiver off.
For(f) == IF f.what \in {"answer", "report"} THEN "ini" ELSE "res"
Arrives ==
  \E f \in air : LET n == For(f) IN
    /\ air' = {}
    /\ IF pc[n] \in {"wait", "wait2"}
       THEN Receives(n, f)
       ELSE UNCHANGED <<pc, sts, iv, rounds, number, outcome>>
    /\ UNCHANGED <<example, todo, inForce, spoiled, faults>>

\* Nothing came: the initiator's receiver times out.
TimesOut ==
  /\ pc.ini \in {"wait", "wait2"}
  /\ air = {} /\ pc.res \notin {"answer", "report"}
  /\ pc' = [pc EXCEPT !.ini = "loop"]
  /\ rounds' = IF LoopOf("ini").numbers THEN Counted("ini") ELSE rounds
  /\ number' = IF LoopOf("ini").numbers THEN [number EXCEPT !.ini = Counted("ini")] ELSE number
  /\ outcome' = "failed"
  /\ UNCHANGED <<example, todo, inForce, iv, sts, air, spoiled, faults>>

\* The responder's answer, and the report that follows where the answer has no data.
Answer ==
  /\ pc.res = "answer" /\ air = {}
  /\ UNCHANGED number
  /\ air' = {Frame("answer", "res", sts.res, iv.res)}
  /\ iv' = [iv EXCEPT !.res = Moved(@, sts.res)]
  /\ sts' = [sts EXCEPT !.res = IF LoopOf("res").data THEN @ ELSE "OFF"]
  /\ pc' = [pc EXCEPT !.res = IF LoopOf("res").data THEN "loop" ELSE "report"]
  /\ UNCHANGED <<example, todo, inForce, rounds, spoiled, outcome, faults>>

Report ==
  /\ pc.res = "report" /\ air = {}
  /\ UNCHANGED <<number, sts, iv>>
  /\ air' = {Frame("report", "res", sts.res, 0)}
  /\ pc' = [pc EXCEPT !.res = "loop"]
  /\ UNCHANGED <<example, todo, inForce, rounds, spoiled, outcome, faults>>

----------------------------------------------------------------------------
(* What may go wrong on the air. *)

\* The time of the delayed transmission is past: dwt_starttx refuses.
TooLate ==
  /\ pc.res \in {"answer", "report"} /\ air = {}
  /\ Fault
  /\ pc' = [pc EXCEPT !.res = "loop"]
  /\ spoiled' = TRUE
  /\ UNCHANGED <<example, todo, inForce, iv, sts, number, rounds, air, outcome>>

Lost ==
  /\ air # {} /\ Fault
  /\ air' = {} /\ spoiled' = TRUE
  /\ UNCHANGED <<example, boards, outcome>>

\* The frame reaches the receiver spoiled.
ReceiveError(n) ==
  /\ pc[n] \in {"wait", "wait2"} /\ \E f \in air : For(f) = n
  /\ Fault
  /\ pc' = [pc EXCEPT ![n] = "loop"]
  /\ rounds' = IF LoopOf(n).numbers /\ n = "ini" THEN Counted(n) ELSE rounds
  /\ number' = IF LoopOf(n).numbers /\ n = "ini" THEN [number EXCEPT !.ini = Counted(n)] ELSE number
  /\ air' = {}
  /\ spoiled' = TRUE
  /\ outcome' = IF n = "ini" THEN "failed" ELSE outcome
  /\ UNCHANGED <<example, todo, inForce, iv, sts>>

\* A good frame of somebody else, sent without an STS.
Foreign(n) ==
  /\ pc[n] \in {"wait", "wait2"} /\ Fault
  /\ air = {} /\ Receives(n, [what |-> "foreign", sts |-> "OFF", iv |-> 0, number |-> 0])
  /\ air' = {}
  /\ spoiled' = TRUE
  /\ UNCHANGED <<example, todo, inForce>>

Initiator == Poll \/ Send \/ WakeUp \/ TimesOut
Responder == Listen \/ Answer \/ Report
Setup == \E n \in Node : Configured(n)
Environment == TooLate \/ Lost \/ \E n \in Node : SetupFails(n) \/ Reset(n) \/ ReceiveError(n) \/ Foreign(n)
Next == Setup \/ Initiator \/ Responder \/ Arrives \/ Environment

TypeOK ==
  /\ pc \in [Node -> {"setup", "loop", "wait", "wait2", "answer", "report", "asleep", "halted", "hung"}]
  /\ sts \in [Node -> {"ND", "OFF", "on"}] /\ iv \in [Node -> 0 .. 3]
  /\ number \in [Node -> 0 .. Counts - 1] /\ rounds \in 0 .. Counts - 1
  /\ outcome \in {"none", "ranged", "failed"} /\ faults \in 0 .. Faults

Spec == Init /\ [][Next]_vars
\* A board that can go on does, and a frame on the air arrives or is lost.
FairSpec ==
  /\ Spec
  /\ WF_vars(Initiator) /\ WF_vars(Responder) /\ WF_vars(Arrives)
  /\ \A n \in Node : WF_vars(Configured(n))

----------------------------------------------------------------------------
(* Properties. *)

\* A round fails only when a fault touched it: whatever the round before left in the
\* STS counters, the STS modes and the receivers, this one starts clean.
FailsOnlyIfSpoiled == outcome = "failed" => spoiled

\* The AES initiator's next poll carries the number of its round, although every answer
\* overwrites its MAC header.  (A reset starts the numbers again under the same key: of
\* two polls from before and after one this says nothing.)
NumbersAgree == LoopOf("ini").numbers /\ pc.ini = "loop" => number.ini = rounds

\* In its loop a board has every setting of its setup in force, whatever the later calls
\* of the setup undo and whatever its sleeps lose.
SetupInForce ==
  \A n \in Node :
    pc[n] \notin {"setup", "asleep", "halted"} =>
      Range(SetupOf(n)) \ {"idlerc", "devid", "softreset"} \subseteq inForce[n]

\* Once the faults end, rounds succeed again, unless a board has stopped for good
\* (a failed setup; a frame for another board in the AES sketches).
RangesAgain == []<>(outcome = "ranged" \/ Stuck)
=============================================================================
