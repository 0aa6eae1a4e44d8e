-------------------------------- MODULE Hub --------------------------------
(***************************************************************************)
(* The Hub firmware, HUBFinal/HUBFinal.ino: the loop task, the ESP-NOW      *)
(* receive callback that the WiFi task runs at the same time on the other   *)
(* core, the room profile kept in flash, the buzzer, and a reset at any     *)
(* instruction.                                                             *)
(*                                                                          *)
(* Time advances in ticks.  The code only ever uses millis() in differences *)
(* (millis() - cycle_start, now - lastD1, ...), so the state holds the      *)
(* differences: since[k] is how long ago lastD of k was written.            *)
(***************************************************************************)
EXTENDS Naturals

CONSTANTS
  HUB_SLOT,      \* ticks of `millis() - cycle_start < 400`
  CYCLE,         \* ticks of `millis() - cycle_start < 600`
  FRESH,         \* ticks of `now - lastD < 6000`
  BUTTON,        \* ticks of `millis() - lastButtonPress > 500`
  BUZZ_DEBOUNCE, \* outside readings before the buzzer sounds
  NUM_ROOMS,     \* room profiles
  Dist,          \* the positive distances a ranging may yield
  Inside,        \* Inside[r]: the distance triples that room r's solver puts inside r
  MaxDrift,      \* ticks that may pass between `now = millis()` and its uses
  MaxAge,        \* bound: larger ages are not told apart
  MaxCount       \* bound: larger values of outsideCount are not told apart

Anchor == {"A1", "Hub", "A2"}    \* the distances d1, d2, d3
Remote == {"A1", "A2"}           \* those that arrive by ESP-NOW, ids 1 and 3
Rooms == 0 .. NUM_ROOMS - 1
NoDist == 0
Triples == [Anchor -> Dist]

ASSUME HubAssumption ==
  /\ HUB_SLOT \in Nat /\ CYCLE \in Nat /\ HUB_SLOT < CYCLE
  /\ FRESH \in Nat \ {0} /\ BUTTON \in Nat
  /\ BUZZ_DEBOUNCE \in Nat \ {0}
  /\ NUM_ROOMS \in Nat \ {0}
  /\ Dist \subseteq Nat \ {NoDist}
  /\ Inside \in [Rooms -> SUBSET Triples]
  /\ MaxDrift \in Nat
  /\ MaxAge \in Nat /\ MaxAge >= FRESH + MaxDrift
  /\ MaxCount \in Nat /\ MaxCount >= BUZZ_DEBOUNCE

VARIABLES
  pc,            \* where the loop task is
  inCycle,       \* millis() - cycle_start
  drift,         \* millis() - now, `now` being the local of line 233; 0 once it is gone
  d,             \* d1, d2, d3
  since,         \* millis() - lastD1, lastD2, lastD3
  cb,            \* the anchor whose report the callback is storing, or "idle"
  dLoc,          \* the distances as the loop's test of line 234 read them
  outsideCount,
  buzzer,        \* TRUE: the pin is HIGH
  room,          \* currentRoomIndex
  nvs,           \* the room profile in flash
  announced,     \* the last room a [ROOM_CONFIG] line named
  sinceButton,   \* millis() - lastButtonPress, larger values than BUTTON + 1 being alike
  recent         \* history: the i for which the i-th latest position was outside

clockVars == <<inCycle, drift, since, sinceButton>>
roomVars == <<room, nvs, announced>>
alarmVars == <<outsideCount, buzzer, recent>>
distVars == <<d, since, cb>>
vars == <<pc, inCycle, drift, d, since, cb, dLoc, outsideCount, buzzer,
          room, nvs, announced, sinceButton, recent>>

NoReadings == [k \in Anchor |-> NoDist]
\* The window moves by one reading.
Push(out) == {i \in 1 .. BUZZ_DEBOUNCE : IF i = 1 THEN out ELSE i - 1 \in recent}

Later(age) == IF age < MaxAge THEN age + 1 ELSE age

TypeOK ==
  /\ pc \in {"setup", "halted", "start", "save", "announce", "slot",
             "dists", "ages", "rest"}
  /\ inCycle \in 0 .. CYCLE
  /\ drift \in 0 .. MaxDrift
  /\ d \in [Anchor -> Dist \cup {NoDist}]
  /\ since \in [Anchor -> 0 .. MaxAge]
  /\ cb \in Remote \cup {"idle"}
  /\ dLoc \in [Anchor -> Dist \cup {NoDist}]
  /\ outsideCount \in 0 .. MaxCount
  /\ buzzer \in BOOLEAN
  /\ room \in Rooms
  /\ nvs \in 0 .. NUM_ROOMS
  /\ announced \in Rooms \cup {NUM_ROOMS}
  /\ sinceButton \in 0 .. BUTTON + 1
  /\ recent \subseteq 1 .. BUZZ_DEBOUNCE

(***************************************************************************)
(* Power-on and reset.  The initialisers of the globals run, then setup():  *)
(* the callback is registered first, the radio is initialised (a failure    *)
(* ends in while(1)), the profile is loaded and announced.                  *)
(***************************************************************************)
Init ==
  /\ pc = "setup"
  /\ inCycle = 0 /\ drift = 0
  /\ d = NoReadings /\ since = [k \in Anchor |-> 0] /\ cb = "idle"
  /\ dLoc = NoReadings
  /\ outsideCount = 0 /\ buzzer = FALSE /\ recent = {}
  /\ nvs \in 0 .. NUM_ROOMS         \* left in flash, perhaps by a build with more rooms
  /\ room = 0 /\ announced = NUM_ROOMS
  /\ sinceButton = 0

Reset ==
  /\ pc' = "setup"
  /\ inCycle' = 0 /\ drift' = 0
  /\ d' = NoReadings /\ since' = [k \in Anchor |-> 0] /\ cb' = "idle"
  /\ dLoc' = NoReadings
  /\ outsideCount' = 0 /\ buzzer' = FALSE /\ recent' = {}
  /\ room' = 0 /\ sinceButton' = 0
  /\ UNCHANGED <<nvs, announced>>

SetupFails ==
  /\ pc = "setup"
  /\ pc' = "halted"
  /\ UNCHANGED <<clockVars, d, cb, dLoc, alarmVars, roomVars>>

LoadedRoom == IF nvs >= NUM_ROOMS THEN 0 ELSE nvs

SetupDone ==
  /\ pc = "setup"
  /\ pc' = "start"
  /\ room' = LoadedRoom /\ announced' = LoadedRoom
  /\ buzzer' = FALSE
  /\ UNCHANGED <<clockVars, d, cb, dLoc, outsideCount, recent, nvs>>

(***************************************************************************)
(* The start of a cycle: the BOOT button, then the SYNC broadcast.          *)
(***************************************************************************)
StartCycle ==
  /\ pc = "start"
  /\ pc' = "slot" /\ inCycle' = 0
  /\ UNCHANGED <<drift, distVars, dLoc, alarmVars, roomVars, sinceButton>>

\* Faults for PressButton: no wrap-around, and the new room announced before
\* it is in flash.
PressWithoutWrap ==
  /\ pc = "start" /\ sinceButton > BUTTON
  /\ room' = room + 1
  /\ pc' = "save" /\ inCycle' = 0
  /\ UNCHANGED <<drift, distVars, dLoc, alarmVars, nvs, announced, sinceButton>>

PressAnnouncesFirst ==
  /\ pc = "start" /\ sinceButton > BUTTON
  /\ room' = (room + 1) % NUM_ROOMS /\ announced' = room'
  /\ pc' = "save" /\ inCycle' = 0
  /\ UNCHANGED <<drift, distVars, dLoc, alarmVars, nvs, sinceButton>>

PressButton ==
  /\ pc = "start" /\ sinceButton > BUTTON
  /\ room' = (room + 1) % NUM_ROOMS
  /\ pc' = "save" /\ inCycle' = 0
  /\ UNCHANGED <<drift, distVars, dLoc, alarmVars, nvs, announced, sinceButton>>

\* Fault: the selection is not written to flash.
SaveRoomForgotten ==
  /\ pc = "save"
  /\ sinceButton' = 0
  /\ pc' = "announce"
  /\ UNCHANGED <<inCycle, drift, distVars, dLoc, alarmVars, roomVars>>

SaveRoom ==
  /\ pc = "save"
  /\ nvs' = room /\ sinceButton' = 0
  /\ pc' = "announce"
  /\ UNCHANGED <<inCycle, drift, distVars, dLoc, alarmVars, room, announced>>

AnnounceRoom ==
  /\ pc = "announce"
  /\ announced' = room
  /\ pc' = "slot"
  /\ UNCHANGED <<clockVars, d, cb, dLoc, alarmVars, room, nvs>>

(***************************************************************************)
(* The Hub's own ranging, and `now` sampled after it.                       *)
(***************************************************************************)
AtHubSlot == pc = "slot" /\ inCycle >= HUB_SLOT

Decide == pc' = "dists" /\ drift' = 0

\* The tag's answer to the Hub's poll; a negative range is clamped to 0.
RangeAnswered ==
  /\ AtHubSlot
  /\ \E v \in Dist \cup {NoDist} : d' = [d EXCEPT !["Hub"] = v]
  /\ since' = [since EXCEPT !["Hub"] = 0]
  /\ Decide
  /\ UNCHANGED <<inCycle, cb, dLoc, alarmVars, roomVars, sinceButton>>

\* Fault: lastD2 is marked for every good frame, the answer or not.
RangeForeignFrameMarked ==
  /\ AtHubSlot
  /\ since' = [since EXCEPT !["Hub"] = 0]
  /\ Decide
  /\ UNCHANGED <<inCycle, d, cb, dLoc, alarmVars, roomVars, sinceButton>>

\* A good frame that is too long or not the answer: d2 and lastD2 stay.
RangeForeignFrame ==
  /\ AtHubSlot
  /\ Decide
  /\ UNCHANGED <<inCycle, distVars, dLoc, alarmVars, roomVars, sinceButton>>

RangeFailed ==
  /\ AtHubSlot
  /\ d' = [d EXCEPT !["Hub"] = NoDist]
  /\ Decide
  /\ UNCHANGED <<inCycle, since, cb, dLoc, alarmVars, roomVars, sinceButton>>

(***************************************************************************)
(* The decision.  The distances are read first, the timestamps after them;  *)
(* both are written by the callback meanwhile.                              *)
(***************************************************************************)
\* Fault: the else branch leaves the buzzer as it is.
NotAllFreshKeepsBuzzer ==
  /\ dLoc' = NoReadings /\ drift' = 0
  /\ pc' = "rest"
  /\ UNCHANGED alarmVars

\* Fault: a cycle without a position also starts the count anew.
NotAllFreshForgets ==
  /\ buzzer' = FALSE /\ outsideCount' = 0
  /\ dLoc' = NoReadings /\ drift' = 0
  /\ pc' = "rest"
  /\ UNCHANGED recent

\* The else branch: the buzzer is silenced and outsideCount is left alone.
NotAllFresh ==
  /\ buzzer' = FALSE
  /\ dLoc' = NoReadings /\ drift' = 0
  /\ pc' = "rest"
  /\ UNCHANGED <<outsideCount, recent>>

ReadDistances ==
  /\ pc = "dists"
  /\ IF \A k \in Anchor : d[k] > 0
       THEN /\ dLoc' = d /\ pc' = "ages"
            /\ UNCHANGED <<drift, alarmVars>>
       ELSE NotAllFresh
  /\ UNCHANGED <<inCycle, distVars, roomVars, sinceButton>>

\* (now - lastD) < 6000 on unsigned operands: a timestamp written after
\* `now` was sampled gives a huge difference.
Fresh(k) == drift <= since[k] /\ since[k] - drift < FRESH

\* Fault: an inside position does not reset the count.
NextCountWithoutReset(out) ==
  IF out /\ outsideCount < MaxCount THEN outsideCount + 1 ELSE outsideCount

NextCount(out) ==
  IF ~out THEN 0
  ELSE IF outsideCount < MaxCount THEN outsideCount + 1 ELSE outsideCount

\* Fault: the threshold is met by equality only.
VerdictOnce(out) ==
  /\ outsideCount' = NextCount(out)
  /\ buzzer' = (NextCount(out) = BUZZ_DEBOUNCE)
  /\ recent' = Push(out)

Verdict(out) ==
  /\ outsideCount' = NextCount(out)
  /\ buzzer' = (NextCount(out) >= BUZZ_DEBOUNCE)
  /\ recent' = Push(out)

\* The plain doubles d1 and d3 may be reread or kept in registers after the
\* test, so each operand of the solver is either value.
Locate ==
  /\ pc = "ages"
  /\ \A k \in Anchor : Fresh(k)
  /\ \E t \in Triples :
       /\ \A k \in Anchor : t[k] \in {dLoc[k], d[k]}
       /\ Verdict(t \notin Inside[room])
  /\ dLoc' = NoReadings /\ drift' = 0
  /\ pc' = "rest"
  /\ UNCHANGED <<inCycle, distVars, roomVars, sinceButton>>

AgesTooOld ==
  /\ pc = "ages"
  /\ \E k \in Anchor : ~Fresh(k)
  /\ NotAllFresh
  /\ UNCHANGED <<inCycle, distVars, roomVars, sinceButton>>

EndCycle ==
  /\ pc = "rest" /\ inCycle >= CYCLE
  /\ announced' = room
  /\ pc' = "start"
  /\ UNCHANGED <<clockVars, d, cb, dLoc, alarmVars, room, nvs>>

(***************************************************************************)
(* The callback: OnDataRecv stores the distance, then the time.             *)
(***************************************************************************)
StoreDistance(k) ==
  /\ cb = "idle"
  /\ \E v \in Dist : d' = [d EXCEPT ![k] = v]
  /\ cb' = k
  /\ UNCHANGED <<pc, clockVars, dLoc, alarmVars, roomVars>>

StoreTime ==
  /\ cb # "idle"
  /\ since' = [since EXCEPT ![cb] = 0]
  /\ cb' = "idle"
  /\ UNCHANGED <<pc, inCycle, drift, d, dLoc, alarmVars, roomVars, sinceButton>>

(***************************************************************************)
(* Time passes while the loop waits, and up to MaxDrift ticks between       *)
(* `now = millis()` and the tests that use it.                              *)
(***************************************************************************)
MayElapse ==
  \/ pc \in {"setup", "halted"}
  \/ pc = "slot" /\ inCycle < HUB_SLOT
  \/ pc \in {"dists", "ages"} /\ drift < MaxDrift
  \/ pc = "rest" /\ inCycle < CYCLE

Tick ==
  /\ MayElapse
  /\ inCycle' = IF inCycle < CYCLE THEN inCycle + 1 ELSE inCycle
  /\ drift' = IF pc \in {"dists", "ages"} THEN drift + 1 ELSE drift
  /\ since' = [k \in Anchor |-> Later(since[k])]
  /\ sinceButton' = IF sinceButton > BUTTON THEN sinceButton ELSE sinceButton + 1
  /\ UNCHANGED <<pc, d, cb, dLoc, alarmVars, roomVars>>

----------------------------------------------------------------------------
LoopStep ==
  \/ SetupDone
  \/ StartCycle \/ PressButton \/ SaveRoom \/ AnnounceRoom
  \/ RangeAnswered \/ RangeForeignFrame \/ RangeFailed
  \/ ReadDistances \/ Locate \/ AgesTooOld
  \/ EndCycle

Next ==
  \/ LoopStep
  \/ SetupFails
  \/ \E k \in Remote : StoreDistance(k)
  \/ StoreTime
  \/ Tick
  \/ Reset

Spec == Init /\ [][Next]_vars

\* Both tasks are scheduled for ever and the clock runs.
FairSpec == Spec /\ WF_vars(LoopStep) /\ WF_vars(StoreTime) /\ WF_vars(Tick)

----------------------------------------------------------------------------
(***************************************************************************)
(* Properties                                                               *)
(***************************************************************************)

\* HUBFinal.ino:76, "buzz only after this many consecutive outside readings":
\* while the buzzer sounds, each of the last BUZZ_DEBOUNCE positions computed
\* since power-on was outside, whatever cycles without a position lay between.
AlarmOnlyAfterDebounce == buzzer => recent = 1 .. BUZZ_DEBOUNCE

\* HUBFinal.ino:76-77 the other way round: right after a decision that got
\* a position, a full window of outside readings does sound the buzzer.
AlarmNotMissed ==
  [][Locate => (recent' = 1 .. BUZZ_DEBOUNCE => buzzer')]_vars

\* The two together and nothing else: count, ages, callback, lost ranges and
\* resets add up to the abstract alarm, step by step (HUBFinal.ino:72-77).
Promise == INSTANCE Alarm WITH
             N <- BUZZ_DEBOUNCE, window <- recent, sounding <- buzzer
ImplementsAlarm == Promise!Spec

\* Whatever room the loop computes positions in has been saved to flash and
\* announced to the host before the first of them (lines 136-148, 164-171),
\* resets included.
InLoop == pc \in {"slot", "dists", "ages", "rest"}
RoomSavedAndAnnounced == InLoop => room = LoadedRoom /\ room = announced

\* A reset loses at most the press that was being stored: the flash holds the
\* last announced room or the one the button had just selected (line 166).
FlashFollowsAnnouncement ==
  announced # NUM_ROOMS =>
    LoadedRoom \in {announced, (announced + 1) % NUM_ROOMS}

\* HUBFinal.ino:290, "Not all fresh - keep buzzer silent": the loop gives up a
\* position only when some distance is missing or older than the window.
Available == \A k \in Anchor : d[k] > 0 /\ since[k] < FRESH
WaitsOnlyWhenNotFresh == [][AgesTooOld => ~Available]_vars

\* Line 272, with the tag outside, all three anchors reporting it and no
\* distance ever out of date.  Reports may still fall between `now` and the test
\* of the ages, and every such cycle waits and silences the buzzer.  But the
\* cycles that get a position add up across the ones that do not, so that from
\* some time on each of them sounds it; and once no report falls there any more
\* the alarm sounds for good.
OutsideForSure ==
  /\ Available
  /\ \A r \in Rooms, t \in Triples :
       (\A k \in Anchor : t[k] \in {d[k], dLoc[k]}) => t \notin Inside[r]
OutsideRaisesAlarm ==
  /\ (<>[]OutsideForSure) /\ ([]<><<Locate>>_vars) => <>[][Locate => buzzer']_vars
  /\ (<>[]OutsideForSure) /\ (<>[][~AgesTooOld]_vars) => <>[]buzzer

\* With one anchor silent for good (or the tag out of its reach), the alarm
\* ends up silent for good: the loop keeps deciding.
SilentAnchorStopsAlarm ==
  (\E k \in Anchor : <>[](d[k] = NoDist \/ since[k] >= FRESH)) => <>[](~buzzer)
=============================================================================
