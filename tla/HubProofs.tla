----------------------------- MODULE HubProofs -----------------------------
(***************************************************************************)
(* What the Hub's loop, callback and resets preserve for every timing       *)
(* constant, debounce depth, number of rooms and room geometry.             *)
(***************************************************************************)
EXTENDS HubAges, TLAPS

(***************************************************************************)
(* The inductive invariant.  outsideCount abbreviates the history: it is    *)
(* the number of outside positions since the last inside one, or a whole    *)
(* window of them.                                                          *)
(***************************************************************************)
CountIsStreak ==
  /\ \A i \in 1 .. BUZZ_DEBOUNCE : i <= outsideCount => i \in recent
  /\ outsideCount < BUZZ_DEBOUNCE => outsideCount + 1 \notin recent

BuzzerFollowsCount == buzzer => outsideCount >= BUZZ_DEBOUNCE

AllMeasured == pc = "ages" => \A k \in Anchor : d[k] # NoDist

\* How the profile in RAM, in flash and at the host relate at each point.
RoomStages ==
  /\ pc \in {"start", "slot", "dists", "ages", "rest"} =>
       room = LoadedRoom /\ room = announced
  /\ pc = "save" =>
       announced = LoadedRoom /\ room = (announced + 1) % NUM_ROOMS
  /\ pc = "announce" =>
       room = LoadedRoom /\ announced \in Rooms
         /\ room = (announced + 1) % NUM_ROOMS

IInv ==
  /\ TypeOK
  /\ CountIsStreak
  /\ BuzzerFollowsCount
  /\ AllMeasured
  /\ RoomStages
  /\ FlashFollowsAnnouncement

----------------------------------------------------------------------------
\* What the timing and size constants give the arithmetic of the proofs.
LEMMA Bounds ==
  /\ CYCLE \in Nat /\ BUTTON \in Nat /\ MaxDrift \in Nat /\ MaxAge \in Nat
  /\ FRESH \in Nat /\ BUZZ_DEBOUNCE \in Nat \ {0} /\ NUM_ROOMS \in Nat \ {0}
  /\ MaxCount \in Nat /\ MaxCount >= BUZZ_DEBOUNCE
  /\ \A v \in Dist : v \in Nat /\ v > 0
BY HubAssumption DEF NoDist

\* A count below the window has a next place in it.
LEMMA NextIndex ==
  ASSUME NEW n \in Nat, n < BUZZ_DEBOUNCE
  PROVE  n + 1 \in 1 .. BUZZ_DEBOUNCE
BY Bounds

\* A history that starts with a streak is full just when the streak is.
LEMMA FullWindow ==
  ASSUME NEW n \in Nat, NEW W \in SUBSET (1 .. BUZZ_DEBOUNCE),
         \A i \in 1 .. BUZZ_DEBOUNCE : i <= n => i \in W,
         n < BUZZ_DEBOUNCE => n + 1 \notin W
  PROVE  n >= BUZZ_DEBOUNCE <=> W = 1 .. BUZZ_DEBOUNCE
<1>1. ASSUME n >= BUZZ_DEBOUNCE PROVE W = 1 .. BUZZ_DEBOUNCE
  <2>1. \A i \in 1 .. BUZZ_DEBOUNCE : i <= n
    BY <1>1, Bounds
  <2>2. QED
    BY <2>1
<1>2. ASSUME n < BUZZ_DEBOUNCE PROVE W # 1 .. BUZZ_DEBOUNCE
  BY <1>2, NextIndex
<1>3. QED
  BY <1>1, <1>2, Bounds

\* The button's successor room is a room.
LEMMA NextRoomIsRoom ==
  ASSUME NEW r \in Rooms
  PROVE  (r + 1) % NUM_ROOMS \in Rooms
BY HubAssumption DEF Rooms

\* The count stays within its bound.
LEMMA NextCountType ==
  ASSUME TypeOK, NEW out \in BOOLEAN
  PROVE  NextCount(out) \in 0 .. MaxCount
BY HubAssumption DEF TypeOK, NextCount

\* What setup() loads is a room, whatever flash holds.
LEMMA LoadedRoomIsRoom ==
  ASSUME TypeOK
  PROVE  LoadedRoom \in Rooms
BY HubAssumption DEF TypeOK, LoadedRoom, Rooms

LEMMA InitIInv == Init => IInv
<1> SUFFICES ASSUME Init PROVE IInv
  OBVIOUS
<1>1. TypeOK
  <2>1. /\ d \in [Anchor -> Dist \cup {NoDist}]
        /\ dLoc \in [Anchor -> Dist \cup {NoDist}]
    BY DEF Init, NoReadings
  <2>2. since \in [Anchor -> 0 .. MaxAge]
    BY Bounds DEF Init
  <2>3. /\ inCycle \in 0 .. CYCLE /\ drift \in 0 .. MaxDrift
        /\ outsideCount \in 0 .. MaxCount /\ sinceButton \in 0 .. BUTTON + 1
    BY Bounds DEF Init
  <2>4. room \in Rooms /\ announced \in Rooms \cup {NUM_ROOMS}
    BY Bounds DEF Init, Rooms
  <2>5. QED
    BY <2>1, <2>2, <2>3, <2>4 DEF Init, TypeOK
<1>2. CountIsStreak /\ BuzzerFollowsCount
  BY HubAssumption DEF Init, CountIsStreak, BuzzerFollowsCount
<1>3. AllMeasured /\ RoomStages /\ FlashFollowsAnnouncement
  BY DEF Init, AllMeasured, RoomStages, FlashFollowsAnnouncement
<1>4. QED
  BY <1>1, <1>2, <1>3 DEF IInv

----------------------------------------------------------------------------
\* Type correctness of a step, one action at a time.
LEMMA TypeStep == TypeOK /\ [Next]_vars => TypeOK'
<1> SUFFICES ASSUME TypeOK, [Next]_vars PROVE TypeOK'
  OBVIOUS
<1> USE HubAssumption
<1>1. CASE SetupDone
  BY <1>1, LoadedRoomIsRoom DEF SetupDone, TypeOK, clockVars
<1>2. CASE StartCycle
  BY <1>2 DEF StartCycle, TypeOK, distVars, alarmVars, roomVars
<1>3. CASE PressButton
  BY <1>3, NextRoomIsRoom DEF PressButton, TypeOK, distVars, alarmVars
<1>4. CASE SaveRoom
  BY <1>4 DEF SaveRoom, TypeOK, distVars, alarmVars, Rooms
<1>5. CASE AnnounceRoom
  BY <1>5 DEF AnnounceRoom, TypeOK, clockVars, alarmVars
<1>6. CASE RangeAnswered
  <2>1. d' \in [Anchor -> Dist \cup {NoDist}] /\ since' \in [Anchor -> 0 .. MaxAge]
    BY <1>6 DEF RangeAnswered, TypeOK, Anchor
  <2>2. QED
    BY <1>6, <2>1 DEF RangeAnswered, AtHubSlot, Decide, TypeOK, alarmVars, roomVars
<1>7. CASE RangeForeignFrame
  BY <1>7 DEF RangeForeignFrame, AtHubSlot, Decide, TypeOK, distVars, alarmVars, roomVars
<1>8. CASE RangeFailed
  BY <1>8 DEF RangeFailed, AtHubSlot, Decide, TypeOK, alarmVars, roomVars, Anchor, NoDist
<1>9. CASE ReadDistances
  <2>1. dLoc' \in [Anchor -> Dist \cup {NoDist}] /\ pc' \in {"ages", "rest"}
    BY <1>9 DEF ReadDistances, NotAllFresh, NoReadings, TypeOK
  <2>2. drift' \in 0 .. MaxDrift
    BY <1>9, Bounds DEF ReadDistances, NotAllFresh, TypeOK
  <2>3. buzzer' \in BOOLEAN
    <3>1. buzzer' = FALSE \/ buzzer' = buzzer
      BY <1>9, Zenon DEF ReadDistances, NotAllFresh, alarmVars
    <3>2. QED
      BY <3>1, Zenon DEF TypeOK
  <2>4. UNCHANGED <<outsideCount, recent>>
    BY <1>9 DEF ReadDistances, NotAllFresh, alarmVars
  <2>5. QED
    BY <1>9, <2>1, <2>2, <2>3, <2>4 DEF ReadDistances, TypeOK, distVars, roomVars
<1>10. CASE Locate
  <2>1. PICK t \in Triples : Verdict(t \notin Inside[room])
    BY <1>10 DEF Locate
  <2>2. outsideCount' \in 0 .. MaxCount
    BY <2>1, NextCountType DEF Verdict
  <2>3. buzzer' \in BOOLEAN
    BY <2>1 DEF Verdict
  <2>4. recent' \subseteq 1 .. BUZZ_DEBOUNCE
    BY <2>1 DEF Verdict, Push
  <2>5. QED
    BY <1>10, <2>2, <2>3, <2>4 DEF Locate, NoReadings, TypeOK, distVars, roomVars
<1>11. CASE AgesTooOld
  <2>1. dLoc' \in [Anchor -> Dist \cup {NoDist}]
    BY <1>11 DEF AgesTooOld, NotAllFresh, NoReadings
  <2>2. drift' \in 0 .. MaxDrift
    BY <1>11, Bounds DEF AgesTooOld, NotAllFresh
  <2>3. QED
    BY <1>11, <2>1, <2>2 DEF AgesTooOld, NotAllFresh, TypeOK, distVars, roomVars
<1>12. CASE EndCycle
  BY <1>12 DEF EndCycle, TypeOK, clockVars, alarmVars
<1>13. CASE SetupFails
  BY <1>13 DEF SetupFails, TypeOK, clockVars, alarmVars, roomVars
<1>14. CASE \E k \in Remote : StoreDistance(k)
  BY <1>14 DEF StoreDistance, TypeOK, clockVars, alarmVars, roomVars, Remote, Anchor
<1>15. CASE StoreTime
  BY <1>15 DEF StoreTime, TypeOK, alarmVars, roomVars, Remote, Anchor
<1>16. CASE Tick
  <2>1. since' \in [Anchor -> 0 .. MaxAge] /\ sinceButton' \in 0 .. BUTTON + 1
    BY <1>16 DEF Tick, TypeOK, Later
  <2>2. inCycle' \in 0 .. CYCLE /\ drift' \in 0 .. MaxDrift
    BY <1>16 DEF Tick, MayElapse, TypeOK
  <2>3. QED
    BY <1>16, <2>1, <2>2 DEF Tick, TypeOK, alarmVars, roomVars
<1>17. CASE Reset
  <2>1. /\ d' \in [Anchor -> Dist \cup {NoDist}]
        /\ dLoc' \in [Anchor -> Dist \cup {NoDist}]
    BY <1>17 DEF Reset, NoReadings
  <2>2. since' \in [Anchor -> 0 .. MaxAge]
    BY <1>17, Bounds DEF Reset
  <2>3. /\ inCycle' \in 0 .. CYCLE /\ drift' \in 0 .. MaxDrift
        /\ outsideCount' \in 0 .. MaxCount /\ sinceButton' \in 0 .. BUTTON + 1
    BY <1>17, Bounds DEF Reset
  <2>4. room' \in Rooms
    BY <1>17, Bounds DEF Reset, Rooms
  <2>5. QED
    BY <1>17, <2>1, <2>2, <2>3, <2>4 DEF Reset, TypeOK
<1>18. CASE UNCHANGED vars
  BY <1>18 DEF vars, TypeOK
<1>19. QED
  BY <1>1, <1>2, <1>3, <1>4, <1>5, <1>6, <1>7, <1>8, <1>9, <1>10, <1>11, <1>12,
     <1>13, <1>14, <1>15, <1>16, <1>17, <1>18 DEF Next, LoopStep

\* A verdict moves the count and the history together.
LEMMA VerdictKeepsStreak ==
  ASSUME TypeOK, CountIsStreak, NEW out \in BOOLEAN, Verdict(out)
  PROVE  CountIsStreak' /\ BuzzerFollowsCount'
<1> USE HubAssumption
<1>1. CASE ~out
  <2>1. outsideCount' = 0 /\ 1 \notin recent' /\ ~buzzer'
    BY <1>1 DEF Verdict, NextCount, Push
  <2>2. QED
    BY <2>1 DEF CountIsStreak, BuzzerFollowsCount
<1>2. CASE out
  <2>1. /\ outsideCount' \in Nat
        /\ \/ outsideCount' = outsideCount + 1
           \/ outsideCount' = outsideCount /\ outsideCount >= BUZZ_DEBOUNCE
    BY <1>2 DEF Verdict, NextCount, TypeOK
  <2>2. \A i \in 1 .. BUZZ_DEBOUNCE : i \in recent' <=> (i = 1 \/ i - 1 \in recent)
    BY <1>2 DEF Verdict, Push, TypeOK
  <2>3. \A i \in 1 .. BUZZ_DEBOUNCE : i <= outsideCount' => i \in recent'
    BY <2>1, <2>2 DEF CountIsStreak, TypeOK
  <2>4. outsideCount' < BUZZ_DEBOUNCE => outsideCount' + 1 \notin recent'
    BY <2>1, <2>2 DEF CountIsStreak, TypeOK
  <2>5. BuzzerFollowsCount'
    BY DEF Verdict, BuzzerFollowsCount
  <2>6. QED
    BY <2>3, <2>4, <2>5 DEF CountIsStreak
<1>3. QED
  BY <1>1, <1>2

\* The debounce part of the invariant: only verdicts, the silent branch and
\* resets touch it.
LEMMA AlarmStep ==
  TypeOK /\ CountIsStreak /\ BuzzerFollowsCount /\ [Next]_vars
    => CountIsStreak' /\ BuzzerFollowsCount'
<1> SUFFICES ASSUME TypeOK, CountIsStreak, BuzzerFollowsCount, [Next]_vars
             PROVE  CountIsStreak' /\ BuzzerFollowsCount'
  OBVIOUS
<1>1. CASE UNCHANGED alarmVars
  BY <1>1 DEF alarmVars, CountIsStreak, BuzzerFollowsCount
<1>2. CASE NotAllFresh
  BY <1>2 DEF NotAllFresh, CountIsStreak, BuzzerFollowsCount
<1>3. CASE Locate
  BY <1>3, VerdictKeepsStreak DEF Locate
<1>4. CASE Reset
  BY <1>4, HubAssumption DEF Reset, CountIsStreak, BuzzerFollowsCount
<1>5. CASE SetupDone
  BY <1>5 DEF SetupDone, CountIsStreak, BuzzerFollowsCount
<1>6. QED
  BY <1>1, <1>2, <1>3, <1>4, <1>5
     DEF Next, LoopStep, StartCycle, PressButton, SaveRoom, AnnounceRoom,
         RangeAnswered, RangeForeignFrame, RangeFailed, ReadDistances,
         AgesTooOld, EndCycle, SetupFails, StoreDistance, StoreTime, Tick,
         vars, alarmVars

\* Between the test of the distances and the verdict no distance is cleared:
\* the callback ignores zeros and d2 is the loop's own.
LEMMA MeasuredStep ==
  TypeOK /\ AllMeasured /\ [Next]_vars => AllMeasured'
<1> SUFFICES ASSUME TypeOK, AllMeasured, [Next]_vars PROVE AllMeasured'
  OBVIOUS
<1>1. CASE ReadDistances
  BY <1>1 DEF ReadDistances, NotAllFresh, AllMeasured, TypeOK, NoDist, distVars
<1>2. CASE \E k \in Remote : StoreDistance(k)
  BY <1>2, HubAssumption DEF StoreDistance, AllMeasured, TypeOK
<1>3. CASE pc' # "ages"
  BY <1>3 DEF AllMeasured
<1>4. CASE UNCHANGED <<pc, d>>
  BY <1>4 DEF AllMeasured
<1>5. QED
  BY <1>1, <1>2, <1>3, <1>4
     DEF Next, LoopStep, SetupDone, StartCycle, PressButton, SaveRoom,
         AnnounceRoom, RangeAnswered, RangeForeignFrame, RangeFailed, Decide,
         NotAllFresh, Locate, AgesTooOld, EndCycle, SetupFails, StoreTime, Tick,
         Reset, vars

\* The room part of the invariant.
LEMMA RoomStep ==
  /\ TypeOK /\ RoomStages /\ FlashFollowsAnnouncement /\ [Next]_vars
    => RoomStages' /\ FlashFollowsAnnouncement'
<1> SUFFICES ASSUME TypeOK, RoomStages, FlashFollowsAnnouncement, [Next]_vars
             PROVE  RoomStages' /\ FlashFollowsAnnouncement'
  OBVIOUS
<1> USE HubAssumption
<1>1. CASE SetupDone
  <2>1. LoadedRoom' = LoadedRoom
    BY <1>1 DEF SetupDone, LoadedRoom
  <2>2. QED
    BY <1>1, <2>1 DEF SetupDone, RoomStages, FlashFollowsAnnouncement
<1>2. CASE PressButton
  <2>1. LoadedRoom' = LoadedRoom
    BY <1>2 DEF PressButton, LoadedRoom
  <2>2. QED
    BY <1>2, <2>1 DEF PressButton, RoomStages, FlashFollowsAnnouncement
<1>3. CASE SaveRoom
  <2>1. LoadedRoom' = room
    BY <1>3 DEF SaveRoom, LoadedRoom, TypeOK, Rooms
  <2>2. announced \in Rooms
    BY <1>3, LoadedRoomIsRoom DEF SaveRoom, RoomStages
  <2>3. QED
    BY <1>3, <2>1, <2>2 DEF SaveRoom, RoomStages, FlashFollowsAnnouncement
<1>4. CASE AnnounceRoom
  <2>1. LoadedRoom' = LoadedRoom
    BY <1>4 DEF AnnounceRoom, LoadedRoom
  <2>2. QED
    BY <1>4, <2>1 DEF AnnounceRoom, RoomStages, FlashFollowsAnnouncement
<1>5. CASE EndCycle
  <2>1. LoadedRoom' = LoadedRoom
    BY <1>5 DEF EndCycle, LoadedRoom
  <2>2. QED
    BY <1>5, <2>1 DEF EndCycle, RoomStages, FlashFollowsAnnouncement
<1>6. CASE pc' \in {"setup", "halted"} /\ UNCHANGED <<nvs, announced>>
  <2>1. LoadedRoom' = LoadedRoom
    BY <1>6 DEF LoadedRoom
  <2>2. QED
    BY <1>6, <2>1 DEF RoomStages, FlashFollowsAnnouncement
<1>7. CASE UNCHANGED <<pc, room, nvs, announced>>
  BY <1>7 DEF RoomStages, FlashFollowsAnnouncement, LoadedRoom
<1>8. CASE /\ pc \in {"start", "slot", "dists", "ages"}
           /\ pc' \in {"slot", "dists", "ages", "rest"}
           /\ UNCHANGED <<room, nvs, announced>>
  BY <1>8 DEF RoomStages, FlashFollowsAnnouncement, LoadedRoom
<1>9. QED
  BY <1>1, <1>2, <1>3, <1>4, <1>5, <1>6, <1>7, <1>8
     DEF Next, LoopStep, StartCycle, RangeAnswered, RangeForeignFrame,
         RangeFailed, AtHubSlot, Decide, ReadDistances, NotAllFresh, Locate,
         AgesTooOld, SetupFails, StoreDistance, StoreTime, Tick, Reset,
         roomVars, vars

LEMMA IInvStep == IInv /\ [Next]_vars => IInv'
BY TypeStep, AlarmStep, MeasuredStep, RoomStep DEF IInv

LEMMA Invariance == Spec => []IInv
<1>1. QED
  BY InitIInv, IInvStep, PTL DEF Spec

----------------------------------------------------------------------------
\* The state stays within its types under every interleaving of loop,
\* callback, clock and reset.
THEOREM TypeCorrect == Spec => []TypeOK
BY Invariance, PTL DEF IInv

\* The buzzer sounds only after BUZZ_DEBOUNCE outside positions in a row
\* (HUBFinal.ino:76).
THEOREM DebounceHolds == Spec => []AlarmOnlyAfterDebounce
<1>1. IInv => AlarmOnlyAfterDebounce
  <2> SUFFICES ASSUME IInv, buzzer PROVE recent = 1 .. BUZZ_DEBOUNCE
    BY DEF AlarmOnlyAfterDebounce
  <2>1. \A i \in 1 .. BUZZ_DEBOUNCE : i <= outsideCount
    BY Bounds DEF IInv, TypeOK, BuzzerFollowsCount
  <2>2. QED
    BY <2>1 DEF IInv, TypeOK, CountIsStreak
<1>2. QED
  BY <1>1, Invariance, PTL

\* A full window of outside positions does sound it (HUBFinal.ino:270-273).
THEOREM NoAlarmMissed == Spec => AlarmNotMissed
<1>1. IInv /\ IInv' /\ [Next]_vars
        => [Locate => (recent' = 1 .. BUZZ_DEBOUNCE => buzzer')]_vars
  <2> SUFFICES ASSUME IInv, IInv', Locate,
                      recent' = 1 .. BUZZ_DEBOUNCE
               PROVE  buzzer'
    OBVIOUS
  <2>1. ASSUME outsideCount' < BUZZ_DEBOUNCE PROVE FALSE
    <3>1. outsideCount' \in Nat
      BY Bounds DEF IInv, TypeOK
    <3>2. outsideCount' + 1 \in 1 .. BUZZ_DEBOUNCE
      BY <2>1, <3>1, NextIndex
    <3>3. outsideCount' + 1 \notin recent'
      BY <2>1 DEF IInv, CountIsStreak
    <3>4. QED
      BY <3>2, <3>3
  <2>2. outsideCount' >= BUZZ_DEBOUNCE
    BY <2>1, Bounds DEF IInv, TypeOK
  <2>3. QED
    BY <2>2 DEF Locate, Verdict
<1>2. QED
  BY <1>1, Invariance, PTL DEF Spec, AlarmNotMissed

\* The Hub implements the abstract alarm: a decision with a position is its
\* Position, one without is its NoPosition, a reset its Restart, and all else
\* stutters (HUBFinal.ino:230-293).
THEOREM AlarmImplemented == Spec => ImplementsAlarm
<1>1. Init => Promise!Init
  BY DEF Init, Promise!Init
<1>2. IInv /\ IInv' /\ [Next]_vars => [Promise!Next]_(Promise!vars)
  <2> SUFFICES ASSUME IInv, IInv', [Next]_vars
               PROVE  [Promise!Next]_(Promise!vars)
    OBVIOUS
  <2>1. CASE UNCHANGED <<recent, buzzer>>
    BY <2>1 DEF Promise!vars
  <2>2. CASE NotAllFresh
    BY <2>2 DEF NotAllFresh, Promise!Next, Promise!NoPosition
  <2>3. CASE Locate
    <3>1. PICK t \in Triples : Verdict(t \notin Inside[room])
      BY <2>3 DEF Locate
    <3> DEFINE out == t \notin Inside[room]
    <3>2. recent' = Promise!Shifted(out)
      BY <3>1 DEF Verdict, Push, Promise!Shifted, Promise!Full
    <3>3. buzzer' <=> outsideCount' >= BUZZ_DEBOUNCE
      BY <3>1 DEF Verdict
    <3>4. outsideCount' >= BUZZ_DEBOUNCE <=> recent' = 1 .. BUZZ_DEBOUNCE
      <4>1. outsideCount' \in Nat /\ recent' \in SUBSET (1 .. BUZZ_DEBOUNCE)
        BY Bounds DEF IInv, TypeOK
      <4>2. /\ \A i \in 1 .. BUZZ_DEBOUNCE : i <= outsideCount' => i \in recent'
            /\ outsideCount' < BUZZ_DEBOUNCE => outsideCount' + 1 \notin recent'
        BY DEF IInv, CountIsStreak
      <4>3. QED
        BY <4>1, <4>2, FullWindow
    <3>5. Promise!Position(out)
      BY <3>1, <3>2, <3>3, <3>4 DEF Verdict, Promise!Position, Promise!Full
    <3>6. QED
      BY <3>5 DEF Promise!Next
  <2>4. CASE Reset
    BY <2>4 DEF Reset, Promise!Next, Promise!Restart
  <2>5. CASE SetupDone
    BY <2>5 DEF SetupDone, IInv, Promise!Next, Promise!NoPosition
  <2>6. QED
    BY <2>1, <2>2, <2>3, <2>4, <2>5
       DEF Next, LoopStep, StartCycle, PressButton, SaveRoom, AnnounceRoom,
           RangeAnswered, RangeForeignFrame, RangeFailed, ReadDistances,
           AgesTooOld, EndCycle, SetupFails, StoreDistance, StoreTime, Tick,
           vars, alarmVars
<1>3. QED
  BY <1>1, <1>2, Invariance, PTL DEF Spec, ImplementsAlarm, Promise!Spec

(***************************************************************************)
(* The ages of the distances.  A history adds nothing the Hub cannot do, so  *)
(* all of the above holds of it too.                                        *)
(***************************************************************************)
LEMMA AgedIsHub == AgedSpec => Spec
<1>1. AgedInit => Init
  BY DEF AgedInit
<1>2. [AgedNext]_agedVars => [Next]_vars
  BY DEF AgedNext, Untimed, AgedTick, Next, LoopStep, agedVars
<1>3. QED
  BY <1>1, <1>2, PTL DEF AgedSpec, Spec

\* A distance is older than its timestamp says by no more than the callback's
\* delay; one whose timestamp is still to come is not older than that delay.
AgesBehindTimes ==
  /\ age \in [Anchor -> 0 .. TooOld]
  /\ \A k \in Anchor : age[k] <= since[k] + MaxDrift
  /\ cb # "idle" => age[cb] <= MaxDrift

LEMMA AgesStep ==
  ASSUME TypeOK, AgesBehindTimes, [AgedNext]_agedVars
  PROVE  AgesBehindTimes'
<1> USE Bounds, HubAssumption DEF TooOld
<1>1. CASE RangeAnswered /\ Measured("Hub")
  <2>1. since' = [since EXCEPT !["Hub"] = 0] /\ age' = [age EXCEPT !["Hub"] = 0]
    BY <1>1 DEF RangeAnswered, Measured
  <2>2. cb' = cb
    BY <1>1 DEF RangeAnswered
  <2>3. QED
    BY <2>1, <2>2 DEF AgesBehindTimes, TypeOK, Anchor, Remote
<1>2. CASE \E k \in Remote : StoreDistance(k) /\ Measured(k)
  <2>1. PICK k \in Remote : StoreDistance(k) /\ Measured(k)
    BY <1>2
  <2>2. since' = since /\ age' = [age EXCEPT ![k] = 0] /\ cb' = k
    BY <2>1 DEF StoreDistance, Measured, clockVars
  <2>3. QED
    BY <2>1, <2>2 DEF AgesBehindTimes, TypeOK, Anchor, Remote
<1>3. CASE StoreTime /\ UNCHANGED age
  <2>1. since' = [since EXCEPT ![cb] = 0] /\ cb' = "idle" /\ age' = age /\ cb \in Remote
    BY <1>3 DEF StoreTime, TypeOK
  <2>2. age[cb] <= MaxDrift
    BY <1>3 DEF StoreTime, AgesBehindTimes
  <2>3. QED
    BY <2>1, <2>2 DEF AgesBehindTimes, TypeOK, Anchor, Remote
<1>4. CASE AgedTick
  <2>1. /\ since' = [k \in Anchor |-> Later(since[k])]
        /\ age' = [k \in Anchor |-> IF age[k] < TooOld THEN age[k] + 1 ELSE TooOld]
        /\ cb' = cb
    BY <1>4 DEF AgedTick, Tick, Older
  <2>2. cb # "idle" => age[cb] < MaxDrift
    BY <1>4 DEF AgedTick
  <2>3. cb # "idle" => cb \in Anchor
    BY DEF TypeOK, Remote, Anchor
  <2>4. QED
    BY <2>1, <2>2, <2>3 DEF AgesBehindTimes, TypeOK, Later, TooOld
<1>5. CASE Reset /\ age' = NoAges
  BY <1>5 DEF Reset, NoAges, AgesBehindTimes
<1>6. CASE UNCHANGED <<age, since, cb>>
  BY <1>6 DEF AgesBehindTimes
<1>7. QED
  BY <1>1, <1>2, <1>3, <1>4, <1>5, <1>6
     DEF AgedNext, agedVars, vars, Untimed, SetupDone, SetupFails,
         StartCycle, PressButton, SaveRoom, AnnounceRoom, RangeForeignFrame,
         RangeFailed, ReadDistances, Locate, AgesTooOld, EndCycle, clockVars,
         distVars

\* A position is computed from three positive distances, none measured longer
\* ago than the window plus what the loop and the callback may be delayed,
\* although the callback writes a distance before its time and d2 keeps its
\* value when a foreign frame ends the Hub's ranging (HUBFinal.ino:87-88, 207-235).
THEOREM FreshRanges == AgedSpec => AlarmRestsOnFreshRanges
<1>1. AgedInit => AgesBehindTimes
  BY Bounds DEF AgedInit, Init, NoAges, AgesBehindTimes, TooOld
<1>2. IInv /\ AgesBehindTimes /\ [AgedNext]_agedVars => AgesBehindTimes'
  BY AgesStep DEF IInv
<1>3. IInv /\ AgesBehindTimes /\ [AgedNext]_agedVars
        => [Locate => \A k \in Anchor : d[k] > 0 /\ age[k] < TooOld]_agedVars
  <2> SUFFICES ASSUME IInv, AgesBehindTimes, Locate, NEW k \in Anchor
               PROVE  d[k] > 0 /\ age[k] < TooOld
    OBVIOUS
  <2>1. d[k] > 0
    <3>1. d[k] # NoDist /\ d[k] \in Dist \cup {NoDist}
      BY DEF IInv, TypeOK, AllMeasured, Locate
    <3>2. QED
      BY <3>1, Bounds DEF NoDist
  <2>2. since[k] < FRESH + MaxDrift /\ since[k] \in Nat
    BY HubAssumption DEF IInv, TypeOK, Locate, Fresh
  <2>3. age[k] <= since[k] + MaxDrift /\ age[k] \in Nat
    BY Bounds DEF AgesBehindTimes, TooOld
  <2>4. QED
    BY <2>1, <2>2, <2>3, Bounds DEF TooOld
<1>4. QED
  BY <1>1, <1>2, <1>3, AgedIsHub, Invariance, PTL DEF AgedSpec, AlarmRestsOnFreshRanges

\* The room in use is the one in flash and the one the host was told
\* (HUBFinal.ino:134-148, 164-171).
THEOREM RoomsAgree == Spec => []RoomSavedAndAnnounced
<1>1. IInv => RoomSavedAndAnnounced
  BY DEF IInv, RoomStages, RoomSavedAndAnnounced, InLoop
<1>2. QED
  BY <1>1, Invariance, PTL

\* A reset at any instruction loses at most the press being stored
\* (HUBFinal.ino:164-167).
THEOREM FlashKept == Spec => []FlashFollowsAnnouncement
BY Invariance, PTL DEF IInv
=============================================================================
