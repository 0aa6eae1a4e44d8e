------------------------------ MODULE HubAges ------------------------------
(***************************************************************************)
(* The Hub with a history of what its distances really are: how long ago    *)
(* each was measured, next to the timestamps by which the code judges it.   *)
(* The callback writes a distance before its time (HUBFinal.ino:87-88) and  *)
(* may be held up between the two, by at most MaxDrift as the loop may be.  *)
(***************************************************************************)
EXTENDS Hub

VARIABLE
  age       \* age[k]: how long ago the distance in d[k] arrived, or was measured by the Hub

agedVars == <<vars, age>>

NoAges == [k \in Anchor |-> 0]
Measured(k) == age' = [age EXCEPT ![k] = 0]
\* Ages from here on are alike.
TooOld == FRESH + 2 * MaxDrift
Older(a) == [k \in Anchor |-> IF a[k] < TooOld THEN a[k] + 1 ELSE TooOld]

AgedInit == Init /\ age = NoAges

\* The steps that measure nothing and take no time.
Untimed ==
  \/ SetupDone \/ SetupFails
  \/ StartCycle \/ PressButton \/ SaveRoom \/ AnnounceRoom
  \/ RangeForeignFrame \/ RangeFailed
  \/ ReadDistances \/ Locate \/ AgesTooOld
  \/ EndCycle
  \/ StoreTime

\* Time goes on, with the callback held up for no longer than MaxDrift.
AgedTick ==
  /\ Tick
  /\ cb # "idle" => age[cb] < MaxDrift
  /\ age' = Older(age)

AgedNext ==
  \/ Untimed /\ UNCHANGED age
  \/ RangeAnswered /\ Measured("Hub")
  \/ \E k \in Remote : StoreDistance(k) /\ Measured(k)
  \/ AgedTick
  \/ Reset /\ age' = NoAges

AgedSpec == AgedInit /\ [][AgedNext]_agedVars

----------------------------------------------------------------------------
\* HUBFinal.ino:232, "only when all three distances are fresh": no distance the
\* buzzer is judged by was measured longer ago than the window, the delays of
\* loop and callback added, however reports are torn between distance and time
\* and whatever frames the Hub's own ranging ends with.
AlarmRestsOnFreshRanges ==
  [][Locate => \A k \in Anchor : d[k] > 0 /\ age[k] < TooOld]_agedVars
=============================================================================
