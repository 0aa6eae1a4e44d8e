-------------------------------- MODULE Tdma --------------------------------
(***************************************************************************)
(* The 600 ms shared cycle: the Hub broadcasts SYNC over ESP-NOW, Anchor 1  *)
(* ranges on receiving it, Anchor 2 one slot later and the Hub itself two   *)
(* slots after its own cycle_start.  Nothing but these waits keeps the      *)
(* three initiators apart on the single UWB channel.  SYNCs may be late or  *)
(* lost, and every node may be reset at any moment.                         *)
(*                                                                          *)
(* Sources: loop() of HUBFinal.ino, loop() and OnDataRecv() of              *)
(* ANCHOR1Final.ino and ANCHOR2Final.ino.                                   *)
(***************************************************************************)
EXTENDS Naturals

CONSTANTS
  SLOT,     \* ticks of the 200 ms slot
  CYCLE,    \* ticks of the 600 ms cycle
  BOOT,     \* ticks a Hub reset keeps it from its next SYNC (delay(500))
  DELAY,    \* the longest flight of a SYNC that is not lost
  SETUP,    \* the longest time from an anchor's callback registration to loop()
  PRESS,    \* the longest time from the Hub's cycle_start to its SYNC
  RANGE,    \* the longest ranging, poll to answer or timeout
  Horizon   \* bound: larger times since a SYNC are not told apart

Remote == {"A1", "A2"}
Node == Remote \cup {"Hub"}

ASSUME SlotAssumption ==
  /\ SLOT \in Nat /\ CYCLE \in Nat /\ BOOT \in Nat /\ DELAY \in Nat
  /\ SETUP \in Nat /\ PRESS \in Nat /\ RANGE \in Nat /\ Horizon \in Nat
  /\ CYCLE >= 3 * SLOT /\ BOOT >= 2 * SLOT
  /\ Horizon >= CYCLE /\ Horizon >= BOOT

\* What the slot width has to cover: a hypothesis of the theorems, no assumption
\* of the module.
SlotCovers == PRESS + DELAY + SETUP + RANGE < SLOT

VARIABLES
  hpc,        \* where the Hub's loop is
  ht,         \* the Hub's millis() - cycle_start, or the time since its reset
  air,        \* air[a]: the ages of the SYNCs still on their way to a
  apc,        \* where each anchor's loop is
  flag,       \* sync_received of each anchor
  at,         \* millis() - cycle_start of each anchor, up to SLOT
  st,         \* time each anchor has spent in setup()
  rt,         \* rt[n]: time since n sent its poll
  sinceSync,  \* history: time since the last SYNC was broadcast
  served      \* history: who has begun a ranging since then

hubVars == <<hpc, ht>>
anchorVars == <<apc, flag, at, st>>
vars == <<hpc, ht, air, apc, flag, at, st, rt, sinceSync, served>>

TypeOK ==
  /\ hpc \in {"boot", "sync", "wait", "range", "rest"}
  /\ ht \in 0 .. Horizon
  /\ air \in [Remote -> SUBSET (0 .. DELAY)]
  /\ apc \in [Remote -> {"setup", "idle", "wait", "range"}]
  /\ flag \in [Remote -> BOOLEAN]
  /\ at \in [Remote -> 0 .. SLOT]
  /\ st \in [Remote -> 0 .. SETUP]
  /\ rt \in [Node -> 0 .. RANGE]
  /\ sinceSync \in 0 .. Horizon
  /\ served \subseteq Node

Init ==
  /\ hpc = "boot" /\ ht = 0
  /\ air = [a \in Remote |-> {}]
  /\ apc = [a \in Remote |-> "setup"]
  /\ flag = [a \in Remote |-> FALSE]
  /\ at = [a \in Remote |-> 0]
  /\ st = [a \in Remote |-> 0]
  /\ rt = [n \in Node |-> 0]
  /\ sinceSync = Horizon            \* no SYNC yet
  /\ served = {}

(***************************************************************************)
(* The Hub.                                                                 *)
(***************************************************************************)
BootDone ==
  /\ hpc = "boot" /\ ht >= BOOT
  /\ hpc' = "sync" /\ ht' = 0       \* cycle_start = millis()
  /\ UNCHANGED <<air, anchorVars, rt, sinceSync, served>>

BroadcastSync ==
  /\ hpc = "sync"
  /\ hpc' = "wait"
  /\ air' = [a \in Remote |-> air[a] \cup {0}]
  /\ sinceSync' = 0 /\ served' = {}
  /\ UNCHANGED <<ht, anchorVars, rt>>

HubStartsRanging ==
  /\ hpc = "wait" /\ ht >= 2 * SLOT
  /\ hpc' = "range" /\ rt' = [rt EXCEPT !["Hub"] = 0]
  /\ served' = served \cup {"Hub"}
  /\ UNCHANGED <<ht, air, anchorVars, sinceSync>>

\* Fault: the busy-wait on the status register does not look for a timeout.
HubEndsOnAnswerOnly ==
  /\ hpc = "range" /\ rt["Hub"] < RANGE
  /\ hpc' = "rest"
  /\ UNCHANGED <<ht, air, anchorVars, rt, sinceSync, served>>

HubEndsRanging ==
  /\ hpc = "range"
  /\ hpc' = "rest"
  /\ UNCHANGED <<ht, air, anchorVars, rt, sinceSync, served>>

\* Fault: cycle_start is not sampled again.
NextCycleKeepsStart ==
  /\ hpc = "rest" /\ ht >= CYCLE
  /\ hpc' = "sync"
  /\ UNCHANGED <<ht, air, anchorVars, rt, sinceSync, served>>

NextCycle ==
  /\ hpc = "rest" /\ ht >= CYCLE
  /\ hpc' = "sync" /\ ht' = 0
  /\ UNCHANGED <<air, anchorVars, rt, sinceSync, served>>

HubReset ==
  /\ hpc' = "boot" /\ ht' = 0
  /\ UNCHANGED <<air, anchorVars, rt, sinceSync, served>>

(***************************************************************************)
(* The anchors.                                                             *)
(***************************************************************************)
\* Fault: the callback raises the flag but does not note the time.
ReceiveSyncUntimed(a) ==
  /\ \E x \in air[a] : air' = [air EXCEPT ![a] = @ \ {x}]
  /\ flag' = [flag EXCEPT ![a] = TRUE]
  /\ UNCHANGED <<hubVars, apc, at, st, rt, sinceSync, served>>

\* OnDataRecv, in the WiFi task, from its registration early in setup() on.
ReceiveSync(a) ==
  /\ \E x \in air[a] : air' = [air EXCEPT ![a] = @ \ {x}]
  /\ at' = [at EXCEPT ![a] = 0]
  /\ flag' = [flag EXCEPT ![a] = TRUE]
  /\ UNCHANGED <<hubVars, apc, st, rt, sinceSync, served>>

LoseSync(a) ==
  /\ \E x \in air[a] : air' = [air EXCEPT ![a] = @ \ {x}]
  /\ UNCHANGED <<hubVars, anchorVars, rt, sinceSync, served>>

AnchorSetupDone(a) ==
  /\ apc[a] = "setup"
  /\ apc' = [apc EXCEPT ![a] = "idle"]
  /\ UNCHANGED <<hubVars, air, flag, at, st, rt, sinceSync, served>>

\* Fault: sync_received is left standing.
StartRangingKeepsFlag(a) ==
  /\ apc' = [apc EXCEPT ![a] = "range"]
  /\ rt' = [rt EXCEPT ![a] = 0]
  /\ served' = served \cup {a}
  /\ UNCHANGED <<hubVars, air, flag, at, st, sinceSync>>

StartRanging(a) ==
  /\ flag' = [flag EXCEPT ![a] = FALSE]
  /\ apc' = [apc EXCEPT ![a] = "range"]
  /\ rt' = [rt EXCEPT ![a] = 0]
  /\ served' = served \cup {a}
  /\ UNCHANGED <<hubVars, air, at, st, sinceSync>>

\* Anchor 1 never looks at cycle_start.
Anchor1Starts ==
  /\ apc["A1"] = "idle" /\ flag["A1"]
  /\ StartRanging("A1")

\* Fault: a SYNC whose slot has not come is dropped instead of waited for.
Anchor2Drops ==
  /\ apc["A2"] = "idle" /\ flag["A2"]
  /\ flag' = [flag EXCEPT !["A2"] = FALSE]
  /\ UNCHANGED <<hubVars, air, apc, at, st, rt, sinceSync, served>>

Anchor2Waits ==
  /\ apc["A2"] = "idle" /\ flag["A2"]
  /\ apc' = [apc EXCEPT !["A2"] = "wait"]
  /\ UNCHANGED <<hubVars, air, flag, at, st, rt, sinceSync, served>>

\* Fault: Anchor 2 does not wait for its slot.
Anchor2StartsAtOnce ==
  /\ apc["A2"] = "wait"
  /\ StartRanging("A2")

\* The flag is cleared after the wait, a SYNC received during it included.
Anchor2Starts ==
  /\ apc["A2"] = "wait" /\ at["A2"] >= SLOT
  /\ StartRanging("A2")

AnchorEndsRanging(a) ==
  /\ apc[a] = "range"
  /\ apc' = [apc EXCEPT ![a] = "idle"]
  /\ UNCHANGED <<hubVars, air, flag, at, st, rt, sinceSync, served>>

AnchorReset(a) ==
  /\ apc' = [apc EXCEPT ![a] = "setup"]
  /\ flag' = [flag EXCEPT ![a] = FALSE]
  /\ at' = [at EXCEPT ![a] = 0]
  /\ st' = [st EXCEPT ![a] = 0]
  /\ UNCHANGED <<hubVars, air, rt, sinceSync, served>>

(***************************************************************************)
(* Time.  A tick passes only when nobody has something due: the loops poll  *)
(* their conditions continuously, so what is enabled by a clock happens     *)
(* before that clock moves on.                                              *)
(***************************************************************************)
HubMayWait ==
  \/ hpc = "boot"
  \/ hpc = "sync" /\ ht < PRESS
  \/ hpc = "wait" /\ ht < 2 * SLOT
  \/ hpc = "range" /\ rt["Hub"] < RANGE
  \/ hpc = "rest" /\ ht < CYCLE

AnchorMayWait(a) ==
  \/ apc[a] = "setup" /\ st[a] < SETUP
  \/ apc[a] = "idle" /\ ~flag[a]
  \/ apc[a] = "wait" /\ at[a] < SLOT
  \/ apc[a] = "range" /\ rt[a] < RANGE

UpTo(bound, x) == IF x < bound THEN x + 1 ELSE x

Tick ==
  /\ HubMayWait
  /\ \A a \in Remote : AnchorMayWait(a) /\ DELAY \notin air[a]
  /\ ht' = IF hpc = "boot" THEN UpTo(BOOT, ht) ELSE ht + 1
  /\ air' = [a \in Remote |-> {x + 1 : x \in air[a]}]
  /\ at' = [a \in Remote |-> UpTo(SLOT, at[a])]
  /\ st' = [a \in Remote |-> UpTo(SETUP, st[a])]
  /\ rt' = [n \in Node |-> UpTo(RANGE, rt[n])]
  /\ sinceSync' = UpTo(Horizon, sinceSync)
  /\ UNCHANGED <<hpc, apc, flag, served>>

----------------------------------------------------------------------------
HubStep ==
  \/ BootDone \/ BroadcastSync
  \/ HubStartsRanging \/ HubEndsRanging \/ NextCycle

AnchorStep(a) ==
  \/ AnchorSetupDone(a)
  \/ a = "A1" /\ Anchor1Starts
  \/ a = "A2" /\ (Anchor2Waits \/ Anchor2Starts)
  \/ AnchorEndsRanging(a)

Next ==
  \/ HubStep
  \/ HubReset
  \/ \E a \in Remote : \/ ReceiveSync(a) \/ LoseSync(a)
                       \/ AnchorStep(a) \/ AnchorReset(a)
  \/ Tick

Spec == Init /\ [][Next]_vars

\* The loops run, the radio ends each ranging (answer, timeout or error) and
\* time passes.  Resets and losses owe nothing.
FairSpec ==
  /\ Spec
  /\ WF_vars(HubStep) /\ WF_vars(Tick)
  /\ \A a \in Remote : WF_vars(AnchorStep(a)) /\ WF_vars(ReceiveSync(a) \/ LoseSync(a))

----------------------------------------------------------------------------
(***************************************************************************)
(* Properties                                                               *)
(***************************************************************************)
Ranging(n) == IF n = "Hub" THEN hpc = "range" ELSE apc[n] = "range"

\* The point of the slots (HUBFinal.ino:157-159): no two initiators have a
\* poll or an answer on the UWB channel at the same time, whatever SYNCs are
\* late or lost and whichever node is reset.
ChannelExclusive ==
  \A m, n \in Node : Ranging(m) /\ Ranging(n) => m = n

\* HUBFinal.ino:158-159: each ranging begins in the slot of its node, counted
\* from the SYNC that caused it.
RangesInSlot ==
  [][/\ Anchor1Starts => sinceSync < SLOT
     /\ Anchor2Starts => sinceSync \in SLOT .. 2 * SLOT - 1
     /\ HubStartsRanging => sinceSync \in 2 * SLOT - PRESS .. 3 * SLOT - 1]_vars

\* The comment at HUBFinal.ino:157-159 as an abstract round: between two SYNCs
\* each initiator takes the channel at most once, in the order A1, A2, Hub, and
\* the channel is free at every SYNC.  No SYNC is ranged on twice (A1:79, A2:94),
\* none is still being ranged on when the next is sent, and a Hub that is reset
\* begins a round as well.
Before == [n \in Node |-> IF n = "A1" THEN {} ELSE IF n = "A2" THEN {"A1"} ELSE Remote]
Shared == INSTANCE Channel WITH
            User <- Node, Before <- Before, holders <- {n \in Node : Ranging(n)}
ImplementsRounds == Shared!Spec

\* A SYNC that reached an anchor gets its ranging unless the anchor is reset.
SyncLeadsToRanging ==
  \A a \in Remote : flag[a] ~> (apc[a] \in {"range", "setup"})

\* A Hub that is not reset any more keeps the cycle going.
HubKeepsCycling == (<>[](hpc # "boot")) => []<>(hpc = "sync")
=============================================================================
