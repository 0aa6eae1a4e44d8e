---------------------------- MODULE TdmaProofs ----------------------------
(***************************************************************************)
(* The slots keep the initiators apart for every slot width, cycle, latency *)
(* and boot time, provided one slot covers the sum of the delays in it      *)
(* (SlotCovers).  The argument measures everything by sinceSync: each flag, *)
(* wait and ranging confines it to an interval, and the three ranging       *)
(* intervals are disjoint.                                                  *)
(***************************************************************************)
EXTENDS Tdma, TLAPS

HubInv ==
  /\ hpc = "boot" => ht <= BOOT /\ ht <= sinceSync
  /\ hpc = "sync" => ht <= PRESS /\ 2 * SLOT <= sinceSync
  /\ hpc \in {"wait", "range", "rest"} => sinceSync <= ht /\ ht <= sinceSync + PRESS
  /\ hpc = "wait" => ht <= 2 * SLOT
  /\ hpc = "range" => 2 * SLOT <= ht /\ ht <= 2 * SLOT + rt["Hub"]
  /\ hpc = "rest" => ht <= CYCLE

\* A SYNC in flight is the last one broadcast, and an anchor that has it or
\* ranges on it has no other coming.
AirInv ==
  \A a \in Remote :
    /\ \A x \in air[a] : x = sinceSync
    /\ flag[a] \/ apc[a] \in {"wait", "range"} => air[a] = {}

Anchor1Inv ==
  /\ apc["A1"] # "wait"
  /\ flag["A1"] => apc["A1"] # "range"
  /\ flag["A1"] /\ apc["A1"] = "setup" => sinceSync <= DELAY + st["A1"]
  /\ flag["A1"] => sinceSync <= DELAY + SETUP
  /\ apc["A1"] = "range" => sinceSync <= DELAY + SETUP + rt["A1"]

Anchor2Inv ==
  /\ apc["A2"] = "wait" => flag["A2"]
  /\ flag["A2"] => /\ apc["A2"] # "range"
                   /\ at["A2"] <= sinceSync
                   /\ sinceSync <= at["A2"] + DELAY
  /\ flag["A2"] /\ apc["A2"] = "setup" => at["A2"] <= st["A2"]
  /\ apc["A2"] = "range" => /\ SLOT + rt["A2"] <= sinceSync
                            /\ sinceSync <= SLOT + DELAY + rt["A2"]

IInv == TypeOK /\ HubInv /\ AirInv /\ Anchor1Inv /\ Anchor2Inv

----------------------------------------------------------------------------
LEMMA InitIInv == SlotCovers /\ Init => IInv
<1> SUFFICES ASSUME SlotCovers, Init PROVE IInv
  OBVIOUS
<1> USE SlotAssumption
<1>1. TypeOK
  BY DEF Init, TypeOK
<1>2. HubInv /\ AirInv /\ Anchor1Inv /\ Anchor2Inv
  BY DEF Init, HubInv, AirInv, Anchor1Inv, Anchor2Inv, Remote, Node
<1>3. QED
  BY <1>1, <1>2 DEF IInv

\* When two slots have passed since the last SYNC, the anchors are done with it.
LEMMA Quiet ==
  ASSUME SlotCovers, IInv, 2 * SLOT <= sinceSync, NEW a \in Remote
  PROVE  air[a] = {} /\ ~flag[a] /\ apc[a] \notin {"wait", "range"}
<1> USE SlotAssumption DEF SlotCovers
<1>1. rt[a] \in 0 .. RANGE /\ at[a] \in 0 .. SLOT /\ air[a] \subseteq 0 .. DELAY
  BY DEF IInv, TypeOK, Node
<1>2. air[a] = {}
  <2>1. \A x \in air[a] : x \in 0 .. DELAY /\ x = sinceSync
    BY <1>1 DEF IInv, AirInv
  <2>2. QED
    BY <2>1
<1>3. ~flag[a] /\ apc[a] # "range" /\ apc[a] # "wait"
  <2>1. CASE a = "A1"
    BY <1>1, <2>1 DEF IInv, TypeOK, Anchor1Inv
  <2>2. CASE a = "A2"
    BY <1>1, <2>2 DEF IInv, TypeOK, Anchor2Inv
  <2>3. QED
    BY <2>1, <2>2 DEF Remote
<1>4. QED
  BY <1>2, <1>3

----------------------------------------------------------------------------
(***************************************************************************)
(* Time passes.                                                             *)
(***************************************************************************)
LEMMA TickStep ==
  ASSUME SlotCovers, IInv, Tick
  PROVE  IInv'
<1> USE SlotAssumption DEF SlotCovers
<1>1. /\ ht \in Nat /\ sinceSync \in Nat /\ ht <= Horizon /\ sinceSync <= Horizon
      /\ rt["Hub"] \in 0 .. RANGE /\ rt["A1"] \in 0 .. RANGE /\ rt["A2"] \in 0 .. RANGE
      /\ at["A2"] \in 0 .. SLOT /\ st["A1"] \in 0 .. SETUP /\ st["A2"] \in 0 .. SETUP
  BY DEF IInv, TypeOK, Node, Remote
<1>2. /\ sinceSync' = UpTo(Horizon, sinceSync)
      /\ ht' = IF hpc = "boot" THEN UpTo(BOOT, ht) ELSE ht + 1
      /\ rt'["Hub"] = UpTo(RANGE, rt["Hub"])
      /\ rt'["A1"] = UpTo(RANGE, rt["A1"]) /\ rt'["A2"] = UpTo(RANGE, rt["A2"])
      /\ at'["A2"] = UpTo(SLOT, at["A2"])
      /\ st'["A1"] = UpTo(SETUP, st["A1"]) /\ st'["A2"] = UpTo(SETUP, st["A2"])
      /\ hpc' = hpc /\ apc' = apc /\ flag' = flag
  BY DEF Tick, Node, Remote
<1>3. HubMayWait /\ AnchorMayWait("A1") /\ AnchorMayWait("A2")
  BY DEF Tick, Remote
<1>4. HubInv'
  BY <1>1, <1>2, <1>3 DEF IInv, HubInv, HubMayWait, UpTo
<1>5. Anchor1Inv'
  <2>1. apc["A1"] = "idle" => ~flag["A1"]
    BY <1>3 DEF AnchorMayWait
  <2>2. apc["A1"] = "setup" => st'["A1"] = st["A1"] + 1
    BY <1>1, <1>2, <1>3 DEF AnchorMayWait, UpTo
  <2>3. apc["A1"] = "range" => rt'["A1"] = rt["A1"] + 1
    BY <1>1, <1>2, <1>3 DEF AnchorMayWait, UpTo
  <2>4. sinceSync' <= sinceSync + 1 /\ st'["A1"] <= SETUP
    BY <1>1, <1>2 DEF UpTo
  <2>5. apc["A1"] \in {"setup", "idle", "wait", "range"}
    BY DEF IInv, TypeOK, Remote
  <2>6. QED
    BY <1>1, <1>2, <2>1, <2>2, <2>3, <2>4, <2>5 DEF IInv, Anchor1Inv, UpTo
<1>6. Anchor2Inv'
  <2>1. apc["A2"] = "idle" => ~flag["A2"]
    BY <1>3 DEF AnchorMayWait
  <2>2. apc["A2"] = "setup" => st'["A2"] = st["A2"] + 1 /\ st["A2"] < SETUP
    BY <1>1, <1>2, <1>3 DEF AnchorMayWait, UpTo
  <2>3. apc["A2"] = "range" => rt'["A2"] = rt["A2"] + 1 /\ rt["A2"] < RANGE
    BY <1>1, <1>2, <1>3 DEF AnchorMayWait, UpTo
  <2>4. apc["A2"] = "wait" => at["A2"] < SLOT
    BY <1>3 DEF AnchorMayWait
  <2>5. apc["A2"] \in {"setup", "idle", "wait", "range"}
    BY DEF IInv, TypeOK, Remote
  <2>6. flag["A2"] => at'["A2"] = at["A2"] + 1 /\ sinceSync' = sinceSync + 1
    BY <1>1, <1>2, <2>1, <2>2, <2>4, <2>5 DEF IInv, Anchor2Inv, UpTo
  <2>7. apc["A2"] = "range" => sinceSync' = sinceSync + 1
    BY <1>1, <1>2, <2>3 DEF IInv, Anchor2Inv, UpTo
  <2>8. QED
    BY <1>1, <1>2, <2>1, <2>2, <2>3, <2>5, <2>6, <2>7 DEF IInv, Anchor2Inv
<1>7. AirInv' /\ air' \in [Remote -> SUBSET (0 .. DELAY)]
  <2>1. \A a \in Remote : air'[a] = {x + 1 : x \in air[a]}
    BY DEF Tick
  <2>2. \A a \in Remote : \A x \in air[a] : x \in 0 .. DELAY /\ x # DELAY /\ x = sinceSync
    BY DEF IInv, TypeOK, AirInv, Tick
  <2>3. \A a \in Remote : \A x \in air[a] : x + 1 \in 0 .. DELAY /\ x + 1 = sinceSync'
    BY <1>1, <1>2, <2>2 DEF UpTo
  <2>4. \A a \in Remote : air[a] = {} => air'[a] = {}
    BY <2>1
  <2>5. air' = [a \in Remote |-> {x + 1 : x \in air[a]}]
    BY DEF Tick
  <2>6. QED
    BY <1>2, <2>1, <2>3, <2>4, <2>5 DEF IInv, AirInv
<1>8. TypeOK'
  <2>1. /\ at' \in [Remote -> 0 .. SLOT] /\ st' \in [Remote -> 0 .. SETUP]
        /\ rt' \in [Node -> 0 .. RANGE] /\ sinceSync' \in 0 .. Horizon
    BY DEF IInv, TypeOK, Tick, UpTo
  <2>2. ht' \in 0 .. Horizon
    BY <1>1, <1>2, <1>3 DEF IInv, HubInv, HubMayWait, UpTo
  <2>3. QED
    BY <1>2, <1>7, <2>1, <2>2 DEF Tick, IInv, TypeOK
<1>9. QED
  BY <1>4, <1>5, <1>6, <1>7, <1>8 DEF IInv

(***************************************************************************)
(* The Hub's steps.                                                         *)
(***************************************************************************)
LEMMA HubSteps ==
  ASSUME SlotCovers, IInv, HubStep \/ HubReset
  PROVE  IInv'
<1> USE SlotAssumption DEF SlotCovers
<1>1. /\ ht \in Nat /\ sinceSync \in Nat /\ rt["Hub"] \in 0 .. RANGE
  BY DEF IInv, TypeOK, Node
<1>2. CASE BroadcastSync
  <2>1. \A a \in Remote : air[a] = {} /\ ~flag[a] /\ apc[a] \notin {"wait", "range"}
    BY <1>2, Quiet DEF BroadcastSync, IInv, HubInv
  <2>2. air' = [a \in Remote |-> {0}]
    BY <1>2, <2>1 DEF BroadcastSync
  <2>3. AirInv'
    BY <1>2, <2>1, <2>2 DEF BroadcastSync, AirInv, anchorVars
  <2>4. Anchor1Inv' /\ Anchor2Inv'
    BY <1>2, <2>1 DEF BroadcastSync, Anchor1Inv, Anchor2Inv, anchorVars, Remote
  <2>5. HubInv'
    BY <1>1, <1>2 DEF BroadcastSync, IInv, HubInv
  <2>6. TypeOK'
    BY <1>2, <2>2 DEF BroadcastSync, IInv, TypeOK, anchorVars
  <2>7. QED
    BY <2>3, <2>4, <2>5, <2>6 DEF IInv
<1>3. CASE BootDone \/ HubStartsRanging \/ HubEndsRanging \/ NextCycle \/ HubReset
  <2>1. /\ UNCHANGED <<air, anchorVars, sinceSync>>
        /\ rt'["A1"] = rt["A1"] /\ rt'["A2"] = rt["A2"]
    BY <1>3 DEF BootDone, HubStartsRanging, HubEndsRanging, NextCycle, HubReset,
                IInv, TypeOK, Node, Remote
  <2>2. AirInv' /\ Anchor1Inv' /\ Anchor2Inv'
    BY <2>1 DEF IInv, AirInv, Anchor1Inv, Anchor2Inv, anchorVars
  <2>3. rt' \in [Node -> 0 .. RANGE] /\ (HubStartsRanging => rt'["Hub"] = 0)
    BY <1>3 DEF BootDone, HubStartsRanging, HubEndsRanging, NextCycle, HubReset,
                IInv, TypeOK, Node
  <2>4. HubInv'
    <3>1. CASE BootDone
      BY <1>1, <3>1 DEF BootDone, IInv, HubInv
    <3>2. CASE HubStartsRanging
      BY <1>1, <3>2, <2>3 DEF HubStartsRanging, IInv, HubInv
    <3>3. CASE HubEndsRanging
      BY <1>1, <3>3 DEF HubEndsRanging, IInv, HubInv
    <3>4. CASE NextCycle
      BY <1>1, <3>4 DEF NextCycle, IInv, HubInv
    <3>5. CASE HubReset
      BY <1>1, <3>5 DEF HubReset, HubInv
    <3>6. QED
      BY <1>3, <3>1, <3>2, <3>3, <3>4, <3>5
  <2>5. /\ hpc' \in {"boot", "sync", "wait", "range", "rest"} /\ ht' \in 0 .. Horizon
        /\ served' \subseteq Node
    BY <1>3 DEF BootDone, HubStartsRanging, HubEndsRanging, NextCycle, HubReset,
                IInv, TypeOK, Node
  <2>6. TypeOK'
    BY <2>1, <2>3, <2>5 DEF IInv, TypeOK, anchorVars
  <2>7. QED
    BY <2>2, <2>4, <2>6 DEF IInv
<1>4. QED
  BY <1>2, <1>3 DEF HubStep

(***************************************************************************)
(* The anchors' steps and the fate of a SYNC.                               *)
(***************************************************************************)
LEMMA SyncSteps ==
  ASSUME SlotCovers, IInv, NEW a \in Remote, ReceiveSync(a) \/ LoseSync(a)
  PROVE  IInv'
<1> USE SlotAssumption DEF SlotCovers
<1>1. PICK x \in air[a] : air' = [air EXCEPT ![a] = @ \ {x}]
  BY DEF ReceiveSync, LoseSync
<1>2. /\ x = sinceSync /\ sinceSync <= DELAY /\ sinceSync \in Nat
      /\ ~flag[a] /\ apc[a] \notin {"wait", "range"}
  BY <1>1 DEF IInv, TypeOK, AirInv
<1>3. /\ air'[a] = {}
      /\ \A b \in Remote : air'[b] \subseteq air[b]
      /\ air' \in [Remote -> SUBSET (0 .. DELAY)]
  BY <1>1, <1>2 DEF IInv, TypeOK, AirInv
<1>4. CASE LoseSync(a)
  <2>1. AirInv'
    BY <1>3, <1>4 DEF LoseSync, IInv, AirInv, anchorVars
  <2>2. QED
    BY <1>3, <1>4, <2>1
       DEF LoseSync, IInv, TypeOK, HubInv, Anchor1Inv, Anchor2Inv, hubVars, anchorVars
<1>5. CASE ReceiveSync(a)
  <2>1. /\ UNCHANGED <<hubVars, apc, st, rt, sinceSync, served>>
        /\ flag' = [flag EXCEPT ![a] = TRUE] /\ at' = [at EXCEPT ![a] = 0]
    BY <1>5 DEF ReceiveSync
  <2>2. TypeOK' /\ HubInv'
    <3>1. flag' \in [Remote -> BOOLEAN] /\ at' \in [Remote -> 0 .. SLOT]
      BY <2>1 DEF IInv, TypeOK
    <3>2. QED
      BY <1>3, <2>1, <3>1 DEF IInv, TypeOK, HubInv, hubVars
  <2>3. AirInv'
    <3>1. \A b \in Remote : b # a => flag'[b] = flag[b]
      BY <2>1 DEF IInv, TypeOK
    <3>2. QED
      BY <1>3, <2>1, <3>1 DEF IInv, AirInv
  <2>4. st["A1"] \in Nat /\ st["A2"] \in Nat /\ rt["A1"] \in Nat
    BY DEF IInv, TypeOK, Node, Remote
  <2>5. Anchor1Inv'
    <3>1. CASE a = "A1"
      BY <1>2, <2>1, <2>4, <3>1 DEF IInv, Anchor1Inv
    <3>2. CASE a # "A1"
      <4>1. flag'["A1"] = flag["A1"]
        BY <2>1, <3>2 DEF IInv, TypeOK, Remote
      <4>2. QED
        BY <2>1, <4>1 DEF IInv, Anchor1Inv
    <3>3. QED
      BY <3>1, <3>2
  <2>6. Anchor2Inv'
    <3>1. CASE a = "A2"
      <4>1. at'["A2"] = 0 /\ flag'["A2"]
        BY <2>1, <3>1 DEF IInv, TypeOK
      <4>2. QED
        BY <1>2, <2>1, <2>4, <3>1, <4>1 DEF IInv, Anchor2Inv
    <3>2. CASE a # "A2"
      <4>1. flag'["A2"] = flag["A2"] /\ at'["A2"] = at["A2"]
        BY <2>1, <3>2 DEF IInv, TypeOK, Remote
      <4>2. QED
        BY <2>1, <4>1 DEF IInv, Anchor2Inv
    <3>3. QED
      BY <3>1, <3>2
  <2>7. QED
    BY <2>2, <2>3, <2>5, <2>6 DEF IInv
<1>6. QED
  BY <1>4, <1>5

LEMMA AnchorSteps ==
  ASSUME SlotCovers, IInv, NEW a \in Remote, AnchorStep(a) \/ AnchorReset(a)
  PROVE  IInv'
<1> USE SlotAssumption DEF SlotCovers
<1>1. /\ UNCHANGED <<hubVars, air, sinceSync>>
      /\ \A b \in Remote : b # a => /\ apc'[b] = apc[b] /\ flag'[b] = flag[b]
                                    /\ at'[b] = at[b] /\ st'[b] = st[b] /\ rt'[b] = rt[b]
      /\ rt'["Hub"] = rt["Hub"]
  BY DEF AnchorStep, AnchorReset, AnchorSetupDone, Anchor1Starts, Anchor2Waits,
         Anchor2Starts, StartRanging, AnchorEndsRanging, IInv, TypeOK, Node, Remote
<1>2. TypeOK'
  <2> USE DEF AnchorStep, AnchorReset, AnchorSetupDone, Anchor1Starts, Anchor2Waits,
              Anchor2Starts, StartRanging, AnchorEndsRanging
  <2>1. apc' \in [Remote -> {"setup", "idle", "wait", "range"}]
    BY DEF IInv, TypeOK
  <2>2. flag' \in [Remote -> BOOLEAN]
    BY DEF IInv, TypeOK
  <2>3. at' \in [Remote -> 0 .. SLOT] /\ st' \in [Remote -> 0 .. SETUP]
    BY DEF IInv, TypeOK
  <2>4. rt' \in [Node -> 0 .. RANGE] /\ served' \subseteq Node
    BY DEF IInv, TypeOK, Node
  <2>5. QED
    BY <1>1, <2>1, <2>2, <2>3, <2>4 DEF IInv, TypeOK, hubVars
<1>3. HubInv'
  BY <1>1 DEF IInv, HubInv, hubVars
<1>4. /\ sinceSync \in Nat /\ sinceSync' = sinceSync
      /\ rt[a] \in 0 .. RANGE /\ at[a] \in 0 .. SLOT /\ st[a] \in 0 .. SETUP
  BY <1>1 DEF IInv, TypeOK, Node
<1>5. /\ flag'[a] \/ apc'[a] \in {"wait", "range"}
           => flag[a] \/ apc[a] \in {"wait", "range"}
  BY DEF AnchorStep, AnchorReset, AnchorSetupDone, Anchor1Starts, Anchor2Waits,
         Anchor2Starts, StartRanging, AnchorEndsRanging, IInv, TypeOK
<1>6. AirInv'
  BY <1>1, <1>5 DEF IInv, AirInv
<1>7. Anchor1Inv'
  <2>1. CASE a = "A1"
    <3>1. CASE AnchorSetupDone(a)
      BY <1>1, <1>4, <2>1, <3>1 DEF AnchorSetupDone, IInv, TypeOK, Anchor1Inv
    <3>2. CASE Anchor1Starts
      BY <1>1, <1>4, <2>1, <3>2
         DEF Anchor1Starts, StartRanging, IInv, TypeOK, Anchor1Inv, Node
    <3>3. CASE AnchorEndsRanging(a)
      BY <1>1, <1>4, <2>1, <3>3 DEF AnchorEndsRanging, IInv, TypeOK, Anchor1Inv
    <3>4. CASE AnchorReset(a)
      BY <1>1, <1>4, <2>1, <3>4 DEF AnchorReset, IInv, TypeOK, Anchor1Inv
    <3>5. QED
      BY <2>1, <3>1, <3>2, <3>3, <3>4 DEF AnchorStep
  <2>2. CASE a # "A1"
    BY <1>1, <2>2 DEF IInv, Anchor1Inv, Remote
  <2>3. QED
    BY <2>1, <2>2
<1>8. Anchor2Inv'
  <2>1. CASE a = "A2"
    <3>1. CASE AnchorSetupDone(a)
      BY <1>1, <1>4, <2>1, <3>1 DEF AnchorSetupDone, IInv, TypeOK, Anchor2Inv
    <3>2. CASE Anchor2Waits
      BY <1>1, <1>4, <2>1, <3>2 DEF Anchor2Waits, IInv, TypeOK, Anchor2Inv
    <3>3. CASE Anchor2Starts
      <4>1. at["A2"] = SLOT /\ flag["A2"]
        BY <1>4, <2>1, <3>3 DEF Anchor2Starts, IInv, Anchor2Inv
      <4>2. ~flag'["A2"] /\ apc'["A2"] = "range" /\ rt'["A2"] = 0
        BY <2>1, <3>3 DEF Anchor2Starts, StartRanging, IInv, TypeOK, Node
      <4>3. QED
        BY <1>4, <2>1, <4>1, <4>2 DEF IInv, Anchor2Inv
    <3>4. CASE AnchorEndsRanging(a)
      BY <1>1, <1>4, <2>1, <3>4 DEF AnchorEndsRanging, IInv, TypeOK, Anchor2Inv
    <3>5. CASE AnchorReset(a)
      BY <1>1, <1>4, <2>1, <3>5 DEF AnchorReset, IInv, TypeOK, Anchor2Inv
    <3>6. QED
      BY <2>1, <3>1, <3>2, <3>3, <3>4, <3>5 DEF AnchorStep
  <2>2. CASE a # "A2"
    BY <1>1, <2>2 DEF IInv, Anchor2Inv, Remote
  <2>3. QED
    BY <2>1, <2>2
<1>9. QED
  BY <1>2, <1>3, <1>6, <1>7, <1>8 DEF IInv

LEMMA IInvStep == SlotCovers /\ IInv /\ [Next]_vars => IInv'
<1> SUFFICES ASSUME SlotCovers, IInv, [Next]_vars PROVE IInv'
  OBVIOUS
<1>1. CASE HubStep \/ HubReset
  BY <1>1, HubSteps
<1>2. CASE \E a \in Remote : ReceiveSync(a) \/ LoseSync(a)
  BY <1>2, SyncSteps
<1>3. CASE \E a \in Remote : AnchorStep(a) \/ AnchorReset(a)
  BY <1>3, AnchorSteps
<1>4. CASE Tick
  BY <1>4, TickStep
<1>5. CASE UNCHANGED vars
  BY <1>5 DEF vars, IInv, TypeOK, HubInv, AirInv, Anchor1Inv, Anchor2Inv
<1>6. QED
  BY <1>1, <1>2, <1>3, <1>4, <1>5 DEF Next

LEMMA Invariance == SlotCovers /\ Spec => []IInv
<1> SUFFICES ASSUME SlotCovers PROVE Spec => []IInv
  OBVIOUS
<1>1. Init => IInv
  BY InitIInv
<1>2. IInv /\ [Next]_vars => IInv'
  BY IInvStep
<1>3. QED
  BY <1>1, <1>2, PTL DEF Spec

----------------------------------------------------------------------------
\* Types and clock bounds hold when a slot covers its delays.
THEOREM TypeCorrect == SlotCovers /\ Spec => []TypeOK
BY Invariance, PTL DEF IInv

\* The invariant keeps the three ranging intervals apart.
LEMMA OneAtATime == SlotCovers /\ IInv => ChannelExclusive
<1> SUFFICES ASSUME SlotCovers, IInv, NEW m \in Node, NEW n \in Node,
                    Ranging(m), Ranging(n)
             PROVE  m = n
  BY DEF ChannelExclusive
<1> USE SlotAssumption DEF SlotCovers
<1>1. sinceSync \in Nat /\ ht \in Nat /\ \A k \in Node : rt[k] \in 0 .. RANGE
  BY DEF IInv, TypeOK
<1>2. apc["A1"] = "range" => sinceSync < SLOT
  BY <1>1 DEF IInv, Anchor1Inv, Node, Remote
<1>3. apc["A2"] = "range" => SLOT <= sinceSync /\ sinceSync < 2 * SLOT - PRESS
  BY <1>1 DEF IInv, Anchor2Inv, Node, Remote
<1>4. hpc = "range" => 2 * SLOT - PRESS <= sinceSync
  BY <1>1 DEF IInv, HubInv
<1>5. ~(apc["A1"] = "range" /\ apc["A2"] = "range")
  BY <1>1, <1>2, <1>3
<1>6. ~(apc["A1"] = "range" /\ hpc = "range")
  BY <1>1, <1>2, <1>4
<1>7. ~(apc["A2"] = "range" /\ hpc = "range")
  BY <1>1, <1>3, <1>4
<1>8. QED
  BY <1>5, <1>6, <1>7 DEF Ranging, Node, Remote

LEMMA PrimedOneAtATime == SlotCovers /\ IInv' => ChannelExclusive'
<1>1. SlotCovers' <=> SlotCovers
  BY DEF SlotCovers
<1>2. QED
  BY <1>1, OneAtATime, PTL

\* At most one initiator has the UWB channel, for every slot width and every
\* combination of late, lost SYNCs and resets (HUBFinal.ino:157-159).
THEOREM ExclusiveChannel == SlotCovers /\ Spec => []ChannelExclusive
<1> SUFFICES ASSUME SlotCovers PROVE Spec => []ChannelExclusive
  OBVIOUS
<1>1. IInv => ChannelExclusive
  BY OneAtATime
<1>2. QED
  BY <1>1, Invariance, PTL

----------------------------------------------------------------------------
(***************************************************************************)
(* Rounds.  Who has had a ranging since the last SYNC has nothing left of   *)
(* that SYNC, and the slot of his ranging has begun.                        *)
(***************************************************************************)
ServedInv ==
  /\ \A a \in Remote : a \in served => air[a] = {} /\ ~flag[a] /\ apc[a] # "wait"
  /\ "A2" \in served => SLOT <= sinceSync
  /\ "Hub" \in served => hpc # "wait" /\ 2 * SLOT <= sinceSync + PRESS

\* Anchor 1's start finds nobody served.
LEMMA Anchor1First ==
  ASSUME SlotCovers, IInv, ServedInv, Anchor1Starts
  PROVE  served = {}
<1> USE SlotAssumption DEF SlotCovers
<1>1. flag["A1"] /\ sinceSync \in Nat /\ sinceSync <= DELAY + SETUP /\ served \subseteq Node
  BY DEF Anchor1Starts, IInv, TypeOK, Anchor1Inv
<1>2. "A1" \notin served
  BY <1>1 DEF ServedInv, Remote
<1>3. "A2" \notin served /\ "Hub" \notin served
  BY <1>1 DEF ServedInv
<1>4. QED
  BY <1>1, <1>2, <1>3 DEF Node, Remote

\* Anchor 2's start finds Anchor 1 served at most, and its slot begun.
LEMMA Anchor2Second ==
  ASSUME SlotCovers, IInv, ServedInv, Anchor2Starts
  PROVE  served \subseteq {"A1"} /\ air["A2"] = {} /\ SLOT <= sinceSync
<1> USE SlotAssumption DEF SlotCovers
<1>1. /\ flag["A2"] /\ apc["A2"] = "wait" /\ at["A2"] = SLOT
      /\ sinceSync \in Nat /\ served \subseteq Node
  BY DEF Anchor2Starts, IInv, TypeOK, Anchor2Inv, Remote
<1>2. SLOT <= sinceSync /\ sinceSync <= SLOT + DELAY
  BY <1>1 DEF IInv, Anchor2Inv
<1>3. "A2" \notin served /\ "Hub" \notin served
  BY <1>1, <1>2 DEF ServedInv, Remote
<1>4. air["A2"] = {}
  BY <1>1 DEF IInv, AirInv, Remote
<1>5. QED
  BY <1>1, <1>2, <1>3, <1>4 DEF Node, Remote

LEMMA ServedStep == SlotCovers /\ IInv /\ ServedInv /\ [Next]_vars => ServedInv'
<1> SUFFICES ASSUME SlotCovers, IInv, ServedInv, [Next]_vars PROVE ServedInv'
  OBVIOUS
<1> USE SlotAssumption
<1>1. CASE BroadcastSync
  BY <1>1 DEF BroadcastSync, ServedInv
<1>2. CASE HubStartsRanging
  <2>1. 2 * SLOT <= ht /\ ht <= sinceSync + PRESS /\ ht \in Nat /\ sinceSync \in Nat
    BY <1>2 DEF HubStartsRanging, IInv, TypeOK, HubInv
  <2>2. QED
    BY <1>2, <2>1 DEF HubStartsRanging, ServedInv, anchorVars, Remote
<1>3. CASE BootDone \/ HubEndsRanging \/ NextCycle \/ HubReset
  BY <1>3 DEF BootDone, HubEndsRanging, NextCycle, HubReset, ServedInv, anchorVars
<1>4. ASSUME NEW a \in Remote, ReceiveSync(a) \/ LoseSync(a) PROVE ServedInv'
  <2>1. a \notin served
    BY <1>4 DEF ReceiveSync, LoseSync, ServedInv
  <2>2. \A b \in Remote : b # a => air'[b] = air[b] /\ flag'[b] = flag[b]
    BY <1>4 DEF ReceiveSync, LoseSync, IInv, TypeOK, anchorVars
  <2>3. UNCHANGED <<hpc, apc, sinceSync, served>>
    BY <1>4 DEF ReceiveSync, LoseSync, hubVars, anchorVars
  <2>4. QED
    BY <2>1, <2>2, <2>3 DEF ServedInv
<1>5. CASE Anchor1Starts
  <2>1. served' = {"A1"} /\ UNCHANGED <<hpc, sinceSync>>
    BY <1>5, Anchor1First DEF Anchor1Starts, StartRanging, hubVars
  <2>2. air'["A1"] = {} /\ ~flag'["A1"] /\ apc'["A1"] # "wait"
    BY <1>5 DEF Anchor1Starts, StartRanging, IInv, TypeOK, AirInv, Remote
  <2>3. QED
    BY <2>1, <2>2 DEF ServedInv
<1>6. CASE Anchor2Starts
  <2>1. served' \subseteq Remote /\ UNCHANGED <<hpc, sinceSync, air>> /\ SLOT <= sinceSync
    BY <1>6, Anchor2Second DEF Anchor2Starts, StartRanging, hubVars, Remote
  <2>2. air'["A2"] = {} /\ ~flag'["A2"] /\ apc'["A2"] # "wait"
    BY <1>6, Anchor2Second DEF Anchor2Starts, StartRanging, IInv, TypeOK, Remote
  <2>3. /\ flag'["A1"] = flag["A1"] /\ apc'["A1"] = apc["A1"]
        /\ "A1" \in served' => "A1" \in served
    BY <1>6 DEF Anchor2Starts, StartRanging, IInv, TypeOK, Remote
  <2>4. QED
    BY <2>1, <2>2, <2>3 DEF ServedInv, Remote
<1>7. ASSUME NEW a \in Remote,
             AnchorSetupDone(a) \/ AnchorEndsRanging(a) \/ AnchorReset(a)
      PROVE  ServedInv'
  <2>1. /\ UNCHANGED <<hubVars, air, sinceSync, served>>
        /\ \A b \in Remote : (flag'[b] => flag[b]) /\ (apc'[b] = "wait" => apc[b] = "wait")
    BY <1>7 DEF AnchorSetupDone, AnchorEndsRanging, AnchorReset, IInv, TypeOK
  <2>2. QED
    BY <2>1 DEF ServedInv, hubVars
<1>8. CASE Anchor2Waits
  <2>1. /\ UNCHANGED <<hubVars, air, flag, sinceSync, served>>
        /\ apc'["A1"] = apc["A1"] /\ flag["A2"]
    BY <1>8 DEF Anchor2Waits, IInv, TypeOK, Remote
  <2>2. QED
    BY <2>1 DEF ServedInv, hubVars, Remote
<1>9. CASE Tick
  <2>1. /\ \A a \in Remote : air[a] = {} => air'[a] = {}
        /\ UNCHANGED <<hpc, apc, flag, served>>
    BY <1>9 DEF Tick
  <2>2. sinceSync \in Nat /\ sinceSync' \in Nat /\ sinceSync <= sinceSync'
    BY <1>9 DEF Tick, UpTo, IInv, TypeOK
  <2>3. /\ "A2" \in served' => SLOT <= sinceSync'
        /\ "Hub" \in served' => hpc' # "wait" /\ 2 * SLOT <= sinceSync' + PRESS
    BY <2>1, <2>2 DEF ServedInv
  <2>4. \A a \in Remote : a \in served' => air'[a] = {} /\ ~flag'[a] /\ apc'[a] # "wait"
    BY <2>1, Zenon DEF ServedInv
  <2>5. QED
    BY <2>3, <2>4 DEF ServedInv
<1>10. CASE UNCHANGED vars
  BY <1>10 DEF vars, ServedInv
<1>11. QED
  BY <1>1, <1>2, <1>3, <1>4, <1>5, <1>6, <1>7, <1>8, <1>9, <1>10
     DEF Next, HubStep, AnchorStep

\* A node that begins to range while nobody does takes the free channel.
LEMMA TakesChannel ==
  ASSUME ChannelExclusive', NEW u \in Node, ~Ranging(u), Ranging(u)',
         \A n \in Node \ {u} : Ranging(n)' <=> Ranging(n),
         served \subseteq Before[u], served' = served \cup {u}
  PROVE  Shared!Acquire(u)
<1>1. {n \in Node : Ranging(n)}' = {u}
  BY DEF ChannelExclusive
<1>2. {n \in Node : Ranging(n)} = {}
  BY DEF ChannelExclusive
<1>3. QED
  BY <1>1, <1>2 DEF Shared!Acquire

\* A node that ends its ranging, or is reset, gives the channel back if it has it.
LEMMA GivesChannel ==
  ASSUME ChannelExclusive, NEW u \in Node, ~Ranging(u)',
         \A n \in Node \ {u} : Ranging(n)' <=> Ranging(n),
         served' = served
  PROVE  [Shared!Next]_(Shared!vars)
<1>1. CASE Ranging(u)
  <2>1. {n \in Node : Ranging(n)} = {u}
    BY <1>1 DEF ChannelExclusive
  <2>2. {n \in Node : Ranging(n)}' = {}
    BY <1>1 DEF ChannelExclusive
  <2>3. QED
    BY <2>1, <2>2 DEF Shared!Next, Shared!Release
<1>2. CASE ~Ranging(u)
  <2>1. {n \in Node : Ranging(n)}' = {n \in Node : Ranging(n)}
    BY <1>2
  <2>2. QED
    BY <2>1 DEF Shared!vars
<1>3. QED
  BY <1>1, <1>2

\* Each step of the cycle is one of the round, or none.
LEMMA RoundStep ==
  SlotCovers /\ IInv /\ ServedInv /\ IInv' /\ [Next]_vars
    => [Shared!Next]_(Shared!vars)
<1> SUFFICES ASSUME SlotCovers, IInv, ServedInv, IInv', [Next]_vars
             PROVE  [Shared!Next]_(Shared!vars)
  OBVIOUS
<1>1. ChannelExclusive /\ ChannelExclusive'
  BY OneAtATime, PrimedOneAtATime
<1>2. Before = [n \in Node |-> IF n = "A1" THEN {} ELSE IF n = "A2" THEN {"A1"} ELSE Remote]
  BY DEF Before
<1>3. CASE BroadcastSync
  <2>1. \A a \in Remote : apc[a] # "range"
    BY <1>3, Quiet DEF BroadcastSync, IInv, HubInv
  <2>2. /\ {n \in Node : Ranging(n)} = {} /\ {n \in Node : Ranging(n)}' = {}
        /\ served' = {}
    BY <1>3, <2>1 DEF BroadcastSync, anchorVars, Ranging, Node
  <2>3. QED
    BY <2>2 DEF Shared!Next, Shared!NewRound
<1>4. CASE HubStartsRanging
  <2>1. /\ ~Ranging("Hub") /\ Ranging("Hub")' /\ served' = served \cup {"Hub"}
        /\ \A n \in Node \ {"Hub"} : Ranging(n)' <=> Ranging(n)
    BY <1>4 DEF HubStartsRanging, Ranging, anchorVars, Node, Remote
  <2>2. served \subseteq Before["Hub"] /\ "Hub" \in Node
    BY <1>2, <1>4 DEF HubStartsRanging, ServedInv, IInv, TypeOK, Node, Remote
  <2>3. Shared!Acquire("Hub")
    BY <1>1, <2>1, <2>2, TakesChannel
  <2>4. QED
    BY <2>2, <2>3 DEF Shared!Next
<1>5. CASE Anchor1Starts
  <2>1. /\ ~Ranging("A1") /\ Ranging("A1")' /\ served' = served \cup {"A1"}
        /\ \A n \in Node \ {"A1"} : Ranging(n)' <=> Ranging(n)
    BY <1>5 DEF Anchor1Starts, StartRanging, Ranging, hubVars, IInv, TypeOK, Node, Remote
  <2>2. served \subseteq Before["A1"] /\ "A1" \in Node
    BY <1>5, Anchor1First DEF Node, Remote
  <2>3. Shared!Acquire("A1")
    BY <1>1, <2>1, <2>2, TakesChannel
  <2>4. QED
    BY <2>2, <2>3 DEF Shared!Next
<1>6. CASE Anchor2Starts
  <2>1. /\ ~Ranging("A2") /\ Ranging("A2")' /\ served' = served \cup {"A2"}
        /\ \A n \in Node \ {"A2"} : Ranging(n)' <=> Ranging(n)
    BY <1>6 DEF Anchor2Starts, StartRanging, Ranging, hubVars, IInv, TypeOK, Node, Remote
  <2>2. served \subseteq Before["A2"] /\ "A2" \in Node
    BY <1>2, <1>6, Anchor2Second DEF Node, Remote
  <2>3. Shared!Acquire("A2")
    BY <1>1, <2>1, <2>2, TakesChannel
  <2>4. QED
    BY <2>2, <2>3 DEF Shared!Next
<1>7. CASE BootDone \/ HubEndsRanging \/ NextCycle \/ HubReset
  <2>1. /\ "Hub" \in Node /\ ~Ranging("Hub")' /\ served' = served
        /\ \A n \in Node \ {"Hub"} : Ranging(n)' <=> Ranging(n)
    BY <1>7 DEF BootDone, HubEndsRanging, NextCycle, HubReset, Ranging, anchorVars,
                Node, Remote
  <2>2. QED
    BY <1>1, <2>1, GivesChannel
<1>8. ASSUME NEW a \in Remote,
             AnchorSetupDone(a) \/ AnchorEndsRanging(a) \/ AnchorReset(a)
      PROVE  [Shared!Next]_(Shared!vars)
  <2>1. /\ a \in Node /\ ~Ranging(a)' /\ served' = served
        /\ \A n \in Node \ {a} : Ranging(n)' <=> Ranging(n)
    BY <1>8 DEF AnchorSetupDone, AnchorEndsRanging, AnchorReset, Ranging, hubVars,
                IInv, TypeOK, Node, Remote
  <2>2. QED
    BY <1>1, <2>1, GivesChannel
<1>9. CASE \/ \E a \in Remote : ReceiveSync(a) \/ LoseSync(a)
           \/ Anchor2Waits \/ Tick \/ UNCHANGED vars
  <2>1. /\ served' = served
        /\ \A n \in Node : Ranging(n)' <=> Ranging(n)
    BY <1>9 DEF ReceiveSync, LoseSync, Anchor2Waits, Tick, vars, Ranging, hubVars,
                anchorVars, IInv, TypeOK, Node, Remote
  <2>2. {n \in Node : Ranging(n)}' = {n \in Node : Ranging(n)}
    BY <2>1
  <2>3. QED
    BY <2>1, <2>2 DEF Shared!vars
<1>10. QED
  BY <1>3, <1>4, <1>5, <1>6, <1>7, <1>8, <1>9 DEF Next, HubStep, AnchorStep

\* The cycle implements the channel used in rounds: one ranging per node and
\* SYNC, in order, and none across a SYNC, for every slot width and every
\* combination of late, lost SYNCs and resets (HUBFinal.ino:157-159).
THEOREM RoundsImplemented == SlotCovers /\ Spec => ImplementsRounds
<1> SUFFICES ASSUME SlotCovers PROVE Spec => ImplementsRounds
  OBVIOUS
<1>1. Init => Shared!Init /\ ServedInv
  BY DEF Init, Shared!Init, ServedInv, Ranging, Node, Remote
<1>2. IInv /\ ServedInv /\ [Next]_vars => ServedInv'
  BY ServedStep
<1>3. IInv /\ ServedInv /\ IInv' /\ [Next]_vars => [Shared!Next]_(Shared!vars)
  BY RoundStep
<1>4. QED
  BY <1>1, <1>2, <1>3, Invariance, PTL DEF Spec, ImplementsRounds, Shared!Spec

\* Every ranging begins in its node's slot, counted from the SYNC behind it.
THEOREM SlotsKept == SlotCovers /\ Spec => RangesInSlot
<1> SUFFICES ASSUME SlotCovers PROVE Spec => RangesInSlot
  OBVIOUS
<1>1. IInv /\ [Next]_vars
        => [/\ Anchor1Starts => sinceSync < SLOT
            /\ Anchor2Starts => sinceSync \in SLOT .. 2 * SLOT - 1
            /\ HubStartsRanging => sinceSync \in 2 * SLOT - PRESS .. 3 * SLOT - 1]_vars
  <2> SUFFICES ASSUME IInv
               PROVE  /\ Anchor1Starts => sinceSync < SLOT
                      /\ Anchor2Starts => sinceSync \in SLOT .. 2 * SLOT - 1
                      /\ HubStartsRanging
                           => sinceSync \in 2 * SLOT - PRESS .. 3 * SLOT - 1
    OBVIOUS
  <2> USE SlotAssumption DEF SlotCovers
  <2>1. sinceSync \in Nat /\ ht \in Nat /\ at["A2"] \in 0 .. SLOT
    BY DEF IInv, TypeOK, Remote
  <2>2. Anchor1Starts => sinceSync < SLOT
    BY <2>1 DEF IInv, Anchor1Inv, Anchor1Starts
  <2>3. Anchor2Starts => sinceSync \in SLOT .. 2 * SLOT - 1
    BY <2>1 DEF IInv, Anchor2Inv, Anchor2Starts
  <2>4. HubStartsRanging => sinceSync \in 2 * SLOT - PRESS .. 3 * SLOT - 1
    BY <2>1 DEF IInv, HubInv, HubStartsRanging
  <2>5. QED
    BY <2>2, <2>3, <2>4
<1>2. QED
  BY <1>1, Invariance, PTL DEF Spec, RangesInSlot
=============================================================================
