# UWB indoor positioning: verification project

The repository holds an indoor positioning system: a tag, two anchors and a Hub
(four ESP32 with DW3000 UWB radios) measure three distances in a shared 600 ms
cycle, the Hub computes the tag's position and sounds a buzzer when the tag
leaves the room, and a Python server shows it all to browser pages. It brings
along the DW3000 driver with its examples, and a WebSockets library. This
directory holds TLA+ models of it, their TLC configurations and TLAPS proofs.

Paths below: HUB, A1, A2, TAG are `HUBFinal.ino`, `ANCHOR1Final.ino`,
`ANCHOR2Final.ino`, `TAGFinal.ino`; SRV and HTML are `dashboard/server.py` and
`dashboard/index.html`; DEV and PORT are `dw3000_device_api.cpp` and
`dw3000_port.cpp`; WS, WSC and WSS are `WebSockets.cpp`, `WebSocketsClient.cpp` and
`WebSocketsServer.cpp`.

## 1. Inventory

| Component | State | Operations | Interacts by |
|---|---|---|---|
| Hub loop (HUB 155-300) | `cycle_start`, `d2`, `lastD2`, `outsideCount`, buzzer pin, `frame_seq_nb` | button, SYNC broadcast, ranging, decision, buzzer, serial lines | ESP-NOW broadcast, UWB, serial, reads what the callback writes |
| Hub callback (HUB 84-89) | `d1`, `lastD1`, `d3`, `lastD3` | store a report | runs in the WiFi task, no lock |
| Room profile (HUB 28-71, 134-148, 164-171) | `currentRoomIndex`, flash | load, switch, announce | flash, serial |
| Anchors (A1, A2) | `sync_received`, `cycle_start`, `frame_seq_nb` | callback, slot wait, ranging, report | ESP-NOW both ways, UWB |
| Tag (TAG) | `rx_buffer`, `tx_resp_msg`, `frame_seq_nb` | receive, delayed answer, re-enable receiver | UWB only |
| Ranging and position arithmetic (HUB, A1, A2, TAG) | - | timestamps, range, solver, boundary test | inside each firmware |
| Dashboard server (SRV) | `room_config`, `latest_data`, `connected_clients` | parse lines, greet a page, broadcast at 10 Hz | serial thread, `data_lock`, asyncio tasks, WebSocket |
| Dashboard page (HTML) | `ROOM`, `tagPos`, `isAlarmPlaying`, the socket | connect, show a message, alarm sound | WebSocket |
| DW3000 driver (DEV) | `pdw3000local`, the chip's registers | configure, transmit, receive, interrupt, sleep, calibrate, read and write | SPI, callbacks |
| DW3000 port (PORT) | registers of a DW1000 it keeps in RAM | SPI headers, clock speed | SPI |
| Options, STS timing, AES frames | the table of 33 configurations | delays, timeouts, nonces, jobs | driver |
| DW3000 examples, self-check | each its `loop()` locals | a set-up and a loop | UWB |
| WebSockets library (WS, WSC, WSS) | a client, a server's slots | connect, handshake, heartbeat, frames, broadcasts | TCP, callbacks |

What is hard in it:

- two tasks on two cores share `d1`, `lastD1`, `d3`, `lastD3` (HUB) and
  `cycle_start`, `sync_received` (anchors) without a lock;
- nothing but time keeps three initiators apart on one UWB channel, and the
  SYNC that starts the clocks may be late, lost or sent by a Hub just reset;
- exchanges have no identity on the air: the sequence number is zeroed before
  the comparison (A2 118), so timing must do its work;
- the tag must answer within a fixed delay or go back to listening;
- a room switch touches RAM, flash and host one after the other;
- the broadcast loop clears `room_changed` before it sends and awaits every
  send, while pages come, hang and go, and the serial thread keeps writing;
- the radio runs on between any two register accesses of `dwt_isr`, and forgets
  half of its registers in its sleep;
- the STS counters of two boards agree only by what each of them has seen;
- a connection that is cut looks alive to both of its ends.

`PROJECT.json` lists the hazards with their lines and the properties for each.

## 2. Modules

Machines, each checked by a run:

| Module | Models | State and actions |
|---|---|---|
| `Hub` | HUB as one node | `pc` is the loop task's place, `cb` the callback's. Ages (`since`, `inCycle`, `drift`, `sinceButton`) replace timestamps since the code only uses differences. One action per stretch of the loop; `StoreDistance`, `StoreTime` for the callback; `Reset` at any moment. The solver is the constant `Inside`, any set of triples per room. |
| `HubAges` | the measurements behind HUB's timestamps | `Hub` with a history: `age[k]`, how long ago the distance in store was really measured. Every step is a step of `Hub`; the callback is held up between its two writes for at most `MaxDrift` |
| `Alarm` | the promise of HUB 72-77 and 230-232 | the last N verdicts and the buzzer, no counters, ages or tasks. `Hub!Promise` maps to it. |
| `Tdma` | the cycle of HUB, A1, A2 | each node's loop as far as it begins and ends rangings, both callbacks, SYNCs in flight by age, resets, one `Tick` |
| `Channel` | what the slots are for (HUB 157-159) | rounds: who holds the channel, and who has had it since the last SYNC. `Tdma!Shared` maps to it. |
| `Exchange` | A2 100-147 (the same code in A1 and HUB) and TAG | polls, answers and receive windows; `Transmit` decides who receives well, badly or not; the tag's lateness; `Stray` frames |
| `Server` | SRV, and the page's reading of messages | the serial thread by kind of line, `Connect`/`HandlerEnds` for `ws_handler`, `TakeSnapshot`, `Send`, `SendReturns`, `SendRaises`, `RoundEnds` for the loop, `queue` for the socket |
| `Page` | HTML 147-241 | every socket the page ever made, the handlers that outlive it, alert and audio element |
| `Radio` | DEV: `dwt_starttx`, `dwt_rxenable`, `dwt_forcetrxoff`, `dwt_isr`, double buffer | one action per register access of `dwt_isr`, `dwt_rxenable` and `dwt_starttx` that decides or clears something; all six branches of the handler; the chip acts in between |
| `Power` (with `Codes`) | DEV: `dwt_initialise`, `dwt_configure`, sleep, `dwt_restoreconfig`, `dwt_softreset` | registers by who keeps them: the host, the always-on array, nobody |
| `WsLink` | WSC and WSS with the heartbeat of WS | a client, a server with slots, TCP connections that can be cut, one action per pass of a `loop()` |
| `Boards` | every sketch: firmwares, examples, self-check | two boards, set-ups as sequences of driver calls, loops as records of what they wait for, answer, number and reload; what a call undoes (`Undone`) and what a sleep loses (`Preserved`, `Restored`) |
| `Walk` | a tag carried about in a profile | `Geometry` with exact ranges |

Algorithms, with theorems instead of runs: `Twr` (timestamps and range, STS
delays), `Geometry` (solver, boundary test, the page's coordinates), `Spi`,
`DwData` (buffers and diagnostics), `Settings` (registers that several calls
share), `Analog` (calibration and test modes), `Nvm` (OTP, always-on memory),
`Port`, `Configs` (the 33 options), `Aes` (MAC frames and the engine's jobs),
`WsFrame`, `WsServer` (broadcasts). `MCHub`, `MCHubAges`, `MCExchange` and `MCPower` hold
instances for TLC. The proofs are in `HubProofs`, `TdmaProofs`, `ExchangeProofs`,
`RadioProofs`, `ServerProofs` (`Server`, `Page`), `WsProofs` (`WsLink`, `WsFrame`,
`WsServer`), `SettingsProofs` (`Configs`, `Settings`, `Codes`, `Aes`, `Boards`) and
`DriverProofs` (`Power`, `Twr`, `Geometry`, `Spi`, `Port`, `DwData`, `Analog`,
`Nvm`). Modules that are proved about together share no names, which is why the
page's parts are called `PageInit`, `PageNext`, `PageTypeOK`.

Definitions marked "Fault" are plausible bugs of the definition that follows
them. Nothing uses them in `Next`; put in its place each of them breaks
the property that `PROJECT.json` pairs it with.

The modules meet as follows. `Exchange` takes from `Tdma` that polls are a slot
apart (`SLOT` in `SendPoll`); `Tdma` takes from `Exchange` that a ranging ends
(`RANGE`), and from `Channel` what that is good for: one initiator at a time.
`Hub` takes from `Exchange` the three outcomes of its exchange, and the anchors'
reports as callback input. `Server` takes from `Hub` that the profile is printed
in every cycle and before positions computed in it; `Page` takes from `Server`
room and position messages. `Exchange` and `Boards` take from `Radio` that a
reported frame is the one received and that a refused transmission leaves the
radio idle, and `Boards` takes from `Configs` that an answer falls into the
initiator's window, which `SettingsProofs` proves.

## 3. Runs

| Run | Checks | Bounds, and why they do |
|---|---|---|
| hub_alarm | `TypeOK`, `AlarmOnlyAfterDebounce`, `RoomSavedAndAnnounced`, `FlashFollowsAnnouncement`, `ImplementsAlarm`, `AlarmRestsOnFreshRanges` | `AgedSpec`, the Hub with its ages, in which the callback is held up for at most one tick (the proofs of the other properties need no such bound). One tick is 200 ms, so 400 and 600 ms keep their values; the button's pause is one tick, and as a press begins a cycle of three it only matters right after a reset; the 6 s window shrinks to 4 ticks, longer than a cycle, so that reports live over several decisions and expire; debounce depth 3 as in the code; three rooms and an index out of range in flash; two distances, inside and outside; one tick of drift between `now` and its use; ages up to 6 = window + 2 * drift, past which they are alike |
| hub_live | `OutsideRaisesAlarm`, `SilentAnchorStopsAlarm` | depth 2, window 4, one tick of drift, so that reports fall between `now` and the age test and make cycles wait; with it `OutsideRaisesAlarm` says that from some time on every position computed sounds the buzzer, and that it sounds for good once no report falls there any more; button pause 1 to keep the graph small |
| tdma_slots | `TypeOK`, `ChannelExclusive`, `RangesInSlot`, `ImplementsRounds`, `SyncLeadsToRanging`, `HubKeepsCycling` | slot 5, every delay 1: the tightest that `SlotCovers` admits |
| exchange_slots | `TypeOK`, `AcceptsOwnAnswer`, `FailsOnlyIfSpoiled`, `ExchangeEnds`, `TagListensAgain` | two initiators, sequence numbers modulo 3, a tick is about 300 UUS; the tag may be later than its answer time; slots as short as the timeout |
| server_pages | `TypeOK`, `PositionNotAheadOfRoom`, `RoomConverges`, `AlertConverges` | two pages, one change of profile, two messages buffered per page: enough for a page to stall the loop while another connects |
| page_alert | `OneConnection`, `AlarmFollowsAlert` | three sockets, so that two given up may still close while a third opens; three files, one of which the browser cannot play. `AlarmFollowsAlert` leaves out (`cut`) the files that stay silent, see section 5 |
| radio_isr | `TypeOK`, `ReportsOldestFrame`, `NothingLeftArmed`, `EverythingReported` | frames are numbered modulo 3: two buffers and one more; the chip may raise a command error at any moment |
| power_sleep | `TunedAsConfigured`, `BufferModesAgree`, `SuccessMeansReady` | both channels, a code with and one without PRF 64, long and short frames, sleep with and without download; two polls before giving up |
| ws_link | `OneHolder`, `ToldOfEveryChange`, `DeadLinkNoticed`, `ConnectsAgain` | one slot and two connections, so that a new one meets the slot of a dead one; two misses; two cuts, refusals or disconnections |
| boards_rounds | `FailsOnlyIfSpoiled`, `NumbersAgree`, `SetupInForce`, `RangesAgain` | four faults, enough for any two of them to hit each board; every example, the sleeping ones included; frame numbers modulo 4. Deadlock is not checked: a board whose set-up fails stops in `while (1)`. |

Two runs find a disagreement between the code and what is said of it, one
property each; `PROJECT.json` quotes the lines:

| Run | Property | What the counterexample shows |
|---|---|---|
| hub_race | `WaitsOnlyWhenNotFresh` | a report stored between HUB 233 and 235 makes `now - lastD1` wrap: three fresh distances count as not fresh and the cycle waits, with the buzzer silent |
| walk_walls | `SeenMeansOutside` | in profile 2 a tag more than 10 cm inside the room is judged outside with exact ranges, because the solver leaves out that the stations stand at 0.75, 2.35 and 2.20 m (`HeightError` says how much in general). The run ends when the tag has been walked to such a place. |

### Fairness

- `Hub`: the loop task, the WiFi task's callback once begun, and time. Both are
  FreeRTOS tasks on their own core and no step of theirs waits on the other.
  Button, reports, ranging outcomes and resets owe nothing.
- `Tdma`: both loops, the radio that ends each ranging (its timeout is set, HUB
  131, A2 80), the flight of a SYNC which ends in delivery or loss, and time.
- `Exchange`: tag loop, initiators' busy-waits and time; nothing makes a node poll.
- `Server`: the event loop serves every task; the Hub, while it runs, repeats
  its profile (HUB 296); a page with messages before it reads or is
  disconnected by the keepalive of `websockets`. Pages need not connect, stay or
  leave; the serial port need not work.
- `Page`: the server goes on sending positions on an open socket (SRV 158-198),
  and a closing socket closes. The user owes nothing.
- `Radio`: the host polls `dwt_isr` while it waits, as every sketch does; a
  transmission that was armed begins and ends; a receiver with a timeout stops. Callbacks
  make finitely many calls, which is strong fairness of the handler: it may be kept
  waiting inside a callback again and again, but not for ever. No frame has to come.
- `WsLink`: both ends call `loop()`, and time passes. Faults end, as their
  number is bounded.
- `Boards`: a board that can go on does, and a frame on the air arrives or is
  lost. Faults end.

## 4. Proofs

Checked by TLAPS, for every value of the constants that satisfies the module's
named assumption. All theorems with what they establish are listed in
`PROJECT.json`; these are about the runs' properties:

| Theorem | Statement |
|---|---|
| `HubProofs!TypeCorrect` | `Spec => []TypeOK` |
| `HubProofs!DebounceHolds` | `Spec => []AlarmOnlyAfterDebounce` |
| `HubProofs!NoAlarmMissed` | `Spec => AlarmNotMissed` |
| `HubProofs!FreshRanges` | `AgedSpec => AlarmRestsOnFreshRanges` |
| `HubProofs!RoomsAgree`, `FlashKept` | `Spec => []RoomSavedAndAnnounced`, `Spec => []FlashFollowsAnnouncement` |
| `HubProofs!AlarmImplemented` | `Spec => ImplementsAlarm` |
| `TdmaProofs!TypeCorrect` | `SlotCovers /\ Spec => []TypeOK` |
| `TdmaProofs!ExclusiveChannel` | `SlotCovers /\ Spec => []ChannelExclusive` |
| `TdmaProofs!SlotsKept` | `SlotCovers /\ Spec => RangesInSlot` |
| `TdmaProofs!RoundsImplemented` | `SlotCovers /\ Spec => ImplementsRounds` |
| `ServerProofs!TypeCorrect` | `Spec => []TypeOK` |
| `ExchangeProofs!TypeCorrect` | `Spec => []TypeOK` |
| `ExchangeProofs!OwnAnswer` | `AnswerInSlot /\ NoRunts /\ Spec => AcceptsOwnAnswer` |
| `ExchangeProofs!FailuresAreSpoiled` | `AnswerInSlot /\ TagInSlot /\ Spec => FailsOnlyIfSpoiled` |
| `ServerProofs!RoomBeforePosition` | `Spec => []PositionNotAheadOfRoom` |
| `ServerProofs!OneSocketListens`, `AlarmOnlyInAlert` | `PageSpec => []OneConnection`, `PageSpec => []PageTypeOK` |
| `RadioProofs!TypeCorrect` | `Spec => []TypeOK` |
| `RadioProofs!OldestReported`, `NothingLeft` | `Spec => []ReportsOldestFrame`, `Spec => []NothingLeftArmed` |
| `DriverProofs!PowerTypeCorrect` | `Spec => []TypeOK` |
| `DriverProofs!RestoredAsConfigured`, `BufferModeKnown` | `Spec => []TunedAsConfigured`, `Spec => []BufferModesAgree` |
| `DriverProofs!SuccessIsReady` | `Spec => SuccessMeansReady` |
| `WsProofs!LinkTypeCorrect`, `NoneLeaked` | `Spec => []TypeOK`, `Spec => []OneHolder` |
| `WsProofs!EveryChangeTold` | `Spec => []ToldOfEveryChange` |
| `SettingsProofs!BoardsTypeCorrect` | `Spec => []TypeOK` |
| `SettingsProofs!FailuresAreFaults`, `NumbersKept`, `SetupKept` | `Spec => []FailsOnlyIfSpoiled`, `Spec => []NumbersAgree`, `Spec => []SetupInForce` |

**Hub.** `AlarmOnlyAfterDebounce` speaks of the buzzer and a window of past
readings, which no single step connects. The invariant adds `CountIsStreak`
(`outsideCount` is the length of the current run of outside readings, or at
least the window), `BuzzerFollowsCount`, `AllMeasured` (between the two halves
of the test no distance can become missing, because the callback only stores
positive ones and `d2` is the loop's own) and `RoomStages` (how RAM, flash and
host relate at each point of a press). `HubAssumption` asks that the bounds be
no smaller than what the code compares with. With the same invariant each step
maps to a step of `Alarm` or leaves its state alone. `FreshRanges` speaks of `HubAges`,
where a timestamp may be younger or older than its distance: the distance is written
first, and a report that replaces it makes the pair younger. What is inductive is
that a distance is at most `MaxDrift` older than its timestamp says, unless the callback
is about to write that timestamp.

**Tdma.** Everything is measured by the time since the last SYNC broadcast.
Each flag, wait and ranging of an anchor confines that time to an interval
(`Anchor1Inv`, `Anchor2Inv`), the Hub's own clock lags it by at most `PRESS`
(`HubInv`), and SYNCs in flight are always the last one sent (`AirInv`). The
intervals in which the three nodes can range are disjoint if
`PRESS + DELAY + SETUP + RANGE < SLOT`. That is `SlotCovers`, a hypothesis of
the theorems rather than an assumption of the module: with 200 ms slots it leaves
195 ms for the flash write, the SYNC's flight and an anchor's set-up. The code
ensures `CYCLE >= 3 * SLOT` (600, 200) and `BOOT >= 2 * SLOT` (HUB 147).
`RoundsImplemented` says more than exclusion: `served` remembers who has ranged since
the SYNC, and the invariant (`ServedInv`) that nobody in it has a flag, a wait or a SYNC in flight
left makes a second turn, or one before an earlier node's, impossible.
`LEMMA Quiet` is the heart: two slots after a SYNC no anchor has anything left to
do with it.

**Server.** That a page's position is not ahead of its room says nothing of what
is still on its way to the page. The invariant therefore speaks of what the page
shows together with its queue (`Sound`: rooms come in order and each position
after its room, in the queue or already shown) and of what the broadcast
loop is about to send: a position goes only to pages that have its room
(`PositionIsKnown`), because the round before brought that room to every page
that has not connected since (`RoomRound`), or because no selection is new
(`NothingNew`), in which case every page got the room before or when it
connected. `PageOK` holds all this for one page, so that a step is proved for the
page it is about and, by `OtherPage`, for the others. It needs the order of the
messages of a round, the copy under `data_lock`, and that `ws_handler` registers
and sends the room without an await between; it does not depend on the number of
pages or on how the buffers fill.

**Exchange.** No byte of an answer says which poll it answers: it carries the
initiator's id and the tag's own counter. What makes `AcceptsOwnAnswer` true is
time. `AskedLast` is the invariant's core: while the tag can still answer in time,
the poll it has was the last one on the air, so that the initiator it names, if it
waits, waits for this answer. That needs `AnswerInSlot`, an answer's delay below the
slot between two polls: 900 UUS against 200 ms. `NoRunts` excludes frames of less
than ten bytes (see section 6). `FailsOnlyIfSpoiled` adds `TagInSlot`, that the
tag is done with a frame before the next poll and before the initiator gives
up, and follows each undisturbed exchange through the tag's hands
(`InHand`) to the answer (`Answered`). Nothing is asked of the number of
initiators, of `SEQ` or of the receiver's delay, which `ExchangeAssumption`
already bounds.

**Radio.** `dwt_isr` reads FINT_STAT, then SYS_STATUS, then clears and reads while
the radio goes on. The invariant says for every point between two accesses that an
event the driver has seen is still there (`Seeing`), that host and radio agree on the
operation under way (`OneOperation`), that a host which waits for quiet finds it
(`Quiet`), that a late reception stays inside `dwt_rxenable` (`Enabling`), in which buffer each unreported frame lies
and that the pointer of the double buffer is in step with that (`Frames`), and
that the radio does not overwrite the frame the callback has not read yet
(`Reporting`). From it come that at most two frames are unreported, the types, and
both properties.

**Power.** The OPS table of the configuration in force has to be the one noted in
`sleep_mode` for the wake-up (`Noted`: `dwt_configure` first clears the bits of
an earlier configuration), a chip that is down has its reset values and the
always-on copy (`Down`), and one that is up agrees with the driver at once about
the buffers, and about tuning and pointer once `dwt_restoreconfig` is done
(`Woken`).

**WebSockets.** An end of a connection is open exactly as long as one peer, the
client or one slot of the server, refers to it (`OneHolder`); what an application has been told is what the status says
(`PeerOK`). `OneHolder` was a part of the proof first and is
now checked by the run as well. The lemmas say for each branch of the two loops
what becomes of the peer and of its connection.

**Page.** `OneConnection` is inductive with the types: the click handler closes
what is in use before it opens another, and the handlers of the socket that was
given up do not touch `ws`. The type invariant says more than the types: the alarm
is marked as playing only with an alert on the panel, and sounds only when so marked.
It may be marked and silent: see section 5.

**Boards.** The invariant has a part for each question. `Setups`: the calls still
to be made redo everything they undo (`Redoes`) and, with the settings in force,
give all the loop needs; `SetupIsGood` shows that for the setup of every sketch, of
which all but five are `Start` followed by calls that undo nothing. A sleeping board has what
`dwt_configuresleep` had saved, without the bias and the tables that
`dwt_restoreconfig` writes again; ex_01b resets the chip and has to repeat its whole
set-up (`Reconfigure`). `Roles`,
`Chips`, `Air`: at each point of a round both chips have the STS mode and, where
one is used, the STS counter that the frame on the air was sent with, because both
loops reload them. `Round`: an initiator that waits in a round without a
fault has a responder that listens, answers or reports. `Numbers`: the answer's
number is the poll's plus one, so that taking it over is counting (until a reset starts
the numbers again, see section 6). It
holds for any number of faults and any modulus of the frame counter; it needs that
the environment sends foreign frames without an STS only.

**Arithmetic.** `MeasuresTimeOfFlight` follows the four timestamps of an
exchange through 40 bits in the radios, 32 in the frame and `int32_t` in the
initiator: differences modulo 2^32 are exact as long as the exchange takes less than
2^31 ticks, 33 ms. `HeightError` is an identity of the solver's two equations
multiplied by their determinant, so that nothing is divided; `ExactAtOneHeight`
and `OutsideIsSeen` are its case of equal heights. The theorems about `Spi` and
`Port` take a header apart into its fields; those about `WsFrame` distinguish
the three forms of a length.

**Settings.** `SettingsHold` is an invariant over a chip of seven registers: in
each of them, bit by bit, every setting is as last asked for. Its lemmas say that
the fields do not overlap and that a read-modify-write of one leaves the others.

Only model-checked: liveness (its proofs need ENABLED, which the prover does not
support), namely `OutsideRaisesAlarm`, `SilentAnchorStopsAlarm`,
`SyncLeadsToRanging`, `HubKeepsCycling`, `ExchangeEnds`, `TagListensAgain`,
`RoomConverges`, `AlertConverges`, `AlarmFollowsAlert`, `EverythingReported`,
`DeadLinkNoticed`, `ConnectsAgain` and `RangesAgain`. Every invariant and every
action property of a run is proved. The type
invariants of `Page`, `Power`, `WsLink` and `Boards` are proved and in no run. Definitions avoid recursive operators,
so that all modules stay open to proof.

## 5. Known disagreements that no run shows

Each was met while the code was modelled, and is in the model as the code has it:

- A report that arrives in the millisecond of the Hub's test (HUB 234-235) gives an
  old distance a fresh time: `d1` is a plain `double`, the compiled solver may go on
  with the value it read before, and the verdict then rests on a distance that had
  left the window, against HUB 232, "only when all three distances are fresh".
  `AlarmRestsOnFreshRanges` speaks of the stored values and does not exclude this.
- `play()` is called once in an alert and the flag is set whether or not it succeeds
  (HTML 207-209). A second file chosen while the first one plays, or a playable one
  chosen after one that was refused, stays silent until the alert is over, although
  HTML 110 says "play continuously when the tag is out of range".
  `AlarmFollowsAlert` leaves these alerts out by the history `cut`.
- A good frame that is not the answer leaves the Hub's `d2` standing (HUB
  197-220), although HUB 222 resets it "so stale data doesn't linger".
- A SYNC received during `setup()` is acted on when `setup()` ends (A1 58),
  although A1 95 says "ranges immediately at 0ms from SYNC".
- The tag answers with its own counter (TAG 111), not the poll's number (TAG 109).
- A Hub silent on an open port leaves `signal` True (SRV 117, against SRV 45).
- README.md of the repository says that the tag pings and the anchors answer;
  in the code the anchors and the Hub poll and the tag answers.
- `dwt_restoreconfig` restores DGC for the codes 16 and 24 only (DEV 1212;
  theorem `FewCodesRegainDgc`). RX_TUNE_EN, once cleared for a code without PRF 64
  (DEV 1517), is never set again.
- `dwt_softreset` notes a double buffer whatever mode it was in (DEV 4092);
  `dwt_initialise` puts it right.
- `deca_sleep` and `deca_usleep` do nothing (PORT 58-77), so that the waits of
  DEV 1484, 1590, 2834, 2955 and 4079 do not wait.
- The port's set-up transfers are a DW1000's (PORT 410-448; `PortIsAstray`), and
  `enableClock` switches the SPI speed between its read and its write of the clock.
  `SlowOnTheCrystal` shows that in `spiSelect` this harms nothing for a board with
  a reset pin; one without goes through `softReset`, which chooses the crystal's clock and sends its next
  two writes fast (PORT 253-266).
- A write of no bytes through `dwt_writetxdata` is the command to stop
  (DEV 205; `NothingIsACommand`); TX offsets from 896 lose their top bit
  (DEV 1746; `TxOffset`); with the double buffer on and no diagnostics asked for,
  bytes that were not fetched are parsed (DEV 2080; `DiagnosticsAreFetched`).
- With 1024-symbol preambles the STS examples never hear an answer
  (`LongPreambleIsMissed`); the AES examples wait for ever after a frame that is
  not for them (`Boards!Stuck`).
- A new connection of the WebSockets client starts with the heartbeat's count and
  clock of the last one (WSC 554-609) and can be dropped before its first ping,
  against WebSockets.h 413; with `pongTimeout >= pingInterval`, which
  `WsLinkAssumption` excludes, no pong ever times out; a broadcast reports failure
  while one client is in its handshake (`BroadcastReaches`).

## 6. What is not modelled

- The rounding of `float` and `double` in ranges and positions; `Geometry` and
  `Twr` are exact. The torn read of a `double` (HUB 73), whose halves may come
  from different reports: the model reads one report or the other.
- The wrap of `millis()` on an age: differences are capped at `MaxAge`.
- In the driver's interrupt handler: the bits of the panic event that it does not
  handle either (DEV 3366), RXFCE of frames without data, which it clears and
  nothing reads, and automatic re-enabling of the receiver, which it says it does
  not support. The application follows what the driver asks of it (head of `Radio`).
- Reuse of frame numbers, and so of nonces, under the static key of the AES examples
  after a reset (ex_06e 151): `NumbersAgree` speaks of one run of a board.
- Which of two sockets' handlers wrote the page's status last: `onclose` of a socket
  given up writes "disconnected" over a new connection, and no property forbids it.
- Collisions: `Tdma` shows there are none among the system's own frames, and
  `Exchange` lets any frame be missed or spoiled.
- Frames shorter than ten bytes (`Stray = {"runt"}`): the tag's reaction is
  modelled and breaks `AcceptsOwnAnswer`; the run leaves them out, since nothing
  in the repository sends any.
- In the server: the distances, raw line and time stamp, which nothing decides
  on, process start, and a restart, which closes all connections. In the page:
  styling and canvas calls.
- In the driver: register values that only tune the analogue parts, GPIO and
  timer calls that no other call reads back, the declarations of
  `dw3000_device_api.h` and the register map, of which the models take the fields
  they use, and `dw3000_uart`.
- In the WebSockets library: parsing of HTTP headers, TLS, socket.io, the
  asynchronous variant, SHA-1 and base64. No firmware includes the library. Its
  examples each call `begin()` and `loop()` and print.
- The batch file that starts the dashboard.

## 7. Plan

Done: the core (`Hub`, `Tdma`, `Exchange`, `Server` with the first proofs), then
the abstract specifications and refinements, the page, the arithmetic, the
driver, the WebSockets library, the sketches, and proofs of all invariants. What is left:

1. A composition of `Tdma` and `Exchange`, so that the gap between polls is derived
   and not assumed; TLC has to be helped with one clock for both.
2. An abstract reception (a queue of frames) that `Radio` implements, with the
   refinement proved from the invariant of `RadioProofs`, and an abstract link for
   `WsLink`.
3. The safety part of what liveness rests on as theorems: that an initiator's wait, a
   page's queue and the wait of `dwt_isr` always have a step that ends them.
