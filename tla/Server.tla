------------------------------- MODULE Server -------------------------------
(***************************************************************************)
(* The dashboard server, dashboard/server.py: the thread that reads the     *)
(* Hub's serial lines, the data it shares under data_lock with the asyncio  *)
(* tasks, one handler per WebSocket connection, and the broadcast loop,     *)
(* which awaits every send and so stops for the slowest page.               *)
(*                                                                          *)
(* A task runs until it awaits: what lies between two awaits is one step.   *)
(* So is what one holds data_lock for.  The lines the Hub prints and the    *)
(* pages (index.html) are here as far as the server's promises need them.   *)
(***************************************************************************)
EXTENDS Naturals, Sequences

CONSTANTS
  Client,     \* WebSocket connections
  ROOMS,      \* room profiles, told apart by name
  QUEUE,      \* messages a connection buffers before send() waits
  MaxGen      \* bound: selections of a room that the Hub makes

NoClient == "none"

ASSUME ServerAssumption ==
  /\ ROOMS \in Nat \ {0} /\ QUEUE \in Nat \ {0, 1} /\ MaxGen \in Nat
  /\ NoClient \notin Client

\* The selections the Hub makes are numbered; the name of a room recurs.  Of
\* a position the message keeps what handlePos() in index.html makes of it: the
\* alert is shown for outside or no signal.
Gen == 0 .. MaxGen
Name(g) == g % ROOMS

Data == [signal : BOOLEAN, outside : BOOLEAN, pos : Gen]
RoomMsg(g) == [type |-> "room", room |-> g]
PosMsg(x) == [type |-> "position", alert |-> x.outside \/ ~x.signal, pos |-> x.pos]
Msg == {RoomMsg(g) : g \in Gen} \cup {PosMsg(x) : x \in Data}

VARIABLES
  hub,        \* the selection that the Hub's next lines are about
  running,    \* FALSE: the Hub prints nothing any more
  serial,     \* TRUE: the port is open
  room,       \* room_config, by selection
  data,       \* latest_data; pos stands for x, y, z by the room they were read in
  changed,    \* latest_data["room_changed"]
  open,       \* the connections that are open
  handler,    \* those whose ws_handler runs
  connected,  \* connected_clients
  queue,      \* sent and not yet received, per connection
  view,       \* what the page shows of what it received on the connection
  snap,       \* the messages the broadcast loop has to send; empty while it sleeps
  todo,       \* the connections its current message has yet to go to
  waiting,    \* the connection whose send the loop awaits
  dead

hubVars == <<hub, running>>
sharedVars == <<serial, room, data>>
clientVars == <<open, handler, connected>>
loopVars == <<snap, todo, waiting, dead>>
vars == <<hubVars, sharedVars, changed, clientVars, queue, view, loopVars>>

TypeOK ==
  /\ hub \in Gen /\ running \in BOOLEAN
  /\ serial \in BOOLEAN /\ room \in Gen
  /\ data \in Data /\ changed \in BOOLEAN
  /\ open \subseteq Client /\ handler \subseteq Client /\ connected \subseteq Client
  /\ queue \in [Client -> Seq(Msg)] /\ \A c \in Client : Len(queue[c]) <= QUEUE
  /\ view \in [Client -> [room : Gen, alert : BOOLEAN, pos : Gen]]
  /\ snap \in Seq(Msg) /\ Len(snap) <= 2
  /\ todo \subseteq Client /\ dead \subseteq Client
  /\ waiting \in Client \cup {NoClient}

Blank == [room |-> 0, alert |-> FALSE, pos |-> 0]
NoData == [signal |-> FALSE, outside |-> FALSE, pos |-> 0]

\* Selection 0 is the profile that room_config and index.html start with; the
\* Hub may be on any.
Init ==
  /\ hub \in Gen /\ hub < ROOMS /\ running = TRUE
  /\ serial = FALSE /\ room = 0
  /\ data = NoData /\ changed = FALSE
  /\ open = {} /\ handler = {} /\ connected = {}
  /\ queue = [c \in Client |-> <<>>]
  /\ view = [c \in Client |-> Blank]
  /\ snap = <<>> /\ todo = {} /\ waiting = NoClient /\ dead = {}

(***************************************************************************)
(* The Hub, as its lines show it.                                           *)
(***************************************************************************)
HubStops ==
  /\ running' = FALSE
  /\ UNCHANGED <<hub, sharedVars, changed, clientVars, queue, view, loopVars>>

\* The line that announces a selection is garbled, or the port is not open.
PressUnheard ==
  /\ running /\ hub < MaxGen
  /\ hub' = hub + 1
  /\ UNCHANGED <<running, sharedVars, changed, clientVars, queue, view, loopVars>>

(***************************************************************************)
(* The serial thread: parse_line for each kind of line.                     *)
(***************************************************************************)
Reading == running /\ serial

ParseRoom(g) ==
  /\ IF Name(g) # Name(room)
       THEN room' = g /\ changed' = TRUE
       ELSE UNCHANGED <<room, changed>>
  /\ UNCHANGED <<serial, data>>

\* The Hub repeats its profile in every cycle.
ReadRoom ==
  /\ Reading
  /\ ParseRoom(hub)
  /\ UNCHANGED <<hubVars, clientVars, queue, view, loopVars>>

ReadPress ==
  /\ Reading /\ hub < MaxGen
  /\ hub' = hub + 1
  /\ ParseRoom(hub + 1)
  /\ UNCHANGED <<running, clientVars, queue, view, loopVars>>

ReadPosition ==
  /\ Reading
  /\ \E out \in BOOLEAN :
       data' = [signal |-> TRUE, outside |-> out, pos |-> room]
  /\ UNCHANGED <<hubVars, serial, room, changed, clientVars, queue, view, loopVars>>

ReadWaiting ==
  /\ Reading
  /\ data' = [data EXCEPT !.signal = FALSE, !.outside = FALSE]
  /\ UNCHANGED <<hubVars, serial, room, changed, clientVars, queue, view, loopVars>>

\* SerialException, on opening the port as well: only signal is reset.
SerialFails ==
  /\ serial' = FALSE
  /\ data' = [data EXCEPT !.signal = FALSE]
  /\ UNCHANGED <<hubVars, room, changed, clientVars, queue, view, loopVars>>

SerialOpens ==
  /\ ~serial
  /\ serial' = TRUE
  /\ UNCHANGED <<hubVars, room, data, changed, clientVars, queue, view, loopVars>>

(***************************************************************************)
(* Connections.  ws_handler adds itself, takes the profile and sends it     *)
(* without an await in between, then waits for the end of the connection.   *)
(***************************************************************************)
Connect(c) ==
  /\ c \notin open \cup handler \cup connected \cup todo \cup dead \cup {waiting}
  /\ open' = open \cup {c}
  /\ handler' = handler \cup {c}
  /\ connected' = connected \cup {c}
  /\ queue' = [queue EXCEPT ![c] = <<RoomMsg(room)>>]
  /\ UNCHANGED <<hubVars, sharedVars, changed, view, loopVars>>

\* The page goes away or is given up by the keepalive.
Disconnect(c) ==
  /\ c \in open
  /\ open' = open \ {c}
  /\ queue' = [queue EXCEPT ![c] = <<>>]
  /\ view' = [view EXCEPT ![c] = Blank]
  /\ UNCHANGED <<hubVars, sharedVars, changed, handler, connected, loopVars>>

HandlerEnds(c) ==
  /\ c \in handler \ open
  /\ handler' = handler \ {c}
  /\ connected' = connected \ {c}
  /\ UNCHANGED <<hubVars, sharedVars, changed, open, queue, view, loopVars>>

\* onmessage in index.html.
Receive(c) ==
  /\ queue[c] # <<>>
  /\ LET m == Head(queue[c]) IN
       view' = [view EXCEPT ![c] =
                  IF m.type = "room" THEN [@ EXCEPT !.room = m.room]
                  ELSE [@ EXCEPT !.alert = m.alert, !.pos = m.pos]]
  /\ queue' = [queue EXCEPT ![c] = Tail(@)]
  /\ UNCHANGED <<hubVars, sharedVars, changed, clientVars, loopVars>>

(***************************************************************************)
(* The broadcast loop: rounds of one list of messages, each sent to all.    *)
(***************************************************************************)
RoomNews == IF changed THEN <<RoomMsg(room)>> ELSE <<>>

\* Fault: the data is sent ahead of the profile.
TakeSnapshotDataFirst ==
  /\ snap = <<>> /\ connected # {}
  /\ snap' = <<PosMsg(data)>> \o RoomNews
  /\ changed' = FALSE
  /\ todo' = connected
  /\ UNCHANGED <<hubVars, sharedVars, clientVars, queue, view, waiting, dead>>

TakeSnapshot ==
  /\ snap = <<>> /\ connected # {}
  /\ snap' = RoomNews \o <<PosMsg(data)>>
  /\ changed' = FALSE
  /\ todo' = connected
  /\ UNCHANGED <<hubVars, sharedVars, clientVars, queue, view, waiting, dead>>

Send ==
  /\ waiting = NoClient
  /\ \E c \in todo \cap open :
       /\ queue' = [queue EXCEPT ![c] = Append(@, Head(snap))]
       /\ todo' = todo \ {c} /\ waiting' = c
  /\ UNCHANGED <<hubVars, sharedVars, changed, clientVars, view, snap, dead>>

\* Fault: send is not awaited.
SendReturnsAtOnce ==
  /\ waiting \in open
  /\ waiting' = NoClient
  /\ UNCHANGED <<hubVars, sharedVars, changed, clientVars, queue, view, snap, todo, dead>>

SendReturns ==
  /\ waiting \in open /\ Len(queue[waiting]) < QUEUE
  /\ waiting' = NoClient
  /\ UNCHANGED <<hubVars, sharedVars, changed, clientVars, queue, view, snap, todo, dead>>

\* Fault: a connection that closes while its send waits is not noticed.
SendRaisesAtCall ==
  /\ waiting = NoClient
  /\ \E c \in todo \ open : dead' = dead \cup {c} /\ todo' = todo \ {c}
  /\ UNCHANGED <<hubVars, sharedVars, changed, clientVars, queue, view, snap, waiting>>

\* The connection is closed, before the send or while it waits.
SendRaises ==
  /\ \E c \in IF waiting = NoClient THEN todo \ open ELSE {waiting} \ open :
       dead' = dead \cup {c} /\ todo' = todo \ {c}
  /\ waiting' = NoClient
  /\ UNCHANGED <<hubVars, sharedVars, changed, clientVars, queue, view, snap>>

\* Fault: room_changed is cleared after the sends.
RoundEndsClearing ==
  /\ snap # <<>> /\ todo = {} /\ waiting = NoClient
  /\ connected' = connected \ dead
  /\ dead' = {} /\ changed' = FALSE
  /\ snap' = Tail(snap)
  /\ todo' = IF Tail(snap) = <<>> THEN {} ELSE connected'
  /\ UNCHANGED <<hubVars, sharedVars, open, handler, queue, view, waiting>>

RoundEnds ==
  /\ snap # <<>> /\ todo = {} /\ waiting = NoClient
  /\ connected' = connected \ dead
  /\ dead' = {}
  /\ snap' = Tail(snap)
  /\ todo' = IF Tail(snap) = <<>> THEN {} ELSE connected'
  /\ UNCHANGED <<hubVars, sharedVars, changed, open, handler, queue, view, waiting>>

----------------------------------------------------------------------------
BroadcastStep == TakeSnapshot \/ Send \/ SendReturns \/ SendRaises \/ RoundEnds

Next ==
  \/ HubStops \/ PressUnheard
  \/ ReadRoom \/ ReadPress \/ ReadPosition \/ ReadWaiting
  \/ SerialFails \/ SerialOpens
  \/ \E c \in Client : Connect(c) \/ Disconnect(c) \/ HandlerEnds(c) \/ Receive(c)
  \/ BroadcastStep

Spec == Init /\ [][Next]_vars

\* The event loop runs every task, the Hub repeats its profile while it runs
\* and the port is open, and a page reads or is given up by the keepalive.
FairSpec ==
  /\ Spec
  /\ WF_vars(BroadcastStep) /\ WF_vars(ReadRoom)
  /\ \A c \in Client :
       /\ WF_vars(HandlerEnds(c))
       /\ WF_vars(queue[c] # <<>> /\ (Receive(c) \/ Disconnect(c)))

----------------------------------------------------------------------------
(***************************************************************************)
(* Properties                                                               *)
(***************************************************************************)

\* server.py:163-197: a page never shows a position together with a room older
\* than the one the server had when it read that position: the room travels
\* ahead of the data, to pages that connect amid a broadcast as well.
PositionNotAheadOfRoom ==
  \A c \in Client : \/ view[c].pos <= view[c].room
                    \/ Name(view[c].pos) = Name(view[c].room)

\* server.py:165-188, HUBFinal.ino:295: a page that stays connected ends up
\* with the Hub's room, however late it or the server came and whatever lines
\* were lost, though room_changed is cleared before the sends.
RoomConverges ==
  \A c \in Client :
    (<>[](c \in open /\ Reading)) => <>[](Name(view[c].room) = Name(hub))

\* server.py:192-197: what latest_data says for good about an alert, every page
\* that stays connected comes to show, whichever other pages hang or leave.
AlertConverges ==
  \A c \in Client, a \in BOOLEAN :
    (<>[](c \in open /\ PosMsg(data).alert = a)) => <>[](view[c].alert = a)
=============================================================================
