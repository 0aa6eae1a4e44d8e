-------------------------------- MODULE Page --------------------------------
(***************************************************************************)
(* The dashboard page (dashboard/index.html, lines 147-241): its connection *)
(* button, the handlers of every WebSocket it ever created, and the alarm   *)
(* sound.  The browser's side is external: a socket only delivers messages  *)
(* while it is open, close() leads to one close event later, an <audio>     *)
(* element given a new source stops, and play() of a file it cannot decode  *)
(* is rejected.  Drawing is left out.                                       *)
(***************************************************************************)
EXTENDS Naturals, FiniteSets

CONSTANTS
  Sock,      \* WebSocket objects that may exist at a time
  Room,      \* room profiles the server may announce
  File,      \* audio files the user may choose
  Playable,  \* those of them the browser can decode
  None       \* no socket, room, position or file yet

Pos == [outside : BOOLEAN, signal : BOOLEAN]

ASSUME FilesAssumption == Playable \subseteq File /\ None \notin File \cup Room \cup Sock \cup Pos

VARIABLES
  readyState,      \* of every socket
  ws,              \* the socket of line 151
  status,          \* the text of ws-status
  active,          \* the button reads "Disconnect"
  ROOM,            \* ROOM as the server announced it
  panel,           \* the last position handled: what alert bar and status show
  src,             \* audioEl.src
  isAlarmPlaying,
  sounding,        \* audioEl really plays
  tag,             \* what the server would send now
  cut              \* history: in this alert a new file cut the sound, or play() was refused

pageVars == <<readyState, ws, status, active, ROOM, panel, src, isAlarmPlaying,
              sounding, tag, cut>>

connection == <<readyState, ws, status, active>>
audio == <<src, isAlarmPlaying, sounding, cut>>

\* The alert bar is shown for these positions (line 199).
IsAlert(d) == d.outside \/ ~d.signal

PageInit ==
  /\ readyState = [s \in Sock |-> "closed"]
  /\ ws = None
  /\ status = "disconnected" /\ active = FALSE
  /\ ROOM = None /\ panel = None
  /\ src = None /\ isAlarmPlaying = FALSE /\ sounding = FALSE /\ cut = FALSE
  /\ tag \in Pos

(***************************************************************************)
(* The connection                                                           *)
(***************************************************************************)

InUse == ws # None /\ readyState[ws] \in {"connecting", "open"}

Close ==
  /\ InUse
  /\ readyState' = [readyState EXCEPT ![ws] = "closing"]
  /\ UNCHANGED <<ws, status, active>>

Open ==
  /\ ~InUse
  /\ \E s \in Sock :
       /\ readyState[s] = "closed"
       /\ readyState' = [readyState EXCEPT ![s] = "connecting"]
       /\ ws' = s
  /\ status' = "connecting"
  /\ UNCHANGED active

\* A bug: the test of readyState overlooks a connection still being made.
OpenInUse == ws # None /\ readyState[ws] = "open"
OpenAgain ==
  /\ ~OpenInUse
  /\ \E s \in Sock :
       /\ readyState[s] = "closed"
       /\ readyState' = [readyState EXCEPT ![s] = "connecting"]
       /\ ws' = s
  /\ status' = "connecting"
  /\ UNCHANGED active

toggleOverlooksConnecting == (Close \/ OpenAgain) /\ UNCHANGED <<ROOM, panel, audio, tag>>

toggleConnect == (Close \/ Open) /\ UNCHANGED <<ROOM, panel, audio, tag>>

onopen(s) ==
  /\ readyState[s] = "connecting"
  /\ readyState' = [readyState EXCEPT ![s] = "open"]
  /\ status' = "connected" /\ active' = TRUE
  /\ UNCHANGED <<ws, ROOM, panel, audio, tag>>

\* Whichever socket closes writes the status and the button, also one that
\* has been replaced.  An error is followed by the close event at once.
onclose(s) ==
  /\ readyState[s] \in {"connecting", "open", "closing"}
  /\ readyState' = [readyState EXCEPT ![s] = "closed"]
  /\ status' = "disconnected" /\ active' = FALSE
  /\ UNCHANGED <<ws, ROOM, panel, audio, tag>>

\* The server starts the closing handshake.
ServerCloses(s) ==
  /\ readyState[s] = "open"
  /\ readyState' = [readyState EXCEPT ![s] = "closing"]
  /\ UNCHANGED <<ws, status, active, ROOM, panel, audio, tag>>

(***************************************************************************)
(* Messages                                                                 *)
(***************************************************************************)

\* A bug: the flag is set although there was no file to play.
StartAlarmUnheard ==
  IF ~isAlarmPlaying
  THEN /\ isAlarmPlaying' = TRUE
       /\ sounding' = (src \in Playable)
       /\ cut' = (cut \/ src \in File \ Playable)
       /\ UNCHANGED src
  ELSE UNCHANGED audio

\* Line 207: the flag is set whether or not play() succeeds.
StartAlarm ==
  IF src # None /\ ~isAlarmPlaying
  THEN /\ isAlarmPlaying' = TRUE
       /\ sounding' = (src \in Playable)
       /\ cut' = (cut \/ src \notin Playable)
       /\ UNCHANGED src
  ELSE UNCHANGED audio

StopAlarm == isAlarmPlaying' = FALSE /\ sounding' = FALSE /\ cut' = FALSE /\ UNCHANGED src

handlePos(d) == IF IsAlert(d) THEN StartAlarm ELSE StopAlarm

PositionMessage(s) ==
  /\ readyState[s] = "open"
  /\ handlePos(tag)
  /\ panel' = tag
  /\ UNCHANGED <<connection, ROOM, tag>>

RoomMessage(s, r) ==
  /\ readyState[s] = "open"
  /\ ROOM' = r
  /\ UNCHANGED <<connection, panel, audio, tag>>

\* The change listener of the file input; the element stops if it was playing.
FileChosen(f) ==
  /\ src' = f
  /\ cut' = (cut \/ sounding)
  /\ sounding' = FALSE
  /\ UNCHANGED <<connection, ROOM, panel, isAlarmPlaying, tag>>

TagMoves(d) == tag' = d /\ UNCHANGED <<connection, ROOM, panel, audio>>

(***************************************************************************)

SocketEvent(s) ==
  \/ onopen(s)
  \/ onclose(s)
  \/ ServerCloses(s)
  \/ PositionMessage(s)
  \/ \E r \in Room : RoomMessage(s, r)

PageNext ==
  \/ toggleConnect
  \/ \E s \in Sock : SocketEvent(s)
  \/ \E f \in File : FileChosen(f)
  \/ \E d \in Pos : TagMoves(d)

\* The server broadcasts the position ten times a second to every open page
\* (server.py:158-198), and a closing handshake ends, answered or not.
Fairness ==
  \A s \in Sock : /\ WF_pageVars(PositionMessage(s))
                  /\ WF_pageVars(readyState[s] = "closing" /\ onclose(s))

PageSpec == PageInit /\ [][PageNext]_pageVars /\ Fairness

(***************************************************************************)
(* Properties                                                               *)
(***************************************************************************)

States == {"connecting", "open", "closing", "closed"}

\* Every variable keeps its type; the flag is raised, and the alarm heard, only
\* while the last position handled was an alert (lines 201-218).
PageTypeOK ==
  /\ readyState \in [Sock -> States]
  /\ ws \in Sock \cup {None}
  /\ status \in {"disconnected", "connecting", "connected"}
  /\ active \in BOOLEAN
  /\ ROOM \in Room \cup {None}
  /\ panel \in Pos \cup {None}
  /\ src \in File \cup {None}
  /\ isAlarmPlaying \in BOOLEAN /\ sounding \in BOOLEAN /\ cut \in BOOLEAN
  /\ isAlarmPlaying => panel # None /\ IsAlert(panel)
  /\ sounding => isAlarmPlaying /\ src \in Playable
  /\ tag \in Pos

\* toggleConnect and the handlers: however fast the user clicks, messages come
\* from one connection, the one the button closes (lines 156-158).
OneConnection ==
  \A s \in Sock : readyState[s] \in {"connecting", "open"} => s = ws

Live == ws # None /\ readyState[ws] = "open"

\* handlePos against the hint at line 110, "play continuously when the tag is out
\* of range".  play() is called once in an alert (line 207), so this holds only
\* of an alert in which it has not been called yet, or was called for a file the
\* browser can play and no other has been chosen since: such an alert is heard,
\* with a file chosen before it or during it.  What `cut` leaves out stays silent
\* against the hint: a second file that replaces the one playing, and a good one
\* chosen after one that was refused.  And the sound stops with the alert.
AlarmFollowsAlert ==
  /\ (Live /\ IsAlert(tag) /\ src \in Playable /\ ~cut)
       ~> (sounding \/ cut \/ ~Live \/ ~IsAlert(tag) \/ src \notin Playable)
  /\ (Live /\ ~IsAlert(tag) /\ sounding) ~> (~sounding \/ ~Live \/ IsAlert(tag))
=============================================================================
