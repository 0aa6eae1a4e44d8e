------------------------------ MODULE WsServer ------------------------------
(***************************************************************************)
(* What an application asks of the WebSockets server and client              *)
(* (WebSocketsServer.cpp, WebSocketsClient.cpp): messages to one or to all,  *)
(* counting, disconnecting; and what it is told of a message that arrives.   *)
(*                                                                           *)
(* c maps the number of a slot to its status.  up is the set of slots whose  *)
(* TCP connection is seen to be up, ok those that take a whole frame.  An    *)
(* operation returns its value, the slots a frame went to, the slots the     *)
(* application is told were disconnected, and the new statuses.              *)
(***************************************************************************)
EXTENDS Integers, FiniteSets

CONSTANT WEBSOCKETS_SERVER_CLIENT_MAX
Num == 0 .. (WEBSOCKETS_SERVER_CLIENT_MAX - 1)
Status == {"free", "header", "connected"}
Result(ret, sent, told, c) == [ret |-> ret, sent |-> sent, told |-> told, clients |-> c]

\* clientIsConnected counts a client that is still in its handshake, and frees a slot
\* whose connection is gone.
Connected(c, up, i) == c[i] # "free" /\ i \in up
Gone(c, up) == {i \in Num : c[i] # "free" /\ i \notin up}
Freed(c, slots) == [i \in Num |-> IF i \in slots THEN "free" ELSE c[i]]

\* sendFrame refuses a client that is in its handshake.
sendFrame(c, ok, i) == c[i] = "connected" /\ i \in ok

\* A text, a binary message or a ping to one slot.
Send(c, up, ok, num) ==
  LET told == Gone(c, up) \cap {num}
      sent == num \in Num /\ Connected(c, up, num) /\ sendFrame(c, ok, num)
  IN Result(sent, IF sent THEN {num} ELSE {}, told, Freed(c, told))

sendTXT(c, up, ok, num) == Send(c, up, ok, num)
sendBIN(c, up, ok, num) == Send(c, up, ok, num)
sendPing(c, up, ok, num) == Send(c, up, ok, num)

\* The same to all.
Broadcast(c, up, ok) ==
  LET asked == {i \in Num : Connected(c, up, i)}
      sent == {i \in asked : sendFrame(c, ok, i)}
  IN Result(sent = asked, sent, Gone(c, up), Freed(c, Gone(c, up)))

broadcastTXT(c, up, ok) == Broadcast(c, up, ok)
broadcastBIN(c, up, ok) == Broadcast(c, up, ok)
broadcastPing(c, up, ok) == Broadcast(c, up, ok)

\* Only with a ping is a connection looked at.
connectedClients(c, up, ok, ping) ==
  LET candidates == {i \in Num : c[i] = "connected"}
      pinged == {i \in candidates : Connected(c, up, i) /\ sendFrame(c, ok, i)}
      told == candidates \cap Gone(c, up)
  IN IF ping THEN Result(Cardinality(pinged), pinged, told, Freed(c, told))
     ELSE Result(Cardinality(candidates), {}, {}, c)

\* A close frame goes to those whose handshake is over.
Disconnect(c, up, ok, slots) ==
  LET left == {i \in slots \cap Num : c[i] # "free"}
  IN Result(TRUE, {i \in left : Connected(c, up, i) /\ sendFrame(c, ok, i)}, left, Freed(c, left))
disconnect(c, up, ok) == Disconnect(c, up, ok, Num)
\* Every slot is overwritten.
close(c, up, ok) == [disconnect(c, up, ok) EXCEPT !.clients = [i \in Num |-> "free"]]

\* The client has one connection, slot 0, and asks the same of it.
Client(c, up, ok) == Send(c, up, ok, 0)
isConnected(c) == c[0] = "connected"

----------------------------------------------------------------------------
(* What the application is told: the first and the last fragment of a        *)
(* message are told apart, its type only with the first.                     *)
Opcode == {"continuation", "text", "binary", "close", "ping", "pong"}
messageReceived(opcode, fin) ==
  CASE opcode = "text" -> IF fin THEN "TEXT" ELSE "FRAGMENT_TEXT_START"
    [] opcode = "binary" -> IF fin THEN "BIN" ELSE "FRAGMENT_BIN_START"
    [] opcode = "continuation" -> IF fin THEN "FRAGMENT_FIN" ELSE "FRAGMENT"
    [] opcode = "ping" -> "PING"
    [] opcode = "pong" -> "PONG"
    [] opcode = "close" -> "ERROR"
=============================================================================
