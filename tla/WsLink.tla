------------------------------ MODULE WsLink ------------------------------
(***************************************************************************)
(* The WebSockets library: one client (WebSocketsClient.cpp) that connects  *)
(* and reconnects to a server (WebSocketsServer.cpp) with a fixed number of *)
(* client slots, over TCP connections that can be cut without either end    *)
(* being told.  Handshake, close, and the ping/pong heartbeat of both ends  *)
(* (WebSockets.cpp); frames are whole, their bytes are WsFrame's.           *)
(*                                                                          *)
(* TCP is external: bytes arrive in order, connected() is false once the    *)
(* other end has closed and everything has been read, and a cut connection  *)
(* looks connected for ever and loses what is written.                      *)
(***************************************************************************)
EXTENDS Naturals, Sequences, FiniteSets

CONSTANTS
  Conn,         \* names of TCP connections, used again when both ends are done
  NoConn,       \* a null client pointer
  SLOTS,        \* WEBSOCKETS_SERVER_CLIENT_MAX
  PING, PONG,   \* pingInterval and pongTimeout, in ticks
  MISSES,       \* disconnectTimeoutCount
  WRAP,         \* pongTimeoutCount counts modulo WRAP (it is a uint8_t)
  MaxFaults     \* bound on cuts, refusals and disconnections asked for

\* With PONG >= PING every ping would reset the clock of the one before it,
\* and no pong would ever time out.
ASSUME WsLinkAssumption ==
  /\ NoConn \notin Conn
  /\ SLOTS \in Nat \ {0} /\ MISSES \in Nat \ {0} /\ MaxFaults \in Nat
  /\ PING \in Nat /\ PONG \in 0 .. PING - 1
  /\ WRAP \in Nat /\ WRAP > MISSES

Slot == 1 .. SLOTS
Late == PING + 1   \* ages beyond it are all alike

\* WSclient_t; age is millis() - lastPing, seen what the callback was told.
Peer == [status : {"none", "header", "connected"}, conn : Conn \cup {NoConn},
         age : 0 .. Late, pong : BOOLEAN, misses : 0 .. WRAP - 1, seen : BOOLEAN]
NewPeer == [status |-> "none", conn |-> NoConn, age |-> 0, pong |-> FALSE,
            misses |-> 0, seen |-> FALSE]

VARIABLES
  cli, srv,     \* the client's peer and the server's, by slot
  net,          \* the connections
  ran,          \* the loops run since the last tick: 0 the client's
  faults

vars == <<cli, srv, net, ran, faults>>

Message == {"upgrade", "101", "refused", "ping", "pong", "close"}
Free == [state |-> "free", up |-> <<>>, down |-> <<>>, cut |-> FALSE,
         cliEnd |-> FALSE, srvEnd |-> FALSE]

TypeOK ==
  /\ cli \in Peer /\ srv \in [Slot -> Peer]
  /\ net \in [Conn -> [state : {"free", "pending", "open"}, up : Seq(Message),
                       down : Seq(Message), cut : BOOLEAN, cliEnd : BOOLEAN,
                       srvEnd : BOOLEAN]]
  /\ ran \subseteq {0} \cup Slot /\ faults \in 0 .. MaxFaults

Init ==
  /\ cli = NewPeer /\ srv = [i \in Slot |-> NewPeer]
  /\ net = [k \in Conn |-> Free]
  /\ ran = {} /\ faults = 0

(***************************************************************************)
(* The library's common part, on a peer p.  A result has the peer after the *)
(* call and the frames it has sent.                                         *)
(***************************************************************************)
\* Fault: clientDisconnect without tcp = NULL.
DisconnectedKeepsTcp(p) == [p EXCEPT !.status = "none", !.seen = FALSE]

\* clientDisconnect of either end: the heartbeat's fields stay as they are.
Disconnected(p) == [p EXCEPT !.status = "none", !.conn = NoConn, !.seen = FALSE]

\* cCode in handleHeader.
Accepts(m) == m = "101"

\* handleHeader of the two ends and handleWebsocketPayloadCb; ok is what the
\* server makes of a request.  The server's first ping is not the heartbeat's.
Handled(p, m, ok) ==
  CASE m = "upgrade" /\ p.status = "header" /\ ok ->
         [p |-> [p EXCEPT !.status = "connected", !.seen = TRUE], out |-> <<"101", "ping">>]
    [] m = "upgrade" /\ p.status = "header" /\ ~ok ->
         [p |-> Disconnected(p), out |-> <<"refused">>]
    [] Accepts(m) /\ p.status = "header" ->
         [p |-> [p EXCEPT !.status = "connected", !.seen = TRUE], out |-> <<>>]
    [] m = "ping" /\ p.status = "connected" -> [p |-> p, out |-> <<"pong">>]
    [] m = "pong" /\ p.status = "connected" ->
         [p |-> [p EXCEPT !.pong = TRUE], out |-> <<>>]
    [] m = "close" /\ p.status = "connected" ->
         [p |-> Disconnected(p), out |-> <<"close">>]
    [] OTHER -> [p |-> Disconnected(p), out |-> <<>>]

\* Fault: sending a ping does not forget the pong of the one before.
HBPingKeepsPong(r) ==
  IF r.p.age > PING /\ r.p.status = "connected"
    THEN [p |-> [r.p EXCEPT !.age = 0], out |-> Append(r.out, "ping")]
    ELSE r

\* handleHBPing: only a connected peer can be sent one.
HBPing(r) ==
  IF r.p.age > PING /\ r.p.status = "connected"
    THEN [p |-> [r.p EXCEPT !.age = 0, !.pong = FALSE], out |-> Append(r.out, "ping")]
    ELSE r

\* handleHBTimeout; another ping is due on the next run.
Missed(p) == (p.misses + 1) % WRAP
HBTimeout(r) ==
  IF r.p.pong THEN [r EXCEPT !.p.misses = 0]
  ELSE IF r.p.age <= PONG THEN r
  ELSE LET q == [r.p EXCEPT !.misses = Missed(r.p), !.age = Late]
       IN [r EXCEPT !.p = IF Missed(r.p) >= MISSES THEN Disconnected(q) ELSE q]

(***************************************************************************)
(* TCP.                                                                     *)
(***************************************************************************)
CliUp(k) == net[k].cliEnd /\ (net[k].srvEnd \/ net[k].state = "pending" \/ net[k].cut
                               \/ net[k].down # <<>>)
SrvUp(k) == net[k].srvEnd /\ (net[k].cliEnd \/ net[k].cut \/ net[k].up # <<>>)

\* A connection that both ends have given up.
Settled(w) == IF w.cliEnd \/ w.srvEnd \/ w.state = "pending" THEN w ELSE Free

\* The client has read n messages of its connection, written out and perhaps
\* closed it; and the server.
CliUses(k, n, out, open) ==
  [net EXCEPT ![k] = Settled([net[k] EXCEPT
     !.down = SubSeq(@, n + 1, Len(@)), !.up = IF net[k].cut THEN @ ELSE @ \o out,
     !.cliEnd = open])]
SrvUses(w, k, n, out, open) ==
  [w EXCEPT ![k] = Settled([w[k] EXCEPT
     !.up = SubSeq(@, n + 1, Len(@)), !.down = IF net[k].cut THEN @ ELSE @ \o out,
     !.srvEnd = open])]

(***************************************************************************)
(* The client.                                                              *)
(***************************************************************************)

\* loop() without a connection: connect, connectedCb, sendHeader.  lastPing,
\* pongReceived and pongTimeoutCount are those of the last connection.
Connect ==
  /\ cli.conn = NoConn
  /\ \E k \in Conn :
       /\ net[k] = Free
       /\ net' = [net EXCEPT ![k] = [Free EXCEPT !.state = "pending", !.cliEnd = TRUE,
                                                 !.up = <<"upgrade">>]]
       /\ cli' = [cli EXCEPT !.status = "header", !.conn = k]
  /\ ran' = ran \cup {0}
  /\ UNCHANGED <<srv, faults>>

\* loop() with one: clientIsConnected, handleClientData, the heartbeat.
ClientData(k) ==
  IF net[k].down = <<>> THEN [p |-> cli, out |-> <<>>]
  ELSE Handled(cli, Head(net[k].down), TRUE)

HeartbeatC(r) == IF r.p.status = "connected" THEN HBTimeout(HBPing(r)) ELSE r

ClientLoop ==
  /\ cli.conn # NoConn
  /\ LET k == cli.conn
         r == ClientData(k)
         s == HeartbeatC(r)
         n == IF net[k].down = <<>> THEN 0 ELSE 1
     IN IF CliUp(k)
          THEN /\ cli' = s.p
               /\ net' = CliUses(k, n, s.out, s.p.conn = k)
          ELSE /\ cli' = Disconnected(cli)
               /\ net' = CliUses(k, 0, <<>>, FALSE)
  /\ ran' = ran \cup {0}
  /\ UNCHANGED <<srv, faults>>

\* loop() between two attempts, or with one that fails.
ConnectLater ==
  /\ cli.conn = NoConn /\ 0 \notin ran
  /\ ran' = ran \cup {0}
  /\ UNCHANGED <<cli, srv, net, faults>>

ClientLeaves(out) ==
  /\ cli' = Disconnected(cli)
  /\ net' = CliUses(cli.conn, 0, out, FALSE)
  /\ ran' = ran \cup {0}
  /\ UNCHANGED srv

\* No response to the request within WEBSOCKETS_TCP_TIMEOUT.
HeaderTimesOut ==
  /\ cli.status = "header" /\ net[cli.conn].cut
  /\ ClientLeaves(<<>>)
  /\ UNCHANGED faults

Fault == faults < MaxFaults /\ faults' = faults + 1

\* A ping cannot be written, or disconnect() is called.
ClientGivesUp ==
  /\ cli.status = "connected" /\ Fault
  /\ ClientLeaves(<<"close">>)

(***************************************************************************)
(* The server.                                                              *)
(***************************************************************************)
Live(i) == srv[i].conn # NoConn /\ SrvUp(srv[i].conn)

\* Fault: a slot whose connection is lost is taken without telling anybody.
LeftSlotForgotten(i) == srv[i]

\* clientIsConnected has its side effect on the slot newClient looks at.
LeftSlot(i) == Disconnected(srv[i])

\* handleNewClients: the first slot that is not connected, or none.
Accept ==
  \E k \in Conn :
    /\ net[k].state = "pending"
    /\ LET open == [net[k] EXCEPT !.state = "open", !.srvEnd = TRUE]
           idle == {i \in Slot : ~Live(i)}
       IN IF idle = {}
            THEN /\ net' = [net EXCEPT ![k] = Settled([open EXCEPT !.srvEnd = FALSE])]
                 /\ UNCHANGED srv
            ELSE LET i == CHOOSE j \in idle : \A l \in idle : j <= l
                     old == srv[i].conn
                 IN /\ srv' = [srv EXCEPT ![i] =
                         [LeftSlot(i) EXCEPT !.status = "header", !.conn = k, !.age = 0,
                                             !.pong = FALSE]]
                    /\ net' = (IF old = NoConn THEN [net EXCEPT ![k] = open]
                               ELSE SrvUses([net EXCEPT ![k] = open], old, 0, <<>>, FALSE))
    /\ UNCHANGED <<cli, ran, faults>>

\* handleClientData for one slot.  The heartbeat goes on after a disconnection
\* by the data just handled.
ServerLoop(i) ==
  /\ srv[i].conn # NoConn
  /\ \E ok \in BOOLEAN :
       LET k == srv[i].conn
           n == IF net[k].up = <<>> THEN 0 ELSE 1
           r == IF n = 0 THEN [p |-> srv[i], out |-> <<>>]
                ELSE Handled(srv[i], Head(net[k].up), ok)
           s == HBTimeout(HBPing(r))
       IN IF SrvUp(k)
            THEN /\ (IF ok THEN UNCHANGED faults
                     ELSE Fault /\ n = 1 /\ Head(net[k].up) = "upgrade")
                 /\ srv' = [srv EXCEPT ![i] = s.p]
                 /\ net' = SrvUses(net, k, n, s.out, s.p.conn = k)
            ELSE /\ ok
                 /\ srv' = [srv EXCEPT ![i] = Disconnected(@)]
                 /\ net' = SrvUses(net, k, 0, <<>>, FALSE)
                 /\ UNCHANGED faults
  /\ ran' = ran \cup {i}
  /\ UNCHANGED cli

\* disconnect(num)
ServerDisconnect(i) ==
  /\ Live(i) /\ Fault
  /\ srv' = [srv EXCEPT ![i] = Disconnected(@)]
  /\ net' = SrvUses(net, srv[i].conn, 0,
                    IF srv[i].status = "connected" THEN <<"close">> ELSE <<>>, FALSE)
  /\ UNCHANGED <<cli, ran>>

(***************************************************************************)
(* The network and the clock.                                               *)
(***************************************************************************)
Cut(k) ==
  /\ net[k].state = "open" /\ ~net[k].cut /\ Fault
  /\ net' = [net EXCEPT ![k] = [net[k] EXCEPT !.cut = TRUE, !.up = <<>>, !.down = <<>>]]
  /\ UNCHANGED <<cli, srv, ran>>

Older(p) == [p EXCEPT !.age = IF @ = Late THEN @ ELSE @ + 1]

\* Loops run far more often than a tick passes.
Tick ==
  /\ {0} \cup {i \in Slot : srv[i].conn # NoConn} \subseteq ran
  /\ cli' = Older(cli) /\ srv' = [i \in Slot |-> Older(srv[i])]
  /\ ran' = {}
  /\ UNCHANGED <<net, faults>>

----------------------------------------------------------------------------
Next ==
  \/ Connect \/ ConnectLater \/ ClientLoop \/ HeaderTimesOut \/ ClientGivesUp
  \/ Accept \/ \E i \in Slot : ServerLoop(i) \/ ServerDisconnect(i)
  \/ \E k \in Conn : Cut(k)
  \/ Tick

Spec == Init /\ [][Next]_vars

\* Both programs call loop() for ever, and time passes.
FairSpec ==
  /\ Spec
  /\ WF_vars(Connect) /\ WF_vars(ClientLoop) /\ WF_vars(HeaderTimesOut)
  /\ WF_vars(Accept) /\ \A i \in Slot : WF_vars(ServerLoop(i))
  /\ WF_vars(Tick)

----------------------------------------------------------------------------
(***************************************************************************)
(* Properties                                                               *)
(***************************************************************************)

\* The application knows its connections by CONNECTED and DISCONNECTED: at
\* either end it has been told of every one that is up, and of the end of
\* every one that is not, also of one whose slot was taken by the next.
ToldOfEveryChange ==
  \A p \in {cli} \cup {srv[i] : i \in Slot} : p.seen = (p.status = "connected")

\* WSclient_t.tcp: each end of a connection belongs to one client object, and it
\* is closed when that object lets go of it: no disconnection, refusal or slot
\* taken over leaks a socket or leaves two slots with the same one.
OneHolder ==
  \A k \in Conn :
    /\ net[k].cliEnd <=> cli.conn = k
    /\ net[k].srvEnd <=> \E i \in Slot : srv[i].conn = k
    /\ \A i, j \in Slot : srv[i].conn = k /\ srv[j].conn = k => i = j

\* enableHeartbeat: a connection that has gone dead is given up by both ends,
\* which nothing but the heartbeat can tell them.
DeadLinkNoticed ==
  []<>(\A k \in Conn : net[k].cut => cli.conn # k /\ \A i \in Slot : srv[i].conn # k)

\* WebSocketsClient::loop: when the network is good again the client is
\* connected again, and the slots its lost connections held are free for it.
ConnectsAgain == []<>(cli.status = "connected")
=============================================================================
