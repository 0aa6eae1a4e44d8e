---------------------------- MODULE ServerProofs ----------------------------
(***************************************************************************)
(* The server never lets a page show a position with a room older than the  *)
(* one it was read in, for any number of pages, rooms and messages buffered;  *)
(* and a page has one connection at a time, however it is clicked.            *)
(***************************************************************************)
EXTENDS Server, Page, SequenceTheorems, TLAPS

(***************************************************************************)
(* A page's view v and the messages q on their way to it.                   *)
(***************************************************************************)
View == [room : Gen, alert : BOOLEAN, pos : Gen]
IsRoom(m) == m.type = "room"

\* No room of the page is newer than r, now or when it has read its messages.
RoomsUpTo(v, q, r) ==
  /\ v.room <= r
  /\ \A i \in DOMAIN q : IsRoom(q[i]) => q[i].room <= r

\* Having read the messages before i, the page has room g or a newer one.
KnownAt(v, q, g, i) ==
  \/ g <= v.room
  \/ \E j \in 1 .. i - 1 : IsRoom(q[j]) /\ g <= q[j].room
Known(v, q, g) == KnownAt(v, q, g, Len(q) + 1)

\* Rooms come in order, and each position after its room.
Sound(v, q) ==
  /\ v.pos <= v.room
  /\ \A i \in DOMAIN q : IsRoom(q[i]) => v.room <= q[i].room
  /\ \A i, j \in DOMAIN q : i < j /\ IsRoom(q[i]) /\ IsRoom(q[j]) => q[i].room <= q[j].room
  /\ \A i \in DOMAIN q : ~IsRoom(q[i]) => KnownAt(v, q, q[i].pos, i)

(***************************************************************************)
(* The inductive invariant.                                                 *)
(***************************************************************************)
DataInOrder == data.pos <= room /\ room <= hub

\* What the loop has to send: a position, or a room and a position in it.
SnapShape ==
  \/ snap = <<>> /\ todo = {}
  \/ Len(snap) = 1 /\ ~IsRoom(snap[1]) /\ snap[1].pos <= room
  \/ /\ Len(snap) = 2 /\ IsRoom(snap[1]) /\ ~IsRoom(snap[2])
     /\ snap[2].pos <= snap[1].room /\ snap[1].room <= room

Buffered(c) == Len(queue[c]) < QUEUE \/ (c = waiting /\ Len(queue[c]) <= QUEUE)
ClosedIsBlank(c) == c \notin open => queue[c] = <<>> /\ view[c] = Blank
InOrder(c) == Sound(view[c], queue[c]) /\ RoomsUpTo(view[c], queue[c], room)

Joined == connected \cap open
KnownTo(c, g) == Known(view[c], queue[c], g)
\* Who is to get a position has its room ...
PositionIsKnown(c) ==
  Len(snap) = 1 /\ c \in todo \cap open => KnownTo(c, snap[1].pos)
\* ... because the round before brought the room to all that had not connected since.
RoomRound(c) ==
  Len(snap) = 2 => /\ c \in Joined \ todo => KnownTo(c, snap[1].room)
                   /\ c \in todo \cap open => RoomsUpTo(view[c], queue[c], snap[1].room)
\* While room_changed is off a page has the room or is about to be sent it.
NothingNew(c) ==
  ~changed /\ c \in Joined =>
    KnownTo(c, room) \/ (c \in todo /\ Len(snap) = 2 /\ snap[1].room = room)

PageOK(c) ==
  /\ Buffered(c) /\ ClosedIsBlank(c) /\ InOrder(c)
  /\ PositionIsKnown(c) /\ RoomRound(c) /\ NothingNew(c)

IInv == TypeOK /\ DataInOrder /\ SnapShape /\ \A c \in Client : PageOK(c)

----------------------------------------------------------------------------
(* Messages, and what appending and reading one does. *)

LEMMA GenNat == Gen \subseteq Nat /\ 0 \in Gen /\ \A g \in Gen : g <= MaxGen
BY ServerAssumption DEF Gen, ServerAssumption

LEMMA QueueNat == QUEUE \in Nat /\ 0 < QUEUE /\ 1 < QUEUE /\ 0 <= QUEUE /\ 1 <= QUEUE
<1>1. QUEUE \in Nat /\ QUEUE # 0 /\ QUEUE # 1
  BY ServerAssumption DEF ServerAssumption
<1> QED
  BY <1>1

LEMMA RoomMsgIs ==
  ASSUME NEW g \in Gen
  PROVE  RoomMsg(g) \in Msg /\ IsRoom(RoomMsg(g)) /\ RoomMsg(g).room = g
BY DEF RoomMsg, Msg, IsRoom

LEMMA PosMsgIs ==
  ASSUME NEW x \in Data
  PROVE  /\ PosMsg(x) \in Msg /\ ~IsRoom(PosMsg(x)) /\ PosMsg(x).pos = x.pos
         /\ PosMsg(x).alert \in BOOLEAN /\ x.pos \in Gen
BY DEF PosMsg, Msg, IsRoom, Data

LEMMA MessageShape ==
  ASSUME NEW m \in Msg
  PROVE  IF IsRoom(m) THEN m.room \in Gen ELSE m.pos \in Gen /\ m.alert \in BOOLEAN
<1>1. CASE \E g \in Gen : m = RoomMsg(g)
  BY <1>1, RoomMsgIs
<1>2. CASE \E x \in Data : m = PosMsg(x)
  BY <1>2, PosMsgIs
<1> QED
  BY <1>1, <1>2 DEF Msg

LEMMA KnownOlder ==
  ASSUME NEW v \in View, NEW q \in Seq(Msg), NEW g \in Gen, NEW h \in Gen,
         g <= h, Known(v, q, h)
  PROVE  Known(v, q, g)
<1>1. \A j \in 1 .. Len(q) : IsRoom(q[j]) => q[j].room \in Nat
  BY ElementOfSeq, MessageShape, GenNat
<1>2. v.room \in Nat /\ g \in Nat /\ h \in Nat
  BY GenNat DEF View
<1> QED
  BY <1>1, <1>2 DEF Known, KnownAt

LEMMA KnownStays ==
  ASSUME NEW v \in View, NEW q \in Seq(Msg), NEW m \in Msg, NEW g \in Gen, Known(v, q, g)
  PROVE  Known(v, Append(q, m), g)
<1>1. CASE g <= v.room
  BY <1>1 DEF Known, KnownAt
<1>2. CASE \E j \in 1 .. Len(q) : IsRoom(q[j]) /\ g <= q[j].room
  <2>1. PICK j \in 1 .. Len(q) : IsRoom(q[j]) /\ g <= q[j].room
    BY <1>2
  <2>2. Append(q, m)[j] = q[j] /\ j \in 1 .. Len(Append(q, m))
    BY AppendProperties
  <2> QED
    BY <2>1, <2>2 DEF Known, KnownAt
<1> QED
  BY <1>1, <1>2 DEF Known, KnownAt

\* What is known before message i is known before it still.
LEMMA KnownBefore ==
  ASSUME NEW v \in View, NEW q \in Seq(Msg), NEW m \in Msg, NEW i \in 1 .. Len(q), NEW g \in Gen
  PROVE  KnownAt(v, Append(q, m), g, i) <=> KnownAt(v, q, g, i)
<1>1. \A j \in 1 .. i - 1 : Append(q, m)[j] = q[j]
  BY AppendProperties
<1> QED
  BY <1>1 DEF KnownAt

LEMMA KnownByAll ==
  ASSUME NEW v \in View, NEW q \in Seq(Msg), NEW m \in Msg, NEW g \in Gen
  PROVE  KnownAt(v, Append(q, m), g, Len(q) + 1) <=> Known(v, q, g)
<1>1. \A j \in 1 .. Len(q) : Append(q, m)[j] = q[j]
  BY AppendProperties
<1> QED
  BY <1>1 DEF KnownAt, Known

\* A room no older than all before it is appended.
LEMMA RoomAppended ==
  ASSUME NEW v \in View, NEW q \in Seq(Msg), NEW m \in Msg, IsRoom(m),
         Sound(v, q), RoomsUpTo(v, q, m.room)
  PROVE  LET a == Append(q, m)
         IN Sound(v, a) /\ RoomsUpTo(v, a, m.room) /\ Known(v, a, m.room)
<1> DEFINE a == Append(q, m)
           r == m.room
<1>1. /\ a \in Seq(Msg) /\ Len(a) = Len(q) + 1 /\ a[Len(q) + 1] = m
      /\ \A i \in 1 .. Len(q) : a[i] = q[i]
  BY AppendProperties
<1>2. DOMAIN a = 1 .. Len(q) + 1 /\ DOMAIN q = 1 .. Len(q) /\ Len(q) \in Nat
  BY <1>1
<1>3. IsRoom(a[Len(q) + 1]) /\ a[Len(q) + 1].room = r /\ r \in Nat /\ v.room \in Nat
  BY <1>1, MessageShape, GenNat DEF View
<1> HIDE DEF a, r
<1>4. RoomsUpTo(v, a, r)
  BY <1>1, <1>2, <1>3 DEF RoomsUpTo
<1>5. Known(v, a, r)
  BY <1>1, <1>2, <1>3 DEF Known, KnownAt
<1>6. ASSUME NEW i \in DOMAIN a, NEW j \in DOMAIN a, i < j, IsRoom(a[i]), IsRoom(a[j])
      PROVE  a[i].room <= a[j].room
  <2>1. i \in 1 .. Len(q) /\ (j \in 1 .. Len(q) \/ j = Len(q) + 1)
    BY <1>2, <1>6
  <2> QED
    BY <1>1, <1>2, <1>3, <1>6, <2>1 DEF Sound, RoomsUpTo
<1>7. ASSUME NEW i \in DOMAIN a, ~IsRoom(a[i])
      PROVE  KnownAt(v, a, a[i].pos, i)
  <2>1. i \in 1 .. Len(q) /\ a[i] = q[i] /\ q[i] \in Msg
    BY <1>1, <1>2, <1>3, <1>7, ElementOfSeq
  <2>2. q[i].pos \in Gen
    BY <1>7, <2>1, MessageShape
  <2> QED
    BY <1>2, <1>7, <2>1, <2>2, KnownBefore DEF Sound, a
<1>8. \A i \in DOMAIN a : IsRoom(a[i]) => v.room <= a[i].room
  BY <1>1, <1>2, <1>3 DEF Sound, RoomsUpTo
<1> QED
  BY <1>4, <1>5, <1>6, <1>7, <1>8 DEF Sound, a, r

\* A position is appended whose room is known.
LEMMA PositionAppended ==
  ASSUME NEW v \in View, NEW q \in Seq(Msg), NEW m \in Msg, ~IsRoom(m), NEW r,
         Sound(v, q), RoomsUpTo(v, q, r), Known(v, q, m.pos)
  PROVE  LET a == Append(q, m) IN Sound(v, a) /\ RoomsUpTo(v, a, r)
<1> DEFINE a == Append(q, m)
<1>1. /\ a \in Seq(Msg) /\ Len(a) = Len(q) + 1 /\ a[Len(q) + 1] = m
      /\ \A i \in 1 .. Len(q) : a[i] = q[i]
  BY AppendProperties
<1>2. DOMAIN a = 1 .. Len(q) + 1 /\ DOMAIN q = 1 .. Len(q) /\ Len(q) \in Nat
  BY <1>1
<1>3. ~IsRoom(a[Len(q) + 1]) /\ a[Len(q) + 1].pos = m.pos /\ m.pos \in Gen
  BY <1>1, MessageShape
<1>4. KnownAt(v, a, m.pos, Len(q) + 1)
  BY <1>3, KnownByAll
<1> HIDE DEF a
<1>5. RoomsUpTo(v, a, r)
  BY <1>1, <1>2, <1>3 DEF RoomsUpTo
<1>6. ASSUME NEW i \in DOMAIN a, NEW j \in DOMAIN a, i < j, IsRoom(a[i]), IsRoom(a[j])
      PROVE  a[i].room <= a[j].room
  BY <1>1, <1>2, <1>3, <1>6 DEF Sound
<1>7. ASSUME NEW i \in DOMAIN a, ~IsRoom(a[i])
      PROVE  KnownAt(v, a, a[i].pos, i)
  <2>1. CASE i = Len(q) + 1
    BY <1>3, <1>4, <2>1
  <2>2. CASE i \in 1 .. Len(q)
    <3>1. a[i] = q[i] /\ q[i] \in Msg
      BY <1>1, <2>2, ElementOfSeq
    <3>2. q[i].pos \in Gen
      BY <1>7, <3>1, MessageShape
    <3> QED
      BY <1>2, <1>7, <2>2, <3>1, <3>2, KnownBefore DEF Sound, a
  <2> QED
    BY <1>2, <2>1, <2>2
<1>8. \A i \in DOMAIN a : IsRoom(a[i]) => v.room <= a[i].room
  BY <1>1, <1>2, <1>3 DEF Sound
<1> QED
  BY <1>5, <1>6, <1>7, <1>8 DEF Sound, a

\* What the page shows after a message, as in Receive.
Shown(v, m) ==
  IF m.type = "room" THEN [v EXCEPT !.room = m.room]
  ELSE [v EXCEPT !.alert = m.alert, !.pos = m.pos]

LEMMA ShownIsView ==
  ASSUME NEW v \in View, NEW m \in Msg
  PROVE  /\ Shown(v, m) \in View
         /\ IsRoom(m) => Shown(v, m).room = m.room /\ Shown(v, m).pos = v.pos
         /\ ~IsRoom(m) => Shown(v, m).room = v.room /\ Shown(v, m).pos = m.pos
BY MessageShape DEF Shown, View, IsRoom

\* The page reads its next message.
LEMMA MessageRead ==
  ASSUME NEW v \in View, NEW q \in Seq(Msg), q # <<>>, Sound(v, q)
  PROVE  LET w == Shown(v, Head(q))
             t == Tail(q)
         IN /\ w \in View /\ t \in Seq(Msg) /\ Len(t) < Len(q)
            /\ Sound(w, t)
            /\ \A r \in Gen : RoomsUpTo(v, q, r) => RoomsUpTo(w, t, r)
            /\ \A g \in Gen : Known(v, q, g) => Known(w, t, g)
<1> DEFINE w == Shown(v, Head(q))
           t == Tail(q)
<1>1. /\ t \in Seq(Msg) /\ Len(t) = Len(q) - 1 /\ Len(q) \in Nat \ {0}
      /\ \A i \in 1 .. Len(t) : t[i] = q[i + 1]
      /\ q[1] = Head(q) /\ q[1] \in Msg
  BY HeadTailProperties, ElementOfSeq
<1>2. /\ w \in View
      /\ IsRoom(q[1]) => w.room = q[1].room /\ w.pos = v.pos
      /\ ~IsRoom(q[1]) => w.room = v.room /\ w.pos = q[1].pos
  BY <1>1, ShownIsView
<1>3. DOMAIN t = 1 .. Len(t) /\ DOMAIN q = 1 .. Len(q)
  BY <1>1
<1> HIDE DEF w, t
<1>4. /\ v.room \in Nat /\ w.room \in Nat /\ v.pos \in Nat /\ w.pos \in Nat
      /\ v.room <= w.room
      /\ \A i \in 1 .. Len(q) : /\ IsRoom(q[i]) => q[i].room \in Nat
                                /\ ~IsRoom(q[i]) => q[i].pos \in Gen /\ q[i].pos \in Nat
  <2>1. \A i \in 1 .. Len(q) : q[i] \in Msg
    BY ElementOfSeq
  <2>2. \A i \in 1 .. Len(q) : /\ IsRoom(q[i]) => q[i].room \in Nat
                               /\ ~IsRoom(q[i]) => q[i].pos \in Gen /\ q[i].pos \in Nat
    BY <2>1, MessageShape, GenNat
  <2>3. v.room \in Nat /\ w.room \in Nat /\ v.pos \in Nat /\ w.pos \in Nat
    BY <1>2, GenNat DEF View
  <2> QED
    BY <1>1, <1>2, <1>3, <2>2, <2>3 DEF Sound
<1>5. ASSUME NEW g \in Nat, NEW i \in 2 .. Len(q) + 1, KnownAt(v, q, g, i)
      PROVE  KnownAt(w, t, g, i - 1)
  <2>1. CASE g <= v.room
    BY <1>4, <2>1 DEF KnownAt
  <2>2. CASE IsRoom(q[1]) /\ g <= q[1].room
    BY <1>2, <2>2 DEF KnownAt
  <2>3. CASE \E j \in 2 .. i - 1 : IsRoom(q[j]) /\ g <= q[j].room
    <3>1. PICK j \in 2 .. i - 1 : IsRoom(q[j]) /\ g <= q[j].room
      BY <2>3
    <3>2. j - 1 \in 1 .. i - 1 - 1 /\ t[j - 1] = q[j]
      BY <1>1, <3>1
    <3> QED
      BY <3>1, <3>2 DEF KnownAt
  <2> QED
    BY <1>5, <2>1, <2>2, <2>3 DEF KnownAt
<1>6. \A g \in Gen : Known(v, q, g) => Known(w, t, g)
  <2> SUFFICES ASSUME NEW g \in Gen, KnownAt(v, q, g, Len(q) + 1)
               PROVE  KnownAt(w, t, g, Len(t) + 1)
    BY DEF Known
  <2>1. g \in Nat /\ Len(q) + 1 \in 2 .. Len(q) + 1 /\ Len(t) + 1 = Len(q) + 1 - 1
    BY <1>1, GenNat
  <2>2. KnownAt(w, t, g, Len(q) + 1 - 1)
    BY <1>5, <2>1
  <2> QED
    BY <2>1, <2>2
<1>7. \A r \in Gen : RoomsUpTo(v, q, r) => RoomsUpTo(w, t, r)
  <2> SUFFICES ASSUME NEW r \in Gen, RoomsUpTo(v, q, r)
               PROVE  RoomsUpTo(w, t, r)
    OBVIOUS
  <2>1. 1 \in DOMAIN q
    BY <1>1, <1>3
  <2>2. w.room <= r
    BY <1>2, <2>1 DEF RoomsUpTo
  <2>3. ASSUME NEW i \in DOMAIN t, IsRoom(t[i])
        PROVE  t[i].room <= r
    <3>1. t[i] = q[i + 1] /\ i + 1 \in DOMAIN q
      BY <1>1, <1>3
    <3> QED
      BY <2>3, <3>1 DEF RoomsUpTo
  <2> QED
    BY <2>2, <2>3 DEF RoomsUpTo
<1>8. Sound(w, t)
  <2>1. w.pos <= w.room
    <3>1. CASE IsRoom(q[1])
      BY <1>2, <1>4, <3>1 DEF Sound
    <3>2. CASE ~IsRoom(q[1])
      <4>1. KnownAt(v, q, q[1].pos, 1)
        BY <1>1, <1>3, <3>2 DEF Sound
      <4> QED
        BY <1>2, <3>2, <4>1 DEF KnownAt
    <3> QED
      BY <3>1, <3>2
  <2>2. ASSUME NEW i \in DOMAIN t, IsRoom(t[i])
        PROVE  w.room <= t[i].room
    <3>1. t[i] = q[i + 1] /\ i + 1 \in DOMAIN q /\ 1 \in DOMAIN q /\ 1 < i + 1
      BY <1>1, <1>3
    <3> QED
      BY <1>2, <2>2, <3>1 DEF Sound
  <2>3. ASSUME NEW i \in DOMAIN t, NEW j \in DOMAIN t, i < j, IsRoom(t[i]), IsRoom(t[j])
        PROVE  t[i].room <= t[j].room
    <3>1. /\ t[i] = q[i + 1] /\ i + 1 \in DOMAIN q
          /\ t[j] = q[j + 1] /\ j + 1 \in DOMAIN q /\ i + 1 < j + 1
      BY <1>1, <1>3, <2>3
    <3> QED
      BY <2>3, <3>1 DEF Sound
  <2>4. ASSUME NEW i \in DOMAIN t, ~IsRoom(t[i])
        PROVE  KnownAt(w, t, t[i].pos, i)
    <3>1. t[i] = q[i + 1] /\ i + 1 \in 2 .. Len(q) /\ i + 1 - 1 = i
      BY <1>1, <1>3
    <3>2. KnownAt(v, q, q[i + 1].pos, i + 1) /\ q[i + 1].pos \in Nat
      BY <1>3, <1>4, <2>4, <3>1 DEF Sound
    <3> DEFINE n == i + 1
               g == q[n].pos
    <3>3. g \in Nat /\ n \in 2 .. Len(q) + 1 /\ KnownAt(v, q, g, n) /\ t[i].pos = g /\ n - 1 = i
      BY <1>1, <3>1, <3>2
    <3> HIDE DEF n, g
    <3>4. KnownAt(w, t, g, n - 1)
      BY <1>5, <3>3
    <3> QED
      BY <3>3, <3>4
  <2> QED
    BY <2>1, <2>2, <2>3, <2>4 DEF Sound
<1> QED
  BY <1>1, <1>2, <1>6, <1>7, <1>8 DEF w, t

----------------------------------------------------------------------------
(***************************************************************************)
(* The invariant is inductive: first the steps of the Hub and of the serial *)
(* thread, which only let room and room_changed advance.                    *)
(***************************************************************************)
LEMMA InitInv == Init => IInv
<1> SUFFICES ASSUME Init PROVE IInv
  OBVIOUS
<1> USE GenNat
<1>1. /\ room = 0 /\ hub \in Gen /\ NoData \in Data /\ data = NoData /\ NoData.pos = 0
      /\ Blank \in View /\ Blank.room = 0 /\ Blank.pos = 0
  BY DEF Init, NoData, Data, View, Blank
<1>2. /\ queue \in [Client -> Seq(Msg)] /\ view \in [Client -> View] /\ snap = <<>>
      /\ \A c \in Client : queue[c] = <<>> /\ view[c] = Blank
  BY <1>1 DEF Init
<1>3. Len(<<>>) = 0 /\ <<>> \in Seq(Msg) /\ DOMAIN <<>> = {}
  OBVIOUS
<1>4. TypeOK
  <2>1. ASSUME NEW c \in Client
        PROVE  Len(queue[c]) <= QUEUE
    <3>1. Len(queue[c]) = 0
      BY <1>2, <1>3
    <3> QED
      BY <3>1, QueueNat
  <2> QED
    <3>1. running \in BOOLEAN /\ serial \in BOOLEAN /\ changed \in BOOLEAN
      BY DEF Init
    <3>2. /\ open = {} /\ handler = {} /\ connected = {} /\ todo = {} /\ dead = {}
          /\ waiting = NoClient
      BY DEF Init
    <3> QED
      BY <1>1, <1>2, <1>3, <2>1, <3>1, <3>2 DEF TypeOK, View
<1>5. DataInOrder /\ SnapShape
  BY <1>1 DEF Init, DataInOrder, SnapShape
<1>6. ASSUME NEW c \in Client
      PROVE  PageOK(c)
  <2>1. Buffered(c) /\ ClosedIsBlank(c)
    BY <1>2, <1>3, QueueNat DEF Buffered, ClosedIsBlank
  <2>2. InOrder(c)
    BY <1>1, <1>2, <1>3 DEF InOrder, Sound, RoomsUpTo
  <2>3. PositionIsKnown(c) /\ RoomRound(c) /\ NothingNew(c)
    BY <1>3 DEF Init, PositionIsKnown, RoomRound, NothingNew, Joined
  <2> QED
    BY <2>1, <2>2, <2>3 DEF PageOK
<1> QED
  BY <1>4, <1>5, <1>6 DEF IInv

LEMMA RoomsUpToNewer ==
  ASSUME NEW v \in View, NEW q \in Seq(Msg), NEW g \in Gen, NEW h \in Gen,
         g <= h, RoomsUpTo(v, q, g)
  PROVE  RoomsUpTo(v, q, h)
<1>1. \A i \in 1 .. Len(q) : IsRoom(q[i]) => q[i].room \in Nat
  BY ElementOfSeq, MessageShape, GenNat
<1>2. v.room \in Nat /\ g \in Nat /\ h \in Nat
  BY GenNat DEF View
<1> QED
  BY <1>1, <1>2 DEF RoomsUpTo

\* What TypeOK says of the values the lemmas are about.
LEMMA Typed ==
  ASSUME TypeOK
  PROVE  /\ \A c \in Client : view[c] \in View /\ queue[c] \in Seq(Msg)
         /\ room \in Gen /\ data.pos \in Gen
         /\ \A i \in 1 .. Len(snap) : /\ snap[i] \in Msg
                                      /\ IsRoom(snap[i]) => snap[i].room \in Nat
                                      /\ ~IsRoom(snap[i]) => snap[i].pos \in Nat
<1>1. \A i \in 1 .. Len(snap) : snap[i] \in Msg
  BY ElementOfSeq DEF TypeOK
<1> QED
  BY <1>1, MessageShape, GenNat DEF TypeOK, View, Data

LEMMA RoomAdvances ==
  ASSUME IInv, TypeOK', DataInOrder', room <= room', changed' \/ UNCHANGED <<room, changed>>,
         UNCHANGED <<clientVars, queue, view, loopVars>>
  PROVE  IInv'
<1> USE DEF clientVars, loopVars
<1>1. room \in Nat /\ room' \in Nat /\ room \in Gen /\ room' \in Gen
  BY GenNat DEF IInv, TypeOK
<1>2. SnapShape'
  BY <1>1, Typed DEF SnapShape, IInv
<1>3. ASSUME NEW c \in Client
      PROVE  PageOK(c)'
  <2>1. PageOK(c) /\ view[c] \in View /\ queue[c] \in Seq(Msg)
    BY Typed DEF IInv
  <2>2. Buffered(c)' /\ ClosedIsBlank(c)'
    BY <2>1 DEF PageOK, Buffered, ClosedIsBlank
  <2>3. InOrder(c)'
    BY <1>1, <2>1, RoomsUpToNewer DEF PageOK, InOrder
  <2>4. PositionIsKnown(c)' /\ RoomRound(c)' /\ NothingNew(c)'
    BY <2>1 DEF PageOK, PositionIsKnown, RoomRound, NothingNew, Joined, KnownTo
  <2> QED
    BY <2>2, <2>3, <2>4 DEF PageOK
<1> QED
  BY <1>2, <1>3 DEF IInv

LEMMA HubStep ==
  ASSUME IInv, HubStops \/ PressUnheard
  PROVE  IInv'
<1> USE GenNat, ServerAssumption
<1>1. room \in Nat /\ hub \in Nat /\ MaxGen \in Nat
  BY DEF IInv, TypeOK, ServerAssumption
<1>2. /\ UNCHANGED <<room, data, changed, serial, clientVars, queue, view, loopVars>>
      /\ running' \in BOOLEAN /\ hub' \in Gen /\ hub <= hub'
  <2>1. CASE HubStops
    <3>1. running' \in BOOLEAN /\ hub' = hub
      BY <2>1 DEF HubStops
    <3> QED
      BY <1>1, <2>1, <3>1 DEF IInv, TypeOK, HubStops, sharedVars
  <2>2. CASE PressUnheard
    BY <1>1, <2>2 DEF IInv, TypeOK, PressUnheard, sharedVars, Gen
  <2> QED
    BY <2>1, <2>2
<1>3. TypeOK'
  BY <1>2 DEF IInv, TypeOK, clientVars, loopVars
<1>4. DataInOrder'
  BY <1>1, <1>2 DEF IInv, DataInOrder, Gen
<1> QED
  BY <1>1, <1>2, <1>3, <1>4, RoomAdvances DEF IInv, TypeOK

LEMMA RoomLine ==
  ASSUME IInv, ReadRoom \/ ReadPress
  PROVE  IInv'
<1> USE GenNat, ServerAssumption
<1>1. room \in Nat /\ hub \in Nat /\ data.pos \in Nat /\ room <= hub /\ data.pos <= room
  BY DEF IInv, TypeOK, DataInOrder, Data
<1>2. /\ UNCHANGED <<running, data, serial, clientVars, queue, view, loopVars>>
      /\ hub' \in Gen /\ hub <= hub'
      /\ (room' = hub' /\ changed') \/ UNCHANGED <<room, changed>>
  BY <1>1 DEF IInv, TypeOK, ReadRoom, ReadPress, ParseRoom, hubVars, Gen, ServerAssumption
<1>3. TypeOK'
  BY <1>2 DEF IInv, TypeOK, clientVars, loopVars
<1>4. DataInOrder' /\ room <= room'
  BY <1>1, <1>2 DEF DataInOrder, Gen
<1> QED
  BY <1>1, <1>2, <1>3, <1>4, RoomAdvances DEF IInv, TypeOK

LEMMA DataLine ==
  ASSUME IInv, ReadPosition \/ ReadWaiting \/ SerialFails \/ SerialOpens
  PROVE  IInv'
<1> USE GenNat
<1>1. room \in Nat /\ hub \in Nat /\ data \in Data /\ room <= hub /\ data.pos <= room
  BY DEF IInv, TypeOK, DataInOrder
<1>2. /\ UNCHANGED <<hub, running, room, changed, clientVars, queue, view, loopVars>>
      /\ serial' \in BOOLEAN
  BY DEF IInv, TypeOK, ReadPosition, ReadWaiting, SerialFails, SerialOpens, hubVars
<1>3. data' \in Data /\ data'.pos \in {room, data.pos}
  <2>1. CASE ReadPosition
    BY <2>1 DEF ReadPosition, Data, IInv, TypeOK
  <2>2. CASE ReadWaiting \/ SerialFails
    BY <1>1, <2>2 DEF ReadWaiting, SerialFails, Data
  <2>3. CASE SerialOpens
    BY <1>1, <2>3 DEF SerialOpens
  <2> QED
    BY <2>1, <2>2, <2>3
<1>4. TypeOK'
  BY <1>2, <1>3 DEF IInv, TypeOK, clientVars, loopVars
<1>5. DataInOrder'
  BY <1>1, <1>2, <1>3 DEF DataInOrder, Gen
<1> QED
  BY <1>1, <1>2, <1>4, <1>5, RoomAdvances DEF IInv, TypeOK
(***************************************************************************)
(* The connections.  Of a page that a step leaves alone nothing changes.    *)
(***************************************************************************)
LEMMA FirstMessage ==
  ASSUME NEW r \in Gen
  PROVE  LET q == <<RoomMsg(r)>>
         IN /\ q \in Seq(Msg) /\ Len(q) = 1
            /\ Sound(Blank, q) /\ RoomsUpTo(Blank, q, r) /\ Known(Blank, q, r)
<1>1. Blank \in View /\ <<>> \in Seq(Msg) /\ RoomMsg(r) \in Msg
  BY RoomMsgIs, GenNat DEF Blank, View
<1>2. Sound(Blank, <<>>) /\ RoomsUpTo(Blank, <<>>, r)
  BY GenNat DEF Sound, RoomsUpTo, Blank
<1>3. Append(<<>>, RoomMsg(r)) = <<RoomMsg(r)>>
  OBVIOUS
<1>4. Sound(Blank, <<RoomMsg(r)>>) /\ RoomsUpTo(Blank, <<RoomMsg(r)>>, r)
      /\ Known(Blank, <<RoomMsg(r)>>, r)
  BY <1>1, <1>2, <1>3, RoomMsgIs, RoomAppended
<1> QED
  BY <1>1, <1>4

\* Nothing but its own queue, view and place in the sets concerns a page.
LEMMA OtherPage ==
  ASSUME NEW d \in Client, PageOK(d),
         queue'[d] = queue[d], view'[d] = view[d],
         d \in open' <=> d \in open, d \in connected' <=> d \in connected,
         d \in todo' <=> d \in todo, waiting' = waiting,
         UNCHANGED <<room, changed, snap>>
  PROVE  PageOK(d)'
<1>1. Buffered(d)' /\ ClosedIsBlank(d)' /\ InOrder(d)'
  BY DEF PageOK, Buffered, ClosedIsBlank, InOrder
<1>2. PositionIsKnown(d)' /\ RoomRound(d)' /\ NothingNew(d)'
  BY DEF PageOK, PositionIsKnown, RoomRound, NothingNew, KnownTo, Joined
<1> QED
  BY <1>1, <1>2 DEF PageOK

LEMMA ConnectStep ==
  ASSUME IInv, NEW c \in Client, Connect(c)
  PROVE  IInv'
<1> DEFINE q == <<RoomMsg(room)>>
<1>1. room \in Gen /\ room \in Nat /\ Blank \in View /\ PageOK(c)
  BY GenNat DEF IInv, TypeOK, Blank, View
<1>2. /\ q \in Seq(Msg) /\ Len(q) = 1
      /\ Sound(Blank, q) /\ RoomsUpTo(Blank, q, room) /\ Known(Blank, q, room)
  BY <1>1, FirstMessage
<1> HIDE DEF q
<1>3. /\ c \notin open \cup connected \cup todo \cup {waiting}
      /\ open' = open \cup {c} /\ connected' = connected \cup {c} /\ handler' = handler \cup {c}
      /\ queue' = [queue EXCEPT ![c] = q]
      /\ UNCHANGED <<hub, running, serial, room, data, changed, view, snap, todo, waiting, dead>>
  BY DEF Connect, hubVars, sharedVars, loopVars, q
<1>4. /\ queue' \in [Client -> Seq(Msg)] /\ queue'[c] = q /\ view'[c] = Blank
      /\ \A d \in Client : d # c => queue'[d] = queue[d]
  BY <1>1, <1>2, <1>3 DEF IInv, TypeOK, PageOK, ClosedIsBlank
<1>5. TypeOK'
  <2>1. ASSUME NEW d \in Client PROVE Len(queue'[d]) <= QUEUE
    <3>1. CASE d = c
      <4>1. Len(queue'[d]) = 1
        BY <1>2, <1>4, <3>1
      <4> QED
        BY <4>1, QueueNat
    <3>2. CASE d # c
      BY <1>4, <3>2 DEF IInv, TypeOK
    <3> QED
      BY <3>1, <3>2
  <2> QED
    BY <1>3, <1>4, <2>1 DEF IInv, TypeOK
<1>6. DataInOrder' /\ SnapShape'
  BY <1>3 DEF IInv, DataInOrder, SnapShape
<1>7. PageOK(c)'
  <2>1. Buffered(c)' /\ ClosedIsBlank(c)' /\ InOrder(c)'
    BY <1>2, <1>3, <1>4, QueueNat DEF Buffered, ClosedIsBlank, InOrder
  <2>2. PositionIsKnown(c)' /\ NothingNew(c)'
    BY <1>2, <1>3, <1>4 DEF PositionIsKnown, NothingNew, KnownTo
  <2>3. RoomRound(c)'
    <3>1. ASSUME Len(snap) = 2
          PROVE  Known(Blank, q, snap[1].room)
      <4>1. IsRoom(snap[1]) /\ snap[1].room <= room
        BY <3>1 DEF IInv, SnapShape
      <4>2. snap[1].room \in Gen
        <5>1. 1 \in 1 .. Len(snap)
          BY <3>1
        <5> QED
          BY <4>1, <5>1, Typed, MessageShape DEF IInv
      <4> QED
        BY <1>1, <1>2, <4>1, <4>2, KnownOlder
    <3> QED
      BY <1>3, <1>4, <3>1 DEF RoomRound, KnownTo
  <2> QED
    BY <2>1, <2>2, <2>3 DEF PageOK
<1>8. ASSUME NEW d \in Client, d # c
      PROVE  PageOK(d)'
  <2>1. PageOK(d)
    BY DEF IInv
  <2> QED
    BY <1>3, <1>4, <1>8, <2>1, OtherPage
<1> QED
  BY <1>5, <1>6, <1>7, <1>8 DEF IInv

LEMMA DisconnectStep ==
  ASSUME IInv, NEW c \in Client, Disconnect(c)
  PROVE  IInv'
<1>1. Blank \in View /\ Sound(Blank, <<>>) /\ RoomsUpTo(Blank, <<>>, room)
  <2>1. room \in Nat /\ DOMAIN <<>> = {}
    BY GenNat DEF IInv, TypeOK
  <2> QED
    BY <2>1, GenNat DEF Blank, View, Sound, RoomsUpTo
<1>2. /\ open' = open \ {c}
      /\ queue' = [queue EXCEPT ![c] = <<>>] /\ view' = [view EXCEPT ![c] = Blank]
      /\ UNCHANGED <<hub, running, serial, room, data, changed, handler, connected>>
      /\ UNCHANGED <<snap, todo, waiting, dead>>
  BY DEF Disconnect, hubVars, sharedVars, loopVars
<1>3. /\ queue' \in [Client -> Seq(Msg)] /\ view' \in [Client -> View]
      /\ queue'[c] = <<>> /\ view'[c] = Blank /\ Len(<<>>) = 0
      /\ \A d \in Client : d # c => queue'[d] = queue[d] /\ view'[d] = view[d]
  BY <1>1, <1>2 DEF IInv, TypeOK, View
<1>4. TypeOK'
  <2>1. ASSUME NEW d \in Client PROVE Len(queue'[d]) <= QUEUE
    BY <1>3, QueueNat DEF IInv, TypeOK
  <2> QED
    BY <1>2, <1>3, <2>1 DEF IInv, TypeOK, View
<1>5. DataInOrder' /\ SnapShape'
  BY <1>2 DEF IInv, DataInOrder, SnapShape
<1>6. PageOK(c)'
  <2>1. Buffered(c)' /\ ClosedIsBlank(c)' /\ InOrder(c)'
    BY <1>1, <1>2, <1>3, QueueNat DEF Buffered, ClosedIsBlank, InOrder
  <2>2. PositionIsKnown(c)' /\ RoomRound(c)' /\ NothingNew(c)'
    BY <1>2 DEF PositionIsKnown, RoomRound, NothingNew, Joined
  <2> QED
    BY <2>1, <2>2 DEF PageOK
<1>7. ASSUME NEW d \in Client, d # c
      PROVE  PageOK(d)'
  <2>1. PageOK(d)
    BY DEF IInv
  <2> QED
    BY <1>2, <1>3, <1>7, <2>1, OtherPage
<1> QED
  BY <1>4, <1>5, <1>6, <1>7 DEF IInv

LEMMA HandlerEndsStep ==
  ASSUME IInv, NEW c \in Client, HandlerEnds(c)
  PROVE  IInv'
<1>1. /\ c \notin open /\ handler' = handler \ {c} /\ connected' = connected \ {c}
      /\ UNCHANGED <<hub, running, serial, room, data, changed, open, queue, view>>
      /\ UNCHANGED <<snap, todo, waiting, dead>>
  BY DEF HandlerEnds, hubVars, sharedVars, loopVars
<1>2. TypeOK' /\ DataInOrder' /\ SnapShape'
  BY <1>1 DEF IInv, TypeOK, DataInOrder, SnapShape
<1>3. ASSUME NEW d \in Client
      PROVE  PageOK(d)'
  <2>1. PageOK(d)
    BY DEF IInv
  <2>2. Buffered(d)' /\ ClosedIsBlank(d)' /\ InOrder(d)'
    BY <1>1, <2>1 DEF PageOK, Buffered, ClosedIsBlank, InOrder
  <2>3. PositionIsKnown(d)' /\ RoomRound(d)' /\ NothingNew(d)'
    BY <1>1, <2>1 DEF PageOK, PositionIsKnown, RoomRound, NothingNew, Joined, KnownTo
  <2> QED
    BY <2>2, <2>3 DEF PageOK
<1> QED
  BY <1>2, <1>3 DEF IInv

LEMMA ReceiveStep ==
  ASSUME IInv, NEW c \in Client, Receive(c)
  PROVE  IInv'
<1> DEFINE w == Shown(view[c], Head(queue[c]))
           t == Tail(queue[c])
<1>1. /\ view[c] \in View /\ queue[c] \in Seq(Msg) /\ queue[c] # <<>> /\ room \in Gen
      /\ PageOK(c) /\ Sound(view[c], queue[c]) /\ RoomsUpTo(view[c], queue[c], room)
  BY Typed DEF IInv, Receive, PageOK, InOrder
<1>2. /\ w \in View /\ t \in Seq(Msg) /\ Len(t) < Len(queue[c]) /\ Sound(w, t)
      /\ \A r \in Gen : RoomsUpTo(view[c], queue[c], r) => RoomsUpTo(w, t, r)
      /\ \A g \in Gen : Known(view[c], queue[c], g) => Known(w, t, g)
  BY <1>1, MessageRead
<1>3. /\ c \in open
      /\ view' = [view EXCEPT ![c] = w] /\ queue' = [queue EXCEPT ![c] = t]
      /\ UNCHANGED <<hub, running, serial, room, data, changed, open, handler, connected>>
      /\ UNCHANGED <<snap, todo, waiting, dead>>
  <2>1. c \in open
    BY <1>1 DEF PageOK, ClosedIsBlank
  <2>2. view' = [view EXCEPT ![c] = w] /\ queue' = [queue EXCEPT ![c] = t]
    BY DEF Receive, Shown
  <2> QED
    BY <2>1, <2>2 DEF Receive, hubVars, sharedVars, clientVars, loopVars
<1> HIDE DEF w, t
<1>4. /\ queue' \in [Client -> Seq(Msg)] /\ view' \in [Client -> View]
      /\ queue'[c] = t /\ view'[c] = w
      /\ \A d \in Client : d # c => queue'[d] = queue[d] /\ view'[d] = view[d]
  BY <1>2, <1>3 DEF IInv, TypeOK, View
<1>5. Len(t) \in Nat /\ Len(queue[c]) \in Nat /\ Len(t) <= QUEUE /\ Len(t) < QUEUE
  BY <1>1, <1>2, QueueNat DEF IInv, TypeOK
<1>6. TypeOK'
  <2>1. ASSUME NEW d \in Client PROVE Len(queue'[d]) <= QUEUE
    BY <1>4, <1>5 DEF IInv, TypeOK
  <2> QED
    BY <1>3, <1>4, <2>1 DEF IInv, TypeOK, View
<1>7. DataInOrder' /\ SnapShape'
  BY <1>3 DEF IInv, DataInOrder, SnapShape
<1>8. PageOK(c)'
  <2>1. Buffered(c)' /\ ClosedIsBlank(c)' /\ InOrder(c)'
    BY <1>1, <1>2, <1>3, <1>4, <1>5 DEF Buffered, ClosedIsBlank, InOrder
  <2>2. \A i \in 1 .. Len(snap) : /\ IsRoom(snap[i]) => snap[i].room \in Gen
                                  /\ ~IsRoom(snap[i]) => snap[i].pos \in Gen
    BY Typed, MessageShape DEF IInv
  <2>3. /\ Len(snap) = 1 => snap[1].pos \in Gen
        /\ Len(snap) = 2 => snap[1].room \in Gen
    BY <2>2 DEF IInv, SnapShape
  <2>4. PositionIsKnown(c)' /\ RoomRound(c)' /\ NothingNew(c)'
    BY <1>1, <1>2, <1>3, <1>4, <2>3
       DEF PageOK, PositionIsKnown, RoomRound, NothingNew, KnownTo, Joined
  <2> QED
    BY <2>1, <2>4 DEF PageOK
<1>9. ASSUME NEW d \in Client, d # c
      PROVE  PageOK(d)'
  <2>1. PageOK(d)
    BY DEF IInv
  <2> QED
    BY <1>3, <1>4, <1>9, <2>1, OtherPage
<1> QED
  BY <1>6, <1>7, <1>8, <1>9 DEF IInv
(***************************************************************************)
(* The broadcast loop.                                                      *)
(***************************************************************************)
LEMMA NoClientIsNone == NoClient \notin Client
BY ServerAssumption DEF ServerAssumption

LEMMA TakeSnapshotStep ==
  ASSUME IInv, TakeSnapshot
  PROVE  IInv'
<1>1. /\ snap = <<>> /\ todo = {} /\ todo' = connected /\ changed' = FALSE
      /\ UNCHANGED <<hub, running, serial, room, data, open, handler, connected>>
      /\ UNCHANGED <<queue, view, waiting, dead>>
  <2>1. snap = <<>> /\ Len(<<>>) = 0
    BY DEF TakeSnapshot
  <2>2. todo = {}
    BY <2>1 DEF IInv, SnapShape
  <2> QED
    BY <2>1, <2>2 DEF TakeSnapshot, hubVars, sharedVars, clientVars
<1> DEFINE rm == RoomMsg(room)
           pm == PosMsg(data)
<1>2. /\ room \in Gen /\ data \in Data /\ data.pos <= room /\ room \in Nat
      /\ rm \in Msg /\ IsRoom(rm) /\ rm.room = room
      /\ pm \in Msg /\ ~IsRoom(pm) /\ pm.pos = data.pos
  BY RoomMsgIs, PosMsgIs, GenNat DEF IInv, TypeOK, DataInOrder
<1>3. snap' = (IF changed THEN <<rm>> ELSE <<>>) \o <<pm>>
  BY DEF TakeSnapshot, RoomNews
<1> HIDE DEF rm, pm
<1>4. /\ changed => /\ snap' \in Seq(Msg) /\ Len(snap') = 2
                    /\ snap'[1] = rm /\ snap'[2] = pm
      /\ ~changed => snap' \in Seq(Msg) /\ Len(snap') = 1 /\ snap'[1] = pm
  <2>1. /\ <<rm>> \in Seq(Msg) /\ <<pm>> \in Seq(Msg) /\ <<>> \in Seq(Msg)
        /\ Len(<<rm>>) = 1 /\ Len(<<pm>>) = 1 /\ <<rm>>[1] = rm /\ <<pm>>[1] = pm
    BY <1>2
  <2>2. CASE changed
    BY <1>3, <2>1, <2>2, ConcatProperties
  <2>3. CASE ~changed
    BY <1>3, <2>1, <2>3, ConcatEmptySeq
  <2> QED
    BY <2>2, <2>3
<1>5. TypeOK'
  <2>1. changed' \in BOOLEAN
    BY <1>1
  <2>2. snap' \in Seq(Msg) /\ Len(snap') <= 2
    <3>1. snap' \in Seq(Msg)
      BY <1>4, Zenon
    <3>2. Len(snap') = 1 \/ Len(snap') = 2
      BY <1>4, Zenon
    <3>3. \A n : n = 1 \/ n = 2 => n <= 2
      OBVIOUS
    <3> QED
      BY <3>1, <3>2, <3>3, Zenon
  <2> QED
    BY <1>1, <2>1, <2>2 DEF IInv, TypeOK
<1>6. DataInOrder' /\ SnapShape'
  BY <1>1, <1>2, <1>4 DEF IInv, DataInOrder, SnapShape
<1>7. ASSUME NEW c \in Client
      PROVE  PageOK(c)'
  <2>1. PageOK(c)
    BY DEF IInv
  <2>2. Buffered(c)' /\ ClosedIsBlank(c)' /\ InOrder(c)'
    BY <1>1, <2>1 DEF PageOK, Buffered, ClosedIsBlank, InOrder
  <2>3. RoomsUpTo(view[c], queue[c], room)
    BY <2>1 DEF PageOK, InOrder
  <2>4. RoomRound(c)' /\ NothingNew(c)'
    <3>1. CASE changed
      BY <1>1, <1>2, <1>4, <2>3, <3>1 DEF RoomRound, NothingNew, Joined
    <3>2. CASE ~changed
      BY <1>1, <1>4, <2>1, <3>2 DEF PageOK, RoomRound, NothingNew, Joined, KnownTo
    <3> QED
      BY <3>1, <3>2
  <2>5. PositionIsKnown(c)'
    <3>1. ASSUME ~changed, c \in Joined
          PROVE  Known(view[c], queue[c], data.pos)
      <4>1. Known(view[c], queue[c], room)
        BY <1>1, <2>1, <3>1 DEF PageOK, NothingNew, KnownTo
      <4> QED
        BY <1>2, <4>1, Typed, KnownOlder DEF IInv
    <3> QED
      BY <1>1, <1>2, <1>4, <3>1 DEF PositionIsKnown, KnownTo, Joined
  <2> QED
    BY <2>2, <2>4, <2>5 DEF PageOK
<1> QED
  BY <1>5, <1>6, <1>7 DEF IInv

LEMMA SendStep ==
  ASSUME IInv, Send
  PROVE  IInv'
<1>1. PICK c \in todo \cap open :
        /\ queue' = [queue EXCEPT ![c] = Append(@, Head(snap))]
        /\ todo' = todo \ {c} /\ waiting' = c
  BY DEF Send
<1>2. /\ waiting = NoClient
      /\ UNCHANGED <<hub, running, serial, room, data, changed, open, handler, connected>>
      /\ UNCHANGED <<view, snap, dead>>
  BY DEF Send, hubVars, sharedVars, clientVars
<1>3. /\ c \in Client /\ view[c] \in View /\ queue[c] \in Seq(Msg) /\ room \in Gen
      /\ snap \in Seq(Msg) /\ Len(queue[c]) \in Nat /\ queue \in [Client -> Seq(Msg)]
  BY <1>1, Typed DEF IInv, TypeOK
<1>4. PageOK(c) /\ Len(queue[c]) < QUEUE
  BY <1>2, <1>3, NoClientIsNone DEF IInv, PageOK, Buffered
<1> DEFINE m == snap[1]
           a == Append(queue[c], m)
<1>5. m = Head(snap) /\ m \in Msg /\ Len(snap) \in 1 .. 2
  <2>1. Len(snap) \in 1 .. 2
    BY <1>1 DEF IInv, SnapShape
  <2> QED
    BY <1>3, <2>1, ElementOfSeq, HeadTailProperties
<1> HIDE DEF m, a
<1>6. /\ Sound(view[c], a) /\ RoomsUpTo(view[c], a, room)
      /\ IsRoom(m) => m.room \in Gen /\ Known(view[c], a, m.room)
  <2>1. CASE IsRoom(m)
    <3>1. m.room \in Gen /\ m.room <= room /\ Len(snap) = 2
      BY <1>1, <1>5, <2>1, MessageShape DEF IInv, SnapShape, m
    <3>2. Sound(view[c], queue[c]) /\ RoomsUpTo(view[c], queue[c], m.room)
      BY <1>1, <1>4, <3>1 DEF PageOK, InOrder, RoomRound, m
    <3>3. Sound(view[c], a) /\ RoomsUpTo(view[c], a, m.room) /\ Known(view[c], a, m.room)
      BY <1>3, <1>5, <2>1, <3>2, RoomAppended DEF a
    <3>4. a \in Seq(Msg)
      BY <1>3, <1>5, AppendProperties DEF a
    <3> QED
      BY <1>3, <3>1, <3>3, <3>4, RoomsUpToNewer
  <2>2. CASE ~IsRoom(m)
    <3>1. Len(snap) = 1
      BY <1>1, <1>5, <2>2 DEF IInv, SnapShape, m
    <3>2. /\ Known(view[c], queue[c], m.pos)
          /\ Sound(view[c], queue[c]) /\ RoomsUpTo(view[c], queue[c], room)
      BY <1>1, <1>4, <3>1 DEF PageOK, PositionIsKnown, InOrder, KnownTo, m
    <3> QED
      BY <1>3, <1>5, <2>2, <3>2, PositionAppended DEF a
  <2> QED
    BY <2>1, <2>2
<1>7. /\ a \in Seq(Msg) /\ Len(a) = Len(queue[c]) + 1
      /\ \A g \in Gen : Known(view[c], queue[c], g) => Known(view[c], a, g)
  BY <1>3, <1>5, AppendProperties, KnownStays DEF a
<1>8. /\ queue' \in [Client -> Seq(Msg)] /\ queue'[c] = a
      /\ \A d \in Client : d # c => queue'[d] = queue[d]
  BY <1>1, <1>3, <1>5, <1>7 DEF a
<1>9. Len(a) <= QUEUE
  BY <1>3, <1>4, <1>7, QueueNat
<1>10. TypeOK'
  <2>1. ASSUME NEW d \in Client PROVE Len(queue'[d]) <= QUEUE
    BY <1>8, <1>9 DEF IInv, TypeOK
  <2> QED
    BY <1>1, <1>2, <1>3, <1>8, <2>1 DEF IInv, TypeOK
<1>11. DataInOrder' /\ SnapShape'
  <2>1. Len(<<>>) = 0
    OBVIOUS
  <2> QED
    BY <1>1, <1>2, <1>5, <2>1 DEF IInv, DataInOrder, SnapShape
<1>12. PageOK(c)'
  <2>1. Buffered(c)' /\ ClosedIsBlank(c)' /\ InOrder(c)'
    BY <1>1, <1>2, <1>6, <1>8, <1>9 DEF Buffered, ClosedIsBlank, InOrder
  <2>2. PositionIsKnown(c)'
    BY <1>1 DEF PositionIsKnown
  <2>3. Len(snap) = 2 => IsRoom(m)
    BY <1>5 DEF IInv, SnapShape, m
  <2>4. RoomRound(c)' /\ NothingNew(c)'
    BY <1>1, <1>2, <1>3, <1>4, <1>6, <1>7, <1>8, <2>3
       DEF PageOK, RoomRound, NothingNew, Joined, KnownTo, m
  <2> QED
    BY <2>1, <2>2, <2>4 DEF PageOK
<1>13. ASSUME NEW d \in Client, d # c
       PROVE  PageOK(d)'
  <2>1. PageOK(d)
    BY DEF IInv
  <2>2. Buffered(d)' /\ ClosedIsBlank(d)' /\ InOrder(d)'
    BY <1>2, <1>8, <1>13, <2>1, NoClientIsNone DEF PageOK, Buffered, ClosedIsBlank, InOrder
  <2>3. PositionIsKnown(d)' /\ RoomRound(d)' /\ NothingNew(d)'
    BY <1>1, <1>2, <1>8, <1>13, <2>1
       DEF PageOK, PositionIsKnown, RoomRound, NothingNew, KnownTo, Joined
  <2> QED
    BY <2>2, <2>3 DEF PageOK
<1> QED
  BY <1>10, <1>11, <1>12, <1>13 DEF IInv

LEMMA SendReturnsStep ==
  ASSUME IInv, SendReturns
  PROVE  IInv'
<1>1. /\ waiting' = NoClient /\ Len(queue[waiting]) < QUEUE
      /\ UNCHANGED <<hub, running, serial, room, data, changed, open, handler, connected>>
      /\ UNCHANGED <<queue, view, snap, todo, dead>>
  BY DEF SendReturns, hubVars, sharedVars, clientVars
<1>2. TypeOK' /\ DataInOrder' /\ SnapShape'
  BY <1>1 DEF IInv, TypeOK, DataInOrder, SnapShape
<1>3. ASSUME NEW d \in Client
      PROVE  PageOK(d)'
  <2>1. PageOK(d)
    BY DEF IInv
  <2>2. Buffered(d)' /\ ClosedIsBlank(d)' /\ InOrder(d)'
    BY <1>1, <2>1 DEF PageOK, Buffered, ClosedIsBlank, InOrder
  <2>3. PositionIsKnown(d)' /\ RoomRound(d)' /\ NothingNew(d)'
    BY <1>1, <2>1 DEF PageOK, PositionIsKnown, RoomRound, NothingNew, KnownTo, Joined
  <2> QED
    BY <2>2, <2>3 DEF PageOK
<1> QED
  BY <1>2, <1>3 DEF IInv

LEMMA SendRaisesStep ==
  ASSUME IInv, SendRaises
  PROVE  IInv'
<1>1. PICK c \in IF waiting = NoClient THEN todo \ open ELSE {waiting} \ open :
        dead' = dead \cup {c} /\ todo' = todo \ {c}
  BY DEF SendRaises
<1>2. /\ waiting' = NoClient
      /\ UNCHANGED <<hub, running, serial, room, data, changed, open, handler, connected>>
      /\ UNCHANGED <<queue, view, snap>>
  BY DEF SendRaises, hubVars, sharedVars, clientVars
<1>3. c \in Client /\ c \notin open /\ waiting \in {c, NoClient}
  BY <1>1 DEF IInv, TypeOK
<1>4. TypeOK' /\ DataInOrder' /\ SnapShape'
  BY <1>1, <1>2, <1>3 DEF IInv, TypeOK, DataInOrder, SnapShape
<1>5. ASSUME NEW d \in Client
      PROVE  PageOK(d)'
  <2>1. PageOK(d) /\ Len(<<>>) = 0
    BY DEF IInv
  <2>2. Buffered(d)'
    <3>1. CASE d = c
      BY <1>2, <1>3, <2>1, <3>1, QueueNat DEF PageOK, Buffered, ClosedIsBlank
    <3>2. CASE d # c
      BY <1>2, <1>3, <2>1, <3>2, NoClientIsNone DEF PageOK, Buffered
    <3> QED
      BY <3>1, <3>2
  <2>3. ClosedIsBlank(d)' /\ InOrder(d)'
    BY <1>2, <2>1 DEF PageOK, ClosedIsBlank, InOrder
  <2>4. PositionIsKnown(d)' /\ RoomRound(d)' /\ NothingNew(d)'
    BY <1>1, <1>2, <1>3, <2>1
       DEF PageOK, PositionIsKnown, RoomRound, NothingNew, KnownTo, Joined
  <2> QED
    BY <2>2, <2>3, <2>4 DEF PageOK
<1> QED
  BY <1>4, <1>5 DEF IInv

LEMMA RoundEndsStep ==
  ASSUME IInv, RoundEnds
  PROVE  IInv'
<1>1. /\ snap # <<>> /\ todo = {} /\ snap \in Seq(Msg)
      /\ connected' = connected \ dead /\ dead' = {} /\ snap' = Tail(snap)
      /\ todo' = IF Tail(snap) = <<>> THEN {} ELSE connected'
      /\ UNCHANGED <<hub, running, serial, room, data, changed, open, handler>>
      /\ UNCHANGED <<queue, view, waiting>>
  BY DEF RoundEnds, hubVars, sharedVars, IInv, TypeOK
<1>2. /\ snap' \in Seq(Msg) /\ Len(snap') = Len(snap) - 1
      /\ \A i \in 1 .. Len(snap') : snap'[i] = snap[i + 1]
      /\ Len(snap) \in 1 .. 2 /\ Len(<<>>) = 0
  <2>1. Len(snap) \in 1 .. 2
    BY <1>1 DEF IInv, SnapShape
  <2> QED
    BY <1>1, <2>1, HeadTailProperties
<1>3. TypeOK' /\ DataInOrder'
  BY <1>1, <1>2 DEF IInv, TypeOK, DataInOrder
<1>4. CASE Len(snap) = 1
  <2>1. snap' = <<>> /\ Len(snap') = 0 /\ todo' = {}
    BY <1>1, <1>2, <1>4, EmptySeq
  <2>2. SnapShape'
    BY <2>1 DEF SnapShape
  <2>3. ASSUME NEW d \in Client
        PROVE  PageOK(d)'
    <3>1. PageOK(d)
      BY DEF IInv
    <3>2. Buffered(d)' /\ ClosedIsBlank(d)' /\ InOrder(d)'
      BY <1>1, <3>1 DEF PageOK, Buffered, ClosedIsBlank, InOrder
    <3>3. PositionIsKnown(d)' /\ RoomRound(d)' /\ NothingNew(d)'
      BY <1>1, <1>4, <2>1, <3>1
         DEF PageOK, PositionIsKnown, RoomRound, NothingNew, KnownTo, Joined
    <3> QED
      BY <3>2, <3>3 DEF PageOK
  <2> QED
    BY <1>3, <2>2, <2>3 DEF IInv
<1>5. CASE Len(snap) = 2
  <2>1. /\ Len(snap') = 1 /\ snap'[1] = snap[2] /\ todo' = connected'
        /\ IsRoom(snap[1]) /\ ~IsRoom(snap[2])
        /\ snap[2].pos <= snap[1].room /\ snap[1].room <= room
    <3> DEFINE t == Tail(snap)
    <3>1. t \in Seq(Msg) /\ Len(t) = 1 /\ \A i \in 1 .. 1 : t[i] = snap[i + 1]
      BY <1>1, <1>2, <1>5
    <3> HIDE DEF t
    <3>2. /\ Len(snap') = 1 /\ snap'[1] = snap[2] /\ Tail(snap) # <<>>
      <4>1. t[1] = snap[2]
        BY <3>1
      <4>2. t # <<>>
        <5>1. Len(t) # Len(<<>>)
          BY <3>1, <1>2
        <5> QED
          BY <5>1
      <4> QED
        BY <1>1, <3>1, <4>1, <4>2 DEF t
    <3>3. SnapShape /\ todo' = connected'
      BY <1>1, <3>2 DEF IInv
    <3> QED
      BY <1>1, <1>5, <3>2, <3>3 DEF SnapShape
  <2>2. /\ snap[1].room \in Gen /\ snap[2].pos \in Gen
        /\ snap[1].room \in Nat /\ snap[2].pos \in Nat /\ room \in Nat
    <3>1. snap[1] \in Msg /\ snap[2] \in Msg
      BY <1>1, <1>5, ElementOfSeq
    <3> QED
      BY <2>1, <3>1, MessageShape, GenNat DEF IInv, TypeOK
  <2>3. SnapShape'
    BY <1>1, <2>1, <2>2 DEF SnapShape
  <2>4. ASSUME NEW d \in Client
        PROVE  PageOK(d)'
    <3>1. PageOK(d) /\ view[d] \in View /\ queue[d] \in Seq(Msg)
      BY Typed DEF IInv
    <3>2. Buffered(d)' /\ ClosedIsBlank(d)' /\ InOrder(d)'
      BY <1>1, <3>1 DEF PageOK, Buffered, ClosedIsBlank, InOrder
    <3>3. d \in Joined => Known(view[d], queue[d], snap[1].room)
      BY <1>1, <1>5, <3>1 DEF PageOK, RoomRound, KnownTo
    <3>4. d \in Joined => Known(view[d], queue[d], snap[2].pos)
      BY <2>1, <2>2, <3>1, <3>3, KnownOlder
    <3>5. PositionIsKnown(d)' /\ RoomRound(d)'
      BY <1>1, <2>1, <3>4 DEF PositionIsKnown, RoomRound, KnownTo, Joined
    <3>6. NothingNew(d)'
      BY <1>1, <3>1 DEF PageOK, NothingNew, KnownTo, Joined
    <3> QED
      BY <3>2, <3>5, <3>6 DEF PageOK
  <2> QED
    BY <1>3, <2>3, <2>4 DEF IInv
<1> QED
  BY <1>2, <1>4, <1>5

----------------------------------------------------------------------------
LEMMA NextInv == IInv /\ [Next]_vars => IInv'
<1> SUFFICES ASSUME IInv, [Next]_vars
             PROVE  IInv'
  OBVIOUS
<1>1. CASE HubStops \/ PressUnheard
  BY <1>1, HubStep
<1>2. CASE ReadRoom \/ ReadPress
  BY <1>2, RoomLine
<1>3. CASE ReadPosition \/ ReadWaiting \/ SerialFails \/ SerialOpens
  BY <1>3, DataLine
<1>4. CASE \E c \in Client : Connect(c) \/ Disconnect(c) \/ HandlerEnds(c) \/ Receive(c)
  BY <1>4, ConnectStep, DisconnectStep, HandlerEndsStep, ReceiveStep
<1>5. CASE BroadcastStep
  BY <1>5, TakeSnapshotStep, SendStep, SendReturnsStep, SendRaisesStep, RoundEndsStep
     DEF BroadcastStep
<1>6. CASE UNCHANGED vars
  <2>1. TypeOK' /\ DataInOrder' /\ SnapShape'
    BY <1>6 DEF IInv, TypeOK, DataInOrder, SnapShape, vars, hubVars, sharedVars, clientVars,
       loopVars
  <2>2. ASSUME NEW d \in Client PROVE PageOK(d)'
    BY <1>6, OtherPage DEF IInv, vars, sharedVars, clientVars, loopVars
  <2> QED
    BY <2>1, <2>2 DEF IInv
<1> QED
  BY <1>1, <1>2, <1>3, <1>4, <1>5, <1>6 DEF Next

\* In every behaviour of the server the state has its types: no send buffer
\* holds more than QUEUE messages and the loop has at most two to send.
THEOREM TypeCorrect == Spec => []TypeOK
<1>1. IInv => TypeOK
  BY DEF IInv
<1> QED
  BY <1>1, InitInv, NextInv, PTL DEF Spec

\* server.py:163-197: for every number of pages, rooms and buffered messages, no
\* page shows a position with a room older than the one it was read in.
THEOREM RoomBeforePosition == Spec => []PositionNotAheadOfRoom
<1>1. IInv => PositionNotAheadOfRoom
  BY DEF IInv, PageOK, InOrder, Sound, PositionNotAheadOfRoom
<1> QED
  BY <1>1, InitInv, NextInv, PTL DEF Spec

(***************************************************************************)
(* The page                                                                 *)
(***************************************************************************)
PageInv == PageTypeOK /\ OneConnection

\* A step of a socket s that is not closed, and brings it to state to.
LEMMA SocketStep ==
  ASSUME PageInv, NEW s \in Sock, NEW to \in States, readyState' = [readyState EXCEPT ![s] = to],
         to \in {"connecting", "open"} => readyState[s] \in {"connecting", "open"}, ws' = ws
  PROVE  readyState' \in [Sock -> States] /\ OneConnection'
<1>1. readyState' \in [Sock -> States] /\ \A t \in Sock : readyState'[t] = IF t = s THEN to ELSE readyState[t]
  BY DEF PageInv, PageTypeOK
<1>. QED
  BY <1>1 DEF PageInv, OneConnection

LEMMA ToggleOK ==
  ASSUME PageInv, toggleConnect
  PROVE  PageInv'
<1>1. ws' \in Sock \cup {None} /\ readyState' \in [Sock -> States] /\ OneConnection'
  <2>1. CASE Close
    <3>1. ws \in Sock /\ "closing" \in States
      BY <2>1 DEF Close, InUse, PageInv, PageTypeOK, States
    <3>. QED
      BY <2>1, <3>1, SocketStep DEF Close, PageInv, PageTypeOK
  <2>2. CASE Open
    <3>1. PICK s \in Sock : readyState' = [readyState EXCEPT ![s] = "connecting"] /\ ws' = s
      BY <2>2 DEF Open
    <3>2. \A t \in Sock : readyState[t] \notin {"connecting", "open"}
      BY <2>2, FilesAssumption DEF Open, InUse, PageInv, OneConnection, PageTypeOK
    <3>. QED
      BY <3>1, <3>2 DEF PageInv, PageTypeOK, OneConnection, States
  <2>. QED
    BY <2>1, <2>2 DEF toggleConnect
<1>2. /\ status' \in {"disconnected", "connecting", "connected"} /\ active' \in BOOLEAN
      /\ UNCHANGED <<ROOM, panel, src, isAlarmPlaying, sounding, cut, tag>>
  BY DEF toggleConnect, Close, Open, audio, PageInv, PageTypeOK
<1>3. PageTypeOK'
  BY <1>1, <1>2 DEF PageInv, PageTypeOK
<1>. QED
  BY <1>1, <1>3 DEF PageInv

LEMMA HandshakeOK ==
  ASSUME PageInv, NEW s \in Sock, onopen(s) \/ onclose(s) \/ ServerCloses(s)
  PROVE  PageInv'
<1>1. PICK to \in {"open", "closing", "closed"} :
        /\ readyState' = [readyState EXCEPT ![s] = to]
        /\ to = "open" => readyState[s] = "connecting"
  BY DEF onopen, onclose, ServerCloses
<1>2. /\ UNCHANGED <<ws, ROOM, panel, src, isAlarmPlaying, sounding, cut, tag>>
      /\ status' \in {"disconnected", "connecting", "connected"} /\ active' \in BOOLEAN
  BY DEF onopen, onclose, ServerCloses, audio, PageInv, PageTypeOK
<1>3. readyState' \in [Sock -> States] /\ OneConnection'
  <2>1. to \in States
    BY DEF States
  <2>. QED
    BY <1>1, <1>2, <2>1, SocketStep
<1>4. PageTypeOK'
  BY <1>2, <1>3 DEF PageInv, PageTypeOK
<1>. QED
  BY <1>3, <1>4 DEF PageInv

LEMMA PositionShown ==
  ASSUME PageInv, NEW s \in Sock, PositionMessage(s)
  PROVE  PageInv'
<1>1. UNCHANGED <<readyState, ws, status, active, ROOM, tag>> /\ panel' = tag
  BY DEF PositionMessage, connection
<1>2. /\ src' = src /\ isAlarmPlaying' \in BOOLEAN
      /\ sounding' \in BOOLEAN /\ cut' \in BOOLEAN
  <2>1. isAlarmPlaying \in BOOLEAN /\ sounding \in BOOLEAN /\ cut \in BOOLEAN
    BY DEF PageInv, PageTypeOK
  <2>2. CASE StopAlarm
    BY <2>2 DEF StopAlarm
  <2>3. CASE StartAlarm
    <3>1. CASE src # None /\ ~isAlarmPlaying
      <4>1. /\ src' = src /\ isAlarmPlaying' = TRUE
            /\ sounding' = (src \in Playable) /\ cut' = (cut \/ src \notin Playable)
        BY <2>3, <3>1 DEF StartAlarm
      <4>2. (src \in Playable) \in BOOLEAN /\ (cut \/ src \notin Playable) \in BOOLEAN
        OBVIOUS
      <4>. QED
        BY <4>1, <4>2, Zenon
    <3>2. CASE ~(src # None /\ ~isAlarmPlaying)
      BY <2>1, <2>3, <3>2 DEF StartAlarm, audio
    <3>. QED
      BY <3>1, <3>2
  <2>. QED
    BY <2>2, <2>3 DEF PositionMessage, handlePos
<1>3. isAlarmPlaying' => IsAlert(tag)
  BY DEF PositionMessage, handlePos, StopAlarm
<1>4. sounding' => isAlarmPlaying' /\ src' \in Playable
  BY DEF PositionMessage, handlePos, StartAlarm, StopAlarm, audio, PageInv, PageTypeOK
<1>5. tag # None
  BY FilesAssumption DEF PageInv, PageTypeOK
<1>6. PageTypeOK'
  BY <1>1, <1>2, <1>3, <1>4, <1>5 DEF PageInv, PageTypeOK
<1>. QED
  BY <1>1, <1>6 DEF PageInv, OneConnection

LEMMA OtherPageSteps ==
  ASSUME PageInv,
         \/ \E s \in Sock, r \in Room : RoomMessage(s, r)
         \/ \E f \in File : FileChosen(f)
         \/ \E d \in Pos : TagMoves(d)
         \/ UNCHANGED pageVars
  PROVE  PageInv'
<1>1. UNCHANGED <<readyState, ws, status, active, panel, isAlarmPlaying>>
  BY DEF RoomMessage, FileChosen, TagMoves, connection, audio, pageVars
<1>2. ROOM' \in Room \cup {None} /\ src' \in File \cup {None} /\ tag' \in Pos
  BY DEF RoomMessage, FileChosen, TagMoves, connection, audio, pageVars, PageInv, PageTypeOK
<1>3. /\ sounding' \in BOOLEAN /\ cut' \in BOOLEAN
      /\ sounding' => sounding /\ src' = src
  <2>1. sounding \in BOOLEAN /\ cut \in BOOLEAN
    BY DEF PageInv, PageTypeOK
  <2>2. ASSUME NEW f \in File, FileChosen(f)
        PROVE  sounding' = FALSE /\ cut' \in BOOLEAN
    BY <2>1, <2>2, Zenon DEF FileChosen
  <2>3. (\E f \in File : FileChosen(f)) \/ (src' = src /\ sounding' = sounding /\ cut' = cut)
    BY DEF RoomMessage, TagMoves, audio, pageVars
  <2>4. CASE \E f \in File : FileChosen(f)
    BY <2>2, <2>4
  <2>5. CASE src' = src /\ sounding' = sounding /\ cut' = cut
    <3>1. sounding' \in BOOLEAN /\ cut' \in BOOLEAN
      BY <2>1, <2>5, Zenon
    <3>. QED
      BY <2>5, <3>1
  <2>. QED
    BY <2>3, <2>4, <2>5
<1>4. PageTypeOK'
  BY <1>1, <1>2, <1>3 DEF PageInv, PageTypeOK
<1>. QED
  BY <1>1, <1>4 DEF PageInv, OneConnection

LEMMA PageKept == PageSpec => []PageInv
<1>1. PageInit => PageInv
  BY FilesAssumption DEF PageInit, PageInv, PageTypeOK, OneConnection, States
<1>2. PageInv /\ [PageNext]_pageVars => PageInv'
  <2>. SUFFICES ASSUME PageInv, [PageNext]_pageVars PROVE PageInv'
    OBVIOUS
  <2>1. CASE toggleConnect
    BY <2>1, ToggleOK
  <2>2. ASSUME NEW s \in Sock, SocketEvent(s) PROVE PageInv'
    BY <2>2, HandshakeOK, PositionShown, OtherPageSteps DEF SocketEvent
  <2>3. CASE (\E f \in File : FileChosen(f)) \/ (\E d \in Pos : TagMoves(d)) \/ UNCHANGED pageVars
    BY <2>3, OtherPageSteps
  <2>. QED
    BY <2>1, <2>2, <2>3 DEF PageNext
<1>. QED
  BY <1>1, <1>2, PTL DEF PageSpec

\* index.html: however fast the button is clicked and whenever sockets close, messages
\* come from one connection, which is the one that the button closes.
THEOREM OneSocketListens == PageSpec => []OneConnection
<1>1. PageInv => OneConnection
  BY DEF PageInv
<1>. QED
  BY <1>1, PageKept, PTL

\* handlePos: the alarm is raised and heard only while the last position handled was
\* an alert, whatever files are chosen meanwhile.
THEOREM AlarmOnlyInAlert == PageSpec => []PageTypeOK
<1>1. PageInv => PageTypeOK
  BY DEF PageInv
<1>. QED
  BY <1>1, PageKept, PTL

=============================================================================
