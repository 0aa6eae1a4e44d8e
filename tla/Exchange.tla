------------------------------ MODULE Exchange ------------------------------
(***************************************************************************)
(* The ranging exchange on the UWB channel: an initiator (an anchor or the  *)
(* Hub) sends a poll, the tag answers at a fixed delay after the poll's     *)
(* reception or not at all, and the initiator takes the first frame its     *)
(* receiver completes within its window.                                    *)
(*                                                                          *)
(* Sources: loop() of TAGFinal.ino for the tag, the ranging part of loop()  *)
(* in ANCHOR1Final.ino, ANCHOR2Final.ino and HUBFinal.ino (the same code)   *)
(* for the initiators, dwt_starttx() and dwt_rxenable() for the radio.      *)
(***************************************************************************)
EXTENDS Naturals

CONSTANTS
  Initiator,  \* the nodes that poll; a node stands for its id byte ('1', '2', '3')
  SEQ,        \* the modulus of the uint8_t frame_seq_nb
  RXON,       \* ticks from the poll to the initiator's receiver (300 UUS)
  ANSWER,     \* ticks from a poll's reception to the answer (900 UUS)
  TIMEOUT,    \* ticks from the poll to the initiator's timeout (3300 UUS)
  TAG_LAG,    \* the longest the tag's loop takes from a reception to dwt_starttx
  SLOT,       \* the least time between two polls (200 ms), see Tdma
  Stray,      \* kinds of frames that come from elsewhere
  MaxAge      \* bound: longer times are not told apart

ASSUME ExchangeAssumption ==
  /\ SEQ \in Nat \ {0} /\ RXON \in Nat /\ ANSWER \in Nat /\ TIMEOUT \in Nat
  /\ TAG_LAG \in Nat /\ SLOT \in Nat /\ MaxAge \in Nat
  /\ RXON <= ANSWER /\ ANSWER < TIMEOUT
  /\ MaxAge > TIMEOUT /\ MaxAge > TAG_LAG /\ MaxAge > ANSWER /\ MaxAge >= SLOT
  /\ Stray \subseteq {"other", "runt"}
  /\ "Tag" \notin Initiator

Node == Initiator \cup {"Tag"}
Seq == 0 .. SEQ - 1
None == [kind |-> "none"]
Err == [kind |-> "error"]

\* A poll names its initiator and number.  An answer names the initiator and
\* carries the tag's own number; its timestamps belong to the frame `to` whose
\* reception they were taken from.
Poll(i, s) == [kind |-> "poll", id |-> i, seq |-> s]
Answer(i, s, f) == [kind |-> "answer", id |-> i, seq |-> s, to |-> f]
StrayFrame(k) == [kind |-> k, id |-> "none"]

PollFrames == {Poll(i, s) : i \in Initiator, s \in Seq}
StrayFrames == {StrayFrame(k) : k \in Stray}
AnswerFrames == {Answer(i, s, f) : i \in Initiator, s \in Seq,
                                   f \in PollFrames \cup StrayFrames}
Frames == PollFrames \cup AnswerFrames \cup StrayFrames

\* Bytes 8 and 9 of a frame: whom it is for or from, and what it is.
Bytes(f) == [kind |-> f.kind, id |-> f.id]
NoBytes == [kind |-> "none", id |-> "none"]

VARIABLES
  ipc,     \* "idle" or "await", for each initiator
  seq,     \* frame_seq_nb of each initiator
  iage,    \* time since its poll, for an initiator awaiting the answer, else 0
  gap,     \* time since anyone's last poll
  inbox,   \* what each receiver has completed: None, Err or a frame
  tpc,     \* "listen", "busy" (answering), "armed" (delayed transmission set)
  tage,    \* time since the reception the tag is dealing with
  tagSeq,  \* the tag's frame_seq_nb
  rxBuf,   \* bytes 8 and 9 of the tag's rx_buffer
  answer,  \* tx_resp_msg while it is due; every field of it is filled in anew
  spoiled  \* history: initiators whose exchange something has disturbed

vars == <<ipc, seq, iage, gap, inbox, tpc, tage, tagSeq, rxBuf, answer, spoiled>>
tagVars == <<tpc, tagSeq, rxBuf, answer>>

TypeOK ==
  /\ ipc \in [Initiator -> {"idle", "await"}]
  /\ seq \in [Initiator -> Seq]
  /\ iage \in [Initiator -> 0 .. MaxAge]
  /\ gap \in 0 .. MaxAge
  /\ inbox \in [Node -> Frames \cup {None, Err}]
  /\ tpc \in {"listen", "busy", "armed"}
  /\ tage \in 0 .. MaxAge
  /\ tagSeq \in Seq
  /\ rxBuf \in {Bytes(f) : f \in Frames} \cup {NoBytes}
  /\ answer \in AnswerFrames \cup {None}
  /\ spoiled \subseteq Initiator

Init ==
  /\ ipc = [i \in Initiator |-> "idle"]
  /\ seq = [i \in Initiator |-> 0]
  /\ iage = [i \in Initiator |-> 0]
  /\ gap = MaxAge
  /\ inbox = [n \in Node |-> None]
  /\ tpc = "listen" /\ tage = 0 /\ tagSeq = 0
  /\ rxBuf = NoBytes /\ answer = None /\ spoiled = {}

(***************************************************************************)
(* The channel.  A frame reaches the receivers that are on and have not     *)
(* completed another one; a receiver stops at its first frame or error.     *)
(***************************************************************************)
\* Fault: the initiator's receiver is turned on after the answer.
OnLate(n) ==
  /\ inbox[n] = None
  /\ IF n = "Tag" THEN tpc = "listen"
                  ELSE ipc[n] = "await" /\ iage[n] > ANSWER

On(n) ==
  /\ inbox[n] = None
  /\ IF n = "Tag" THEN tpc = "listen"
                  ELSE ipc[n] = "await" /\ iage[n] >= RXON

Awaiting == {i \in Initiator : ipc[i] = "await"}

\* `hit`: the initiators whose exchange the transmission disturbs in any case;
\* a frame that someone misses or gets wrong disturbs every exchange going on.
Transmit(f, sender, hit) ==
  LET hearers == {n \in Node \ {sender} : On(n)} IN
  \E good \in SUBSET hearers :
    \E bad \in SUBSET (hearers \ good) :
      /\ inbox' = [n \in Node |-> IF n \in good THEN f
                                  ELSE IF n \in bad THEN Err ELSE inbox[n]]
      /\ tage' = IF "Tag" \in good \cup bad THEN 0 ELSE tage
      /\ spoiled' = (spoiled \ {sender}) \cup hit
                      \cup (IF good = hearers THEN {}
                            ELSE Awaiting \cup ({sender} \cap Initiator))

StrayTransmission ==
  /\ \E k \in Stray : Transmit(StrayFrame(k), "elsewhere", Awaiting)
  /\ UNCHANGED <<ipc, seq, iage, gap, tagVars>>

(***************************************************************************)
(* The initiators.  frame_seq_nb++ follows the busy-wait on every path.     *)
(***************************************************************************)
SendPoll(i) ==
  /\ ipc[i] = "idle" /\ gap >= SLOT
  /\ ipc' = [ipc EXCEPT ![i] = "await"]
  /\ gap' = 0
  /\ Transmit(Poll(i, seq[i]), i, IF On("Tag") THEN {} ELSE {i})
  /\ UNCHANGED <<seq, iage, tagVars>>

\* Faults: the number outgrows its byte, and the status register keeps RXFCG.
EndExchangeWide(i) ==
  /\ ipc' = [ipc EXCEPT ![i] = "idle"]
  /\ seq' = [seq EXCEPT ![i] = @ + 1]
  /\ inbox' = [inbox EXCEPT ![i] = None]
  /\ iage' = [iage EXCEPT ![i] = 0]
  /\ UNCHANGED <<gap, tage, tagVars, spoiled>>

EndExchangeKeepsStatus(i) ==
  /\ ipc' = [ipc EXCEPT ![i] = "idle"]
  /\ seq' = [seq EXCEPT ![i] = (@ + 1) % SEQ]
  /\ iage' = [iage EXCEPT ![i] = 0]
  /\ UNCHANGED <<gap, inbox, tage, tagVars, spoiled>>

EndExchange(i) ==
  /\ ipc' = [ipc EXCEPT ![i] = "idle"]
  /\ seq' = [seq EXCEPT ![i] = (@ + 1) % SEQ]
  /\ inbox' = [inbox EXCEPT ![i] = None]
  /\ iage' = [iage EXCEPT ![i] = 0]
  /\ UNCHANGED <<gap, tage, tagVars, spoiled>>

\* The first ten bytes compare equal, the sequence number having been zeroed.
Matches(i, f) == f.kind = "answer" /\ f.id = i

\* A distance is computed from the answer's timestamps.
Accept(i) ==
  /\ ipc[i] = "await" /\ inbox[i] \in Frames
  /\ Matches(i, inbox[i])
  /\ EndExchange(i)

Reject(i) ==
  /\ ipc[i] = "await" /\ inbox[i] \in Frames
  /\ ~Matches(i, inbox[i])
  /\ EndExchange(i)

ReceptionError(i) ==
  /\ ipc[i] = "await" /\ inbox[i] = Err
  /\ EndExchange(i)

\* Fault: the busy-wait's mask lacks SYS_STATUS_ALL_RX_TO.
TimesOutUnseen(i) ==
  /\ ipc[i] = "await" /\ inbox[i] = Err /\ iage[i] >= TIMEOUT
  /\ EndExchange(i)

TimesOut(i) ==
  /\ ipc[i] = "await" /\ inbox[i] = None /\ iage[i] >= TIMEOUT
  /\ EndExchange(i)

(***************************************************************************)
(* The tag.                                                                 *)
(***************************************************************************)
TagReceptionError ==
  /\ tpc = "listen" /\ inbox["Tag"] = Err
  /\ inbox' = [inbox EXCEPT !["Tag"] = None]
  /\ UNCHANGED <<ipc, seq, iage, gap, tage, tagVars, spoiled>>

\* dwt_readrxdata() writes as many bytes as the frame has: a runt leaves the
\* bytes 8 and 9 of an earlier frame in rx_buffer.
ReadInto(f) == IF f.kind = "runt" THEN rxBuf ELSE Bytes(f)

\* rx_buffer[9] == 0xE0 is the only test.
TagIgnores ==
  /\ tpc = "listen" /\ inbox["Tag"] \in Frames
  /\ ReadInto(inbox["Tag"]).kind # "poll"
  /\ rxBuf' = ReadInto(inbox["Tag"])
  /\ inbox' = [inbox EXCEPT !["Tag"] = None]
  /\ UNCHANGED <<ipc, seq, iage, gap, tpc, tage, tagSeq, answer, spoiled>>

TagPrepares ==
  /\ tpc = "listen" /\ inbox["Tag"] \in Frames
  /\ ReadInto(inbox["Tag"]).kind = "poll"
  /\ rxBuf' = ReadInto(inbox["Tag"])
  /\ answer' = Answer(rxBuf'.id, tagSeq, inbox["Tag"])
  /\ inbox' = [inbox EXCEPT !["Tag"] = None]
  /\ tpc' = "busy"
  /\ UNCHANGED <<ipc, seq, iage, gap, tage, tagSeq, spoiled>>

\* dwt_starttx(DWT_START_TX_DELAYED): refused once the time has passed.
TagArms ==
  /\ tpc = "busy" /\ tage <= ANSWER
  /\ tpc' = "armed"
  /\ UNCHANGED <<ipc, seq, iage, gap, inbox, tage, tagSeq, rxBuf, answer, spoiled>>

\* Fault: TXFRS is awaited whatever dwt_starttx returned.
TagTooLateWaits ==
  /\ tpc = "busy" /\ tage > ANSWER
  /\ UNCHANGED vars

TagTooLate ==
  /\ tpc = "busy" /\ tage > ANSWER
  /\ tpc' = "listen" /\ answer' = None
  /\ spoiled' = spoiled \cup Awaiting
  /\ UNCHANGED <<ipc, seq, iage, gap, inbox, tage, tagSeq, rxBuf>>

TagTransmits ==
  /\ tpc = "armed" /\ tage >= ANSWER
  /\ tpc' = "listen" /\ answer' = None
  /\ tagSeq' = (tagSeq + 1) % SEQ
  /\ Transmit(answer, "Tag", {})
  /\ UNCHANGED <<ipc, seq, iage, gap, rxBuf>>

(***************************************************************************)
(* Time passes unless a timer has run out or the tag's loop has used its    *)
(* time.                                                                    *)
(***************************************************************************)
TagWorking == tpc = "busy" \/ (tpc = "listen" /\ inbox["Tag"] # None)

Later(age) == IF age < MaxAge THEN age + 1 ELSE age

Tick ==
  /\ \A i \in Initiator :
       ipc[i] = "await" => inbox[i] = None /\ iage[i] < TIMEOUT
  /\ TagWorking => tage < TAG_LAG
  /\ tpc = "armed" => tage < ANSWER
  /\ iage' = [i \in Initiator |->
                IF ipc[i] = "await" THEN Later(iage[i]) ELSE 0]
  /\ gap' = Later(gap)
  /\ tage' = IF TagWorking \/ tpc = "armed" THEN Later(tage) ELSE 0
  /\ UNCHANGED <<ipc, seq, inbox, tagVars, spoiled>>

----------------------------------------------------------------------------
InitiatorStep(i) == Accept(i) \/ Reject(i) \/ ReceptionError(i) \/ TimesOut(i)

TagStep ==
  \/ TagReceptionError \/ TagIgnores \/ TagPrepares
  \/ TagArms \/ TagTooLate \/ TagTransmits

Next ==
  \/ \E i \in Initiator : SendPoll(i) \/ InitiatorStep(i)
  \/ TagStep
  \/ StrayTransmission
  \/ Tick

Spec == Init /\ [][Next]_vars

\* Both programs run and both timers expire; nothing makes a node poll.
FairSpec ==
  /\ Spec
  /\ WF_vars(Tick) /\ WF_vars(TagStep)
  /\ \A i \in Initiator : WF_vars(InitiatorStep(i))

----------------------------------------------------------------------------
(***************************************************************************)
(* Properties                                                               *)
(***************************************************************************)

\* ANCHOR1Final.ino:115-133: sequence numbers are not compared, so that the
\* accepted timestamps answer this very poll rests on ids, timing and slots.
AcceptsOwnAnswer ==
  [][\A i \in Initiator : Accept(i) => inbox[i].to = Poll(i, seq[i])]_vars

\* TAGFinal.ino:21-23, "plenty of margin": an exchange fails only for a reason
\* outside of the timing: the tag was not listening when polled or missed its
\* time, a frame was lost or spoiled, or another device transmitted.
FailsOnlyIfSpoiled ==
  [][\A i \in Initiator :
       TimesOut(i) \/ Reject(i) \/ ReceptionError(i) => i \in spoiled]_vars

\* Every exchange ends, answered or not.
ExchangeEnds == \A i \in Initiator : ipc[i] = "await" ~> ipc[i] = "idle"

\* The tag comes back to listening with an empty receiver: no reception,
\* error or late answer leaves it deaf.
TagListensAgain == []<>(On("Tag"))
=============================================================================
