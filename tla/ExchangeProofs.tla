--------------------------- MODULE ExchangeProofs ---------------------------
(***************************************************************************)
(* That an accepted answer answers the poll it is taken for, and that an    *)
(* exchange fails for a reason only, for every number of initiators and     *)
(* every timing in which the answer comes within the slot.                  *)
(***************************************************************************)
EXTENDS Exchange, TLAPS

\* 900 UUS in 200 ms.  Nothing in the repository sends frames of less than ten
\* bytes, whose reception would leave the tag the bytes of an earlier one.
AnswerInSlot == ANSWER < SLOT
NoRunts == "runt" \notin Stray

\* The tag's loop is done with a frame before the poll after it, and before the
\* initiator gives up.
TagInSlot == TAG_LAG < SLOT /\ TAG_LAG < TIMEOUT

\* The frame the tag is dealing with.
Asked == IF tpc = "listen" THEN inbox["Tag"] ELSE answer.to

\* Who does not wait for an answer has nothing left of the last one.
AtRest == \A i \in Initiator : ipc[i] = "idle" => inbox[i] = None /\ iage[i] = 0

TagAnswers ==
  /\ tpc # "listen" => inbox["Tag"] = None /\ answer \in AnswerFrames
  /\ tpc = "armed" => tage <= ANSWER
  /\ TagWorking => tage <= TAG_LAG

\* Unless it took a runt for a poll, the tag answers a poll to who sent it.
ToItsPoll ==
  tpc # "listen" /\ answer.to.kind # "runt" =>
    answer.to \in PollFrames /\ answer.to.id = answer.id

\* A poll that can still be answered in time was the last one on the air, and
\* its initiator, if it still waits, waits for this answer.
AskedLast ==
  Asked \in PollFrames /\ tage <= ANSWER =>
    /\ gap = tage
    /\ \A i \in Initiator : ipc[i] = "await" /\ Asked.id = i => Asked = Poll(i, seq[i])

\* The first part needs no timing.
Typed == TypeOK /\ AtRest /\ TagAnswers /\ ToItsPoll
IInv == Typed /\ AskedLast

\* An answer that arrived is to the poll its receiver has just sent.
AnswerIsOwn ==
  \A i \in Initiator : ipc[i] = "await" /\ inbox[i] \in AnswerFrames /\ inbox[i].id = i =>
    inbox[i].to = Poll(i, seq[i])

\* An exchange that nothing disturbed is in the tag's hands, or its answer is there.
InHand(i) == /\ Asked = Poll(i, seq[i]) /\ inbox[i] = None
             /\ gap = tage /\ iage[i] = tage
Answered(i) == inbox[i] \in AnswerFrames /\ inbox[i].id = i
Undisturbed ==
  \A i \in Initiator : ipc[i] = "await" /\ i \notin spoiled => InHand(i) \/ Answered(i)

----------------------------------------------------------------------------
(***************************************************************************)
(* Frames                                                                   *)
(***************************************************************************)
LEMMA Numbers ==
  /\ 0 \in Seq /\ \A s \in Seq : (s + 1) % SEQ \in Seq
  /\ 0 \in 0 .. MaxAge /\ MaxAge \in 0 .. MaxAge
  /\ \A a \in 0 .. MaxAge : Later(a) \in 0 .. MaxAge
  /\ \A a \in 0 .. MaxAge : 0 <= Later(a) /\ a <= Later(a)
  /\ \A a \in 0 .. MaxAge, b \in {ANSWER, TAG_LAG} : a < b => Later(a) <= b
BY ExchangeAssumption DEF Seq, Later

\* What a frame is shows in its kind.
LEMMA Kinds ==
  ASSUME NEW f \in Frames
  PROVE  /\ f # None /\ f # Err
         /\ f.kind = "poll" <=> f \in PollFrames
         /\ f.kind = "answer" <=> f \in AnswerFrames
         /\ f.kind \notin {"poll", "answer"} => f \in StrayFrames
         /\ f.kind \in {"poll", "answer"} => f.id \in Initiator
<1>1. CASE f \in PollFrames
  BY <1>1 DEF PollFrames, AnswerFrames, StrayFrames, Poll, Answer, StrayFrame, None, Err
<1>2. CASE f \in AnswerFrames
  BY <1>2 DEF PollFrames, AnswerFrames, StrayFrames, Poll, Answer, StrayFrame, None, Err
<1>3. CASE f \in StrayFrames
  <2>1. PICK k \in Stray : f = StrayFrame(k)
    BY <1>3 DEF StrayFrames
  <2>2. f.kind = k /\ k \in {"other", "runt"}
    BY <2>1, ExchangeAssumption DEF StrayFrame
  <2>3. f \notin PollFrames /\ f \notin AnswerFrames
    BY <2>2 DEF PollFrames, AnswerFrames, Poll, Answer
  <2>. QED
    BY <1>3, <2>1, <2>2, <2>3 DEF StrayFrame, None, Err
<1>. QED
  BY <1>1, <1>2, <1>3 DEF Frames

LEMMA Absences == None \notin Frames /\ Err \notin Frames /\ None # Err
BY Kinds DEF None, Err

LEMMA Polls ==
  ASSUME NEW i \in Initiator, NEW s \in Seq
  PROVE  /\ Poll(i, s) \in PollFrames /\ Poll(i, s) \in Frames
         /\ Poll(i, s).id = i /\ Poll(i, s).seq = s /\ Poll(i, s).kind = "poll"
BY DEF Poll, PollFrames, Frames

\* An answer is made from the frame's bytes 8 and 9 and the tag's number.
LEMMA Answers ==
  ASSUME NEW i \in Initiator, NEW s \in Seq, NEW f \in PollFrames \cup StrayFrames
  PROVE  /\ Answer(i, s, f) \in AnswerFrames /\ Answer(i, s, f) \in Frames
         /\ Answer(i, s, f).id = i /\ Answer(i, s, f).to = f
BY DEF Answer, AnswerFrames, Frames

(***************************************************************************)
(* The channel                                                              *)
(***************************************************************************)
LEMMA Heard ==
  ASSUME NEW f, NEW sender, NEW hit, Transmit(f, sender, hit)
  PROVE  /\ inbox' = [n \in Node |-> inbox'[n]]
         /\ \A n \in Node : \/ inbox'[n] = inbox[n]
                            \/ n # sender /\ On(n) /\ inbox'[n] \in {f, Err}
         /\ \/ tage' = tage /\ inbox'["Tag"] = inbox["Tag"]
            \/ tage' = 0 /\ sender # "Tag" /\ On("Tag") /\ inbox'["Tag"] \in {f, Err}
         /\ hit \subseteq spoiled' /\ spoiled \ {sender} \subseteq spoiled'
         /\ spoiled' \subseteq spoiled \cup hit \cup Awaiting \cup ({sender} \cap Initiator)
         /\ \/ \A n \in Node \ {sender} : On(n) => inbox'[n] = f
            \/ Awaiting \cup ({sender} \cap Initiator) \subseteq spoiled'
<1>. DEFINE hearers == {n \in Node \ {sender} : On(n)}
<1>0. PICK good \in SUBSET hearers : \E bad \in SUBSET (hearers \ good) :
        /\ inbox' = [n \in Node |-> IF n \in good THEN f
                                    ELSE IF n \in bad THEN Err ELSE inbox[n]]
        /\ tage' = IF "Tag" \in good \cup bad THEN 0 ELSE tage
        /\ spoiled' = (spoiled \ {sender}) \cup hit
                        \cup (IF good = hearers THEN {}
                              ELSE Awaiting \cup ({sender} \cap Initiator))
  BY DEF Transmit
<1>1. PICK bad \in SUBSET (hearers \ good) :
        /\ inbox' = [n \in Node |-> IF n \in good THEN f
                                    ELSE IF n \in bad THEN Err ELSE inbox[n]]
        /\ tage' = IF "Tag" \in good \cup bad THEN 0 ELSE tage
        /\ spoiled' = (spoiled \ {sender}) \cup hit
                        \cup (IF good = hearers THEN {}
                              ELSE Awaiting \cup ({sender} \cap Initiator))
  BY <1>0
<1>2. \A n \in Node : \/ inbox'[n] = inbox[n]
                      \/ n # sender /\ On(n) /\ inbox'[n] \in {f, Err}
  BY <1>1
<1>3. "Tag" \in Node
  BY DEF Node
<1>4. \/ tage' = tage /\ inbox'["Tag"] = inbox["Tag"]
      \/ tage' = 0 /\ sender # "Tag" /\ On("Tag") /\ inbox'["Tag"] \in {f, Err}
  <2>1. CASE "Tag" \in good \cup bad
    BY <1>1, <1>3, <2>1
  <2>2. CASE "Tag" \notin good \cup bad
    BY <1>1, <1>3, <2>2
  <2>. QED
    BY <2>1, <2>2
<1>5. \/ \A n \in Node \ {sender} : On(n) => inbox'[n] = f
      \/ Awaiting \cup ({sender} \cap Initiator) \subseteq spoiled'
  <2>1. CASE good = hearers
    BY <1>1, <2>1
  <2>2. CASE good # hearers
    BY <1>1, <2>2
  <2>. QED
    BY <2>1, <2>2
<1>6. /\ hit \subseteq spoiled' /\ spoiled \ {sender} \subseteq spoiled'
      /\ spoiled' \subseteq spoiled \cup hit \cup Awaiting \cup ({sender} \cap Initiator)
  BY <1>1
<1>7. inbox' = [n \in Node |-> inbox'[n]]
  BY <1>1
<1>. QED
  BY <1>2, <1>4, <1>5, <1>6, <1>7

LEMMA HeardType ==
  ASSUME TypeOK, NEW f \in Frames, NEW sender, NEW hit \in SUBSET Initiator,
         Transmit(f, sender, hit)
  PROVE  /\ inbox' \in [Node -> Frames \cup {None, Err}]
         /\ tage' \in 0 .. MaxAge
         /\ spoiled' \subseteq Initiator
<1>1. \A n \in Node : inbox'[n] \in Frames \cup {None, Err}
  BY Heard DEF TypeOK
<1>2. tage' \in 0 .. MaxAge
  BY Heard, Numbers DEF TypeOK
<1>3. spoiled' \subseteq Initiator
  BY Heard DEF TypeOK, Awaiting
<1>. QED
  BY <1>1, <1>2, <1>3, Heard

(***************************************************************************)
(* Type correctness                                                         *)
(***************************************************************************)
LEMMA TypeInit == Init => TypeOK
<1>. SUFFICES ASSUME Init PROVE TypeOK
  OBVIOUS
<1>1. inbox \in [Node -> Frames \cup {None, Err}]
  BY DEF Init
<1>. QED
  BY <1>1, Numbers DEF Init, TypeOK

LEMMA ExchangeEndsTyped ==
  ASSUME TypeOK, NEW i \in Initiator, EndExchange(i)
  PROVE  TypeOK'
<1>1. seq[i] \in Seq /\ (seq[i] + 1) % SEQ \in Seq
  BY Numbers DEF TypeOK
<1>2. seq' \in [Initiator -> Seq]
  BY <1>1 DEF TypeOK, EndExchange
<1>3. inbox' \in [Node -> Frames \cup {None, Err}]
  BY DEF TypeOK, EndExchange
<1>4. iage' \in [Initiator -> 0 .. MaxAge]
  BY Numbers DEF TypeOK, EndExchange
<1>5. ipc' \in [Initiator -> {"idle", "await"}]
  BY DEF TypeOK, EndExchange
<1>. QED
  BY <1>2, <1>3, <1>4, <1>5 DEF TypeOK, EndExchange, tagVars

\* rx_buffer[8] names an initiator whenever rx_buffer[9] says poll.
LEMMA PollBytes ==
  ASSUME TypeOK, inbox["Tag"] \in Frames
  PROVE  /\ ReadInto(inbox["Tag"]) \in {Bytes(f) : f \in Frames} \cup {NoBytes}
         /\ ReadInto(inbox["Tag"]).kind = "poll" =>
              /\ ReadInto(inbox["Tag"]).id \in Initiator
              /\ inbox["Tag"] \in PollFrames \cup StrayFrames
              /\ inbox["Tag"].kind # "runt" =>
                   /\ inbox["Tag"] \in PollFrames
                   /\ ReadInto(inbox["Tag"]).id = inbox["Tag"].id
<1>1. ASSUME NEW b \in {Bytes(f) : f \in Frames} \cup {NoBytes}, b.kind = "poll"
      PROVE  b.id \in Initiator
  <2>1. CASE b = NoBytes
    BY <1>1, <2>1 DEF NoBytes
  <2>2. ASSUME NEW f \in Frames, b = Bytes(f) PROVE b.id \in Initiator
    <3>1. f.kind = "poll" /\ b.id = f.id
      BY <1>1, <2>2 DEF Bytes
    <3>. QED
      BY <3>1, Kinds
  <2>. QED
    BY <2>1, <2>2
<1>2. ReadInto(inbox["Tag"]) \in {Bytes(f) : f \in Frames} \cup {NoBytes}
  BY DEF ReadInto, TypeOK
<1>3. Bytes(inbox["Tag"]).kind = inbox["Tag"].kind /\ Bytes(inbox["Tag"]).id = inbox["Tag"].id
  BY DEF Bytes
<1>4. CASE inbox["Tag"].kind = "runt"
  BY <1>1, <1>2, <1>4, Kinds
<1>5. CASE inbox["Tag"].kind # "runt"
  <2>1. ReadInto(inbox["Tag"]) = Bytes(inbox["Tag"])
    BY <1>5 DEF ReadInto
  <2>. QED
    BY <1>1, <1>2, <1>3, <2>1, Kinds
<1>. QED
  BY <1>4, <1>5

LEMMA TypeStep == TypeOK /\ TagAnswers /\ [Next]_vars => TypeOK'
<1>. SUFFICES ASSUME TypeOK, TagAnswers, [Next]_vars PROVE TypeOK'
  OBVIOUS
<1>1. ASSUME NEW i \in Initiator, SendPoll(i) PROVE TypeOK'
  <2>1. Poll(i, seq[i]) \in Frames
    BY Polls DEF TypeOK
  <2>2. PICK hit \in SUBSET Initiator : Transmit(Poll(i, seq[i]), i, hit)
    <3>1. (IF On("Tag") THEN {} ELSE {i}) \in SUBSET Initiator
      OBVIOUS
    <3>. QED
      BY <1>1, <3>1 DEF SendPoll
  <2>3. /\ inbox' \in [Node -> Frames \cup {None, Err}]
        /\ tage' \in 0 .. MaxAge /\ spoiled' \subseteq Initiator
    BY <2>1, <2>2, HeardType
  <2>. QED
    BY <1>1, <2>3, Numbers DEF SendPoll, TypeOK, tagVars
<1>2. ASSUME NEW i \in Initiator, InitiatorStep(i) PROVE TypeOK'
  BY <1>2, ExchangeEndsTyped DEF InitiatorStep, Accept, Reject, ReceptionError, TimesOut
<1>3. CASE TagReceptionError
  BY <1>3 DEF TagReceptionError, TypeOK, tagVars
<1>4. CASE TagIgnores
  <2>1. rxBuf' \in {Bytes(f) : f \in Frames} \cup {NoBytes}
    BY <1>4, PollBytes DEF TagIgnores
  <2>2. inbox' \in [Node -> Frames \cup {None, Err}]
    BY <1>4 DEF TagIgnores, TypeOK
  <2>. QED
    BY <1>4, <2>1, <2>2 DEF TagIgnores, TypeOK
<1>5. CASE TagPrepares
  <2>1. rxBuf' \in {Bytes(f) : f \in Frames} \cup {NoBytes}
    BY <1>5, PollBytes DEF TagPrepares
  <2>2. inbox' \in [Node -> Frames \cup {None, Err}]
    BY <1>5 DEF TagPrepares, TypeOK
  <2>3. answer' \in AnswerFrames
    <3>1. rxBuf'.id \in Initiator /\ inbox["Tag"] \in PollFrames \cup StrayFrames
      BY <1>5, PollBytes DEF TagPrepares
    <3>2. tagSeq \in Seq
      BY DEF TypeOK
    <3>. QED
      BY <1>5, <3>1, <3>2, Answers DEF TagPrepares
  <2>. QED
    BY <1>5, <2>1, <2>2, <2>3 DEF TagPrepares, TypeOK
<1>6. CASE TagArms
  BY <1>6 DEF TagArms, TypeOK
<1>7. CASE TagTooLate
  BY <1>7 DEF TagTooLate, TypeOK, Awaiting
<1>8. CASE TagTransmits
  <2>1. answer \in Frames
    BY <1>8 DEF TagTransmits, TagAnswers, Frames
  <2>2. /\ inbox' \in [Node -> Frames \cup {None, Err}]
        /\ tage' \in 0 .. MaxAge /\ spoiled' \subseteq Initiator
    BY <1>8, <2>1, HeardType DEF TagTransmits
  <2>3. tagSeq' \in Seq
    BY <1>8, Numbers DEF TagTransmits, TypeOK
  <2>. QED
    BY <1>8, <2>2, <2>3 DEF TagTransmits, TypeOK
<1>9. CASE StrayTransmission
  <2>1. PICK k \in Stray : Transmit(StrayFrame(k), "elsewhere", Awaiting)
    BY <1>9 DEF StrayTransmission
  <2>2. StrayFrame(k) \in Frames /\ Awaiting \in SUBSET Initiator
    BY DEF StrayFrames, Frames, Awaiting
  <2>3. /\ inbox' \in [Node -> Frames \cup {None, Err}]
        /\ tage' \in 0 .. MaxAge /\ spoiled' \subseteq Initiator
    BY <2>1, <2>2, HeardType
  <2>. QED
    BY <1>9, <2>3 DEF StrayTransmission, TypeOK, tagVars
<1>10. CASE Tick
  <2>1. iage' \in [Initiator -> 0 .. MaxAge]
    BY <1>10, Numbers DEF Tick, TypeOK
  <2>2. gap' \in 0 .. MaxAge /\ tage' \in 0 .. MaxAge
    BY <1>10, Numbers DEF Tick, TypeOK
  <2>. QED
    BY <1>10, <2>1, <2>2 DEF Tick, TypeOK, tagVars
<1>11. CASE UNCHANGED vars
  BY <1>11 DEF vars, TypeOK
<1>. QED
  BY <1>1, <1>2, <1>3, <1>4, <1>5, <1>6, <1>7, <1>8, <1>9, <1>10, <1>11 DEF Next, TagStep

(***************************************************************************)
(* The poll in the tag's hands                                              *)
(***************************************************************************)
LEMMA IInvInit == Init => IInv
<1>. SUFFICES ASSUME Init PROVE IInv
  OBVIOUS
<1>1. "Tag" \in Node /\ \A i \in Initiator : i \in Node
  BY DEF Node
<1>2. Asked \notin PollFrames
  BY <1>1, Absences DEF Init, Asked, Frames
<1>. QED
  BY <1>1, <1>2, TypeInit DEF Init, IInv, Typed, AtRest, TagAnswers, ToItsPoll, AskedLast, TagWorking

LEMMA Nodes == /\ "Tag" \in Node /\ "Tag" \notin Initiator
               /\ \A i \in Initiator : i \in Node /\ i # "Tag"
BY ExchangeAssumption DEF Node

LEMMA AtRestStep == Typed /\ [Next]_vars => AtRest'
<1>. SUFFICES ASSUME Typed, [Next]_vars, NEW j \in Initiator, ipc'[j] = "idle"
              PROVE  inbox'[j] = None /\ iage'[j] = 0
  BY DEF AtRest
<1>. USE Nodes DEF Typed, TypeOK, AtRest
\* Who is not waiting hears nothing.
<1>1. ASSUME NEW f, NEW sender, NEW hit, Transmit(f, sender, hit), ipc[j] = "idle"
      PROVE  inbox'[j] = None
  BY <1>1, Heard DEF On
<1>2. ASSUME NEW i \in Initiator, SendPoll(i) PROVE inbox'[j] = None /\ iage'[j] = 0
  BY <1>1, <1>2 DEF SendPoll
<1>3. ASSUME NEW i \in Initiator, InitiatorStep(i)
      PROVE inbox'[j] = None /\ iage'[j] = 0
  <2>1. EndExchange(i)
    BY <1>3 DEF InitiatorStep, Accept, Reject, ReceptionError, TimesOut
  <2>. QED
    BY <2>1 DEF EndExchange
<1>4. CASE TagReceptionError \/ TagIgnores \/ TagPrepares \/ TagArms \/ TagTooLate
  BY <1>4 DEF TagReceptionError, TagIgnores, TagPrepares, TagArms, TagTooLate
<1>5. CASE TagTransmits
  BY <1>1, <1>5 DEF TagTransmits
<1>6. CASE StrayTransmission
  BY <1>1, <1>6 DEF StrayTransmission
<1>7. CASE Tick
  BY <1>7 DEF Tick
<1>8. CASE UNCHANGED vars
  BY <1>8 DEF vars
<1>. QED
  BY <1>2, <1>3, <1>4, <1>5, <1>6, <1>7, <1>8 DEF Next, TagStep

\* The tag hears only while it listens, and then begins to count.
LEMMA TagHears ==
  ASSUME Typed, NEW f, NEW sender, NEW hit, Transmit(f, sender, hit),
         tpc' = tpc, answer' = answer
  PROVE  TagAnswers' /\ ToItsPoll'
<1>1. \/ tage' = tage /\ inbox'["Tag"] = inbox["Tag"]
      \/ tage' = 0 /\ tpc = "listen"
  BY Heard DEF On
<1>. QED
  BY <1>1, ExchangeAssumption DEF Typed, TagAnswers, ToItsPoll, TagWorking

LEMMA TagAnswersStep == Typed /\ [Next]_vars => TagAnswers' /\ ToItsPoll'
<1>. SUFFICES ASSUME Typed, [Next]_vars PROVE TagAnswers' /\ ToItsPoll'
  OBVIOUS
<1>1. ASSUME NEW i \in Initiator, SendPoll(i) PROVE TagAnswers' /\ ToItsPoll'
  BY <1>1, TagHears DEF SendPoll, tagVars
<1>2. ASSUME NEW i \in Initiator, InitiatorStep(i) PROVE TagAnswers' /\ ToItsPoll'
  <2>1. EndExchange(i)
    BY <1>2 DEF InitiatorStep, Accept, Reject, ReceptionError, TimesOut
  <2>2. inbox'["Tag"] = inbox["Tag"]
    BY <2>1, Nodes DEF EndExchange, Typed, TypeOK
  <2>. QED
    BY <2>1, <2>2 DEF EndExchange, tagVars, Typed, TagAnswers, ToItsPoll, TagWorking
<1>3. CASE TagReceptionError
  BY <1>3, Nodes DEF TagReceptionError, tagVars, Typed, TypeOK, TagAnswers, ToItsPoll, TagWorking
<1>4. CASE TagIgnores
  BY <1>4, Nodes DEF TagIgnores, tagVars, Typed, TypeOK, TagAnswers, ToItsPoll, TagWorking
<1>5. CASE TagPrepares
  <2>1. /\ rxBuf'.id \in Initiator /\ inbox["Tag"] \in PollFrames \cup StrayFrames
        /\ inbox["Tag"].kind # "runt" =>
             inbox["Tag"] \in PollFrames /\ rxBuf'.id = inbox["Tag"].id
    BY <1>5, PollBytes DEF TagPrepares, Typed
  <2>2. answer' = Answer(rxBuf'.id, tagSeq, inbox["Tag"]) /\ tagSeq \in Seq
    BY <1>5 DEF TagPrepares, Typed, TypeOK
  <2>3. /\ answer' \in AnswerFrames
        /\ answer'.id = rxBuf'.id /\ answer'.to = inbox["Tag"]
    BY <2>1, <2>2, Answers
  <2>4. tpc' = "busy" /\ inbox'["Tag"] = None /\ tage' <= TAG_LAG
    <3>1. TagWorking
      BY <1>5, Absences DEF TagPrepares, TagWorking
    <3>. QED
      BY <1>5, <3>1, Nodes DEF TagPrepares, Typed, TypeOK, TagAnswers
  <2>. QED
    BY <2>1, <2>3, <2>4 DEF TagAnswers, ToItsPoll
<1>6. CASE TagArms
  BY <1>6 DEF TagArms, Typed, TagAnswers, ToItsPoll, TagWorking
<1>7. CASE TagTooLate
  BY <1>7 DEF TagTooLate, Typed, TagAnswers, ToItsPoll, TagWorking
<1>8. CASE TagTransmits
  <2>1. inbox'["Tag"] = inbox["Tag"]
    BY <1>8, Heard DEF TagTransmits
  <2>. QED
    BY <1>8, <2>1 DEF TagTransmits, Typed, TagAnswers, ToItsPoll, TagWorking
<1>9. CASE StrayTransmission
  BY <1>9, TagHears DEF StrayTransmission, tagVars
<1>10. CASE Tick
  <2>1. TagWorking => tage' <= TAG_LAG
    BY <1>10, Numbers DEF Tick, Typed, TypeOK
  <2>2. tpc = "armed" => tage' <= ANSWER
    BY <1>10, Numbers DEF Tick, Typed, TypeOK
  <2>. QED
    BY <1>10, <2>1, <2>2 DEF Tick, tagVars, Typed, TagAnswers, ToItsPoll, TagWorking
<1>11. CASE UNCHANGED vars
  BY <1>11 DEF vars, Typed, TagAnswers, ToItsPoll, TagWorking
<1>. QED
  BY <1>1, <1>2, <1>3, <1>4, <1>5, <1>6, <1>7, <1>8, <1>9, <1>10, <1>11 DEF Next, TagStep

\* What the tag deals with after it has heard the channel.
LEMMA AskedAnew ==
  ASSUME NEW f, NEW sender, NEW hit, Transmit(f, sender, hit),
         tpc' = tpc, answer' = answer
  PROVE  \/ Asked' = Asked /\ tage' = tage
         \/ Asked' \in {f, Err} /\ tage' = 0 /\ sender # "Tag"
BY Heard DEF Asked, On

\* No poll is answered in time after the slot it was sent in.
LEMMA AskedLastStep == AnswerInSlot /\ IInv /\ [Next]_vars => AskedLast'
<1>. SUFFICES ASSUME AnswerInSlot, IInv, [Next]_vars, (Asked \in PollFrames)',
                     (tage <= ANSWER)'
              PROVE  /\ gap' = tage'
                     /\ \A i \in Initiator :
                          ipc'[i] = "await" /\ Asked'.id = i => Asked' = Poll(i, seq'[i])
  BY DEF AskedLast
<1>. DEFINE Ok == /\ gap' = tage'
                  /\ \A i \in Initiator :
                       ipc'[i] = "await" /\ Asked'.id = i => Asked' = Poll(i, seq'[i])
<1>. SUFFICES Ok
  OBVIOUS
<1>. HIDE DEF Ok
<1>a. Err \notin PollFrames /\ None \notin PollFrames
  BY Absences DEF Frames
<1>b. /\ gap \in 0 .. MaxAge /\ tage \in 0 .. MaxAge /\ seq \in [Initiator -> Seq]
      /\ ipc \in [Initiator -> {"idle", "await"}]
  BY DEF IInv, Typed, TypeOK
<1>1. ASSUME NEW i \in Initiator, SendPoll(i) PROVE Ok
  <2>1. Poll(i, seq[i]).id = i /\ gap' = 0
    BY <1>1, <1>b, Polls DEF SendPoll
  <2>2. seq' = seq /\ \A n \in Initiator \ {i} : ipc'[n] = ipc[n]
    BY <1>1, <1>b DEF SendPoll
  <2>3. \/ Asked' = Asked /\ tage' = tage
        \/ Asked' = Poll(i, seq[i]) /\ tage' = 0
    <3>1. tpc' = tpc /\ answer' = answer
      BY <1>1 DEF SendPoll, tagVars
    <3>2. PICK hit : Transmit(Poll(i, seq[i]), i, hit)
      BY <1>1 DEF SendPoll
    <3>. QED
      BY <3>1, <3>2, <1>a, AskedAnew
  <2>4. CASE Asked' = Asked /\ tage' = tage
    <3>1. Asked \in PollFrames /\ tage <= ANSWER
      BY <2>4
    <3>2. gap <= ANSWER
      BY <3>1 DEF IInv, Typed, AskedLast
    <3>3. gap >= SLOT
      BY <1>1 DEF SendPoll
    <3>. QED
      BY <3>2, <3>3, <1>b, ExchangeAssumption DEF AnswerInSlot
  <2>5. CASE Asked' = Poll(i, seq[i]) /\ tage' = 0
    BY <2>1, <2>2, <2>5 DEF Ok
  <2>. QED
    BY <2>3, <2>4, <2>5
<1>2. ASSUME NEW i \in Initiator, InitiatorStep(i) PROVE Ok
  <2>1. EndExchange(i)
    BY <1>2 DEF InitiatorStep, Accept, Reject, ReceptionError, TimesOut
  <2>2. Asked' = Asked /\ tage' = tage /\ gap' = gap
    BY <2>1, Nodes DEF EndExchange, tagVars, IInv, Typed, TypeOK, Asked
  <2>3. \A n \in Initiator : ipc'[n] = "await" => n # i /\ ipc[n] = "await" /\ seq'[n] = seq[n]
    BY <2>1, <1>b DEF EndExchange
  <2>. QED
    BY <2>2, <2>3 DEF Ok, IInv, Typed, AskedLast
<1>3. CASE TagReceptionError \/ TagIgnores \/ TagTooLate
  BY <1>3, <1>a, Nodes DEF TagReceptionError, TagIgnores, TagTooLate, tagVars, Asked,
                           IInv, Typed, TypeOK, TagAnswers
<1>4. CASE TagPrepares
  <2>1. answer'.to = inbox["Tag"] /\ tpc = "listen" /\ tpc' = "busy"
    <3>1. rxBuf'.id \in Initiator /\ inbox["Tag"] \in PollFrames \cup StrayFrames
      BY <1>4, PollBytes DEF TagPrepares, IInv, Typed
    <3>. QED
      BY <1>4, <3>1, Answers DEF TagPrepares, IInv, Typed, TypeOK
  <2>2. Asked' = Asked
    BY <2>1 DEF Asked
  <2>. QED
    BY <1>4, <2>2 DEF TagPrepares, IInv, Typed, AskedLast, Ok
<1>5. CASE TagArms
  BY <1>5 DEF TagArms, Asked, IInv, Typed, AskedLast, Ok
<1>6. CASE TagTransmits
  <2>1. inbox'["Tag"] = inbox["Tag"]
    BY <1>6, Heard DEF TagTransmits
  <2>. QED
    BY <1>6, <2>1, <1>a DEF TagTransmits, Asked, IInv, Typed, TagAnswers
<1>7. CASE StrayTransmission
  <2>1. PICK k \in Stray : Transmit(StrayFrame(k), "elsewhere", Awaiting)
    BY <1>7 DEF StrayTransmission
  <2>2. StrayFrame(k) \notin PollFrames
    <3>1. StrayFrame(k).kind \in {"other", "runt"}
      BY ExchangeAssumption DEF StrayFrame
    <3>. QED
      BY <3>1 DEF PollFrames, Poll
  <2>3. Asked' = Asked /\ tage' = tage
    BY <1>7, <1>a, <2>1, <2>2, AskedAnew DEF StrayTransmission, tagVars
  <2>. QED
    BY <1>7, <2>3 DEF StrayTransmission, IInv, Typed, AskedLast, Ok
<1>8. CASE Tick
  <2>1. Asked' = Asked
    BY <1>8 DEF Tick, tagVars, Asked
  <2>2. TagWorking \/ tpc = "armed"
    BY <1>a, <2>1, Absences DEF Asked, TagWorking, IInv, Typed, TypeOK
  <2>3. tage' = Later(tage) /\ gap' = Later(gap) /\ tage <= Later(tage)
    BY <1>8, <2>2, <1>b, Numbers DEF Tick
  <2>4. tage <= ANSWER
    BY <2>3, <1>b, Numbers, ExchangeAssumption
  <2>. QED
    BY <1>8, <2>1, <2>3, <2>4 DEF Tick, IInv, Typed, AskedLast, Ok
<1>9. CASE UNCHANGED vars
  BY <1>9 DEF vars, Asked, IInv, Typed, AskedLast, Ok
<1>. QED
  BY <1>1, <1>2, <1>3, <1>4, <1>5, <1>6, <1>7, <1>8, <1>9 DEF Next, TagStep

LEMMA IInvStep == AnswerInSlot /\ IInv /\ [Next]_vars => IInv'
BY TypeStep, AtRestStep, TagAnswersStep, AskedLastStep DEF IInv, Typed

(***************************************************************************)
(* The answer at the initiator                                              *)
(***************************************************************************)
\* Due exactly ANSWER after the reception, an answer is to the poll sent last.
LEMMA AnswerDue ==
  ASSUME IInv, TagTransmits
  PROVE  /\ answer \in AnswerFrames /\ answer \in Frames /\ tage = ANSWER
         /\ answer.to \in PollFrames => Asked = answer.to /\ Asked \in PollFrames
BY ExchangeAssumption DEF TagTransmits, IInv, Typed, TypeOK, TagAnswers, Asked, Frames

LEMMA AnswerIsOwnStep ==
  NoRunts /\ IInv /\ AnswerIsOwn /\ [Next]_vars => AnswerIsOwn'
<1>. SUFFICES ASSUME NoRunts, IInv, AnswerIsOwn, [Next]_vars, NEW j \in Initiator,
                     ipc'[j] = "await", inbox'[j] \in AnswerFrames, inbox'[j].id = j
              PROVE  inbox'[j].to = Poll(j, seq'[j])
  BY DEF AnswerIsOwn
<1>a. Err \notin AnswerFrames /\ None \notin AnswerFrames
  BY Absences DEF Frames
<1>b. /\ ipc \in [Initiator -> {"idle", "await"}] /\ seq \in [Initiator -> Seq]
      /\ inbox \in [Node -> Frames \cup {None, Err}]
  BY DEF IInv, Typed, TypeOK
<1>c. ASSUME ipc[j] = "await", inbox'[j] = inbox[j], seq'[j] = seq[j]
      PROVE  inbox'[j].to = Poll(j, seq'[j])
  BY <1>c DEF AnswerIsOwn
\* A frame that is not an answer changes nothing.
<1>d. ASSUME NEW f, NEW sender, NEW hit, Transmit(f, sender, hit), f \notin AnswerFrames
      PROVE  inbox'[j] = inbox[j]
  BY <1>a, <1>d, Heard, Nodes
<1>1. ASSUME NEW i \in Initiator, SendPoll(i) PROVE inbox'[j].to = Poll(j, seq'[j])
  <2>1. Poll(i, seq[i]) \notin AnswerFrames
    BY <1>b, Polls, Kinds
  <2>2. inbox'[j] = inbox[j]
    BY <1>1, <1>d, <2>1 DEF SendPoll
  <2>3. ipc[j] = "await"
    <3>1. inbox[j] # None
      BY <1>a, <2>2
    <3>. QED
      BY <1>b, <3>1 DEF IInv, Typed, AtRest
  <2>. QED
    BY <1>1, <1>c, <2>2, <2>3 DEF SendPoll
<1>2. ASSUME NEW i \in Initiator, InitiatorStep(i) PROVE inbox'[j].to = Poll(j, seq'[j])
  <2>1. EndExchange(i)
    BY <1>2 DEF InitiatorStep, Accept, Reject, ReceptionError, TimesOut
  <2>2. j # i /\ ipc[j] = "await" /\ seq'[j] = seq[j] /\ inbox'[j] = inbox[j]
    BY <2>1, <1>b, Nodes DEF EndExchange
  <2>. QED
    BY <1>c, <2>2
<1>3. CASE TagReceptionError \/ TagIgnores \/ TagPrepares \/ TagArms \/ TagTooLate
  BY <1>3, <1>b, <1>c, Nodes
     DEF TagReceptionError, TagIgnores, TagPrepares, TagArms, TagTooLate
<1>4. CASE TagTransmits
  <2>1. ipc[j] = "await" /\ seq'[j] = seq[j]
    BY <1>4 DEF TagTransmits
  <2>2. CASE inbox'[j] = inbox[j]
    BY <1>c, <2>1, <2>2
  <2>3. CASE inbox'[j] = answer
    <3>1. answer.to \in PollFrames /\ answer.to.id = answer.id
      <4>1. answer \in AnswerFrames
        BY <1>4, AnswerDue
      <4>2. answer.to \in PollFrames \cup StrayFrames
        BY <4>1 DEF AnswerFrames, Answer
      <4>3. answer.to.kind # "runt"
        BY <4>2 DEF NoRunts, PollFrames, Poll, StrayFrames, StrayFrame
      <4>. QED
        BY <1>4, <4>3 DEF TagTransmits, IInv, Typed, ToItsPoll
    <3>2. Asked = answer.to /\ Asked.id = j /\ Asked \in PollFrames /\ tage <= ANSWER
      BY <1>4, <2>3, <3>1, AnswerDue, ExchangeAssumption
    <3>. QED
      BY <2>1, <2>3, <3>2 DEF IInv, Typed, AskedLast
  <2>. QED
    BY <1>4, <1>a, <2>2, <2>3, Heard, Nodes DEF TagTransmits
<1>5. CASE StrayTransmission
  <2>1. PICK k \in Stray : Transmit(StrayFrame(k), "elsewhere", Awaiting)
    BY <1>5 DEF StrayTransmission
  <2>2. StrayFrame(k) \notin AnswerFrames
    <3>1. StrayFrame(k).kind \in {"other", "runt"}
      BY ExchangeAssumption DEF StrayFrame
    <3>. QED
      BY <3>1 DEF AnswerFrames, Answer
  <2>. QED
    BY <1>5, <1>c, <1>d, <2>1, <2>2 DEF StrayTransmission
<1>6. CASE Tick
  BY <1>6, <1>c DEF Tick
<1>7. CASE UNCHANGED vars
  BY <1>7, <1>c DEF vars
<1>. QED
  BY <1>1, <1>2, <1>3, <1>4, <1>5, <1>6, <1>7 DEF Next, TagStep

(***************************************************************************)
(* The exchange that nothing disturbs                                       *)
(***************************************************************************)
\* The exchange i is in the tag's hands for less than a slot and a timeout.
LEMMA InHandInTime ==
  ASSUME AnswerInSlot, TagInSlot, IInv, NEW i \in Initiator, InHand(i)
  PROVE  gap < SLOT /\ iage[i] < TIMEOUT /\ (tpc = "armed" \/ TagWorking)
<1>1. Asked # None
  BY Polls, Absences DEF InHand, IInv, Typed, TypeOK
<1>2. tpc = "armed" \/ TagWorking
  BY <1>1 DEF Asked, TagWorking, IInv, Typed, TypeOK
<1>3. tage <= ANSWER \/ tage <= TAG_LAG
  BY <1>2 DEF IInv, Typed, TagAnswers
<1>. QED
  BY <1>2, <1>3, ExchangeAssumption
     DEF InHand, AnswerInSlot, TagInSlot, IInv, Typed, TypeOK

\* One that is neither of the two is disturbed, so that a step need only keep
\* the undisturbed ones.
LEMMA UndisturbedStep ==
  AnswerInSlot /\ TagInSlot /\ IInv /\ Undisturbed /\ [Next]_vars => Undisturbed'
<1>. SUFFICES ASSUME AnswerInSlot, TagInSlot, IInv, Undisturbed, [Next]_vars,
                     NEW j \in Initiator, ipc'[j] = "await", j \notin spoiled'
              PROVE  InHand(j)' \/ Answered(j)'
  BY DEF Undisturbed
<1>a. /\ ipc \in [Initiator -> {"idle", "await"}] /\ seq \in [Initiator -> Seq]
      /\ inbox \in [Node -> Frames \cup {None, Err}] /\ spoiled \subseteq Initiator
      /\ iage \in [Initiator -> 0 .. MaxAge]
      /\ gap \in 0 .. MaxAge /\ tage \in 0 .. MaxAge
  BY DEF IInv, Typed, TypeOK
<1>b. ASSUME ipc[j] = "await", j \notin spoiled PROVE InHand(j) \/ Answered(j)
  BY <1>b DEF Undisturbed
\* An answer stays in the receiver.
<1>c. ASSUME NEW f, NEW sender, NEW hit, Transmit(f, sender, hit), Answered(j)
      PROVE  Answered(j)'
  <2>1. inbox[j] # None
    BY <1>c, Absences DEF Answered, Frames
  <2>2. inbox'[j] = inbox[j]
    BY <1>c, <2>1, Heard, Nodes DEF On
  <2>. QED
    BY <1>c, <2>2 DEF Answered
<1>d. ASSUME ipc[j] = "await", spoiled' = spoiled, inbox'[j] = inbox[j], seq'[j] = seq[j],
             InHand(j) => Asked' = Asked /\ gap' = tage' /\ iage'[j] = tage'
      PROVE  InHand(j)' \/ Answered(j)'
  BY <1>b, <1>d DEF InHand, Answered
<1>e. Poll(j, seq[j]) \in PollFrames /\ Poll(j, seq[j]) \in Frames
      /\ Poll(j, seq[j]).kind = "poll"
  BY <1>a, Polls
<1>1. ASSUME NEW i \in Initiator, SendPoll(i) PROVE InHand(j)' \/ Answered(j)'
  <2>1. PICK hit : Transmit(Poll(i, seq[i]), i, hit) /\ hit = IF On("Tag") THEN {} ELSE {i}
    BY <1>1 DEF SendPoll
  <2>2. CASE j # i
    <3>1. ipc[j] = "await" /\ j \notin spoiled
      BY <1>1, <1>a, <2>1, <2>2, Heard DEF SendPoll
    <3>2. ~InHand(j)
      BY <1>1, <1>a, InHandInTime, ExchangeAssumption DEF SendPoll
    <3>. QED
      BY <1>b, <1>c, <2>1, <3>1, <3>2
  <2>3. CASE j = i
    <3>1. On("Tag")
      BY <2>1, <2>3, Heard
    <3>2. inbox'["Tag"] = Poll(j, seq[j])
      BY <2>1, <2>3, <3>1, Heard, Nodes
    <3>3. inbox'[j] = inbox[j] /\ inbox[j] = None /\ iage[j] = 0
      BY <1>1, <2>1, <2>3, Heard, Nodes DEF SendPoll, IInv, Typed, AtRest
    <3>4. tage' = 0
      <4>1. inbox["Tag"] = None
        BY <3>1 DEF On
      <4>2. inbox'["Tag"] # inbox["Tag"]
        BY <1>e, <3>2, <4>1, Absences
      <4>. QED
        BY <2>1, <4>2, Heard
    <3>5. tpc' = "listen" /\ gap' = 0 /\ seq' = seq /\ iage' = iage
      BY <1>1, <3>1 DEF SendPoll, tagVars, On
    <3>6. Asked' = inbox'["Tag"]
      BY <3>5 DEF Asked
    <3>. QED
      BY <3>2, <3>3, <3>4, <3>5, <3>6 DEF InHand
  <2>. QED
    BY <2>2, <2>3
<1>2. ASSUME NEW i \in Initiator, InitiatorStep(i) PROVE InHand(j)' \/ Answered(j)'
  <2>1. EndExchange(i)
    BY <1>2 DEF InitiatorStep, Accept, Reject, ReceptionError, TimesOut
  <2>2. /\ j # i /\ ipc[j] = "await" /\ seq'[j] = seq[j] /\ inbox'[j] = inbox[j]
        /\ iage'[j] = iage[j] /\ inbox'["Tag"] = inbox["Tag"]
    BY <2>1, <1>a, Nodes DEF EndExchange
  <2>3. Asked' = Asked
    BY <2>1, <2>2 DEF EndExchange, tagVars, Asked
  <2>. QED
    BY <1>d, <2>1, <2>2, <2>3 DEF EndExchange, InHand
<1>3. CASE TagReceptionError \/ TagIgnores
  <2>1. /\ ipc[j] = "await" /\ spoiled' = spoiled /\ inbox'[j] = inbox[j] /\ seq' = seq
    BY <1>3, <1>a, Nodes DEF TagReceptionError, TagIgnores
  <2>2. ~InHand(j)
    <3>1. tpc = "listen" /\ inbox["Tag"] # Poll(j, seq[j])
      BY <1>3, <1>e, Absences DEF TagReceptionError, TagIgnores, ReadInto, Bytes
    <3>. QED
      BY <3>1 DEF InHand, Asked
  <2>. QED
    BY <1>d, <2>1, <2>2
<1>4. CASE TagPrepares
  <2>1. answer'.to = inbox["Tag"] /\ tpc = "listen" /\ tpc' = "busy"
    <3>1. rxBuf'.id \in Initiator /\ inbox["Tag"] \in PollFrames \cup StrayFrames
      BY <1>4, PollBytes DEF TagPrepares, IInv, Typed
    <3>. QED
      BY <1>4, <3>1, Answers DEF TagPrepares, IInv, Typed, TypeOK
  <2>2. Asked' = Asked
    BY <2>1 DEF Asked
  <2>3. inbox'[j] = inbox[j]
    BY <1>4, <1>a, Nodes DEF TagPrepares
  <2>. QED
    BY <1>4, <1>d, <2>2, <2>3 DEF TagPrepares, InHand
<1>5. CASE TagArms
  BY <1>5, <1>d DEF TagArms, InHand, Asked
<1>6. CASE TagTooLate
  BY <1>6 DEF TagTooLate, Awaiting
<1>7. CASE TagTransmits
  <2>1. ipc[j] = "await" /\ seq' = seq /\ Transmit(answer, "Tag", {})
    BY <1>7 DEF TagTransmits
  <2>2. j \notin spoiled /\ j \in Awaiting
    BY <2>1, Heard, Nodes DEF Awaiting
  <2>3. CASE Answered(j)
    BY <1>c, <2>1, <2>3
  <2>4. CASE InHand(j)
    <3>1. answer \in AnswerFrames /\ tage = ANSWER /\ Asked = answer.to /\ answer.to = Poll(j, seq[j])
      BY <1>7, <2>4, AnswerDue DEF TagTransmits, InHand, Asked
    <3>2. answer.id = j
      <4>1. answer.to.kind # "runt" /\ answer.to.id = j
        BY <3>1, <1>a, Polls
      <4>. QED
        BY <1>7, <4>1 DEF TagTransmits, IInv, Typed, ToItsPoll
    <3>3. On(j)
      BY <2>1, <2>4, <3>1, Nodes, ExchangeAssumption DEF On, InHand
    <3>4. inbox'[j] = answer
      BY <2>1, <2>2, <3>3, Heard, Nodes
    <3>. QED
      BY <3>1, <3>2, <3>4 DEF Answered
  <2>. QED
    BY <1>b, <2>1, <2>2, <2>3, <2>4
<1>8. CASE StrayTransmission
  <2>1. PICK k \in Stray : Transmit(StrayFrame(k), "elsewhere", Awaiting)
    BY <1>8 DEF StrayTransmission
  <2>. QED
    BY <1>8, <2>1, Heard DEF StrayTransmission, Awaiting
<1>9. CASE Tick
  <2>1. /\ ipc[j] = "await" /\ spoiled' = spoiled /\ inbox' = inbox /\ seq' = seq
        /\ iage'[j] = Later(iage[j]) /\ gap' = Later(gap)
    BY <1>9 DEF Tick
  <2>2. Asked' = Asked
    BY <1>9 DEF Tick, tagVars, Asked
  <2>3. InHand(j) => tage' = Later(tage)
    BY <1>9, InHandInTime DEF Tick
  <2>. QED
    BY <1>d, <2>1, <2>2, <2>3 DEF InHand
<1>10. CASE UNCHANGED vars
  BY <1>10, <1>d DEF vars, InHand, Asked
<1>. QED
  BY <1>1, <1>2, <1>3, <1>4, <1>5, <1>6, <1>7, <1>8, <1>9, <1>10 DEF Next, TagStep

----------------------------------------------------------------------------
(***************************************************************************)
(* The theorems                                                             *)
(***************************************************************************)
\* Whatever the timing, a frame, an age or a number is never out of its range
\* and the answer is of an initiator: TAGFinal.ino:86-120, ANCHOR1Final.ino:96-140.
THEOREM TypeCorrect == Spec => []TypeOK
<1>1. Init => Typed
  BY IInvInit DEF Typed, IInv, Typed
<1>2. Typed /\ [Next]_vars => Typed'
  BY TypeStep, AtRestStep, TagAnswersStep DEF Typed
<1>. QED
  BY <1>1, <1>2, PTL DEF Spec, Typed

\* With an answer within the slot the frame the tag answers in time is the last
\* poll, of an initiator that waits for it or has given up (IInv).
THEOREM LastPollAnswered == AnswerInSlot /\ Spec => []IInv
<1>. SUFFICES ASSUME AnswerInSlot PROVE Spec => []IInv
  OBVIOUS
<1>1. IInv /\ [Next]_vars => IInv'
  BY IInvStep
<1>. QED
  BY <1>1, IInvInit, PTL DEF Spec

\* An accepted answer carries the timestamps of the very poll it is taken for,
\* although ANCHOR1Final.ino:115-133 compares no sequence number: for every
\* number of initiators, modulus, receiver delay, timeout and lag of the tag.
THEOREM OwnAnswer == AnswerInSlot /\ NoRunts /\ Spec => AcceptsOwnAnswer
<1>. SUFFICES ASSUME AnswerInSlot, NoRunts PROVE Spec => AcceptsOwnAnswer
  OBVIOUS
<1>1. Init => AnswerIsOwn
  BY DEF Init, AnswerIsOwn
<1>2. AnswerIsOwn /\ IInv /\ [Next]_vars => AnswerIsOwn'
  BY AnswerIsOwnStep
<1>3. IInv /\ AnswerIsOwn /\ [Next]_vars =>
        [\A i \in Initiator : Accept(i) => inbox[i].to = Poll(i, seq[i])]_vars
  BY Kinds DEF AnswerIsOwn, Accept, Matches
<1>4. Spec => []IInv
  BY LastPollAnswered
<1>. QED
  BY <1>1, <1>2, <1>3, <1>4, PTL DEF Spec, AcceptsOwnAnswer

\* An exchange ends without a distance only when the tag did not listen or was
\* late, a frame was lost or spoiled or another device transmitted, whatever the
\* receiver's delay and timeout: the margin of TAGFinal.ino:21-23.
THEOREM FailuresAreSpoiled ==
  AnswerInSlot /\ TagInSlot /\ Spec => FailsOnlyIfSpoiled
<1>. SUFFICES ASSUME AnswerInSlot, TagInSlot PROVE Spec => FailsOnlyIfSpoiled
  OBVIOUS
<1>1. Init => Undisturbed
  BY DEF Init, Undisturbed
<1>2. Undisturbed /\ IInv /\ [Next]_vars => Undisturbed'
  BY UndisturbedStep
<1>3. ASSUME IInv, Undisturbed, NEW i \in Initiator,
             TimesOut(i) \/ Reject(i) \/ ReceptionError(i)
      PROVE  i \in spoiled
  <2>1. CASE InHand(i)
    BY <1>3, <2>1, InHandInTime, Absences, ExchangeAssumption
       DEF InHand, TimesOut, Reject, ReceptionError, IInv, Typed, TypeOK
  <2>2. CASE Answered(i)
    BY <1>3, <2>2, Kinds, Absences
       DEF Answered, Frames, Matches, TimesOut, Reject, ReceptionError
  <2>. QED
    BY <1>3, <2>1, <2>2 DEF Undisturbed, TimesOut, Reject, ReceptionError
<1>4. IInv /\ Undisturbed /\ [Next]_vars =>
        [\A i \in Initiator :
           TimesOut(i) \/ Reject(i) \/ ReceptionError(i) => i \in spoiled]_vars
  BY <1>3
<1>5. Spec => []IInv
  BY LastPollAnswered
<1>. QED
  BY <1>1, <1>2, <1>4, <1>5, PTL DEF Spec, FailsOnlyIfSpoiled
=============================================================================
