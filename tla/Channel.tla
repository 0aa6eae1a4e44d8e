------------------------------ MODULE Channel ------------------------------
(***************************************************************************)
(* What the 600 ms cycle promises without any clock (HUBFinal.ino:157-159): *)
(* a radio channel used in rounds.  In a round each initiator takes the     *)
(* channel at most once and only when it is free, those after it in the     *)
(* order not having had it yet, and a round begins with the channel free.   *)
(***************************************************************************)
CONSTANTS
  User,
  Before    \* Before[u]: the users whose turn comes before u's

VARIABLES
  holders,  \* who has a ranging going on
  served    \* who has had the channel in this round

vars == <<holders, served>>

Init == holders = {} /\ served = {}

NewRound ==
  /\ holders = {}
  /\ served' = {}
  /\ UNCHANGED holders

Acquire(u) ==
  /\ holders = {}
  /\ served \subseteq Before[u]
  /\ holders' = {u} /\ served' = served \cup {u}

Release(u) ==
  /\ holders = {u}
  /\ holders' = {}
  /\ UNCHANGED served

Next == NewRound \/ \E u \in User : Acquire(u) \/ Release(u)

Spec == Init /\ [][Next]_vars
=============================================================================
