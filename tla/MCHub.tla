------------------------------- MODULE MCHub -------------------------------
(***************************************************************************)
(* Instances of Hub for TLC.  A tick is 200 ms, so 400 ms, 600 ms and the   *)
(* button's 500 ms keep their values; the 6000 ms window shrinks to FRESH.  *)
(***************************************************************************)
EXTENDS Hub

\* Distance 1 is short of the wall and 2 beyond it; each room judges by
\* another anchor, so that a switch of profile changes the verdict.
MCDist == {1, 2}
MCInside ==
  [r \in Rooms |->
     {t \in [Anchor -> MCDist] : IF r = 0 THEN t["A1"] = 1 ELSE t["A2"] = 1}]

\* One distance only and nothing outside: the room profiles are the subject.
OneDist == {1}
AllInside == [r \in Rooms |-> [Anchor -> OneDist]]
=============================================================================
