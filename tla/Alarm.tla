------------------------------- MODULE Alarm -------------------------------
(***************************************************************************)
(* What the Hub's alarm promises, without counters, ages or tasks: it       *)
(* sounds from the moment the last N positions were all outside, and it is  *)
(* silent while there is no position to go by (HUBFinal.ino:72-77, 230-232).*)
(***************************************************************************)
EXTENDS Naturals

CONSTANT N   \* outside positions in a row that sound the alarm

VARIABLES
  window,    \* the i in 1 .. N for which the i-th latest position was outside
  sounding

vars == <<window, sounding>>

Full == 1 .. N

Init == window = {} /\ sounding = FALSE

Shifted(out) == {i \in Full : IF i = 1 THEN out ELSE i - 1 \in window}

Position(out) ==
  /\ window' = Shifted(out)
  /\ sounding' = (window' = Full)

NoPosition == sounding' = FALSE /\ UNCHANGED window

Restart == window' = {} /\ sounding' = FALSE

Next == (\E out \in BOOLEAN : Position(out)) \/ NoPosition \/ Restart

Spec == Init /\ [][Next]_vars
=============================================================================
