-------------------------------- MODULE Walk --------------------------------
(***************************************************************************)
(* A tag that is carried about in a room, its ranges exact: what the Hub's   *)
(* solver and boundary check (Geometry) make of them.                        *)
(***************************************************************************)
EXTENDS Geometry

CONSTANTS
  Unit,      \* centimetres in a unit of length: a divisor of every length of Where
  Where,     \* the profile in use
  Step,      \* how far the tag is carried at once
  Heights    \* the heights it is carried at

Room == [f \in DOMAIN rooms[Where] |-> rooms[Where][f] \div Unit]

VARIABLES
  tagX, tagY, tagZ,   \* where the tag is
  seen                \* the Hub counts it as outside: three times in a row sound the alarm
vars == <<tagX, tagY, tagZ, seen>>

Init == tagX = 0 /\ tagY = 0 /\ tagZ \in Heights /\ seen = FALSE

Along(n, max) == {m \in {n - Step, n + Step} : 0 <= m /\ m <= max}
Carry ==
  /\ \/ tagX' \in Along(tagX, Room.max_x) /\ UNCHANGED <<tagY, tagZ>>
     \/ tagY' \in Along(tagY, Room.max_y) /\ UNCHANGED <<tagX, tagZ>>
     \/ tagZ' \in Heights /\ UNCHANGED <<tagX, tagY>>
  /\ seen' = SeenOutside(Room, tagX', tagY', tagZ')

Spec == Init /\ [][Carry]_vars

\* "HIGH = beeping (tag outside room)" and "this system achieves 10cm accuracy": a tag
\* more than 10 cm inside the room is not seen outside, its ranges being exact.
SeenMeansOutside ==
  LET margin == 10 \div Unit
  IN seen => \/ Outside(Room, tagX + margin, tagY + margin)
             \/ Outside(Room, tagX - margin, tagY - margin)
=============================================================================
