------------------------------ MODULE Geometry ------------------------------
(***************************************************************************)
(* Where the Hub thinks the tag is: the room profiles, the solver and the    *)
(* boundary check of HUBFinal.ino's loop, and where the page draws it.       *)
(*                                                                           *)
(* Lengths are whole numbers of some unit (a centimetre in "rooms"), so that *)
(* the squares the solver adds are exact; its two quotients are kept as      *)
(* numerators over "det".  Nothing here depends on the unit.                 *)
(***************************************************************************)
EXTENDS Integers

(* A profile's stations and limits; names are in Hub. *)
Profile(max_x, max_y, a1_z, a2_z, hub_z, a1_x, a1_y, a2_x, a2_y, hub_x, hub_y) ==
  [max_x |-> max_x, max_y |-> max_y, a1_z |-> a1_z, a2_z |-> a2_z, hub_z |-> hub_z,
   a1_x |-> a1_x, a1_y |-> a1_y, a2_x |-> a2_x, a2_y |-> a2_y, hub_x |-> hub_x, hub_y |-> hub_y]
RoomConfig ==
  [max_x : Int, max_y : Int, a1_z : Int, a2_z : Int, hub_z : Int,
   a1_x : Int, a1_y : Int, a2_x : Int, a2_y : Int, hub_x : Int, hub_y : Int]
rooms ==
  << Profile(785, 1050, 220, 235, 220, 0, 0, 785, 0, 0, 950),
     Profile(1000, 1200, 75, 235, 220, 800, 800, 785, 0, 0, 1050),
     Profile(2170, 1562, 75, 235, 220, 800, 1170, 785, 0, 0, 1050),
     Profile(769, 1094, 183, 183, 183, 0, 994, 769, 994, 385, 0) >>

----------------------------------------------------------------------------
(* The solver.  d1sq, d2sq, d3sq: the squared distances to A1, the Hub, A2.  *)
A(rc) == 2 * (rc.a1_x - rc.hub_x)
B(rc) == 2 * (rc.a1_y - rc.hub_y)
C(rc, d1sq, d2sq) ==
  d2sq - d1sq - rc.hub_x * rc.hub_x - rc.hub_y * rc.hub_y + rc.a1_x * rc.a1_x + rc.a1_y * rc.a1_y
D(rc) == 2 * (rc.a1_x - rc.a2_x)
E(rc) == 2 * (rc.a1_y - rc.a2_y)
F(rc, d1sq, d3sq) ==
  d3sq - d1sq - rc.a2_x * rc.a2_x - rc.a2_y * rc.a2_y + rc.a1_x * rc.a1_x + rc.a1_y * rc.a1_y
det(rc) == A(rc) * E(rc) - B(rc) * D(rc)

\* det times the coordinates, and what the height is the square root of.
X(rc, d1sq, d2sq, d3sq) == C(rc, d1sq, d2sq) * E(rc) - B(rc) * F(rc, d1sq, d3sq)
Y(rc, d1sq, d2sq, d3sq) == A(rc) * F(rc, d1sq, d3sq) - C(rc, d1sq, d2sq) * D(rc)
zSq(rc, d1sq, x, y) == d1sq - (x - rc.a1_x) * (x - rc.a1_x) - (y - rc.a1_y) * (y - rc.a1_y)

\* p / q < n and n < p / q
Below(p, q, n) == IF q > 0 THEN p < n * q ELSE p > n * q
Above(p, q, n) == IF q > 0 THEN p > n * q ELSE p < n * q

\* Stations in a line leave X and Y at 0, which counts as inside.
outsideRoom(rc, d1sq, d2sq, d3sq) ==
  LET q == det(rc)
      x == X(rc, d1sq, d2sq, d3sq)
      y == Y(rc, d1sq, d2sq, d3sq)
  IN q # 0 /\ (Below(x, q, 0) \/ Below(y, q, 0) \/ Above(x, q, rc.max_x) \/ Above(y, q, rc.max_y))

\* The limits for the display, on whole units.
Clamp(n, max) == IF n < 0 THEN 0 ELSE IF n > max THEN max ELSE n

----------------------------------------------------------------------------
(* What a station measures of a tag at <<x, y, z>>. *)
SquaredDistance(x, y, z, sx, sy, sz) == (x - sx) * (x - sx) + (y - sy) * (y - sy) + (z - sz) * (z - sz)
ToA1(rc, x, y, z) == SquaredDistance(x, y, z, rc.a1_x, rc.a1_y, rc.a1_z)
ToHub(rc, x, y, z) == SquaredDistance(x, y, z, rc.hub_x, rc.hub_y, rc.hub_z)
ToA2(rc, x, y, z) == SquaredDistance(x, y, z, rc.a2_x, rc.a2_y, rc.a2_z)
SeenOutside(rc, x, y, z) == outsideRoom(rc, ToA1(rc, x, y, z), ToHub(rc, x, y, z), ToA2(rc, x, y, z))
Outside(rc, x, y) == x < 0 \/ y < 0 \/ x > rc.max_x \/ y > rc.max_y

----------------------------------------------------------------------------
(* The page's 2D view: eleven tenths of the room or of the station farthest *)
(* out, on W by H pixels inside a margin of 40.                              *)
pad == 40
Larger(m, n) == IF n > m THEN n ELSE m
viewXMax(rc) == Larger(rc.max_x, Larger(rc.hub_x, Larger(rc.a1_x, rc.a2_x)))
viewYMax(rc) == Larger(rc.max_y, Larger(rc.hub_y, Larger(rc.a1_y, rc.a2_y)))
\* toC, times the width of the view: pixels times 11 * viewXMax, 11 * viewYMax.
cx(rc, wx, W) == pad * (11 * viewXMax(rc)) + (10 * wx) * W
cy(rc, wy, H) == (pad + H) * (11 * viewYMax(rc)) - (10 * wy) * H
OnCanvas(rc, wx, wy, W, H) ==
  /\ pad * (11 * viewXMax(rc)) <= cx(rc, wx, W)
  /\ cx(rc, wx, W) <= (pad + W) * (11 * viewXMax(rc))
  /\ pad * (11 * viewYMax(rc)) <= cy(rc, wy, H)
  /\ cy(rc, wy, H) <= (pad + H) * (11 * viewYMax(rc))
=============================================================================
