----------------------------- MODULE MCExchange -----------------------------
(***************************************************************************)
(* Instances of Exchange for TLC.  A tick is about 300 UUS.                 *)
(***************************************************************************)
EXTENDS Exchange

TwoNodes == {"A1", "A2"}
OtherFrames == {"other"}
=============================================================================
