----------------------------- MODULE MCHubAges -----------------------------
(***************************************************************************)
(* HubAges for TLC, with the distances, rooms and ticks of MCHub.           *)
(***************************************************************************)
EXTENDS MCHub, HubAges
=============================================================================
