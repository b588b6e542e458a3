------------------------------ MODULE MCReload ------------------------------
(***************************************************************************)
(* Instances of Reload for TLC.                                            *)
(***************************************************************************)
EXTENDS Reload, TLC

CONSTANTS r1, r2

TwoRooms == {r1, r2}
OneRoom == {r1}
BothListed == <<r1, r2>>
OneListed == <<r1>>
=============================================================================
