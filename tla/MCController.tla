---------------------------- MODULE MCController ----------------------------
(***************************************************************************)
(* Instances of Controller for TLC: the lists of outputs it is run with.   *)
(***************************************************************************)
EXTENDS ControllerSubtitles, ControllerInvariant, TLC

CONSTANTS o1, o2

One == <<o1>>
Both == <<o1, o2>>
NoSync == {}
Again == {<<o1>>}
RemoveAndReAdd == {<<>>, <<o1>>}
AddSecond == {<<o1, o2>>}
Nobody == {}
Everybody == {o1, o2}
OnlyFirst == {o1}
=============================================================================
