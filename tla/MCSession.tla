------------------------------ MODULE MCSession -----------------------------
(***************************************************************************)
(* Instances of Session for TLC: one output, which nobody edits.           *)
(***************************************************************************)
EXTENDS Session, TLC

CONSTANT o1

Single == {o1}
OneList == <<o1>>
NoEdits == {}
Nobody == {}
=============================================================================
