----------------------------- MODULE Subtitles ------------------------------
(***************************************************************************)
(* What a controller promises to the viewers of a room and to the people   *)
(* who watch over it, without queues, numbers of messages or goroutines:   *)
(* each output is a stream of utterances in the order they were said; an   *)
(* utterance is accepted while its output is not muted, waits, can be      *)
(* discarded while it waits, and goes on air alone, the oldest of its      *)
(* output first and only while the output is not muted.  On air it is      *)
(* shown or lost, and nobody can take it back.                             *)
(***************************************************************************)
EXTENDS Integers, Sequences

CONSTANT Outputs

VARIABLES horizon,  \* the first utterance not yet passed, per output
          waiting,  \* utterances accepted and not yet decided, per output
          onAir,    \* the pair of output and utterance being sent, if any
          shown,    \* pairs that reached the room, in order
          muted     \* which outputs are muted

vars == <<horizon, waiting, onAir, shown, muted>>

Init ==
  /\ horizon = [o \in Outputs |-> 0]
  /\ waiting = [o \in Outputs |-> {}]
  /\ onAir = {}
  /\ shown = <<>>
  /\ muted = [o \in Outputs |-> FALSE]

\* An utterance is passed by once: accepted, or dropped at the entrance.
Pass(o, u) ==
  /\ horizon[o] = u
  /\ horizon' = [horizon EXCEPT ![o] = u + 1]
  /\ UNCHANGED <<onAir, shown, muted>>

Accept(o, u) ==
  /\ ~muted[o]
  /\ Pass(o, u)
  /\ waiting' = [waiting EXCEPT ![o] = @ \cup {u}]

Drop(o, u) == Pass(o, u) /\ UNCHANGED waiting

Discard(o, u) ==
  /\ u \in waiting[o]
  /\ waiting' = [waiting EXCEPT ![o] = @ \ {u}]
  /\ UNCHANGED <<horizon, onAir, shown, muted>>

Commit(o, u) ==
  /\ ~muted[o]
  /\ onAir = {}
  /\ u \in waiting[o] /\ \A v \in waiting[o] : u <= v
  /\ waiting' = [waiting EXCEPT ![o] = @ \ {u}]
  /\ onAir' = {<<o, u>>}
  /\ UNCHANGED <<horizon, shown, muted>>

Show ==
  /\ \E m \in onAir : shown' = Append(shown, m)
  /\ onAir' = {}
  /\ UNCHANGED <<horizon, waiting, muted>>

Lose ==
  /\ onAir # {}
  /\ onAir' = {}
  /\ UNCHANGED <<horizon, waiting, shown, muted>>

Mute ==
  /\ muted' \in [Outputs -> BOOLEAN]
  /\ UNCHANGED <<horizon, waiting, onAir, shown>>

\* The session is over; what still waits is not shown any more.
End ==
  /\ waiting' = [o \in Outputs |-> {}]
  /\ UNCHANGED <<horizon, onAir, shown, muted>>

Next ==
  \/ \E o \in Outputs : Accept(o, horizon[o]) \/ Drop(o, horizon[o])
  \/ \E o \in Outputs : \E u \in waiting[o] : Discard(o, u) \/ Commit(o, u)
  \/ Show \/ Lose \/ Mute \/ End

Spec == Init /\ [][Next]_vars

=============================================================================
