------------------------- MODULE ControllerSubtitles ------------------------
(***************************************************************************)
(* The controller implements Subtitles.  An utterance waits from the pause *)
(* check of the flush loop to the step that decides on it, unless it is    *)
(* marked as skipped; it is on air while sendMessage runs.  What           *)
(* flushDelayQueue sends no longer counts: its context is cancelled.       *)
(***************************************************************************)
EXTENDS Controller

\* Utterances of o that may still be shown
Awaiting(o) ==
  IF draining \/ pc = "done" THEN {}
  ELSE {m.utt : m \in {x \in InReview : x.out = o /\ x.id \notin skipSet}}
         \cup IF pc = "enqueue" /\ Head(todo) = o THEN {txt} ELSE {}

OnAir == IF pc = "send" /\ ~draining
         THEN {<<Head(batch).out, Head(batch).utt>>} ELSE {}

Horizon == [o \in Outputs |-> IF o \in DOMAIN nextSeq THEN nextSeq[o] ELSE 0]
Waiting == [o \in Outputs |-> Awaiting(o)]
Aired == [i \in DOMAIN shown |-> <<shown[i].out, shown[i].utt>>]
Muted == [o \in Outputs |-> IsPaused(o)]

Viewed == INSTANCE Subtitles WITH
  horizon <- Horizon, waiting <- Waiting, onAir <- OnAir, shown <- Aired, muted <- Muted

\* The detailed controller implements the abstract one: a paused output
\* accepts and commits nothing, a discarded line stays away, the oldest line
\* of an output is always the next to go on air, and only one is on air.
ImplementsSubtitles == Viewed!Spec

=============================================================================
