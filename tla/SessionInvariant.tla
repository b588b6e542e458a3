-------------------------- MODULE SessionInvariant --------------------------
(***************************************************************************)
(* The inductive invariants of Session.  The numbers of an utterance and of *)
(* its result part company when the pipeline restarts, so OrderInv no       *)
(* longer explains why a room's lines are in order.  What does: a run ends  *)
(* only when its workers have submitted, so the channel carries run after   *)
(* run; a run's numbers have no gaps, so when the first result of the next  *)
(* is routed every sender has passed all of those before; and a result      *)
(* whose number is below nextSeq is never taken.                            *)
(***************************************************************************)
EXTENDS Session, ControllerInvariant

-----------------------------------------------------------------------------
(* The agent.                                                              *)

APCs == {"boot", "backoff", "dispatch", "acquire", "wait", "returned",
         "stopping", "stopped"}

SessionType ==
  /\ apc \in APCs
  /\ stt \in {"streaming", "retry", "ended"}
  /\ results \in Seq(Nat) /\ spoken \in Nat /\ seq \in Nat
  /\ held \in Seq(Result) /\ workers \subseteq Result

\* What is left of a run where Run and runPipeline stand
AgentAt ==
  /\ apc \notin {"dispatch", "acquire"} => stt = "ended" /\ results = <<>>
  /\ apc # "acquire" => held = <<>>
  /\ apc \notin {"dispatch", "acquire", "wait"} => workers = {}
  /\ closed => apc \in {"stopping", "stopped"}

\* Nobody edits the outputs, so every one that is routed to has its sender.
FixedOutputs ==
  /\ outputs = InitOutputs
  /\ pc = "start" => DOMAIN nextSeq = {}
  /\ pc # "start" => DOMAIN nextSeq = ToSet(InitOutputs)
  /\ pc \in {"route", "flush", "enqueue"} => ToSet(todo) \subseteq ToSet(InitOutputs)
  /\ pc # "panic"

AgentInv == AgentAt /\ FixedOutputs

-----------------------------------------------------------------------------
(* Runs.  The starts of a session are the utterances with which its runs   *)
(* began; they tell which run an utterance belongs to.                     *)

SameRun(starts, u, v) == \A s \in starts : s <= u <=> s <= v

\* The run of u is not after that of v.
RunsInOrder(starts, u, v) == u <= v \/ SameRun(starts, u, v)

\* u belongs to the latest run.
InLatest(starts, u) == \A s \in starts : s <= u

-----------------------------------------------------------------------------
(* What an output's sender has still to do with, as results.               *)

NumberOf(x) == [utt |-> x.utt, seq |-> x.seq]

Translating == workers \cup ToSet(held)
Sent == {NumberOf(ch[i]) : i \in DOMAIN ch}

\* Where cur is being routed
RoutingPCs == {"log", "route", "flush", "enqueue"}

\* cur has not been buffered for o yet.
Unrouted(o) == \/ pc = "log"
               \/ pc = "route" /\ o \in ToSet(todo)
               \/ pc \in {"flush", "enqueue"} /\ o \in ToSet(Tail(todo))

Routing(o) == IF Unrouted(o) THEN {NumberOf(cur)} ELSE {}

Coming(o) == Routing(o) \cup Sent \cup Translating
Stored(o) == IF o \in DOMAIN nextSeq THEN {NumberOf(e) : e \in buf[o]} ELSE {}
Known(o) == Stored(o) \cup Coming(o)

\* nextSeq, also before run has made the senders
Awaited(o) == IF o \in DOMAIN nextSeq THEN nextSeq[o] ELSE 0

\* The sender of o may pass x, now or later.
Open(o, x) == x.seq >= Awaited(o)

Served == ToSet(InitOutputs)

-----------------------------------------------------------------------------
(* The inductive invariant.                                                *)

\* The channel carries run after run.
RunAfterRun(starts) ==
  /\ \A i, j \in DOMAIN ch : i < j => RunsInOrder(starts, ch[i].utt, ch[j].utt)
  /\ pc \in RoutingPCs =>
       \A i \in DOMAIN ch : RunsInOrder(starts, cur.utt, ch[i].utt)
  /\ \A x \in Translating : InLatest(starts, x.utt)
  /\ \A i \in DOMAIN results : InLatest(starts, results[i])
  /\ \A o \in Served : \A x \in Stored(o), y \in Coming(o) :
       RunsInOrder(starts, x.utt, y.utt)

\* Within a run, results are numbered in the order of what was said.
NumbersInOrder(starts) ==
  \A o \in Served :
    /\ \A x, y \in Known(o) :
         SameRun(starts, x.utt, y.utt) /\ x.seq < y.seq => x.utt < y.utt
    /\ \A x \in Known(o) : InLatest(starts, x.utt) => x.seq < seq

\* No number of a run is left out between what is awaited and what is there.
NoGaps(starts) ==
  \A o \in Served :
    /\ \A x \in Known(o) : \A k \in Awaited(o) .. x.seq - 1 :
         \E y \in Known(o) : y.seq = k /\ SameRun(starts, x.utt, y.utt)
    /\ \A k \in Awaited(o) .. seq - 1 :
         \E y \in Known(o) : y.seq = k /\ InLatest(starts, y.utt)

\* What a sender has buffered and not passed is of one run.
OneRunStored(starts) ==
  \A o \in Served : \A x, y \in Stored(o) :
    Open(o, x) /\ Open(o, y) => SameRun(starts, x.utt, y.utt)

\* Outside of its flush loop a sender has no line that it could pass.
Flushed ==
  \A o \in DOMAIN nextSeq :
    Ready(o) = {} \/ (pc \in {"flush", "enqueue"} /\ o = Head(todo))

\* What is known was said before what waits in resultsCh.
SaidBefore(u) == u < spoken /\ \A i \in DOMAIN results : u < results[i]

Said ==
  /\ \A x \in Sent \cup Translating : SaidBefore(x.utt)
  /\ pc \in RoutingPCs => SaidBefore(cur.utt)
  /\ \A o \in Served : \A x \in Stored(o) : SaidBefore(x.utt)
  /\ \A i, j \in DOMAIN results : i < j => results[i] < results[j]
  /\ \A i \in DOMAIN results : results[i] < spoken

\* u, which the sender of o has passed, was said before all that it may pass.
BeforeOpen(o, u) ==
  SaidBefore(u) /\ \A x \in Known(o) : Open(o, x) => u < x.utt

\* The messages in review and those shown: id, output and utterance
Messages ==
  {Key(m) : m \in ToSet(delayQueue) \cup ToSet(batch) \cup ToSet(shown)}

PassedInOrder ==
  /\ \A m \in Messages : m[2] \in DOMAIN nextSeq /\ BeforeOpen(m[2], m[3])
  /\ pc = "enqueue" => BeforeOpen(Head(todo), txt)

RunsInv(starts) ==
  /\ RunAfterRun(starts) /\ NumbersInOrder(starts)
  /\ NoGaps(starts) /\ OneRunStored(starts)

Runs == \E starts \in SUBSET (0 .. spoken) : RunsInv(starts)

DeliveryInv == QueueInv /\ Runs /\ Said /\ Flushed /\ PassedInOrder

=============================================================================
