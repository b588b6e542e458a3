----------------------------- MODULE Controller -----------------------------
(***************************************************************************)
(* One controller of internal/controller/controller.go, from New to the   *)
(* return of its run goroutine.  Translation workers hand it numbered      *)
(* translations through a bounded channel, in whatever order they finish;  *)
(* the run goroutine restores the order separately for every output, holds *)
(* each line in a review queue for sendDelay, and then sends it.  The web  *)
(* server and the danmaku commands pause outputs, skip pending lines and   *)
(* replace the list of outputs from their own goroutines meanwhile.        *)
(*                                                                         *)
(* Every action ends where the code releases c.mu, blocks, or calls out of *)
(* the package, so other goroutines interleave exactly where they can.     *)
(* Text is abstracted to whether there is any: a translation carries the   *)
(* set of outputs for which it has a non-empty one.  An utterance number   *)
(* (utt) identifies what was said; within one pipeline run it equals seq.  *)
(***************************************************************************)
EXTENDS Integers, Sequences, FiniteSets, SequencesExt

CONSTANTS Outputs,      \* names an output of this streamer may have
          InitOutputs,  \* the configured list when the session starts
          SyncLists,    \* the lists the web server may install later
          Accountless,  \* outputs whose account pool is empty
          MaxSeq,       \* bound: utterances of the run, 0 .. MaxSeq - 1
          ChanCap,      \* capacity of c.ch (100 in the code)
          SendDelay,    \* c.sendDelay in units of TimePasses
          MaxRecent,    \* maxRecent (5 in the code)
          StaleIDs,     \* ids that requests may name without their being given out:
                        \* of an earlier session, or 0 for one that is no number
          Logging       \* whether the session has a transcript logger

\* An output that is saved replaces the one of its name; that a list sent with
\* its streamer, or typed into the file, has a name twice is left out.
NameLists == {s \in Seq(Outputs) :
                \A i, j \in DOMAIN s : s[i] = s[j] => i = j}

ASSUME ListsAssumption == InitOutputs \in NameLists /\ SyncLists \subseteq NameLists
ASSUME BoundsAssumption == /\ MaxSeq \in Nat
                           /\ ChanCap \in Nat \ {0}
                           /\ SendDelay \in Nat
                           /\ MaxRecent \in Nat \ {0}
ASSUME AccountsAssumption == Accountless \subseteq Outputs
ASSUME StaleAssumption == StaleIDs \subseteq Nat
ASSUME LoggingAssumption == Logging \in BOOLEAN

Seqs == 0 .. MaxSeq - 1

\* Translation; a map from target language to text, seen from the outputs
Translation == [utt : Nat, seq : Nat, texts : SUBSET Outputs]
NoTranslation == [utt |-> 0, seq |-> 0, texts |-> {}]
\* An entry of outputSender.pending
Line == [utt : Nat, seq : Nat, text : BOOLEAN]
\* delayedMsg; "left" is how far its sendAt is ahead of the clock
Msg == [id : Nat, out : Outputs, utt : Nat, left : 0 .. SendDelay]

VARIABLES
  ch,          \* c.ch: translations submitted and not yet received
  closed,      \* c.ch has been closed by Stop
  ctxDone,     \* the context of the stream is cancelled
  submitted,   \* utterances handed to Submit so far
  outputs,     \* c.outputs; its elements are the keys of c.outputStates
  paused,      \* c.paused
  uiPending,   \* ids of outputStates[o].Pending
  recent,      \* ids of outputStates[o].Recent
  skipSet,     \* c.skipSet
  nextMsgID,   \* c.nextMsgID
  pc,          \* where the run goroutine stands
  cur,         \* the translation it is routing
  todo,        \* outputs of the range loop it has not routed cur to
  txt,         \* the line it is about to enqueue
  nextSeq,     \* senders[o].nextSeq; its domain is that of senders
  buf,         \* senders[o].pending
  delayQueue,  \* delayQueue ("remaining" while the batch is processed)
  batch,       \* what the loop of process/flushDelayQueue has not finished
  due,         \* ids of the batch that had expired when the tick began
  draining,    \* the batch is flushDelayQueue's
  transcript,  \* lines of the CSV: utterance and output translated for
  shown,       \* what reached the room, in order
  revoked      \* ids the user skipped while they were listed as pending

shared == <<outputs, paused, uiPending, recent, skipSet, nextMsgID>>
channel == <<ch, closed, ctxDone, submitted>>
routing == <<cur, todo, txt, nextSeq, buf>>
queue == <<delayQueue, batch, due, draining>>
history == <<transcript, shown, revoked>>
vars == <<channel, shared, pc, routing, queue, history>>

Unlogged == "unlogged"  \* a transcript line without a translation

-----------------------------------------------------------------------------
(* New and the channel.                                                    *)

Init ==
  /\ ch = <<>> /\ closed = FALSE /\ ctxDone = FALSE /\ submitted = {}
  /\ outputs = InitOutputs
  /\ paused = [o \in ToSet(InitOutputs) |-> FALSE]
  /\ uiPending = [o \in ToSet(InitOutputs) |-> {}]
  /\ recent = [o \in ToSet(InitOutputs) |-> <<>>]
  /\ skipSet = {} /\ nextMsgID = 0
  /\ pc = "start"
  /\ cur = NoTranslation /\ todo = <<>> /\ txt = 0
  /\ nextSeq = [o \in {} |-> 0] /\ buf = [o \in {} |-> {}]
  /\ delayQueue = <<>> /\ batch = <<>> /\ due = {} /\ draining = FALSE
  /\ transcript = {} /\ shown = <<>> /\ revoked = {}

\* A crash of the run goroutine is a crash of the process.
Alive == pc # "panic"

\* A worker hands over its translation; the send blocks while c.ch is full.
Submit(t) ==
  /\ Alive /\ ~closed
  /\ Len(ch) < ChanCap
  /\ ch' = Append(ch, t)
  /\ submitted' = submitted \cup {t.utt}
  /\ UNCHANGED <<closed, ctxDone, shared, pc, routing, queue, history>>

\* Workers answer in any order, each utterance once.
SubmitSeq(s) ==
  /\ s \notin submitted
  /\ \E texts \in SUBSET Outputs :
       Submit([utt |-> s, seq |-> s, texts |-> texts])

\* The monitor goroutine cancels the stream's context.
Cancel ==
  /\ Alive /\ ~ctxDone
  /\ ctxDone' = TRUE
  /\ UNCHANGED <<ch, closed, submitted, shared, pc, routing, queue, history>>

\* Stop closes c.ch; its caller gets there only once the context is done,
\* because Agent.Run returns only then.
Stop ==
  /\ Alive /\ ctxDone /\ ~closed
  /\ closed' = TRUE
  /\ UNCHANGED <<ch, ctxDone, submitted, shared, pc, routing, queue, history>>

-----------------------------------------------------------------------------
(* Calls of the web server and of the command handler, under c.mu.         *)

\* c.paused[o] for a key that may be missing
IsPaused(o) == o \in DOMAIN paused /\ paused[o]

SetPaused(o, p) ==
  /\ Alive
  /\ paused' = [x \in DOMAIN paused \cup {o} |-> IF x = o THEN p ELSE paused[x]]
  /\ UNCHANGED <<channel, outputs, uiPending, recent, skipSet, nextMsgID,
                 pc, routing, queue, history>>

SkipOnlyInUI(id) == skipSet                                     \* mutant
MarkSkipped(id) == skipSet \cup {id}

\* handleSkip takes any number.
Skippable == (0 .. nextMsgID - 1) \cup StaleIDs

\* The mark is left whether or not such a message is pending, and one that gets
\* this id later finds it.
SkipPending(id) ==
  /\ Alive
  /\ skipSet' = MarkSkipped(id)
  /\ uiPending' = [o \in DOMAIN uiPending |-> uiPending[o] \ {id}]
  /\ revoked' = IF \E o \in DOMAIN uiPending : id \in uiPending[o]
                THEN revoked \cup {id} ELSE revoked
  /\ UNCHANGED <<channel, outputs, paused, recent, nextMsgID,
                 pc, routing, queue, transcript, shown>>

StartOver(f, list, init) == [o \in ToSet(list) |-> init]            \* mutant
\* f carried over to the outputs of list, with init for the new ones
CarryOver(f, list, init) ==
  [o \in ToSet(list) |-> IF o \in DOMAIN f THEN f[o] ELSE init]

\* An output that is in outputStates keeps c.paused[o]; a new one is paused.
SyncOutputs(list) ==
  /\ Alive
  /\ outputs' = list
  /\ uiPending' = CarryOver(uiPending, list, {})
  /\ recent' = CarryOver(recent, list, <<>>)
  /\ paused' = [o \in ToSet(list) |->
                  IF o \in DOMAIN uiPending THEN IsPaused(o) ELSE TRUE]
  /\ UNCHANGED <<channel, skipSet, nextMsgID, pc, routing, queue, history>>

-----------------------------------------------------------------------------
(* run: the select, routing a translation, and the per-output reordering.  *)

StartRun ==
  /\ pc = "start"
  /\ pc' = "select"
  /\ nextSeq' = [o \in ToSet(outputs) |-> 0]
  /\ buf' = [o \in ToSet(outputs) |-> {}]
  /\ UNCHANGED <<channel, shared, cur, todo, txt, queue, history>>

Receive ==
  /\ pc = "select" /\ ch # <<>>
  /\ cur' = Head(ch)
  /\ ch' = Tail(ch)
  /\ pc' = "log"
  /\ UNCHANGED <<closed, ctxDone, submitted, shared, todo, txt, nextSeq, buf,
                 queue, history>>

\* Outputs the transcript loop would accept for cur, by position
Loggable == {i \in DOMAIN outputs : /\ ~IsPaused(outputs[i])
                                    /\ outputs[i] \in cur.texts}

NothingLogged == {}                                             \* mutant
SourceAlone == {<<cur.utt, Unlogged>>}

\* One line per translation: for the first output that is not paused and has
\* text, or the source alone.  Then the second range over c.outputs begins.
\* The code takes the lock for each output; pauses that change meanwhile decide
\* whose line it is, not that there is one, and are left out.
LogTranscript ==
  /\ pc = "log"
  /\ \/ ~Logging /\ UNCHANGED transcript
     \/ /\ Logging /\ Loggable = {}
        /\ transcript' = transcript \cup SourceAlone
     \/ /\ Logging
        /\ \E i \in Loggable :
             /\ \A j \in Loggable : i <= j
             /\ transcript' = transcript \cup {<<cur.utt, outputs[i]>>}
  /\ todo' = outputs
  /\ pc' = "route"
  /\ UNCHANGED <<channel, shared, cur, txt, nextSeq, buf, queue, shown, revoked>>

LineFor(o) == [utt |-> cur.utt, seq |-> cur.seq, text |-> o \in cur.texts]

BufferOnlyText(o) == IF o \in cur.texts THEN buf[o] \cup {LineFor(o)} ELSE buf[o] \* mutant
\* pending[t.Seq] = text overwrites, and keeps an empty text too
Buffered(o) == {e \in buf[o] : e.seq # cur.seq} \cup {LineFor(o)}

RouteOutput ==
  /\ pc = "route" /\ todo # <<>>
  /\ Head(todo) \in DOMAIN nextSeq
  /\ buf' = [buf EXCEPT ![Head(todo)] = Buffered(Head(todo))]
  /\ pc' = "flush"
  /\ UNCHANGED <<channel, shared, cur, todo, txt, nextSeq, queue, history>>

\* senders[o.Name] is nil for an output that SyncOutputs added, and the
\* assignment to s.pending dereferences it.
RoutePanics ==
  /\ pc = "route" /\ todo # <<>>
  /\ Head(todo) \notin DOMAIN nextSeq
  /\ pc' = "panic"
  /\ UNCHANGED <<channel, shared, routing, queue, history>>

RouteDone ==
  /\ pc = "route" /\ todo = <<>>
  /\ cur' = NoTranslation
  /\ pc' = "select"
  /\ UNCHANGED <<channel, shared, todo, txt, nextSeq, buf, queue, history>>

\* Buffered lines of o that may be flushed
Ready(o) == {e \in buf[o] : e.seq = nextSeq[o]}

\* Nothing is buffered for nextSeq: the loop goes on to the next output.
FlushGap ==
  /\ pc = "flush"
  /\ Ready(Head(todo)) = {}
  /\ todo' = Tail(todo)
  /\ pc' = "route"
  /\ UNCHANGED <<channel, shared, cur, txt, nextSeq, buf, queue, history>>

\* The line for nextSeq is taken; an empty or a paused one goes no further.
FlushLine ==
  /\ pc = "flush"
  /\ \E e \in Ready(Head(todo)) :
       LET o == Head(todo) IN
       /\ buf' = [buf EXCEPT ![o] = @ \ {e}]
       /\ nextSeq' = [nextSeq EXCEPT ![o] = e.seq + 1]
       /\ IF e.text /\ ~IsPaused(o)
          THEN pc' = "enqueue" /\ txt' = e.utt
          ELSE UNCHANGED <<pc, txt>>
  /\ UNCHANGED <<channel, shared, cur, todo, queue, history>>

\* The line gets an id and is listed as pending, if its output still exists.
Enqueue ==
  /\ pc = "enqueue"
  /\ LET o == Head(todo) IN
       /\ nextMsgID' = nextMsgID + 1
       /\ uiPending' = IF o \in DOMAIN uiPending
                       THEN [uiPending EXCEPT ![o] = @ \cup {nextMsgID}]
                       ELSE uiPending
       /\ delayQueue' = Append(delayQueue, [id |-> nextMsgID, out |-> o,
                                            utt |-> txt, left |-> SendDelay])
  /\ txt' = 0
  /\ pc' = "flush"
  /\ UNCHANGED <<channel, outputs, paused, recent, skipSet, cur, todo, nextSeq,
                 buf, batch, due, draining, history>>

-----------------------------------------------------------------------------
(* run: the tick, the review queue and sending.                            *)

NeverDue(m) == m.left < 0                                       \* mutant
Expired(m) == m.left = 0

TickerFires ==
  /\ pc = "select" /\ delayQueue # <<>>
  /\ batch' = delayQueue
  /\ delayQueue' = <<>>
  /\ due' = {m.id : m \in {x \in ToSet(delayQueue) : Expired(x)}}
  /\ pc' = "process"
  /\ UNCHANGED <<channel, shared, routing, draining, history>>

\* now.Before(dm.sendAt): the message stays in the queue
Retain ==
  /\ pc = "process" /\ batch # <<>>
  /\ Head(batch).id \notin due
  /\ delayQueue' = Append(delayQueue, Head(batch))
  /\ batch' = Tail(batch)
  /\ UNCHANGED <<channel, shared, pc, routing, due, draining, history>>

UnlistOnly(m, ids) == ids                                       \* mutant
Unlist(m, ids) == ids \ {m.id}

SendPaused(o) == TRUE                                           \* mutant
MaySend(o) == ~IsPaused(o)

\* Under c.mu: the skip mark is consumed, the message is unlisted, the pause
\* is looked at.  Outside it the message is then dropped or sent.
ProcessNext ==
  /\ pc = "process" /\ batch # <<>>
  /\ Head(batch).id \in due
  /\ LET m == Head(batch) IN
       /\ skipSet' = skipSet \ {m.id}
       /\ uiPending' = IF m.out \in DOMAIN uiPending
                       THEN [uiPending EXCEPT ![m.out] = Unlist(m, @)]
                       ELSE uiPending
       /\ IF m.id \notin skipSet /\ MaySend(m.out)
          THEN pc' = "send" /\ UNCHANGED batch
          ELSE batch' = Tail(batch) /\ UNCHANGED pc
  /\ UNCHANGED <<channel, outputs, paused, recent, nextMsgID, routing,
                 delayQueue, due, draining, history>>

ProcessDone ==
  /\ pc = "process" /\ batch = <<>>
  /\ due' = {}
  /\ pc' = "select"
  /\ UNCHANGED <<channel, shared, routing, delayQueue, batch, draining, history>>

\* Where the loop that called sendMessage continues
Resume == IF draining THEN "drain" ELSE "process"

\* sendMessage finds no such output any more, or no account to send with.
SendNowhere ==
  /\ pc = "send"
  /\ \/ Head(batch).out \notin ToSet(outputs)
     \/ Head(batch).out \in Accountless
  /\ batch' = Tail(batch)
  /\ pc' = Resume
  /\ UNCHANGED <<channel, shared, routing, delayQueue, due, draining, history>>

\* The loop over the chunks.  The message reaches the room, or every Send
\* fails (or no bot is found); with a cancelled context every Send fails.
SendChunks ==
  /\ pc = "send"
  /\ Head(batch).out \in ToSet(outputs) \ Accountless
  /\ \/ ~ctxDone /\ shown' = Append(shown, Head(batch))
     \/ UNCHANGED shown
  /\ pc' = "recent"
  /\ UNCHANGED <<channel, shared, routing, queue, transcript, revoked>>

\* The last MaxRecent entries
KeepRecent(s) == IF Len(s) > MaxRecent
                 THEN SubSeq(s, Len(s) - MaxRecent + 1, Len(s)) ELSE s

AddRecent ==
  /\ pc = "recent"
  /\ LET m == Head(batch) IN
       recent' = IF m.out \in DOMAIN recent
                 THEN [recent EXCEPT ![m.out] = KeepRecent(Append(@, m.id))]
                 ELSE recent
  /\ batch' = Tail(batch)
  /\ pc' = Resume
  /\ UNCHANGED <<channel, outputs, paused, uiPending, skipSet, nextMsgID,
                 routing, delayQueue, due, draining, history>>

-----------------------------------------------------------------------------
(* run: the two ways out, and the clock.                                   *)

\* c.ch is closed and drained: flushDelayQueue takes what is queued.
BeginDrain ==
  /\ pc = "select" /\ closed /\ ch = <<>>
  /\ draining' = TRUE
  /\ batch' = delayQueue
  /\ delayQueue' = <<>>
  /\ pc' = "drain"
  /\ UNCHANGED <<channel, shared, routing, due, history>>

\* The flush looks at skips only: not at pauses, and the list stays as it is.
DrainNext ==
  /\ pc = "drain" /\ batch # <<>>
  /\ skipSet' = skipSet \ {Head(batch).id}
  /\ IF Head(batch).id \in skipSet
     THEN batch' = Tail(batch) /\ UNCHANGED pc
     ELSE pc' = "send" /\ UNCHANGED batch
  /\ UNCHANGED <<channel, outputs, paused, uiPending, recent, nextMsgID,
                 routing, delayQueue, due, draining, history>>

DrainDone ==
  /\ pc = "drain" /\ batch = <<>>
  /\ pc' = "done"
  /\ UNCHANGED <<channel, shared, routing, queue, history>>

ExitWhenClosed == closed                                        \* mutant
ExitReady == ctxDone

Exit ==
  /\ pc = "select" /\ ExitReady
  /\ pc' = "done"
  /\ UNCHANGED <<channel, shared, routing, queue, history>>

\* The clock comes closer to every sendAt.
Aged(s) == [i \in DOMAIN s |->
              [s[i] EXCEPT !.left = IF @ > 0 THEN @ - 1 ELSE 0]]

TimePasses ==
  /\ pc \notin {"done", "panic"}
  /\ \E m \in ToSet(delayQueue) \cup ToSet(batch) : m.left > 0
  /\ delayQueue' = Aged(delayQueue)
  /\ batch' = Aged(batch)
  /\ UNCHANGED <<channel, shared, pc, routing, due, draining, history>>

-----------------------------------------------------------------------------

\* Steps of the run goroutine after the select has chosen a case
Work ==
  \/ StartRun \/ LogTranscript \/ RouteOutput \/ RoutePanics \/ RouteDone
  \/ FlushGap \/ FlushLine \/ Enqueue
  \/ Retain \/ ProcessNext \/ ProcessDone
  \/ SendNowhere \/ SendChunks \/ AddRecent
  \/ DrainNext \/ DrainDone

Select == Receive \/ TickerFires \/ BeginDrain \/ Exit

\* Calls of other goroutines that change what the user has asked for
Control ==
  \/ \E o \in Outputs, p \in BOOLEAN : SetPaused(o, p)
  \/ \E id \in Skippable : SkipPending(id)
  \/ \E list \in SyncLists : SyncOutputs(list)

Next ==
  \/ \E s \in Seqs : SubmitSeq(s)
  \/ Cancel \/ Stop
  \/ Control
  \/ Work \/ Select
  \/ TimePasses

Spec == Init /\ [][Next]_vars

\* The goroutine keeps running, select picks fairly among ready cases, the
\* clock advances, and every worker gets an answer in the end.
Fairness ==
  /\ WF_vars(Work)
  /\ SF_vars(Receive) /\ SF_vars(TickerFires) /\ SF_vars(BeginDrain \/ Exit)
  /\ WF_vars(TimePasses)
  /\ \A s \in Seqs : WF_vars(SubmitSeq(s))

FairSpec == Spec /\ Fairness

-----------------------------------------------------------------------------
(* Properties.                                                             *)

PCs == {"start", "select", "log", "route", "flush", "enqueue",
        "process", "send", "recent", "drain", "done", "panic"}

\* Every variable keeps its type; in particular Recent never holds more than
\* maxRecent entries, and UI state exists exactly for the current outputs.
TypeOK ==
  /\ ch \in Seq(Translation) /\ Len(ch) <= ChanCap
  /\ closed \in BOOLEAN /\ ctxDone \in BOOLEAN
  /\ submitted \subseteq Nat
  /\ outputs \in NameLists
  /\ DOMAIN paused \subseteq Outputs
  /\ \A o \in DOMAIN paused : paused[o] \in BOOLEAN
  /\ uiPending \in [ToSet(outputs) -> SUBSET Nat]
  /\ recent \in [ToSet(outputs) -> Seq(Nat)]
  /\ \A o \in ToSet(outputs) : Len(recent[o]) <= MaxRecent
  /\ skipSet \subseteq Nat /\ nextMsgID \in Nat
  /\ pc \in PCs
  /\ cur \in Translation /\ todo \in Seq(Outputs) /\ txt \in Nat
  /\ DOMAIN nextSeq \subseteq Outputs
  /\ nextSeq \in [DOMAIN nextSeq -> Nat]
  /\ buf \in [DOMAIN nextSeq -> SUBSET Line]
  /\ delayQueue \in Seq(Msg) /\ batch \in Seq(Msg)
  /\ due \subseteq Nat /\ draining \in BOOLEAN
  /\ transcript \subseteq Nat \X (Outputs \cup {Unlogged})
  /\ shown \in Seq(Msg)
  /\ revoked \subseteq Nat

\* Ordered delivery: on every output the room sees utterances in the order in
\* which they were said, each at most once, although workers finish in any
\* order, lines are paused, skipped and lost, and outputs come and go.
OrderedDelivery ==
  \A i, j \in DOMAIN shown :
    i < j /\ shown[i].out = shown[j].out => shown[i].utt < shown[j].utt

\* Skip is final: a message the user skipped while the list of pending ones
\* showed it never reaches the room, whatever races with the tick.
RevokedNeverShown == \A i \in DOMAIN shown : shown[i].id \notin revoked

\* Messages that wait in the review queue or in the rest of a tick's batch
InReview == ToSet(delayQueue) \cup
            IF pc \in {"send", "recent"} THEN ToSet(Tail(batch)) ELSE ToSet(batch)

\* The list of pending messages has no ghosts: what it shows is still to be
\* decided on, so Skip has an effect.  (While Stop flushes the queue the list
\* is left as it is.)
NoGhostPending ==
  ~draining => \A o \in DOMAIN uiPending :
                 uiPending[o] \subseteq {m.id : m \in InReview}

\* The outputs that nobody removes, whoever edits the others
Lasting == {o \in ToSet(InitOutputs) : \A list \in SyncLists : o \in ToSet(list)}

\* The review is complete: unless its output is removed, a message on its way
\* to the room is listed as pending until its turn, or was skipped.
ReviewComplete ==
  \A m \in InReview : m.out \in Lasting => m.id \in uiPending[m.out] \cup skipSet

\* A hot-added output takes part in the session and does not stop it: "Config
\* changes apply without restart" (README), "you need to resume them on the
\* Control Panel" (MANUAL).  The code panics on the next translation.
NoPanic == pc # "panic"

\* "recording every original and translated line" (MANUAL, section 6): what an
\* output has passed, shown or not, has exactly one line in the transcript.
\* (The line is the first loggable output's; the others' translations are not
\* in the file.)
RecordedOnce ==
  Logging =>
    \A o \in DOMAIN nextSeq : \A u \in 0 .. nextSeq[o] - 1 :
      Cardinality({l \in transcript : l[1] = u}) = 1

\* Each utterance is passed, on every output of the session's start, by that
\* output's sender, however late its neighbours are answered; unless the
\* session ends.
EveryLinePassed ==
  \A o \in ToSet(InitOutputs), s \in Seqs :
    s \in submitted ~> \/ pc \in {"done", "panic"}
                       \/ o \in DOMAIN nextSeq /\ nextSeq[o] > s

\* No message stays in review for ever: its delay ends and a tick takes it out,
\* or the run goroutine has ended.
EveryReviewEnds ==
  \A id \in 0 .. Cardinality(Outputs) * MaxSeq :
    id \in {m.id : m \in InReview} ~>
      id \notin {m.id : m \in InReview} \/ pc \in {"done", "panic"}

\* A cancelled context ends the run goroutine, even if Stop is never called.
CancelEndsRun == ctxDone ~> pc \in {"done", "panic"}

=============================================================================
