----------------------- MODULE ControllerReviewProofs -----------------------
(***************************************************************************)
(* The review, the transcript and the refinement of Subtitles, for every   *)
(* controller.                                                             *)
(***************************************************************************)
EXTENDS ControllerProofs, ControllerSubtitles, FiniteSetTheorems

USE DEF Key

\* Facts about the steps that change who is under review
LEMMA IdTypes ==
  ASSUME TypeOK
  PROVE  /\ delayQueue \in Seq(Msg) /\ batch \in Seq(Msg) /\ shown \in Seq(Msg)
         /\ \A i \in DOMAIN delayQueue : delayQueue[i].id \in Nat
         /\ \A i \in DOMAIN batch : batch[i].id \in Nat
         /\ nextMsgID \in Nat
<1>1. delayQueue \in Seq(Msg) /\ batch \in Seq(Msg) /\ shown \in Seq(Msg)
  BY DEF TypeOK
<1>2. \A m \in Msg : m.id \in Nat
  BY DEF Msg
<1> QED BY <1>1, <1>2 DEF TypeOK

\* The head of the batch has an id of its own.
LEMMA HeadIsAlone ==
  ASSUME TypeOK, QueueInv, batch # <<>>,
         NEW r \in {Key(delayQueue[i]) : i \in DOMAIN delayQueue}
                     \cup {Key(batch[j]) : j \in 2 .. Len(batch)}
  PROVE  r[1] # Head(batch).id
<1>1. 1 \in DOMAIN batch /\ Head(batch) = batch[1]
  BY IdTypes
<1>2. CASE \E i \in DOMAIN delayQueue : r = Key(delayQueue[i])
  BY <1>1, <1>2, IdTypes DEF QueueInv, RetainedFirst, Before
<1>3. CASE \E j \in 2 .. Len(batch) : r = Key(batch[j])
  <2>1. PICK j \in 2 .. Len(batch) : r[1] = batch[j].id
    BY <1>3
  <2>2. j \in DOMAIN batch /\ 1 < j
    BY <2>1, IdTypes
  <2>3. batch[1].id < batch[j].id
    BY <1>1, <2>2 DEF QueueInv, QueueSorted, Sorted, Before
  <2> QED BY <1>1, <2>1, <2>2, <2>3, IdTypes
<1> QED BY <1>2, <1>3

\* Tail(batch), seen by position
LEMMA TailReviewed ==
  ASSUME NEW s \in Seq(Msg), s # <<>>
  PROVE  {Key(Tail(s)[j]) : j \in DOMAIN Tail(s)}
           = {Key(s[j]) : j \in 2 .. Len(s)}
<1>1. /\ Len(s) \in Nat \ {0} /\ DOMAIN Tail(s) = 1 .. Len(s) - 1
      /\ \A j \in DOMAIN Tail(s) : Tail(s)[j] = s[j + 1]
  OBVIOUS
<1>2. \A j \in 2 .. Len(s) : j - 1 \in DOMAIN Tail(s) /\ Tail(s)[j - 1] = s[j]
  BY <1>1
<1>3. \A j \in DOMAIN Tail(s) : j + 1 \in 2 .. Len(s) /\ Tail(s)[j] = s[j + 1]
  BY <1>1
<1> QED BY <1>2, <1>3

\* The whole of a sequence that is not empty, split after its head
LEMMA SplitReviewed ==
  ASSUME NEW s \in Seq(Msg), s # <<>>
  PROVE  {Key(s[j]) : j \in DOMAIN s}
           = {Key(s[1])} \cup {Key(s[j]) : j \in 2 .. Len(s)}
<1>1. Len(s) \in Nat \ {0} /\ DOMAIN s = 1 .. Len(s)
  OBVIOUS
<1>2. DOMAIN s = {1} \cup 2 .. Len(s)
  BY <1>1
<1> QED BY <1>2

Later == {Key(delayQueue[i]) : i \in DOMAIN delayQueue}
           \cup {Key(batch[j]) : j \in 2 .. Len(batch)}

\* A step that decides on the head of the batch takes it, and only it, out of
\* the review.
LEMMA DecideReviewed ==
  ASSUME TypeOK, pc \in {"process", "drain"}, batch # <<>>,
         UNCHANGED delayQueue,
         \/ batch' = Tail(batch) /\ UNCHANGED pc
         \/ pc' = "send" /\ UNCHANGED batch
  PROVE  /\ Reviewed = {Key(Head(batch))} \cup Later
         /\ Reviewed' = Later
<1>1. Head(batch) = batch[1] /\ batch \in Seq(Msg)
  BY IdTypes
<1>2. Reviewed = {Key(Head(batch))} \cup Later
  <2>1. {Key(batch[j]) : j \in DOMAIN batch}
          = {Key(batch[1])}
              \cup {Key(batch[j]) : j \in 2 .. Len(batch)}
    BY <1>1, SplitReviewed
  <2>2. Reviewed = {Key(delayQueue[i]) : i \in DOMAIN delayQueue}
                     \cup {Key(batch[j]) : j \in DOMAIN batch}
    BY DEF Reviewed, Undecided
  <2>3. Reviewed = {Key(batch[1])} \cup Later
    BY <2>1, <2>2 DEF Later
  <2> QED BY <1>1, <2>3
<1>3. CASE batch' = Tail(batch) /\ UNCHANGED pc
  <2>1. {Key(batch'[j]) : j \in DOMAIN batch'}
          = {Key(batch[j]) : j \in 2 .. Len(batch)}
    BY <1>1, <1>3, TailReviewed
  <2> QED BY <1>3, <2>1 DEF Reviewed, Undecided, Later
<1>4. CASE pc' = "send" /\ UNCHANGED batch
  BY <1>4 DEF Reviewed, Undecided, Later
<1>5. Reviewed' = Later
  BY <1>3, <1>4
<1> QED BY <1>2, <1>5

\* Finishing with the message that was sent changes nothing under review.
LEMMA FinishReviewed ==
  ASSUME TypeOK, pc \in {"send", "recent"}, batch # <<>>,
         UNCHANGED delayQueue,
         \/ batch' = Tail(batch) /\ pc' \in {"process", "drain"}
         \/ pc' = "recent" /\ UNCHANGED batch
  PROVE  Reviewed' = Reviewed
<1>1. batch \in Seq(Msg)
  BY IdTypes
<1> QED BY <1>1, TailReviewed DEF Reviewed, Undecided

LEMMA RetainReviewed ==
  ASSUME TypeOK, Retain
  PROVE  Reviewed' = Reviewed
<1>1. /\ delayQueue \in Seq(Msg) /\ batch \in Seq(Msg) /\ batch # <<>>
      /\ delayQueue' = Append(delayQueue, batch[1]) /\ batch' = Tail(batch)
      /\ batch[1] \in Msg /\ pc = "process" /\ pc' = "process"
  BY IdTypes DEF Retain
<1>2. /\ DOMAIN delayQueue' = DOMAIN delayQueue \cup {Len(delayQueue) + 1}
      /\ \A i \in DOMAIN delayQueue : delayQueue'[i] = delayQueue[i]
      /\ delayQueue'[Len(delayQueue) + 1] = batch[1]
  BY <1>1
<1>3. {Key(delayQueue'[i]) : i \in DOMAIN delayQueue'}
        = {Key(delayQueue[i]) : i \in DOMAIN delayQueue}
            \cup {Key(batch[1])}
  BY <1>2
<1>4. {Key(batch'[j]) : j \in DOMAIN batch'}
        = {Key(batch[j]) : j \in 2 .. Len(batch)}
  BY <1>1, TailReviewed
<1>5. {Key(batch[j]) : j \in DOMAIN batch}
        = {Key(batch[1])}
            \cup {Key(batch[j]) : j \in 2 .. Len(batch)}
  BY <1>1, SplitReviewed
<1> QED BY <1>1, <1>3, <1>4, <1>5 DEF Reviewed, Undecided

LEMMA EnqueueReviewed ==
  ASSUME TypeOK, Standing, Enqueue
  PROVE  Reviewed' = Reviewed \cup {<<nextMsgID, Head(todo), txt>>}
<1> DEFINE new == [id |-> nextMsgID, out |-> Head(todo), utt |-> txt,
                   left |-> SendDelay]
<1>1. /\ delayQueue \in Seq(Msg) /\ UNCHANGED batch
      /\ delayQueue' = Append(delayQueue, new)
      /\ pc = "enqueue" /\ pc' = "flush"
  BY IdTypes DEF Enqueue
<1>2. new \in Msg /\ new.id = nextMsgID /\ new.out = Head(todo)
  BY <1>1, BoundsAssumption DEF Msg, TypeOK, Standing
<1>3. /\ DOMAIN delayQueue' = DOMAIN delayQueue \cup {Len(delayQueue) + 1}
      /\ \A i \in DOMAIN delayQueue : delayQueue'[i] = delayQueue[i]
      /\ delayQueue'[Len(delayQueue) + 1] = new
  BY <1>1, <1>2
<1>4. {Key(delayQueue'[i]) : i \in DOMAIN delayQueue'}
        = {Key(delayQueue[i]) : i \in DOMAIN delayQueue}
            \cup {<<nextMsgID, Head(todo), txt>>}
  BY <1>2, <1>3
<1> QED BY <1>1, <1>4 DEF Reviewed, Undecided

LEMMA AgedReviewed ==
  ASSUME TypeOK, Standing, TimePasses
  PROVE  Reviewed' = Reviewed
<1>1. /\ delayQueue \in Seq(Msg) /\ batch \in Seq(Msg) /\ UNCHANGED pc
      /\ delayQueue' = Aged(delayQueue) /\ batch' = Aged(batch)
  BY IdTypes DEF TimePasses
<1>2. /\ DOMAIN delayQueue' = DOMAIN delayQueue /\ DOMAIN batch' = DOMAIN batch
      /\ delayQueue' \in Seq(Msg) /\ batch' \in Seq(Msg)
  BY <1>1, AgedType, BoundsAssumption
<1>3. Len(batch') = Len(batch) /\ 2 .. Len(batch) \subseteq DOMAIN batch
  BY <1>1, <1>2
<1>4. \A i \in DOMAIN delayQueue :
        /\ delayQueue'[i].id = delayQueue[i].id /\ delayQueue'[i].out = delayQueue[i].out
        /\ delayQueue'[i].utt = delayQueue[i].utt
  BY <1>1, AgedFields, BoundsAssumption
<1>5. \A i \in DOMAIN batch :
        /\ batch'[i].id = batch[i].id /\ batch'[i].out = batch[i].out
        /\ batch'[i].utt = batch[i].utt
  BY <1>1, AgedFields, BoundsAssumption
<1> QED BY <1>1, <1>2, <1>3, <1>4, <1>5 DEF Reviewed, Undecided

\* Only enqueueing and deciding change who is under review.
LEMMA SameReviewed ==
  ASSUME TypeOK, QueueInv, [Steps]_vars, ~Enqueue, ~ProcessNext, ~DrainNext
  PROVE  Reviewed' = Reviewed
<1> USE DEF QueueInv
<1>1. CASE UNCHANGED <<delayQueue, batch, pc>>
  BY <1>1 DEF Reviewed, Undecided
<1>2. CASE UNCHANGED <<delayQueue, batch>> /\ {pc, pc'} \cap {"send", "recent"} = {}
  BY <1>2 DEF Reviewed, Undecided
<1>3. CASE TickerFires \/ BeginDrain
  BY <1>3 DEF TickerFires, BeginDrain, AtHome, Reviewed, Undecided
<1>4. CASE SendNowhere \/ SendChunks \/ AddRecent
  BY <1>4, FinishReviewed
  DEF SendNowhere, SendChunks, AddRecent, Resume, Standing, queue
<1> QED
  BY <1>1, <1>2, <1>3, <1>4, RetainReviewed, AgedReviewed
  DEF Steps, Accept, Control, Work, Select, Submit, Cancel, Stop, SetPaused,
      SkipPending, SyncOutputs, StartRun, Receive, LogTranscript, RouteOutput,
      RoutePanics, RouteDone, FlushGap, FlushLine, ProcessDone, DrainDone, Exit,
      vars, queue

-----------------------------------------------------------------------------
(* The parts of ReviewInv.                                                 *)

LEMMA StepStopAfterCancel ==
  AtHome /\ StopAfterCancel /\ [Steps]_vars => StopAfterCancel'
<1> SUFFICES ASSUME AtHome, StopAfterCancel, [Steps]_vars PROVE StopAfterCancel'
  OBVIOUS
<1> USE DEF StopAfterCancel
<1>1. CASE UNCHANGED <<closed, ctxDone, draining>>
  BY <1>1
<1>2. CASE Cancel
  BY <1>2 DEF Cancel
<1>3. CASE Stop
  BY <1>3 DEF Stop
<1>4. CASE BeginDrain
  BY <1>4 DEF BeginDrain, channel
<1> QED
  BY <1>1, <1>2, <1>3, <1>4
  DEF Steps, Accept, Control, Work, Select, Submit, SetPaused, SkipPending,
      SyncOutputs, StartRun, Receive, LogTranscript, RouteOutput, RoutePanics,
      RouteDone, FlushGap, FlushLine, Enqueue, TickerFires, Retain, ProcessNext,
      ProcessDone, SendNowhere, SendChunks, AddRecent, DrainNext, DrainDone, Exit,
      TimePasses, vars, channel, queue

LEMMA StepListedIsReviewed ==
  /\ TypeOK /\ QueueInv /\ ListedIsReviewed /\ [Steps]_vars
  => ListedIsReviewed'
<1> SUFFICES ASSUME TypeOK, QueueInv, ListedIsReviewed, [Steps]_vars
             PROVE ListedIsReviewed'
  OBVIOUS
<1> USE DEF ListedIsReviewed
<1>1. CASE Enqueue
  <2>1. Reviewed' = Reviewed \cup {<<nextMsgID, Head(todo), txt>>}
    BY <1>1, EnqueueReviewed DEF QueueInv
  <2>2. UNCHANGED draining /\ DOMAIN uiPending' = DOMAIN uiPending
    BY <1>1 DEF Enqueue, TypeOK
  <2>3. \A o \in DOMAIN uiPending :
          uiPending'[o] \subseteq uiPending[o] \cup
             IF o = Head(todo) THEN {nextMsgID} ELSE {}
    BY <1>1 DEF Enqueue, TypeOK
  <2>4. \E r \in Reviewed' : r[1] = nextMsgID /\ r[2] = Head(todo)
    <3> DEFINE n == <<nextMsgID, Head(todo), txt>>
    <3>1. n[1] = nextMsgID /\ n[2] = Head(todo)
      OBVIOUS
    <3>2. n \in Reviewed'
      BY <2>1
    <3> HIDE DEF n
    <3> QED BY <3>1, <3>2
  <2> QED BY <2>1, <2>2, <2>3, <2>4
<1>2. CASE ProcessNext
  <2> DEFINE m == Head(batch)
  <2>1. /\ Reviewed = {Key(m)} \cup Later
        /\ Reviewed' = Later
    BY <1>2, DecideReviewed DEF ProcessNext
  <2>2. \A r \in Later : r[1] # m.id
    BY <1>2, HeadIsAlone DEF ProcessNext, Later
  <2>3. /\ UNCHANGED draining /\ DOMAIN uiPending' = DOMAIN uiPending
        /\ \A o \in DOMAIN uiPending :
             uiPending'[o] = uiPending[o] \ IF o = m.out THEN {m.id} ELSE {}
    BY <1>2 DEF ProcessNext, Unlist, TypeOK
  <2> QED BY <2>1, <2>2, <2>3
<1>3. CASE DrainNext
  BY <1>3 DEF DrainNext, QueueInv, AtHome
<1>4. CASE ~Enqueue /\ ~ProcessNext /\ ~DrainNext
  <2>1. Reviewed' = Reviewed
    BY <1>4, SameReviewed
  <2>2. CASE UNCHANGED <<uiPending, draining>> \/ draining'
    BY <2>1, <2>2
  <2>3. CASE \E id \in Skippable : SkipPending(id)
    <3>1. PICK id \in Skippable : SkipPending(id)
      BY <2>3
    <3>2. /\ DOMAIN uiPending' = DOMAIN uiPending /\ UNCHANGED draining
          /\ \A o \in DOMAIN uiPending : uiPending'[o] \subseteq uiPending[o]
      BY <3>1 DEF SkipPending, queue
    <3> QED BY <2>1, <3>2
  <2>4. CASE \E list \in SyncLists : SyncOutputs(list)
    <3>1. PICK list \in SyncLists : SyncOutputs(list)
      BY <2>4
    <3>2. /\ DOMAIN uiPending' = ToSet(list) /\ UNCHANGED draining
          /\ \A o \in ToSet(list) :
               uiPending'[o] = IF o \in DOMAIN uiPending THEN uiPending[o] ELSE {}
      BY <3>1 DEF SyncOutputs, CarryOver, queue
    <3> QED BY <2>1, <3>2
  <2> QED
    BY <1>4, <2>2, <2>3, <2>4
    DEF Steps, Accept, Control, Work, Select, Submit, Cancel, Stop, SetPaused,
        StartRun, Receive, LogTranscript, RouteOutput, RoutePanics, RouteDone,
        FlushGap, FlushLine, TickerFires, Retain, ProcessDone, SendNowhere,
        SendChunks, AddRecent, BeginDrain, DrainDone, Exit, TimePasses,
        vars, shared, queue
<1> QED BY <1>1, <1>2, <1>3, <1>4

\* A decision to send is one to send a message that is neither listed nor
\* revoked.
LEMMA StepListedNotShown ==
  /\ TypeOK /\ QueueInv /\ StopAfterCancel /\ ListedIsReviewed /\ ListedNotShown
  /\ [Steps]_vars
  => ListedNotShown'
<1> SUFFICES ASSUME TypeOK, QueueInv, StopAfterCancel, ListedIsReviewed,
                    ListedNotShown, [Steps]_vars
             PROVE ListedNotShown'
  OBVIOUS
<1> USE DEF ListedNotShown
<1>1. CASE UNCHANGED shown /\ DOMAIN uiPending' = DOMAIN uiPending
           /\ \A o \in DOMAIN uiPending : uiPending'[o] \subseteq uiPending[o]
  BY <1>1
<1>2. CASE Enqueue
  <2>1. /\ UNCHANGED shown /\ DOMAIN uiPending' = DOMAIN uiPending
        /\ \A o \in DOMAIN uiPending :
             uiPending'[o] \subseteq uiPending[o] \cup {nextMsgID}
    BY <1>2 DEF Enqueue, TypeOK, history
  <2>2. \A i \in DOMAIN shown : shown[i].id < nextMsgID
    BY DEF QueueInv, NextIsLast, BeforeNext
  <2>3. \A i \in DOMAIN shown : shown[i].id # nextMsgID
    BY <2>2, IdTypes
  <2> QED BY <2>1, <2>3
<1>3. CASE \E list \in SyncLists : SyncOutputs(list)
  BY <1>3 DEF SyncOutputs, CarryOver, history
<1>4. CASE SendChunks
  <2>1. CASE UNCHANGED shown
    BY <1>1, <1>4, <2>1 DEF SendChunks, shared
  <2>2. CASE shown' # shown
    <3>1. /\ ~draining /\ pc = "send" /\ batch # <<>> /\ UNCHANGED uiPending
          /\ shown' = Append(shown, Head(batch)) /\ Head(batch) \in Msg
          /\ shown \in Seq(Msg)
      BY <1>4, <2>2, IdTypes
      DEF SendChunks, StopAfterCancel, QueueInv, Standing, shared
    <3>2. Reviewed = Later
      BY <3>1 DEF Reviewed, Undecided, Later
    <3>3. \A r \in Later : r[1] # Head(batch).id
      BY <3>1, HeadIsAlone DEF Later
    <3>4. \A o \in DOMAIN uiPending : Head(batch).id \notin uiPending[o]
      BY <3>1, <3>2, <3>3 DEF ListedIsReviewed
    <3>5. \A i \in DOMAIN shown' : \/ shown'[i] = Head(batch)
                                   \/ i \in DOMAIN shown /\ shown'[i] = shown[i]
      BY <3>1
    <3> QED BY <3>1, <3>4, <3>5
  <2> QED BY <2>1, <2>2
<1>5. CASE \E id \in Skippable : SkipPending(id)
  BY <1>5 DEF SkipPending
<1>6. CASE ProcessNext
  BY <1>1, <1>6 DEF ProcessNext, Unlist, TypeOK, history
<1> QED
  BY <1>1, <1>2, <1>3, <1>4, <1>5, <1>6
  DEF Steps, Accept, Control, Work, Select, Submit, Cancel, Stop, SetPaused,
      StartRun, Receive, LogTranscript, RouteOutput, RoutePanics, RouteDone,
      FlushGap, FlushLine, TickerFires, Retain, ProcessDone, SendNowhere,
      AddRecent, BeginDrain, DrainNext, DrainDone, Exit, TimePasses,
      vars, shared, history

\* What is listed has been given out, whatever numbers requests name.
LEMMA StepListedNumbered ==
  TypeOK /\ ListedNumbered /\ [Steps]_vars => ListedNumbered'
<1> SUFFICES ASSUME TypeOK, ListedNumbered, [Steps]_vars PROVE ListedNumbered'
  OBVIOUS
<1> USE DEF ListedNumbered
<1>1. CASE Enqueue
  <2>1. /\ nextMsgID \in Nat /\ nextMsgID' = nextMsgID + 1
        /\ DOMAIN uiPending' = DOMAIN uiPending
        /\ \A o \in DOMAIN uiPending : uiPending'[o] \subseteq uiPending[o] \cup {nextMsgID}
    BY <1>1 DEF Enqueue, TypeOK
  <2>2. 0 .. nextMsgID - 1 \cup {nextMsgID} \subseteq 0 .. nextMsgID' - 1
    BY <2>1
  <2> QED BY <2>1, <2>2
<1>2. CASE UNCHANGED nextMsgID /\ DOMAIN uiPending' = DOMAIN uiPending
           /\ \A o \in DOMAIN uiPending : uiPending'[o] \subseteq uiPending[o]
  BY <1>2
<1>3. CASE \E id \in Skippable : SkipPending(id)
  BY <1>3 DEF SkipPending
<1>4. CASE \E list \in SyncLists : SyncOutputs(list)
  BY <1>4 DEF SyncOutputs, CarryOver
<1>5. CASE ProcessNext
  BY <1>2, <1>5 DEF ProcessNext, Unlist, TypeOK
<1> QED
  BY <1>1, <1>2, <1>3, <1>4, <1>5
  DEF Steps, Accept, Control, Work, Select, Submit, Cancel, Stop, SetPaused,
      StartRun, Receive, LogTranscript, RouteOutput, RoutePanics, RouteDone,
      FlushGap, FlushLine, TickerFires, Retain, ProcessDone, SendNowhere,
      SendChunks, AddRecent, BeginDrain, DrainNext, DrainDone, Exit, TimePasses,
      vars, shared

LEMMA StepRevokedIsMarked ==
  /\ TypeOK /\ QueueInv /\ ListedIsReviewed /\ ListedNumbered /\ RevokedIsMarked
  /\ [Steps]_vars
  => RevokedIsMarked'
<1> SUFFICES ASSUME TypeOK, QueueInv, ListedIsReviewed, ListedNumbered,
                    RevokedIsMarked, [Steps]_vars
             PROVE RevokedIsMarked'
  OBVIOUS
<1> USE DEF RevokedIsMarked
<1>1. CASE Enqueue
  <2>1. Reviewed' = Reviewed \cup {<<nextMsgID, Head(todo), txt>>}
    BY <1>1, EnqueueReviewed DEF QueueInv
  <2>2. /\ nextMsgID' = nextMsgID + 1 /\ pc' = "flush"
        /\ UNCHANGED <<revoked, skipSet>>
    BY <1>1 DEF Enqueue, history
  <2>3. nextMsgID \notin revoked /\ revoked \subseteq 0 .. nextMsgID' - 1
    BY <2>2, IdTypes
  <2> QED BY <2>1, <2>2, <2>3
<1>2. CASE ProcessNext
  <2> DEFINE m == Head(batch)
  <2>1. /\ Reviewed = {Key(m)} \cup Later
        /\ Reviewed' = Later
    BY <1>2, DecideReviewed DEF ProcessNext
  <2>2. \A r \in Later : r[1] # m.id
    BY <1>2, HeadIsAlone DEF ProcessNext, Later
  <2>3. /\ skipSet' = skipSet \ {m.id} /\ UNCHANGED <<revoked, nextMsgID>>
        /\ \/ pc' = "process"
           \/ pc' = "send" /\ m.id \notin skipSet /\ UNCHANGED batch
    BY <1>2 DEF ProcessNext, history
  <2>4. m.id \notin skipSet => m.id \notin revoked
    <3>1. Key(m) \in Reviewed
      BY <2>1
    <3>2. Key(m)[1] = m.id
      OBVIOUS
    <3> HIDE DEF m
    <3> QED BY <3>1, <3>2
  <2>5. \A r \in Reviewed' : r[1] \in revoked => r[1] \in skipSet'
    BY <2>1, <2>2, <2>3
  <2> QED BY <2>3, <2>4, <2>5
<1>3. CASE DrainNext
  <2> DEFINE m == Head(batch)
  <2>1. /\ Reviewed = {Key(m)} \cup Later
        /\ Reviewed' = Later
    BY <1>3, DecideReviewed DEF DrainNext
  <2>2. \A r \in Later : r[1] # m.id
    BY <1>3, HeadIsAlone DEF DrainNext, Later
  <2>3. /\ skipSet' = skipSet \ {m.id} /\ UNCHANGED <<revoked, nextMsgID>>
        /\ draining'
    BY <1>3 DEF DrainNext, QueueInv, AtHome, history
  <2> QED BY <2>1, <2>2, <2>3
<1>4. CASE \E id \in Skippable : SkipPending(id)
  <2>1. PICK id \in Skippable : SkipPending(id)
    BY <1>4
  <2>2. /\ skipSet' = skipSet \cup {id} /\ revoked' \subseteq revoked \cup {id}
        /\ UNCHANGED <<delayQueue, batch, pc, draining, nextMsgID>>
        /\ id \in revoked' => id \in revoked \/ \E o \in DOMAIN uiPending : id \in uiPending[o]
    BY <2>1 DEF SkipPending, MarkSkipped, queue
  <2>3. Reviewed' = Reviewed /\ revoked' \subseteq 0 .. nextMsgID - 1
    BY <2>2 DEF Reviewed, Undecided, ListedNumbered
  <2>4. ASSUME pc = "send", ~draining PROVE Head(batch).id \notin revoked'
    <3>1. Reviewed = Later
      BY <2>4 DEF Reviewed, Undecided, Later
    <3>2. \A r \in Later : r[1] # Head(batch).id
      BY <2>4, HeadIsAlone DEF Later, QueueInv, Standing
    <3>3. \A o \in DOMAIN uiPending : Head(batch).id \notin uiPending[o]
      BY <2>4, <3>1, <3>2 DEF ListedIsReviewed
    <3> QED BY <2>2, <2>4, <3>3
  <2> QED BY <2>2, <2>3, <2>4
<1>5. CASE UNCHANGED <<skipSet, nextMsgID, revoked>>
           /\ ~Enqueue /\ ~ProcessNext /\ ~DrainNext
  <2>1. Reviewed' = Reviewed
    BY <1>5, SameReviewed
  <2>2. CASE pc' # "send"
    BY <1>5, <2>1, <2>2
  <2>3. CASE UNCHANGED <<pc, draining, batch>>
    BY <1>5, <2>1, <2>3
  <2>4. CASE TimePasses
    <3>1. UNCHANGED <<pc, draining>> /\ batch' = Aged(batch)
      BY <2>4 DEF TimePasses
    <3>2. CASE pc = "send"
      <4>1. batch \in Seq(Msg) /\ batch # <<>>
        BY <3>2, IdTypes DEF QueueInv, Standing
      <4>2. Aged(batch) \in Seq(Msg) /\ DOMAIN Aged(batch) = DOMAIN batch
        BY <4>1, AgedType, BoundsAssumption
      <4>3. 1 \in DOMAIN batch /\ Head(batch) = batch[1] /\ Head(batch') = batch'[1]
        BY <3>1, <4>1, <4>2
      <4>4. Head(batch').id = Head(batch).id
        BY <3>1, <4>1, <4>3, AgedFields, BoundsAssumption
      <4> QED BY <1>5, <2>1, <3>1, <4>4
    <3> QED BY <2>2, <3>1, <3>2
  <2> QED
    BY <1>5, <2>2, <2>3, <2>4
    DEF Steps, Accept, Control, Work, Select, Submit, Cancel, Stop, SetPaused,
        SkipPending, SyncOutputs, StartRun, Receive, LogTranscript, RouteOutput,
        RoutePanics, RouteDone, FlushGap, FlushLine, TickerFires, Retain,
        ProcessDone, SendNowhere, SendChunks, AddRecent, Resume, BeginDrain,
        DrainDone, Exit, vars, queue
<1> QED
  BY <1>1, <1>2, <1>3, <1>4, <1>5
  DEF Steps, Accept, Control, Work, Select, Submit, Cancel, Stop, SetPaused,
      SyncOutputs, StartRun, Receive, LogTranscript, RouteOutput,
      RoutePanics, RouteDone, FlushGap, FlushLine, TickerFires, Retain,
      ProcessDone, SendNowhere, SendChunks, AddRecent, BeginDrain, DrainDone,
      Exit, TimePasses, vars, shared, history

LEMMA StepRevokedNeverShown ==
  /\ TypeOK /\ QueueInv /\ StopAfterCancel /\ ListedNotShown /\ RevokedIsMarked
  /\ RevokedNeverShown /\ [Steps]_vars
  => RevokedNeverShown'
<1> SUFFICES ASSUME TypeOK, QueueInv, StopAfterCancel, ListedNotShown,
                    RevokedIsMarked, RevokedNeverShown, [Steps]_vars
             PROVE RevokedNeverShown'
  OBVIOUS
<1> USE DEF RevokedNeverShown
<1>1. CASE UNCHANGED <<shown, revoked>>
  BY <1>1
<1>2. CASE \E id \in Skippable : SkipPending(id)
  BY <1>2 DEF SkipPending, ListedNotShown
<1>3. CASE SendChunks /\ shown' # shown
  <2>1. /\ ~draining /\ pc = "send" /\ UNCHANGED revoked
        /\ shown' = Append(shown, Head(batch)) /\ Head(batch) \in Msg
        /\ shown \in Seq(Msg)
    BY <1>3, IdTypes DEF SendChunks, StopAfterCancel, QueueInv, Standing
  <2>2. \A i \in DOMAIN shown' : \/ shown'[i] = Head(batch)
                                 \/ i \in DOMAIN shown /\ shown'[i] = shown[i]
    BY <2>1
  <2> QED BY <2>1, <2>2 DEF RevokedIsMarked
<1> QED
  BY <1>1, <1>2, <1>3
  DEF Steps, Accept, Control, Work, Select, Submit, Cancel, Stop, SetPaused,
      SyncOutputs, StartRun, Receive, LogTranscript, RouteOutput, RoutePanics,
      RouteDone, FlushGap, FlushLine, Enqueue, TickerFires, Retain, ProcessNext,
      ProcessDone, SendNowhere, SendChunks, AddRecent, BeginDrain, DrainNext,
      DrainDone, Exit, TimePasses, vars, history

LEMMA InitReview == Init => ReviewInv
BY DEF Init, ReviewInv, StopAfterCancel, ListedIsReviewed, ListedNotShown,
       ListedNumbered, RevokedIsMarked, RevokedNeverShown, Reviewed, Undecided

LEMMA StepReview == TypeOK /\ QueueInv /\ ReviewInv /\ [Steps]_vars => ReviewInv'
BY StepStopAfterCancel, StepListedIsReviewed, StepListedNotShown,
   StepListedNumbered, StepRevokedIsMarked, StepRevokedNeverShown
DEF ReviewInv, QueueInv

LEMMA NextReview == TypeOK /\ OrderInv /\ ReviewInv /\ [Next]_vars => ReviewInv'
BY StepReview, OrderIsQueue, NextIsStep

\* The part of the review that the lists of pending messages are about
LEMMA ReviewedInReview ==
  ASSUME TypeOK, NEW r \in Reviewed
  PROVE  \E m \in InReview : r = Key(m)
<1>1. delayQueue \in Seq(Msg) /\ batch \in Seq(Msg)
  BY IdTypes
<1>2. CASE \E i \in DOMAIN delayQueue : r = Key(delayQueue[i])
  BY <1>1, <1>2 DEF InReview, ToSet
<1>3. CASE \E j \in Undecided : r = Key(batch[j])
  <2>1. PICK j \in Undecided : r = Key(batch[j])
    BY <1>3
  <2>2. CASE pc \in {"send", "recent"}
    <3>1. j - 1 \in DOMAIN Tail(batch) /\ Tail(batch)[j - 1] = batch[j]
      BY <1>1, <2>1, <2>2 DEF Undecided
    <3> QED BY <2>1, <2>2, <3>1 DEF InReview, ToSet
  <2>3. CASE pc \notin {"send", "recent"}
    BY <1>1, <2>1, <2>3 DEF InReview, ToSet, Undecided
  <2> QED BY <2>2, <2>3
<1> QED BY <1>2, <1>3 DEF Reviewed

LEMMA ReviewListed == TypeOK /\ ReviewInv => NoGhostPending
<1> SUFFICES ASSUME TypeOK, ReviewInv, ~draining, NEW o \in DOMAIN uiPending,
                    NEW id \in uiPending[o]
             PROVE  id \in {m.id : m \in InReview}
  BY DEF NoGhostPending
<1>1. \E r \in Reviewed : r[1] = id
  BY DEF ReviewInv, ListedIsReviewed
<1> QED BY <1>1, ReviewedInReview

\* A message skipped while it is listed never reaches the room.
THEOREM RevokeCorrect == Spec => []RevokedNeverShown
<1>1. Init => TypeOK /\ OrderInv /\ ReviewInv
  BY InitType, InitOrder, InitReview
<1>2. TypeOK /\ OrderInv /\ ReviewInv /\ [Next]_vars
      => (TypeOK /\ OrderInv /\ ReviewInv)'
  BY NextType, NextOrder, NextReview DEF OrderInv
<1>3. TypeOK /\ OrderInv /\ ReviewInv => RevokedNeverShown
  BY DEF ReviewInv
<1> QED BY <1>1, <1>2, <1>3, PTL DEF Spec

\* What the lists of pending messages show is still to be decided.
THEOREM PendingCorrect == Spec => []NoGhostPending
<1>1. Init => TypeOK /\ OrderInv /\ ReviewInv
  BY InitType, InitOrder, InitReview
<1>2. TypeOK /\ OrderInv /\ ReviewInv /\ [Next]_vars
      => (TypeOK /\ OrderInv /\ ReviewInv)'
  BY NextType, NextOrder, NextReview DEF OrderInv
<1>3. TypeOK /\ OrderInv /\ ReviewInv => NoGhostPending
  BY ReviewListed
<1> QED BY <1>1, <1>2, <1>3, PTL DEF Spec

-----------------------------------------------------------------------------
(* The review is complete.                                                 *)

LEMMA InitListed == Init => ListedOrSkipped
BY DEF Init, ListedOrSkipped, Lasting, Reviewed, Undecided

LEMMA StepListed ==
  TypeOK /\ QueueInv /\ ListedOrSkipped /\ [Steps]_vars => ListedOrSkipped'
<1> SUFFICES ASSUME TypeOK, QueueInv, ListedOrSkipped, [Steps]_vars
             PROVE  ListedOrSkipped'
  OBVIOUS
<1>1. Lasting \subseteq DOMAIN uiPending'
  <2>1. TypeOK' /\ DOMAIN uiPending = ToSet(outputs)
    BY StepType DEF TypeOK, QueueInv
  <2>2. CASE UNCHANGED outputs
    BY <2>1, <2>2 DEF ListedOrSkipped, TypeOK
  <2>3. CASE \E list \in SyncLists : SyncOutputs(list)
    BY <2>3 DEF SyncOutputs, CarryOver, Lasting
  <2> QED
    BY <2>2, <2>3
    DEF Steps, Accept, Control, Work, Select, Submit, Cancel, Stop,
       SetPaused, SkipPending, StartRun, Receive, LogTranscript, RouteOutput,
       RoutePanics, RouteDone, FlushGap, FlushLine, Enqueue, TickerFires, Retain,
       ProcessNext, ProcessDone, SendNowhere, SendChunks, AddRecent, BeginDrain,
       DrainNext, DrainDone, Exit, TimePasses, vars, shared
<1> SUFFICES ASSUME NEW r \in Reviewed', r[2] \in Lasting
             PROVE  r[1] \in uiPending'[r[2]] \/ r[1] \in skipSet'
  BY <1>1 DEF ListedOrSkipped, Lasting
<1>2. r[2] \in DOMAIN uiPending
  BY DEF ListedOrSkipped
<1>3. ASSUME r \in Reviewed
      PROVE  r[1] \in uiPending[r[2]] \/ r[1] \in skipSet
  BY <1>3 DEF ListedOrSkipped
<1>4. CASE Enqueue
  <2>1. Reviewed' = Reviewed \cup {<<nextMsgID, Head(todo), txt>>}
    BY <1>4, EnqueueReviewed DEF QueueInv
  <2>2. /\ skipSet' = skipSet
        /\ \/ uiPending' = [uiPending EXCEPT ![Head(todo)] = @ \cup {nextMsgID}]
           \/ uiPending' = uiPending /\ Head(todo) \notin DOMAIN uiPending
    BY <1>4 DEF Enqueue
  <2>3. CASE r \in Reviewed
    <3>1. uiPending[r[2]] \subseteq uiPending'[r[2]]
      BY <1>2, <2>2
    <3> QED BY <1>2, <1>3, <2>2, <2>3, <3>1
  <2>4. CASE r = <<nextMsgID, Head(todo), txt>>
    BY <1>2, <2>2, <2>4
  <2> QED BY <2>1, <2>3, <2>4
<1>5. CASE ProcessNext \/ DrainNext
  <2> DEFINE m == Head(batch)
  <2>1. Reviewed = {Key(m)} \cup Later /\ Reviewed' = Later
    BY <1>5, DecideReviewed DEF ProcessNext, DrainNext
  <2>2. r \in Reviewed /\ r[1] # m.id
    BY <1>5, <2>1, HeadIsAlone DEF ProcessNext, DrainNext, Later
  <2>3. /\ skipSet' = skipSet \ {m.id}
        /\ \A o \in DOMAIN uiPending :
             uiPending'[o] = uiPending[o] \/ uiPending'[o] = uiPending[o] \ {m.id}
    BY <1>5 DEF ProcessNext, DrainNext, Unlist, TypeOK
  <2> HIDE DEF m
  <2> QED BY <1>2, <1>3, <2>2, <2>3
<1>6. CASE ~Enqueue /\ ~ProcessNext /\ ~DrainNext
  <2>1. r \in Reviewed
    BY <1>6, SameReviewed
  <2>2. CASE UNCHANGED <<uiPending, skipSet>>
    BY <1>3, <2>1, <2>2
  <2>3. CASE \E id \in Skippable : SkipPending(id)
    <3>1. PICK id \in Skippable : SkipPending(id)
      BY <2>3
    <3>2. /\ skipSet' = skipSet \cup {id}
          /\ \A o \in DOMAIN uiPending : uiPending'[o] = uiPending[o] \ {id}
      BY <3>1 DEF SkipPending, MarkSkipped
    <3> QED BY <1>2, <1>3, <2>1, <3>2
  <2>4. CASE \E list \in SyncLists : SyncOutputs(list)
    BY <1>2, <1>3, <2>1, <2>4 DEF SyncOutputs, CarryOver, Lasting
  <2> QED
    BY <1>6, <2>2, <2>3, <2>4
    DEF Steps, Accept, Control, Work, Select, Submit, Cancel, Stop, SetPaused,
        StartRun, Receive, LogTranscript, RouteOutput, RoutePanics, RouteDone,
        FlushGap, FlushLine, TickerFires, Retain, ProcessDone, SendNowhere,
        SendChunks, AddRecent, BeginDrain, DrainDone, Exit, TimePasses,
        vars, shared
<1> QED BY <1>4, <1>5, <1>6

LEMMA NextListed ==
  TypeOK /\ OrderInv /\ ListedOrSkipped /\ [Next]_vars => ListedOrSkipped'
BY StepListed, OrderIsQueue, NextIsStep

\* A message in review, by position
LEMMA InReviewReviewed ==
  ASSUME TypeOK, Standing, NEW m \in InReview
  PROVE  Key(m) \in Reviewed
<1>1. delayQueue \in Seq(Msg) /\ batch \in Seq(Msg)
  BY IdTypes
<1>2. CASE m \in ToSet(delayQueue)
  BY <1>1, <1>2 DEF ToSet, Reviewed
<1>3. CASE pc \notin {"send", "recent"} /\ m \in ToSet(batch)
  BY <1>1, <1>3 DEF ToSet, Reviewed, Undecided
<1>4. CASE pc \in {"send", "recent"} /\ m \in ToSet(Tail(batch))
  <2>1. batch # <<>>
    BY <1>4 DEF Standing
  <2>2. PICK j \in DOMAIN Tail(batch) : m = Tail(batch)[j]
    BY <1>4 DEF ToSet
  <2>3. j + 1 \in 2 .. Len(batch) /\ m = batch[j + 1]
    BY <1>1, <2>1, <2>2
  <2> QED BY <1>4, <2>3 DEF Reviewed, Undecided
<1> QED BY <1>2, <1>3, <1>4 DEF InReview

LEMMA ListedComplete == TypeOK /\ Standing /\ ListedOrSkipped => ReviewComplete
BY InReviewReviewed DEF ListedOrSkipped, ReviewComplete

\* A message on its way to the room is listed as pending until its turn, or was
\* skipped, for any number of outputs, messages and skips, also while other
\* outputs come and go (SyncOutputs, processDelayQueue, handleSkip).
THEOREM CompleteCorrect == Spec => []ReviewComplete
<1>1. Init => TypeOK /\ OrderInv /\ ListedOrSkipped
  BY InitType, InitOrder, InitListed
<1>2. TypeOK /\ OrderInv /\ ListedOrSkipped /\ [Next]_vars
      => (TypeOK /\ OrderInv /\ ListedOrSkipped)'
  BY NextType, NextOrder, NextListed DEF OrderInv
<1>3. TypeOK /\ OrderInv /\ ListedOrSkipped => ReviewComplete
  BY ListedComplete DEF OrderInv
<1> QED BY <1>1, <1>2, <1>3, PTL DEF Spec

-----------------------------------------------------------------------------
(* The transcript.                                                         *)

\* Steps that change neither the transcript nor the channel
LEMMA SameRecords ==
  ASSUME RecordInv, UNCHANGED <<transcript, ch, submitted>>, pc' # "log",
         pc' \in {"route", "flush", "enqueue"} =>
           pc \in {"route", "flush", "enqueue"} /\ UNCHANGED cur,
         UNCHANGED <<nextSeq, buf>>
  PROVE  RecordInv'
<1>1. ComesOnce' /\ OneLine'
  BY DEF RecordInv, ComesOnce, OneLine, HasLine
<1>2. RoutedHasLine'
  BY DEF RecordInv, RoutedHasLine, HasLine
<1> QED BY <1>1, <1>2 DEF RecordInv

LEMMA SubmitRecords ==
  ASSUME TypeOK, RecordInv, NEW s \in Seqs, SubmitSeq(s)
  PROVE  RecordInv'
<1>1. PICK t \in Translation : t.utt = s /\ Submit(t)
  BY DEF SubmitSeq, Seqs, Translation
<1>2. /\ ch' = Append(ch, t) /\ ch \in Seq(Translation)
      /\ submitted' = submitted \cup {s} /\ s \notin submitted
      /\ UNCHANGED <<pc, cur, nextSeq, buf, transcript>>
  BY <1>1 DEF Submit, SubmitSeq, TypeOK, routing, history
<1>3. /\ DOMAIN ch' = DOMAIN ch \cup {Len(ch) + 1} /\ ch'[Len(ch) + 1] = t
      /\ \A i \in DOMAIN ch : ch'[i] = ch[i]
  BY <1>2, Appended
<1>4. ~HasLine(s) /\ (pc = "log" => cur.utt # s) /\ \A i \in DOMAIN ch : ch[i].utt # s
  BY <1>2 DEF RecordInv, ComesOnce, HasLine
<1>5. \A u : HasLine(u)' <=> HasLine(u)
  BY <1>2 DEF HasLine
<1>6. ComesOnce'
  <2>1. \A i \in DOMAIN ch' : ch'[i].utt \in submitted' /\ ~HasLine(ch'[i].utt)
    BY <1>1, <1>2, <1>3, <1>4 DEF RecordInv, ComesOnce
  <2>2. \A i, j \in DOMAIN ch' : i # j => ch'[i].utt # ch'[j].utt
    BY <1>1, <1>3, <1>4 DEF RecordInv, ComesOnce
  <2>3. pc = "log" => \A i \in DOMAIN ch' : ch'[i].utt # cur.utt
    BY <1>1, <1>3, <1>4 DEF RecordInv, ComesOnce
  <2>4. \A l \in transcript : l[1] \in submitted'
    BY <1>2 DEF RecordInv, ComesOnce
  <2>5. pc = "log" => cur.utt \in submitted' /\ ~HasLine(cur.utt)
    BY <1>2 DEF RecordInv, ComesOnce
  <2> QED BY <1>2, <2>1, <2>2, <2>3, <2>4, <2>5 DEF ComesOnce, HasLine
<1>7. OneLine' /\ RoutedHasLine'
  BY <1>2 DEF RecordInv, OneLine, RoutedHasLine, HasLine
<1> QED BY <1>6, <1>7 DEF RecordInv

LEMMA ReceiveRecords ==
  ASSUME TypeOK, RecordInv, Receive
  PROVE  RecordInv'
<1>1. /\ ch \in Seq(Translation) /\ ch # <<>> /\ cur' = Head(ch) /\ ch' = Tail(ch)
      /\ UNCHANGED <<submitted, transcript, nextSeq, buf>> /\ pc' = "log"
  BY DEF Receive, TypeOK, history
<1>2. /\ 1 \in DOMAIN ch /\ cur' = ch[1]
      /\ \A i \in DOMAIN ch' : i + 1 \in DOMAIN ch /\ i + 1 # 1 /\ ch'[i] = ch[i + 1]
      /\ \A i, j \in DOMAIN ch' : i # j => i + 1 # j + 1
  BY <1>1, HeadTail
<1>3. ComesOnce'
  <2>1. \A i \in DOMAIN ch' : ch'[i].utt \in submitted /\ ~HasLine(ch'[i].utt)
    BY <1>2 DEF RecordInv, ComesOnce
  <2>2. \A i, j \in DOMAIN ch' : i # j => ch'[i].utt # ch'[j].utt
    BY <1>2 DEF RecordInv, ComesOnce
  <2>3. /\ cur'.utt \in submitted /\ ~HasLine(cur'.utt)
        /\ \A i \in DOMAIN ch' : ch'[i].utt # cur'.utt
    BY <1>2 DEF RecordInv, ComesOnce
  <2>4. \A l \in transcript : l[1] \in submitted
    BY DEF RecordInv, ComesOnce
  <2> QED BY <1>1, <2>1, <2>2, <2>3, <2>4 DEF ComesOnce, HasLine
<1>4. OneLine' /\ RoutedHasLine'
  BY <1>1 DEF RecordInv, OneLine, RoutedHasLine, HasLine
<1> QED BY <1>3, <1>4 DEF RecordInv

LEMMA LogRecords ==
  ASSUME TypeOK, RecordInv, LogTranscript
  PROVE  RecordInv'
<1>1. /\ pc = "log" /\ pc' = "route"
      /\ UNCHANGED <<ch, submitted, cur, nextSeq, buf>>
      /\ Logging => \E l : l[1] = cur.utt /\ transcript' = transcript \cup {l}
      /\ ~Logging => transcript' = transcript
  BY LoggingAssumption DEF LogTranscript, SourceAlone, channel
<1>2. CASE transcript' = transcript /\ ~Logging
  BY <1>1, <1>2 DEF RecordInv, ComesOnce, OneLine, RoutedHasLine, HasLine
<1>3. CASE \E l : l[1] = cur.utt /\ transcript' = transcript \cup {l}
  <2>1. PICK l : l[1] = cur.utt /\ transcript' = transcript \cup {l}
    BY <1>3
  <2>2. /\ cur.utt \in submitted /\ \A k \in transcript : k[1] # cur.utt
        /\ \A i \in DOMAIN ch : ch[i].utt # cur.utt
    BY <1>1 DEF RecordInv, ComesOnce, HasLine
  <2>3. ComesOnce'
    BY <1>1, <2>1, <2>2 DEF RecordInv, ComesOnce, HasLine
  <2>4. OneLine'
    BY <2>1, <2>2 DEF RecordInv, OneLine
  <2>5. \A u : HasLine(u) => HasLine(u)'
    BY <2>1 DEF HasLine
  <2>6. HasLine(cur.utt)'
    BY <1>1, <2>1 DEF HasLine
  <2>7. RoutedHasLine'
    BY <1>1, <2>5, <2>6 DEF RecordInv, RoutedHasLine
  <2> QED BY <2>3, <2>4, <2>7 DEF RecordInv
<1> QED BY <1>1, <1>2, <1>3

LEMMA SenderRecords ==
  ASSUME TypeOK, OrderInv, RecordInv, StartRun \/ RouteOutput \/ FlushLine
  PROVE  RecordInv'
<1>1. /\ UNCHANGED <<ch, submitted, cur, transcript>>
      /\ pc' # "log"
      /\ pc' \in {"route", "flush", "enqueue"} => pc \in {"route", "flush", "enqueue"}
  BY DEF StartRun, RouteOutput, FlushLine, channel, history
<1>2. ComesOnce' /\ OneLine'
  BY <1>1 DEF RecordInv, ComesOnce, OneLine, HasLine
<1>3. \A u : HasLine(u)' <=> HasLine(u)
  BY <1>1 DEF HasLine
<1>4. ASSUME Logging, NEW o \in DOMAIN nextSeq'
      PROVE  /\ \A e \in buf'[o] : HasLine(e.seq)
             /\ \A u \in 0 .. nextSeq'[o] - 1 : HasLine(u)
  <2>1. CASE StartRun
    BY <1>4, <2>1 DEF StartRun
  <2>2. CASE RouteOutput
    <3>1. /\ DOMAIN nextSeq' = DOMAIN nextSeq /\ nextSeq' = nextSeq /\ HasLine(cur.utt)
          /\ buf'[o] \subseteq buf[o] \cup {LineFor(o)} /\ cur.utt = cur.seq
      BY <1>4, <2>2
      DEF RouteOutput, Buffered, TypeOK, RecordInv, RoutedHasLine, OrderInv, SameNumbers
    <3>2. LineFor(o).seq = cur.seq
      BY DEF LineFor
    <3> QED BY <1>4, <3>1, <3>2 DEF RecordInv, RoutedHasLine
  <2>3. CASE FlushLine
    <3>1. PICK e \in Ready(Head(todo)) :
            /\ buf' = [buf EXCEPT ![Head(todo)] = @ \ {e}]
            /\ nextSeq' = [nextSeq EXCEPT ![Head(todo)] = e.seq + 1]
      BY <2>3 DEF FlushLine
    <3>2. /\ Head(todo) \in DOMAIN nextSeq /\ o \in DOMAIN nextSeq
          /\ nextSeq[Head(todo)] \in Nat /\ e \in buf[Head(todo)]
          /\ e.seq = nextSeq[Head(todo)] /\ DOMAIN buf = DOMAIN nextSeq
      BY <2>3, <3>1 DEF FlushLine, Ready, TypeOK, OrderInv, Standing
    <3>3. /\ \A d \in buf[o] : HasLine(d.seq)
          /\ \A u \in 0 .. nextSeq[o] - 1 : HasLine(u)
          /\ HasLine(e.seq)
      BY <1>4, <3>2 DEF RecordInv, RoutedHasLine
    <3>4. buf'[o] \subseteq buf[o]
      BY <3>1, <3>2
    <3>5. CASE o = Head(todo)
      <4>1. nextSeq'[o] = e.seq + 1
        BY <3>1, <3>2, <3>5
      <4>2. 0 .. nextSeq'[o] - 1 = (0 .. nextSeq[o] - 1) \cup {e.seq}
        BY <3>2, <3>5, <4>1
      <4> QED BY <3>3, <3>4, <4>2
    <3>6. CASE o # Head(todo)
      BY <3>1, <3>2, <3>3, <3>4, <3>6
    <3> QED BY <3>5, <3>6
  <2> QED BY <2>1, <2>2, <2>3
<1>5. RoutedHasLine'
  BY <1>1, <1>3, <1>4 DEF RecordInv, RoutedHasLine
<1> QED BY <1>2, <1>5 DEF RecordInv

LEMMA NextRecords == TypeOK /\ OrderInv /\ RecordInv /\ [Next]_vars => RecordInv'
<1> SUFFICES ASSUME TypeOK, OrderInv, RecordInv, [Next]_vars PROVE RecordInv'
  OBVIOUS
<1>1. CASE UNCHANGED <<transcript, ch, submitted, pc, cur, nextSeq, buf>>
  BY <1>1 DEF RecordInv, ComesOnce, OneLine, RoutedHasLine, HasLine
<1>2. CASE RoutePanics \/ RouteDone \/ FlushGap \/ Enqueue \/ TickerFires \/ Retain
           \/ ProcessNext \/ ProcessDone \/ SendNowhere \/ SendChunks \/ AddRecent
           \/ BeginDrain \/ DrainNext \/ DrainDone \/ Exit
  <2>1. /\ UNCHANGED <<transcript, ch, submitted, nextSeq, buf>> /\ pc' # "log"
        /\ pc' \in {"route", "flush", "enqueue"} =>
             pc \in {"route", "flush", "enqueue"} /\ UNCHANGED cur
    BY <1>2
    DEF RoutePanics, RouteDone, FlushGap, Enqueue, TickerFires, Retain, ProcessNext,
        ProcessDone, SendNowhere, SendChunks, AddRecent, BeginDrain, DrainNext, DrainDone,
        Exit, Resume, channel, routing, history
  <2> QED BY <2>1, SameRecords
<1>3. CASE \/ UNCHANGED vars \/ Cancel \/ Stop \/ TimePasses
           \/ \E o \in Outputs, p \in BOOLEAN : SetPaused(o, p)
           \/ \E id \in Skippable : SkipPending(id)
           \/ \E list \in SyncLists : SyncOutputs(list)
  BY <1>1, <1>3
  DEF Cancel, Stop, TimePasses, SetPaused, SkipPending, SyncOutputs, vars, channel,
      routing, history
<1> QED
  BY <1>2, <1>3, SubmitRecords, ReceiveRecords, LogRecords, SenderRecords
  DEF Next, Control, Work, Select

\* What an output has passed has exactly one line in the transcript, for any
\* number of outputs, utterances and changes of the outputs.
THEOREM RecordCorrect == Spec => []RecordedOnce
<1>1. Init => TypeOK /\ OrderInv /\ RecordInv
  <2>1. Init => RecordInv
    BY DEF Init, RecordInv, ComesOnce, OneLine, RoutedHasLine
  <2> QED BY <2>1, InitType, InitOrder
<1>2. TypeOK /\ OrderInv /\ RecordInv /\ [Next]_vars
      => (TypeOK /\ OrderInv /\ RecordInv)'
  BY NextType, NextOrder, NextRecords DEF OrderInv
<1>3. RecordInv => RecordedOnce
  <2> SUFFICES ASSUME RecordInv, Logging, NEW o \in DOMAIN nextSeq,
                      NEW u \in 0 .. nextSeq[o] - 1
               PROVE  Cardinality({l \in transcript : l[1] = u}) = 1
    BY DEF RecordedOnce
  <2>1. PICK l \in transcript : l[1] = u
    BY DEF RecordInv, RoutedHasLine, HasLine
  <2>2. {k \in transcript : k[1] = u} = {l}
    BY <2>1 DEF RecordInv, OneLine
  <2> QED BY <2>2, FS_Singleton
<1> QED BY <1>1, <1>2, <1>3, PTL DEF Spec

-----------------------------------------------------------------------------
(* The controller implements Subtitles.                                    *)

LEMMA NextBeginning == TypeOK /\ Beginning /\ [Next]_vars => Beginning'
<1> SUFFICES ASSUME TypeOK, Beginning, [Next]_vars PROVE Beginning'
  OBVIOUS
<1> USE DEF Beginning
<1>1. CASE UNCHANGED <<pc, nextSeq>>
  BY <1>1
<1>2. CASE pc' # "start"
  BY <1>2
<1> QED
  BY <1>1, <1>2
  DEF Next, Control, Work, Select, SubmitSeq, Submit, Cancel, Stop, SetPaused,
      SkipPending, SyncOutputs, StartRun, Receive, LogTranscript, RouteOutput,
      RoutePanics, RouteDone, FlushGap, FlushLine, Enqueue, TickerFires, Retain,
      ProcessNext, ProcessDone, SendNowhere, SendChunks, AddRecent, BeginDrain,
      DrainNext, DrainDone, Exit, Resume, TimePasses, vars, routing

\* Undecided messages of o without a skip mark
Unmarked(o) == {x \in Reviewed : x[2] = o /\ x[1] \notin skipSet}

LEMMA AwaitingMeaning ==
  ASSUME TypeOK, Standing, NEW o
  PROVE  Awaiting(o) = IF draining \/ pc = "done" THEN {}
                       ELSE {r[3] : r \in Unmarked(o)}
                              \cup IF pc = "enqueue" /\ Head(todo) = o THEN {txt} ELSE {}
<1> DEFINE A == {m.utt : m \in {x \in InReview : x.out = o /\ x.id \notin skipSet}}
           B == {r[3] : r \in Unmarked(o)}
<1>1. ASSUME NEW m \in InReview, m.out = o, m.id \notin skipSet
      PROVE  m.utt \in B
  <2>1. Key(m) \in Reviewed
    BY InReviewReviewed
  <2>2. Key(m)[1] = m.id /\ Key(m)[2] = m.out /\ Key(m)[3] = m.utt
    OBVIOUS
  <2> QED BY <1>1, <2>1, <2>2 DEF Unmarked
<1>2. ASSUME NEW r \in Unmarked(o)
      PROVE  r[3] \in A
  <2>1. PICK m \in InReview : r = Key(m)
    BY ReviewedInReview DEF Unmarked
  <2>2. r[1] = m.id /\ r[2] = m.out /\ r[3] = m.utt
    BY <2>1
  <2> QED BY <2>2 DEF Unmarked
<1>3. A = B
  BY <1>1, <1>2
<1> QED BY <1>3 DEF Awaiting

Enqueuing(o) == IF pc = "enqueue" /\ Head(todo) = o THEN {txt} ELSE {}
WaitingKeys ==
  [o \in Outputs |-> IF draining \/ pc = "done" THEN {}
                     ELSE {r[3] : r \in Unmarked(o)} \cup Enqueuing(o)]

KeysWait == Waiting = WaitingKeys

LEMMA WaitingMeaning == TypeOK /\ Standing => KeysWait
BY AwaitingMeaning DEF KeysWait, Waiting, WaitingKeys, Enqueuing

LEMMA WaitingNext == TypeOK' /\ Standing' => KeysWait'
BY WaitingMeaning, PTL

RefineInv == TypeOK /\ OrderInv /\ ReviewInv /\ Beginning

LEMMA SameWaiting ==
  ASSUME KeysWait, KeysWait', UNCHANGED <<Reviewed, skipSet, draining>>,
         pc' = "done" <=> pc = "done", pc' = "enqueue" <=> pc = "enqueue",
         pc = "enqueue" => UNCHANGED <<todo, txt>>
  PROVE  Waiting' = Waiting
BY DEF KeysWait, WaitingKeys, Unmarked, Enqueuing

LEMMA ViewStutters ==
  ASSUME UNCHANGED <<Horizon, shown, paused, Waiting, OnAir>>
  PROVE  UNCHANGED Viewed!vars
BY DEF Viewed!vars, Aired, Muted, IsPaused

LEMMA SameHorizon == nextSeq' = nextSeq => Horizon' = Horizon
BY DEF Horizon

\* The clock ages messages; what viewers see of the head stays.
LEMMA AgedOnAir ==
  ASSUME TypeOK, Standing, TimePasses
  PROVE  OnAir' = OnAir
<1>1. batch \in Seq(Msg) /\ batch' = Aged(batch) /\ UNCHANGED <<pc, draining>>
  BY IdTypes DEF TimePasses
<1>2. CASE pc = "send"
  <2>1. batch # <<>>
    BY <1>2 DEF Standing
  <2>2. Aged(batch) \in Seq(Msg) /\ DOMAIN Aged(batch) = DOMAIN batch
    BY <1>1, AgedType, BoundsAssumption
  <2>3. 1 \in DOMAIN batch /\ Head(batch) = batch[1] /\ Head(batch') = batch'[1]
    BY <1>1, <2>1, <2>2
  <2>4. Head(batch').out = Head(batch).out /\ Head(batch').utt = Head(batch).utt
    BY <1>1, <2>3, AgedFields, BoundsAssumption
  <2> QED BY <1>1, <2>4 DEF OnAir
<1> QED BY <1>1, <1>2 DEF OnAir

\* Steps that viewers do not see
LEMMA UnseenStep ==
  ASSUME RefineInv, KeysWait, KeysWait', [Next]_vars,
         \/ \E s \in Seqs : SubmitSeq(s)
         \/ Cancel \/ Stop \/ StartRun \/ Receive \/ LogTranscript \/ RouteOutput
         \/ RoutePanics \/ RouteDone \/ FlushGap \/ TickerFires \/ Retain \/ ProcessDone
         \/ AddRecent \/ TimePasses \/ UNCHANGED vars
  PROVE  UNCHANGED Viewed!vars
<1>1. UNCHANGED <<shown, paused, skipSet, draining>>
  BY DEF SubmitSeq, Submit, Cancel, Stop, StartRun, Receive, LogTranscript, RouteOutput,
     RoutePanics, RouteDone, FlushGap, TickerFires, Retain, ProcessDone, AddRecent,
     TimePasses, vars, shared, queue, history
<1>2. Reviewed' = Reviewed
  <2>1. CASE TimePasses
    BY <2>1, AgedReviewed DEF RefineInv, OrderInv
  <2>2. CASE Retain
    BY <2>2, RetainReviewed DEF RefineInv
  <2>3. CASE AddRecent
    BY <2>3, FinishReviewed DEF AddRecent, Resume, RefineInv, OrderInv, Standing
  <2>4. CASE TickerFires
    BY <2>4 DEF TickerFires, RefineInv, OrderInv, AtHome, Reviewed, Undecided
  <2>5. CASE UNCHANGED <<delayQueue, batch, pc>>
    BY <2>5 DEF Reviewed, Undecided
  <2>6. CASE UNCHANGED <<delayQueue, batch>> /\ {pc, pc'} \cap {"send", "recent"} = {}
    BY <2>6 DEF Reviewed, Undecided
  <2> QED
    BY <2>1, <2>2, <2>3, <2>4, <2>5, <2>6
    DEF SubmitSeq, Submit, Cancel, Stop, StartRun, Receive, LogTranscript, RouteOutput,
        RoutePanics, RouteDone, FlushGap, ProcessDone, vars, queue
<1>3. /\ pc' = "done" <=> pc = "done"
      /\ pc' = "enqueue" <=> pc = "enqueue"
      /\ pc = "enqueue" => UNCHANGED <<todo, txt>>
  BY DEF SubmitSeq, Submit, Cancel, Stop, StartRun, Receive, LogTranscript, RouteOutput,
     RoutePanics, RouteDone, FlushGap, TickerFires, Retain, ProcessDone, AddRecent,
     TimePasses, Resume, vars, routing
<1>4. Waiting' = Waiting
  BY <1>1, <1>2, <1>3, SameWaiting
<1>5. Horizon' = Horizon
  <2>1. CASE StartRun
    BY <2>1 DEF StartRun, RefineInv, Beginning, Horizon
  <2>2. CASE ~StartRun
    <3>1. nextSeq' = nextSeq
      BY <2>2
      DEF SubmitSeq, Submit, Cancel, Stop, Receive, LogTranscript, RouteOutput,
          RoutePanics, RouteDone, FlushGap, TickerFires, Retain, ProcessDone, AddRecent,
          TimePasses, vars, routing
    <3> QED BY <3>1, SameHorizon
  <2> QED BY <2>1, <2>2
<1>6. OnAir' = OnAir
  <2>1. CASE TimePasses
    BY <2>1, AgedOnAir DEF RefineInv, OrderInv
  <2>2. CASE UNCHANGED <<pc, batch, draining>>
    BY <2>2 DEF OnAir
  <2>3. CASE pc # "send" /\ pc' # "send"
    BY <2>3 DEF OnAir
  <2> QED
    BY <2>1, <2>2, <2>3
    DEF SubmitSeq, Submit, Cancel, Stop, StartRun, Receive, LogTranscript, RouteOutput,
        RoutePanics, RouteDone, FlushGap, TickerFires, Retain, ProcessDone, AddRecent,
        Resume, vars, queue
<1> QED BY <1>1, <1>4, <1>5, <1>6, ViewStutters

\* The session ends.
LEMMA EndSeen ==
  ASSUME RefineInv, KeysWait, KeysWait', BeginDrain \/ Exit
  PROVE  Viewed!End
<1>1. /\ UNCHANGED <<nextSeq, shown, paused>> /\ pc = "select" /\ pc' # "send"
      /\ draining' \/ pc' = "done"
  BY DEF BeginDrain, Exit, shared, routing, history
<1>2. OnAir' = OnAir
  BY <1>1 DEF OnAir
<1>3. Waiting' = [o \in Outputs |-> {}]
  BY <1>1 DEF KeysWait, WaitingKeys
<1>4. UNCHANGED <<Horizon, Aired, Muted>>
  BY <1>1, SameHorizon DEF Aired, Muted, IsPaused
<1> QED BY <1>2, <1>3, <1>4 DEF Viewed!End

\* What the flush does after the context is cancelled is not seen.
LEMMA DrainUnseen ==
  ASSUME RefineInv, KeysWait, KeysWait', draining,
         DrainNext \/ DrainDone \/ SendNowhere \/ SendChunks
  PROVE  UNCHANGED Viewed!vars
<1>1. ctxDone
  BY DEF RefineInv, ReviewInv, StopAfterCancel
<1>2. UNCHANGED <<nextSeq, shown, paused, draining>>
  BY <1>1 DEF DrainNext, DrainDone, SendNowhere, SendChunks, shared, routing, queue, history
<1>3. Waiting' = Waiting
  BY <1>2 DEF KeysWait, WaitingKeys
<1>4. OnAir' = OnAir
  BY <1>2 DEF OnAir
<1> QED BY <1>2, <1>3, <1>4, SameHorizon, ViewStutters

\* Pauses and new lists of outputs
LEMMA MuteSeen ==
  ASSUME RefineInv, TypeOK', KeysWait, KeysWait',
         \/ \E o \in Outputs, p \in BOOLEAN : SetPaused(o, p)
         \/ \E list \in SyncLists : SyncOutputs(list)
  PROVE  Viewed!Mute
<1>1. UNCHANGED <<nextSeq, shown, pc, todo, txt, delayQueue, batch, draining, skipSet>>
  BY DEF SetPaused, SyncOutputs, routing, queue, history
<1>2. UNCHANGED <<Reviewed, OnAir, Aired>>
  BY <1>1 DEF Reviewed, Undecided, OnAir, Aired
<1>3. Waiting' = Waiting
  BY <1>1, <1>2, SameWaiting
<1>4. Muted' \in [Outputs -> BOOLEAN]
  BY DEF TypeOK, Muted, IsPaused
<1> QED BY <1>1, <1>2, <1>3, <1>4, SameHorizon DEF Viewed!Mute

\* Messages in review differ in their numbers, and those of one output in
\* their utterances.
LEMMA KeysApart ==
  ASSUME TypeOK, OrderInv, NEW r \in Reviewed, NEW q \in Reviewed, r # q
  PROVE  r[1] # q[1] /\ (r[2] = q[2] => r[3] # q[3])
<1>1. /\ \A i \in DOMAIN delayQueue : delayQueue[i].id \in Nat /\ delayQueue[i].utt \in Nat
      /\ \A i \in DOMAIN batch : batch[i].id \in Nat /\ batch[i].utt \in Nat
      /\ DOMAIN delayQueue \subseteq Nat /\ DOMAIN batch \subseteq Nat
      /\ Undecided \subseteq DOMAIN batch
  <2>1. \A m \in Msg : m.id \in Nat /\ m.utt \in Nat
    BY DEF Msg
  <2> QED BY <2>1, IdTypes DEF Undecided
<1> DEFINE Apart(m, n) == m.id # n.id /\ (m.out = n.out => m.utt # n.utt)
<1>2. \A i, j \in DOMAIN delayQueue : i # j => Apart(delayQueue[i], delayQueue[j])
  <2> SUFFICES ASSUME NEW i \in DOMAIN delayQueue, NEW j \in DOMAIN delayQueue, i # j
               PROVE  Apart(delayQueue[i], delayQueue[j])
    OBVIOUS
  <2>1. i < j \/ j < i
    BY <1>1
  <2>2. Before(delayQueue[i], delayQueue[j]) \/ Before(delayQueue[j], delayQueue[i])
    BY <2>1 DEF OrderInv, QueueSorted, Sorted
  <2> QED BY <1>1, <2>2 DEF Before
<1>3. \A i, j \in DOMAIN batch : i # j => Apart(batch[i], batch[j])
  <2> SUFFICES ASSUME NEW i \in DOMAIN batch, NEW j \in DOMAIN batch, i # j
               PROVE  Apart(batch[i], batch[j])
    OBVIOUS
  <2>1. i < j \/ j < i
    BY <1>1
  <2>2. Before(batch[i], batch[j]) \/ Before(batch[j], batch[i])
    BY <2>1 DEF OrderInv, QueueSorted, Sorted
  <2> QED BY <1>1, <2>2 DEF Before
<1>4. \A i \in DOMAIN delayQueue, j \in DOMAIN batch :
        Apart(delayQueue[i], batch[j]) /\ Apart(batch[j], delayQueue[i])
  <2> SUFFICES ASSUME NEW i \in DOMAIN delayQueue, NEW j \in DOMAIN batch
               PROVE  Apart(delayQueue[i], batch[j]) /\ Apart(batch[j], delayQueue[i])
    OBVIOUS
  <2>1. Before(delayQueue[i], batch[j])
    BY DEF OrderInv, RetainedFirst
  <2> QED BY <1>1, <2>1 DEF Before
<1>5. \A m, n : Apart(m, n) =>
        /\ Key(m)[1] # Key(n)[1]
        /\ Key(m)[2] = Key(n)[2] => Key(m)[3] # Key(n)[3]
  OBVIOUS
<1> HIDE DEF Apart, Key
<1>6. \E m, n : r = Key(m) /\ q = Key(n) /\ Apart(m, n)
  <2>1. CASE r \in {Key(delayQueue[i]) : i \in DOMAIN delayQueue}
             /\ q \in {Key(delayQueue[i]) : i \in DOMAIN delayQueue}
    BY <1>2, <2>1
  <2>2. CASE r \in {Key(batch[i]) : i \in Undecided}
             /\ q \in {Key(batch[i]) : i \in Undecided}
    BY <1>1, <1>3, <2>2
  <2>3. CASE r \in {Key(delayQueue[i]) : i \in DOMAIN delayQueue}
             /\ q \in {Key(batch[i]) : i \in Undecided}
    BY <1>1, <1>4, <2>3
  <2>4. CASE q \in {Key(delayQueue[i]) : i \in DOMAIN delayQueue}
             /\ r \in {Key(batch[i]) : i \in Undecided}
    BY <1>1, <1>4, <2>4
  <2> QED BY <2>1, <2>2, <2>3, <2>4 DEF Reviewed
<1> QED BY <1>5, <1>6

\* A line passes its sender: it waits from now on, or is dropped.
LEMMA FlushSeen ==
  ASSUME RefineInv, KeysWait, KeysWait', FlushLine
  PROVE  \E o \in Outputs : Viewed!Accept(o, Horizon[o]) \/ Viewed!Drop(o, Horizon[o])
<1> DEFINE o == Head(todo)
<1>1. PICK e \in Ready(o) :
        /\ nextSeq' = [nextSeq EXCEPT ![o] = e.seq + 1]
        /\ \/ e.text /\ ~IsPaused(o) /\ pc' = "enqueue" /\ txt' = e.utt
           \/ pc' = pc
  BY DEF FlushLine
<1>2. /\ pc = "flush" /\ UNCHANGED <<shown, paused, skipSet, draining, todo, delayQueue, batch>>
  BY DEF FlushLine, shared, queue, history
<1>3. /\ o \in DOMAIN nextSeq /\ o \in Outputs /\ nextSeq[o] \in Nat
      /\ e.seq = nextSeq[o] /\ e.utt = nextSeq[o] /\ nextSeq \in [DOMAIN nextSeq -> Nat]
  BY <1>2 DEF RefineInv, OrderInv, Standing, TypeOK, Ready, SameNumbers
<1>4. Horizon[o] = nextSeq[o] /\ Horizon' = [Horizon EXCEPT ![o] = Horizon[o] + 1]
  BY <1>1, <1>3 DEF Horizon
<1>5. UNCHANGED <<OnAir, Aired, Muted, Reviewed>>
  BY <1>1, <1>2 DEF OnAir, Aired, Muted, IsPaused, Reviewed, Undecided
<1>6. Viewed!Pass(o, Horizon[o])
  BY <1>4, <1>5 DEF Viewed!Pass
<1>7. CASE pc' = pc
  <2>1. Waiting' = Waiting
    BY <1>2, <1>5, <1>7, SameWaiting
  <2> QED BY <1>3, <1>6, <2>1 DEF Viewed!Drop
<1>8. CASE ~IsPaused(o) /\ pc' = "enqueue" /\ txt' = e.utt
  <2>1. ~Muted[o]
    BY <1>3, <1>8 DEF Muted
  <2>2. \A p \in Outputs : Unmarked(p)' = Unmarked(p)
    BY <1>2, <1>5 DEF Unmarked
  <2>3. \A p \in Outputs : Enqueuing(p) = {} /\ Enqueuing(p)' = IF p = o THEN {e.utt} ELSE {}
    BY <1>2, <1>8 DEF Enqueuing
  <2>4. ~draining /\ ~draining'
    BY <1>2 DEF RefineInv, OrderInv, AtHome
  <2>5. Waiting' = [Waiting EXCEPT ![o] = @ \cup {Horizon[o]}]
    BY <1>2, <1>3, <1>4, <1>8, <2>2, <2>3, <2>4 DEF KeysWait, WaitingKeys
  <2> QED BY <1>3, <1>6, <2>1, <2>5 DEF Viewed!Accept
<1> QED BY <1>1, <1>7, <1>8

\* The room is sent the message on air, or it is lost.
LEMMA SendSeen ==
  ASSUME RefineInv, KeysWait, KeysWait', ~draining, SendNowhere \/ SendChunks
  PROVE  Viewed!Show \/ Viewed!Lose
<1>1. /\ pc = "send" /\ UNCHANGED <<nextSeq, paused, skipSet, draining, delayQueue>>
      /\ \/ batch' = Tail(batch) /\ pc' = "process"
         \/ pc' = "recent" /\ UNCHANGED batch
      /\ batch # <<>>
  BY DEF SendNowhere, SendChunks, Resume, shared, routing, queue, RefineInv, OrderInv,
     Standing
<1>2. Reviewed' = Reviewed
  BY <1>1, FinishReviewed DEF RefineInv
<1>3. Waiting' = Waiting
  BY <1>1, <1>2, SameWaiting
<1>4. UNCHANGED <<Horizon, Muted>>
  BY <1>1, SameHorizon DEF Muted, IsPaused
<1>5. OnAir = {<<Head(batch).out, Head(batch).utt>>} /\ OnAir' = {}
  BY <1>1 DEF OnAir
<1>6. CASE shown' = shown
  BY <1>3, <1>4, <1>5, <1>6 DEF Viewed!Lose, Aired
<1>7. CASE shown' = Append(shown, Head(batch))
  <2>1. shown \in Seq(Msg) /\ Head(batch) \in Msg
    BY <1>1, IdTypes DEF RefineInv
  <2> DEFINE P(m) == <<m.out, m.utt>>
  <2>2. Aired = [i \in DOMAIN shown |-> P(shown[i])]
        /\ Aired' = [i \in DOMAIN shown' |-> P(shown'[i])]
    BY DEF Aired
  <2> HIDE DEF P
  <2>3. Aired \in Seq({P(m) : m \in Msg}) /\ Len(Aired) = Len(shown)
        /\ Aired' \in Seq({P(m) : m \in Msg}) /\ Len(Aired') = Len(shown) + 1
    <3>1. shown' \in Seq(Msg) /\ Len(shown') = Len(shown) + 1
      BY <1>7, <2>1, Appended
    <3>2. ASSUME NEW s \in Seq(Msg)
          PROVE  /\ [i \in DOMAIN s |-> P(s[i])] \in Seq({P(m) : m \in Msg})
                 /\ Len([i \in DOMAIN s |-> P(s[i])]) = Len(s)
      OBVIOUS
    <3> QED BY <2>1, <2>2, <3>1, <3>2
  <2>4. \A i \in 1 .. Len(shown) + 1 : Aired'[i] = Append(Aired, P(Head(batch)))[i]
    <3>1. DOMAIN shown' = 1 .. Len(shown) + 1 /\ DOMAIN shown = 1 .. Len(shown)
          /\ Len(shown) \in Nat
      BY <1>7, <2>1
    <3>2. \A i \in DOMAIN shown : Aired'[i] = Aired[i]
      BY <1>7, <2>1, <2>2, <3>1, Appended
    <3>3. Aired'[Len(shown) + 1] = P(Head(batch))
      BY <1>7, <2>1, <2>2, <3>1, Appended
    <3>4. P(Head(batch)) \in {P(m) : m \in Msg}
      BY <2>1
    <3>5. /\ \A i \in DOMAIN Aired : Append(Aired, P(Head(batch)))[i] = Aired[i]
          /\ Append(Aired, P(Head(batch)))[Len(Aired) + 1] = P(Head(batch))
      BY <2>3, <3>4, Appended
    <3>6. DOMAIN Aired = 1 .. Len(shown)
      BY <2>3
    <3> QED BY <2>3, <3>1, <3>2, <3>3, <3>5, <3>6
  <2>5. Aired' = Append(Aired, P(Head(batch)))
    BY <2>1, <2>3, <2>4
  <2> QED BY <1>3, <1>4, <1>5, <2>5 DEF Viewed!Show, P
<1> QED BY <1>6, <1>7 DEF SendNowhere, SendChunks, history

\* What the abstract machine may do with one utterance of an output
Decision(o, u) == Viewed!Discard(o, u) \/ Viewed!Commit(o, u)

\* A line that enters the review was waiting already; it is discarded at once if
\* an earlier request named the number it gets.
LEMMA EnqueueSeen ==
  ASSUME RefineInv, KeysWait, KeysWait', Enqueue
  PROVE  \/ UNCHANGED Viewed!vars
         \/ \E o \in Outputs : \E u \in Waiting[o] : Decision(o, u)
<1> DEFINE o == Head(todo)
           n == <<nextMsgID, o, txt>>
           Texts(p) == {x[3] : x \in Unmarked(p)}
<1>1. /\ UNCHANGED <<nextSeq, shown, paused, skipSet, draining>>
      /\ pc = "enqueue" /\ pc' = "flush" /\ ~draining /\ txt \in Nat /\ o \in Outputs
  BY DEF Enqueue, history, RefineInv, OrderInv, AtHome, Standing, TypeOK
<1>2. Reviewed' = Reviewed \cup {n}
  BY EnqueueReviewed DEF RefineInv, OrderInv
<1>3. n[1] = nextMsgID /\ n[2] = o /\ n[3] = txt
  OBVIOUS
<1>4. UNCHANGED <<Horizon, Aired, Muted, OnAir>>
  BY <1>1, SameHorizon DEF Aired, Muted, IsPaused, OnAir
<1>5. \A p \in Outputs : Waiting[p] = Texts(p) \cup IF p = o THEN {txt} ELSE {}
  BY <1>1 DEF KeysWait, WaitingKeys, Enqueuing
<1> HIDE DEF n
<1>6. \A p \in Outputs :
        Waiting'[p] = Texts(p) \cup IF p = o /\ nextMsgID \notin skipSet THEN {txt} ELSE {}
  <2> SUFFICES ASSUME NEW p \in Outputs
               PROVE  Waiting'[p] = Texts(p) \cup
                        IF p = o /\ nextMsgID \notin skipSet THEN {txt} ELSE {}
    OBVIOUS
  <2>1. Unmarked(p)' = Unmarked(p) \cup IF p = o /\ nextMsgID \notin skipSet THEN {n} ELSE {}
    BY <1>1, <1>2, <1>3 DEF Unmarked
  <2>2. Waiting'[p] = {x[3] : x \in Unmarked(p)'}
    BY <1>1 DEF KeysWait, WaitingKeys, Enqueuing
  <2> QED BY <1>3, <2>1, <2>2
<1>7. txt \notin Texts(o)
  <2> SUFFICES ASSUME NEW r \in Unmarked(o) PROVE r[3] # txt
    OBVIOUS
  <2>1. r \in Reviewed /\ r[2] = o
    BY DEF Unmarked
  <2>2. PICK m \in Msg : r = Key(m) /\ PassedBy(m)
    <3>1. CASE \E i \in DOMAIN delayQueue : r = Key(delayQueue[i])
      BY <3>1, IdTypes DEF RefineInv, OrderInv, Passed
    <3>2. CASE \E i \in Undecided : r = Key(batch[i])
      <4>1. Undecided \subseteq DOMAIN batch
        BY IdTypes DEF RefineInv, Undecided
      <4> QED BY <3>2, <4>1, IdTypes DEF RefineInv, OrderInv, Passed
    <3> QED BY <2>1, <3>1, <3>2 DEF Reviewed
  <2>3. m.out = o /\ m.utt = r[3]
    BY <2>1, <2>2
  <2>4. m.utt < txt
    BY <1>1, <2>2, <2>3 DEF PassedBy
  <2>5. m.utt \in Nat
    BY DEF Msg
  <2> QED BY <1>1, <2>3, <2>4, <2>5
<1>8. Waiting = [p \in Outputs |-> Waiting[p]] /\ Waiting' = [p \in Outputs |-> Waiting'[p]]
  BY DEF Waiting
<1> HIDE DEF o, Texts
<1>9. CASE nextMsgID \notin skipSet
  <2>1. Waiting' = Waiting
    BY <1>5, <1>6, <1>8, <1>9
  <2> QED BY <1>4, <2>1 DEF Viewed!vars
<1>10. CASE nextMsgID \in skipSet
  <2>1. txt \in Waiting[o] /\ Waiting'[o] = Waiting[o] \ {txt}
        /\ \A p \in Outputs : p # o => Waiting'[p] = Waiting[p]
    BY <1>1, <1>5, <1>6, <1>7, <1>10
  <2>2. Waiting' = [Waiting EXCEPT ![o] = @ \ {txt}]
    BY <1>8, <2>1
  <2>3. Viewed!Discard(o, txt)
    BY <1>4, <2>1, <2>2 DEF Viewed!Discard
  <2> QED BY <1>1, <2>1, <2>3 DEF Decision
<1> QED BY <1>9, <1>10

LEMMA LaterUtts ==
  ASSUME RefineInv
  PROVE  \A x \in Later : x[3] \in Nat
<1> SUFFICES ASSUME NEW x \in Later PROVE x[3] \in Nat
  OBVIOUS
<1>1. PICK m \in Msg : x = Key(m)
  <2>1. delayQueue \in Seq(Msg) /\ batch \in Seq(Msg)
    BY IdTypes DEF RefineInv
  <2> QED BY <2>1 DEF Later
<1> QED BY <1>1 DEF Msg

\* The tick decides on its first message: it goes on air as the oldest of its
\* output, is discarded, or was already.
LEMMA DecideSeen ==
  ASSUME RefineInv, KeysWait, KeysWait', ProcessNext
  PROVE  \/ UNCHANGED Viewed!vars
         \/ \E o \in Outputs : \E u \in Waiting[o] : Decision(o, u)
<1> DEFINE m == Head(batch)
           Others(o) == {x \in Later : x[2] = o /\ x[1] \notin skipSet}
<1>1. /\ pc = "process" /\ batch # <<>> /\ m = batch[1] /\ 1 \in DOMAIN batch /\ m.id \in due
      /\ m.out \in Outputs /\ m.utt \in Nat
      /\ UNCHANGED <<nextSeq, shown, paused, draining, delayQueue>> /\ ~draining
      /\ skipSet' = skipSet \ {m.id}
      /\ IF m.id \notin skipSet /\ ~IsPaused(m.out)
         THEN pc' = "send" /\ UNCHANGED batch
         ELSE batch' = Tail(batch) /\ UNCHANGED pc
  <2>1. batch \in Seq(Msg) /\ batch # <<>>
    BY IdTypes DEF RefineInv, ProcessNext
  <2>2. m = batch[1] /\ 1 \in DOMAIN batch /\ m \in Msg
    BY <2>1
  <2> QED
    BY <2>1, <2>2 DEF ProcessNext, MaySend, Msg, RefineInv, OrderInv, AtHome, routing, history
<1>2. Reviewed = {Key(m)} \cup Later /\ Reviewed' = Later
  BY <1>1, DecideReviewed DEF RefineInv
<1>3. DOMAIN delayQueue = {}
  BY <1>1 DEF RefineInv, OrderInv, RetainedFirst
<1>4. \A x \in Later : x[1] # m.id /\ (x[2] = m.out => m.utt < x[3])
  <2>1. SUFFICES ASSUME NEW x \in Later
                 PROVE  x[1] # m.id /\ (x[2] = m.out => m.utt < x[3])
    OBVIOUS
  <2>2. PICK j \in 2 .. Len(batch) : x = Key(batch[j])
    BY <1>3 DEF Later
  <2>3. j \in DOMAIN batch /\ 1 < j
    BY <2>2, IdTypes DEF RefineInv
  <2>4. Before(batch[1], batch[j])
    BY <1>1, <2>3 DEF RefineInv, OrderInv, QueueSorted, Sorted
  <2>5. batch[1].id \in Nat /\ batch[j].id \in Nat
    BY <1>1, <2>3, IdTypes DEF RefineInv
  <2> QED BY <1>1, <2>2, <2>4, <2>5 DEF Before
<1>5. Key(m)[1] = m.id /\ Key(m)[2] = m.out /\ Key(m)[3] = m.utt
  OBVIOUS
<1>6. \A o \in Outputs :
        /\ Unmarked(o)' = Others(o)
        /\ Unmarked(o) = Others(o) \cup
             IF o = m.out /\ m.id \notin skipSet THEN {Key(m)} ELSE {}
  <2> HIDE DEF m, Key
  <2> QED BY <1>1, <1>2, <1>4, <1>5 DEF Unmarked
<1>7. \A o \in Outputs : Enqueuing(o) = {} /\ Enqueuing(o)' = {}
  BY <1>1 DEF Enqueuing
<1>8. \A o \in Outputs :
        /\ Waiting'[o] = {x[3] : x \in Others(o)}
        /\ Waiting[o] = {x[3] : x \in Others(o)} \cup
             IF o = m.out /\ m.id \notin skipSet THEN {m.utt} ELSE {}
  <2> HIDE DEF m, Key, Others
  <2>1. \A o \in Outputs : Waiting'[o] = {x[3] : x \in Unmarked(o)'}
    BY <1>1, <1>7 DEF KeysWait, WaitingKeys
  <2>2. \A o \in Outputs : Waiting[o] = {x[3] : x \in Unmarked(o)}
    BY <1>1, <1>7 DEF KeysWait, WaitingKeys
  <2> QED BY <1>5, <1>6, <2>1, <2>2
<1>9. \A u \in {x[3] : x \in Others(m.out)} : m.utt < u
  BY <1>4
<1>10. UNCHANGED <<Horizon, Aired, Muted>> /\ OnAir = {}
  BY <1>1, SameHorizon DEF Aired, Muted, IsPaused, OnAir
<1>11. CASE m.id \in skipSet
  <2>1. Waiting' = Waiting
    BY <1>8, <1>11 DEF Waiting
  <2>2. OnAir' = OnAir
    BY <1>1, <1>10, <1>11 DEF OnAir
  <2> QED BY <1>10, <2>1, <2>2 DEF Viewed!vars
<1>12. CASE m.id \notin skipSet
  <2> DEFINE Rest == {x[3] : x \in Others(m.out)}
  <2>1. /\ m.utt \in Waiting[m.out] /\ \A v \in Waiting[m.out] : m.utt <= v
        /\ Waiting'[m.out] = Waiting[m.out] \ {m.utt}
        /\ \A o \in Outputs : o # m.out => Waiting'[o] = Waiting[o]
    <3>1. m.utt \in Nat /\ m.out \in Outputs
      BY <1>1
    <3>2. \A u \in Rest : m.utt < u /\ u \in Nat
      <4>1. \A x \in Later : x[3] \in Nat
        BY LaterUtts DEF RefineInv
      <4> QED BY <1>9, <4>1
    <3>3. Waiting'[m.out] = Rest /\ Waiting[m.out] = Rest \cup {m.utt}
      <4> HIDE DEF m, Others
      <4> QED BY <1>8, <1>12, <3>1
    <3>4. \A o \in Outputs : o # m.out => Waiting'[o] = Waiting[o]
      <4> HIDE DEF m, Others, Rest
      <4> QED BY <1>8
    <3> HIDE DEF Rest
    <3>5. m.utt \notin Rest /\ \A v \in Rest \cup {m.utt} : m.utt <= v
      <4> HIDE DEF m
      <4> QED BY <3>1, <3>2
    <3> QED BY <3>3, <3>4, <3>5
  <2>2. Waiting' = [Waiting EXCEPT ![m.out] = @ \ {m.utt}]
    <3> HIDE DEF m
    <3> QED BY <2>1 DEF Waiting
  <2>3. CASE ~IsPaused(m.out)
    <3>1. OnAir' = {<<m.out, m.utt>>}
      BY <1>1, <1>12, <2>3 DEF OnAir
    <3>2. ~Muted[m.out]
      BY <1>1, <2>3 DEF Muted
    <3>3. Viewed!Commit(m.out, m.utt)
      BY <1>10, <2>1, <2>2, <3>1, <3>2 DEF Viewed!Commit
    <3> QED BY <1>1, <2>1, <3>3 DEF Decision
  <2>4. CASE IsPaused(m.out)
    <3>1. OnAir' = OnAir
      BY <1>1, <1>10, <2>4 DEF OnAir
    <3>2. Viewed!Discard(m.out, m.utt)
      BY <1>10, <2>1, <2>2, <3>1 DEF Viewed!Discard
    <3> QED BY <1>1, <2>1, <3>2 DEF Decision
  <2> QED BY <2>3, <2>4
<1> QED BY <1>11, <1>12

\* A skip discards the message that has the number, if it waits.
LEMMA SkipSeen ==
  ASSUME RefineInv, KeysWait, KeysWait', NEW id, SkipPending(id)
  PROVE  \/ UNCHANGED Viewed!vars
         \/ \E o \in Outputs : \E u \in Waiting[o] : Decision(o, u)
<1>1. /\ UNCHANGED <<nextSeq, shown, paused, draining, pc, delayQueue, batch, todo, txt>>
      /\ skipSet' = skipSet \cup {id}
  BY DEF SkipPending, MarkSkipped, routing, queue
<1>2. UNCHANGED <<Reviewed, Horizon, Aired, Muted, OnAir>>
  BY <1>1, SameHorizon DEF Reviewed, Undecided, Aired, Muted, IsPaused, OnAir
<1>3. \A o \in Outputs : Unmarked(o)' = {x \in Unmarked(o) : x[1] # id}
  BY <1>1, <1>2 DEF Unmarked
<1>4. \A o \in Outputs : Enqueuing(o)' = Enqueuing(o)
  BY <1>1 DEF Enqueuing
<1>5. CASE draining \/ pc = "done"
  <2>1. Waiting' = Waiting
    BY <1>1, <1>5 DEF KeysWait, WaitingKeys
  <2> QED BY <1>2, <2>1 DEF Viewed!vars
<1>6. CASE ~draining /\ pc # "done" /\ \A o \in Outputs : \A x \in Unmarked(o) : x[1] # id
  <2>1. \A o \in Outputs : Unmarked(o)' = Unmarked(o)
    BY <1>3, <1>6
  <2>2. Waiting' = Waiting
    BY <1>1, <1>4, <2>1 DEF KeysWait, WaitingKeys
  <2> QED BY <1>2, <2>2 DEF Viewed!vars
<1>7. ASSUME ~draining, pc # "done", NEW o \in Outputs, NEW r \in Unmarked(o), r[1] = id
      PROVE  r[3] \in Waiting[o] /\ Viewed!Discard(o, r[3])
  <2>1. \A p \in Outputs :
          /\ Waiting[p] = {x[3] : x \in Unmarked(p)} \cup Enqueuing(p)
          /\ Waiting'[p] = {x[3] : x \in Unmarked(p)'} \cup Enqueuing(p)
    BY <1>1, <1>4, <1>7 DEF KeysWait, WaitingKeys
  <2>2. r \in Reviewed /\ r[2] = o
    BY <1>7 DEF Unmarked
  <2>3. ASSUME NEW p \in Outputs, NEW x \in Unmarked(p), x # r
        PROVE  x[1] # id /\ (p = o => x[3] # r[3])
    <3>1. x \in Reviewed /\ x[2] = p
      BY <2>3 DEF Unmarked
    <3> QED BY <1>7, <2>2, <2>3, <3>1, KeysApart DEF RefineInv
  <2>4. r[3] \notin Enqueuing(o)
    <3> SUFFICES ASSUME pc = "enqueue", Head(todo) = o PROVE r[3] # txt
      BY DEF Enqueuing
    <3>1. PICK m \in Msg : r = Key(m) /\ PassedBy(m)
      <4>1. CASE \E i \in DOMAIN delayQueue : r = Key(delayQueue[i])
        BY <4>1, IdTypes DEF RefineInv, OrderInv, Passed
      <4>2. CASE \E i \in Undecided : r = Key(batch[i])
        <5>1. Undecided \subseteq DOMAIN batch
          BY IdTypes DEF RefineInv, Undecided
        <5> QED BY <4>2, <5>1, IdTypes DEF RefineInv, OrderInv, Passed
      <4> QED BY <2>2, <4>1, <4>2 DEF Reviewed
    <3>2. m.out = o /\ m.utt = r[3]
      BY <2>2, <3>1
    <3>3. m.utt < txt /\ txt \in Nat
      BY <3>1, <3>2 DEF PassedBy, RefineInv, TypeOK
    <3> QED BY <3>2, <3>3
  <2>5. \A p \in Outputs : p # o => Unmarked(p)' = Unmarked(p)
    <3> SUFFICES ASSUME NEW p \in Outputs, p # o, NEW x \in Unmarked(p)
                 PROVE  x[1] # id
      BY <1>3
    <3>1. x # r
      BY <2>2 DEF Unmarked
    <3> QED BY <2>3, <3>1
  <2>6. {x[3] : x \in Unmarked(o)'} = {x[3] : x \in Unmarked(o)} \ {r[3]}
    BY <1>3, <1>7, <2>3
  <2>7. r[3] \in Waiting[o] /\ Waiting'[o] = Waiting[o] \ {r[3]}
    BY <1>7, <2>1, <2>4, <2>6
  <2>8. Waiting' = [Waiting EXCEPT ![o] = @ \ {r[3]}]
    BY <2>1, <2>5, <2>7 DEF Waiting
  <2> QED BY <1>2, <2>7, <2>8 DEF Viewed!Discard
<1> QED BY <1>5, <1>6, <1>7 DEF Decision

\* Every step is a step of Subtitles, or is not seen.
LEMMA RefineStep ==
  ASSUME RefineInv, TypeOK', KeysWait, KeysWait', [Next]_vars
  PROVE  [Viewed!Next]_Viewed!vars
<1>1. CASE \/ \E s \in Seqs : SubmitSeq(s)
           \/ Cancel \/ Stop \/ StartRun \/ Receive \/ LogTranscript \/ RouteOutput
           \/ RoutePanics \/ RouteDone \/ FlushGap \/ TickerFires \/ Retain \/ ProcessDone
           \/ AddRecent \/ TimePasses \/ UNCHANGED vars
  BY <1>1, UnseenStep
<1>2. CASE Enqueue
  BY <1>2, EnqueueSeen DEF Viewed!Next, Decision
<1>3. CASE FlushLine
  BY <1>3, FlushSeen DEF Viewed!Next
<1>4. CASE ProcessNext
  BY <1>4, DecideSeen DEF Viewed!Next, Decision
<1>5. CASE DrainNext \/ DrainDone \/ SendNowhere \/ SendChunks
  <2>1. CASE draining
    BY <1>5, <2>1, DrainUnseen
  <2>2. CASE ~draining
    <3>1. SendNowhere \/ SendChunks
      BY <1>5, <2>2 DEF DrainNext, DrainDone, RefineInv, OrderInv, AtHome
    <3> QED BY <2>2, <3>1, SendSeen DEF Viewed!Next
  <2> QED BY <2>1, <2>2
<1>6. CASE BeginDrain \/ Exit
  BY <1>6, EndSeen DEF Viewed!Next
<1>7. CASE \E id \in Skippable : SkipPending(id)
  BY <1>7, SkipSeen DEF Viewed!Next, Decision
<1>8. CASE \/ \E o \in Outputs, p \in BOOLEAN : SetPaused(o, p)
           \/ \E list \in SyncLists : SyncOutputs(list)
  BY <1>8, MuteSeen DEF Viewed!Next
<1> QED
  BY <1>1, <1>2, <1>3, <1>4, <1>5, <1>6, <1>7, <1>8 DEF Next, Control, Work, Select

LEMMA RefineInit == Init => Viewed!Init
<1> SUFFICES ASSUME Init PROVE Viewed!Init
  OBVIOUS
<1>1. Horizon = [o \in Outputs |-> 0] /\ Muted = [o \in Outputs |-> FALSE]
  BY DEF Init, Horizon, Muted, IsPaused
<1>2. OnAir = {} /\ Aired = <<>>
  BY DEF Init, OnAir, Aired
<1>3. InReview = {}
  BY DEF Init, InReview, ToSet
<1>4. Waiting = [o \in Outputs |-> {}]
  BY <1>3 DEF Init, Waiting, Awaiting
<1> QED BY <1>1, <1>2, <1>4 DEF Viewed!Init

\* The controller keeps what Subtitles promises, for any outputs, utterances,
\* lists of outputs and delays: a paused output accepts and commits nothing, a
\* discarded line stays away, the oldest line of an output goes on air next, and
\* alone.
THEOREM SubtitlesImplemented == Spec => ImplementsSubtitles
<1>1. Init => TypeOK /\ OrderInv /\ ReviewInv /\ Beginning
  BY InitType, InitOrder, InitReview DEF Init, Beginning
<1>2. TypeOK /\ OrderInv /\ ReviewInv /\ Beginning /\ [Next]_vars
      => (TypeOK /\ OrderInv /\ ReviewInv /\ Beginning)'
  BY NextType, NextOrder, NextReview, NextBeginning DEF OrderInv
<1>3. /\ TypeOK /\ OrderInv /\ ReviewInv /\ Beginning
      /\ (TypeOK /\ OrderInv /\ ReviewInv /\ Beginning)' /\ [Next]_vars
      => [Viewed!Next]_Viewed!vars
  <2> SUFFICES ASSUME TypeOK, OrderInv, ReviewInv, Beginning, TypeOK', OrderInv', [Next]_vars
               PROVE  [Viewed!Next]_Viewed!vars
    OBVIOUS
  <2>1. KeysWait
    BY WaitingMeaning DEF OrderInv
  <2>2. KeysWait'
    BY WaitingNext DEF OrderInv
  <2> QED BY <2>1, <2>2, RefineStep DEF RefineInv
<1> QED
  BY <1>1, <1>2, <1>3, RefineInit, PTL DEF Spec, ImplementsSubtitles, Viewed!Spec
=============================================================================
