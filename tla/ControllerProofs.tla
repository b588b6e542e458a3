-------------------------- MODULE ControllerProofs --------------------------
(***************************************************************************)
(* What holds of every controller: for any outputs and lists of outputs,   *)
(* any number of utterances, any capacity of the channel and any delay.    *)
(***************************************************************************)
EXTENDS ControllerInvariant, TLAPS

-----------------------------------------------------------------------------
(* Sequences.                                                              *)

\* Elems of a sequence are those of its set type.
LEMMA ToSetType ==
  ASSUME NEW S, NEW s \in Seq(S)
  PROVE  ToSet(s) \subseteq S
BY DEF ToSet

\* Head and Tail of a sequence that is not empty
LEMMA HeadTail ==
  ASSUME NEW S, NEW s \in Seq(S), s # <<>>
  PROVE  /\ Head(s) \in S /\ Tail(s) \in Seq(S)
         /\ Len(s) \in Nat \ {0}
         /\ Head(s) = s[1] /\ Len(Tail(s)) = Len(s) - 1
         /\ DOMAIN Tail(s) = 1 .. Len(s) - 1
         /\ \A i \in DOMAIN Tail(s) : Tail(s)[i] = s[i + 1]
OBVIOUS

\* Append adds one element at the end.
LEMMA Appended ==
  ASSUME NEW S, NEW s \in Seq(S), NEW e \in S
  PROVE  /\ Append(s, e) \in Seq(S)
         /\ Len(Append(s, e)) = Len(s) + 1
         /\ DOMAIN Append(s, e) = 1 .. Len(s) + 1
         /\ \A i \in DOMAIN s : Append(s, e)[i] = s[i]
         /\ Append(s, e)[Len(s) + 1] = e
OBVIOUS

\* The clock changes only how much time is left, down to zero.
LEMMA AgedType ==
  ASSUME NEW s \in Seq(Msg), SendDelay \in Nat
  PROVE  /\ Aged(s) \in Seq(Msg)
         /\ DOMAIN Aged(s) = DOMAIN s
         /\ \A i \in DOMAIN s :
              Aged(s)[i] = [s[i] EXCEPT !.left = IF @ > 0 THEN @ - 1 ELSE 0]
<1>1. ASSUME NEW m \in Msg
      PROVE  [m EXCEPT !.left = IF @ > 0 THEN @ - 1 ELSE 0] \in Msg
  <2>1. m.left \in 0 .. SendDelay
    BY DEF Msg
  <2>2. (IF m.left > 0 THEN m.left - 1 ELSE 0) \in 0 .. SendDelay
    BY <2>1
  <2> QED BY <2>2 DEF Msg
<1>2. Len(s) \in Nat /\ DOMAIN s = 1 .. Len(s)
  OBVIOUS
<1> QED BY <1>1, <1>2 DEF Aged

\* Recent is cut to its last MaxRecent entries.
LEMMA KeepRecentType ==
  ASSUME NEW s \in Seq(Nat), MaxRecent \in Nat \ {0}
  PROVE  KeepRecent(s) \in Seq(Nat) /\ Len(KeepRecent(s)) <= MaxRecent
BY DEF KeepRecent

-----------------------------------------------------------------------------
(* Type correctness.                                                       *)

LEMMA InitType == Init => TypeOK
<1> SUFFICES ASSUME Init PROVE TypeOK
  OBVIOUS
<1>1. InitOutputs \in NameLists /\ InitOutputs \in Seq(Outputs)
  BY ListsAssumption DEF NameLists
<1>2. ToSet(InitOutputs) \subseteq Outputs
  BY <1>1, ToSetType
<1>3. /\ DOMAIN paused \subseteq Outputs
      /\ \A o \in DOMAIN paused : paused[o] \in BOOLEAN
  BY <1>2 DEF Init
<1>4. /\ uiPending \in [ToSet(outputs) -> SUBSET Nat]
      /\ recent \in [ToSet(outputs) -> Seq(Nat)]
      /\ \A o \in ToSet(outputs) : Len(recent[o]) <= MaxRecent
  BY BoundsAssumption DEF Init
<1>5. NoTranslation \in Translation
  BY DEF NoTranslation, Translation
<1>6. /\ DOMAIN nextSeq \subseteq Outputs
      /\ nextSeq \in [DOMAIN nextSeq -> Nat]
      /\ buf \in [DOMAIN nextSeq -> SUBSET Line]
  BY DEF Init
<1>7. ch \in Seq(Translation) /\ Len(ch) <= ChanCap
  BY BoundsAssumption DEF Init
<1>8. /\ outputs \in NameLists /\ todo \in Seq(Outputs)
      /\ delayQueue \in Seq(Msg) /\ batch \in Seq(Msg) /\ shown \in Seq(Msg)
  BY <1>1 DEF Init
<1>9. /\ submitted \subseteq Nat /\ skipSet \subseteq Nat /\ due \subseteq Nat
      /\ revoked \subseteq Nat /\ transcript \subseteq Nat \X (Outputs \cup {Unlogged})
  BY DEF Init
<1>10. /\ closed \in BOOLEAN /\ ctxDone \in BOOLEAN /\ draining \in BOOLEAN
       /\ nextMsgID \in Nat /\ txt \in Nat /\ pc \in PCs
       /\ cur \in Translation
  BY <1>5 DEF Init, PCs
<1> QED BY <1>3, <1>4, <1>6, <1>7, <1>8, <1>9, <1>10 DEF TypeOK

LEMMA StepType == TypeOK /\ Standing /\ [Steps]_vars => TypeOK'
<1> SUFFICES ASSUME TypeOK, Standing, [Steps]_vars PROVE TypeOK'
  OBVIOUS
<1> USE BoundsAssumption
<1>1. CASE Accept
  <2>1. PICK t \in Translation : Submit(t)
    BY <1>1 DEF Accept
  <2>2. t.utt \in Nat
    BY DEF Translation
  <2>3. ch' \in Seq(Translation) /\ Len(ch') <= ChanCap
    BY <2>1, Appended DEF Submit, TypeOK
  <2> QED BY <2>1, <2>2, <2>3 DEF Submit, TypeOK, shared, routing, queue, history
<1>2. CASE Cancel
  BY <1>2 DEF Cancel, TypeOK, shared, routing, queue, history
<1>3. CASE Stop
  BY <1>3 DEF Stop, TypeOK, shared, routing, queue, history
<1>4. ASSUME NEW o \in Outputs, NEW p \in BOOLEAN, SetPaused(o, p) PROVE TypeOK'
  <2>1. DOMAIN paused' = DOMAIN paused \cup {o}
    BY <1>4 DEF SetPaused
  <2>2. \A x \in DOMAIN paused' : paused'[x] \in BOOLEAN
    BY <1>4 DEF SetPaused, TypeOK
  <2> QED BY <1>4, <2>1, <2>2 DEF SetPaused, TypeOK, channel, routing, queue, history
<1>5. ASSUME NEW id \in Skippable, SkipPending(id) PROVE TypeOK'
  <2>1. id \in Nat
    BY StaleAssumption DEF TypeOK, Skippable
  <2>2. uiPending' \in [ToSet(outputs) -> SUBSET Nat]
    BY <1>5 DEF SkipPending, TypeOK
  <2> QED BY <1>5, <2>1, <2>2
          DEF SkipPending, MarkSkipped, TypeOK, channel, routing, queue
<1>6. ASSUME NEW list \in SyncLists, SyncOutputs(list) PROVE TypeOK'
  <2>1. list \in NameLists /\ list \in Seq(Outputs)
    BY ListsAssumption DEF NameLists
  <2>2. ToSet(list) \subseteq Outputs
    BY <2>1, ToSetType
  <2>3. uiPending' \in [ToSet(list) -> SUBSET Nat]
    BY <1>6 DEF SyncOutputs, CarryOver, TypeOK
  <2>4. /\ recent' \in [ToSet(list) -> Seq(Nat)]
        /\ \A o \in ToSet(list) : Len(recent'[o]) <= MaxRecent
    BY <1>6 DEF SyncOutputs, CarryOver, TypeOK
  <2>5. DOMAIN paused' = ToSet(list)
    BY <1>6 DEF SyncOutputs
  <2>6. \A o \in DOMAIN paused' : paused'[o] \in BOOLEAN
    BY <1>6 DEF SyncOutputs, IsPaused, TypeOK
  <2>7. outputs' = list /\ UNCHANGED <<channel, skipSet, nextMsgID, pc, routing,
                                        queue, history>>
    BY <1>6 DEF SyncOutputs
  <2> QED BY <2>1, <2>2, <2>3, <2>4, <2>5, <2>6, <2>7
          DEF TypeOK, channel, routing, queue, history
<1>7. CASE StartRun
  <2>1. ToSet(outputs) \subseteq Outputs
    BY ToSetType DEF TypeOK, NameLists
  <2> QED BY <1>7, <2>1 DEF StartRun, TypeOK, PCs, channel, shared, queue, history
<1>8. CASE Receive
  <2>1. Head(ch) \in Translation /\ Tail(ch) \in Seq(Translation)
        /\ Len(Tail(ch)) <= ChanCap
    BY <1>8, HeadTail DEF Receive, TypeOK
  <2> QED BY <1>8, <2>1 DEF Receive, TypeOK, PCs, shared, queue, history
<1>9. CASE LogTranscript
  <2>1. outputs \in Seq(Outputs) /\ cur.utt \in Nat
    BY DEF TypeOK, NameLists, Translation
  <2>2. transcript' \subseteq Nat \X (Outputs \cup {Unlogged})
    <3>1. \A i \in Loggable : outputs[i] \in Outputs
      BY <2>1 DEF Loggable
    <3>2. transcript \subseteq Nat \X (Outputs \cup {Unlogged})
      BY DEF TypeOK
    <3>3. \/ transcript' = transcript
          \/ transcript' = transcript \cup {<<cur.utt, Unlogged>>}
          \/ \E i \in Loggable : transcript' = transcript \cup {<<cur.utt, outputs[i]>>}
      BY <1>9 DEF LogTranscript, SourceAlone
    <3> QED BY <2>1, <3>1, <3>2, <3>3
  <2> QED BY <1>9, <2>1, <2>2 DEF LogTranscript, SourceAlone, TypeOK, PCs, channel, shared, queue
<1>10. CASE RouteOutput
  <2> DEFINE o == Head(todo)
  <2>1. buf[o] \subseteq Line
    BY <1>10 DEF RouteOutput, TypeOK
  <2>2. LineFor(o) \in Line
    BY DEF LineFor, TypeOK, Translation, Line
  <2>3. Buffered(o) \subseteq Line
    BY <2>1, <2>2 DEF Buffered, LineFor
  <2> QED BY <1>10, <2>3 DEF RouteOutput, TypeOK, PCs, channel, shared, queue, history
<1>11. CASE RoutePanics
  BY <1>11 DEF RoutePanics, TypeOK, PCs, channel, shared, routing, queue, history
<1>12. CASE RouteDone
  BY <1>12 DEF RouteDone, TypeOK, PCs, NoTranslation, Translation,
               channel, shared, queue, history
<1>13. CASE FlushGap
  <2>1. Tail(todo) \in Seq(Outputs)
    BY <1>13, HeadTail DEF FlushGap, Standing, TypeOK
  <2> QED BY <1>13, <2>1 DEF FlushGap, TypeOK, PCs, channel, shared, queue, history
<1>14. CASE FlushLine
  <2>1. PICK e \in Ready(Head(todo)) :
          /\ buf' = [buf EXCEPT ![Head(todo)] = @ \ {e}]
          /\ nextSeq' = [nextSeq EXCEPT ![Head(todo)] = e.seq + 1]
          /\ \/ pc' = "enqueue" /\ txt' = e.utt
             \/ UNCHANGED <<pc, txt>>
    BY <1>14 DEF FlushLine
  <2>2. Head(todo) \in DOMAIN nextSeq
    BY <1>14 DEF FlushLine, Standing
  <2>3. e.seq + 1 \in Nat /\ e.utt \in Nat
    BY <2>2 DEF Ready, TypeOK, Line
  <2> QED BY <1>14, <2>1, <2>2, <2>3
          DEF FlushLine, TypeOK, PCs, channel, shared, queue, history
<1>15. CASE Enqueue
  <2>1. uiPending' \in [ToSet(outputs) -> SUBSET Nat]
    BY <1>15 DEF Enqueue, TypeOK
  <2>2. Head(todo) \in Outputs
    BY <1>15 DEF Enqueue, Standing, TypeOK
  <2>3. [id |-> nextMsgID, out |-> Head(todo), utt |-> txt, left |-> SendDelay] \in Msg
    BY <2>2 DEF TypeOK, Msg
  <2>4. delayQueue' \in Seq(Msg)
    BY <1>15, <2>3, Appended DEF Enqueue, TypeOK
  <2>5. nextMsgID' \in Nat /\ txt' = 0 /\ pc' = "flush"
    <3>1. nextMsgID' = nextMsgID + 1 /\ txt' = 0 /\ pc' = "flush"
      BY <1>15 DEF Enqueue
    <3> QED BY <3>1 DEF TypeOK
  <2>6. UNCHANGED <<channel, outputs, paused, recent, skipSet, cur, todo, nextSeq,
                    buf, batch, due, draining, history>>
    BY <1>15 DEF Enqueue
  <2> QED BY <2>1, <2>4, <2>5, <2>6 DEF TypeOK, PCs, channel, history
<1>16. CASE TickerFires
  <2>1. ToSet(delayQueue) \subseteq Msg /\ \A m \in Msg : m.id \in Nat
    <3>1. ToSet(delayQueue) \subseteq Msg
      BY ToSetType DEF TypeOK
    <3> QED BY <3>1 DEF Msg
  <2>2. due' \subseteq Nat
    BY <1>16, <2>1 DEF TickerFires
  <2> QED BY <1>16, <2>2
          DEF TickerFires, TypeOK, PCs, channel, shared, routing, history
<1>17. CASE Retain
  <2>1. delayQueue' \in Seq(Msg) /\ batch' \in Seq(Msg)
    BY <1>17, HeadTail, Appended DEF Retain, TypeOK
  <2> QED BY <1>17, <2>1 DEF Retain, TypeOK, channel, shared, routing, history
<1>18. CASE ProcessNext
  <2>1. batch' \in Seq(Msg) /\ pc' \in PCs
    <3>1. batch \in Seq(Msg) /\ pc \in PCs
      BY DEF TypeOK
    <3>2. /\ batch # <<>> /\ (batch' = Tail(batch) \/ batch' = batch)
          /\ pc' = "send" \/ pc' = pc
      BY <1>18 DEF ProcessNext
    <3> QED BY <3>1, <3>2, HeadTail DEF PCs
  <2>2. uiPending' \in [ToSet(outputs) -> SUBSET Nat]
    BY <1>18 DEF ProcessNext, Unlist, TypeOK
  <2>3. skipSet' \subseteq Nat
    BY <1>18 DEF ProcessNext, TypeOK
  <2> QED BY <1>18, <2>1, <2>2, <2>3
          DEF ProcessNext, TypeOK, channel, routing, history
<1>19. CASE ProcessDone
  BY <1>19 DEF ProcessDone, TypeOK, PCs, channel, shared, routing, history
<1>20. CASE SendNowhere
  <2>1. batch' \in Seq(Msg)
    BY <1>20, HeadTail DEF SendNowhere, Standing, TypeOK
  <2>2. pc' \in PCs
    BY <1>20 DEF SendNowhere, Resume, PCs
  <2> QED BY <1>20, <2>1, <2>2
          DEF SendNowhere, TypeOK, channel, shared, routing, history
<1>21. CASE SendChunks
  <2>1. Head(batch) \in Msg
    BY <1>21, HeadTail DEF SendChunks, Standing, TypeOK
  <2>2. shown' \in Seq(Msg)
    <3>1. shown \in Seq(Msg)
      BY DEF TypeOK
    <3>2. shown' = shown \/ shown' = Append(shown, Head(batch))
      BY <1>21 DEF SendChunks
    <3> QED BY <2>1, <3>1, <3>2
  <2> QED BY <1>21, <2>2 DEF SendChunks, TypeOK, PCs, channel, shared, routing, queue
<1>22. CASE AddRecent
  <2>1. Head(batch).id \in Nat /\ batch' \in Seq(Msg)
    <3>1. Head(batch) \in Msg /\ batch' \in Seq(Msg)
      BY <1>22, HeadTail DEF AddRecent, Standing, TypeOK
    <3> QED BY <3>1 DEF Msg
  <2>2. ASSUME NEW o \in ToSet(outputs)
        PROVE  /\ KeepRecent(Append(recent[o], Head(batch).id)) \in Seq(Nat)
               /\ Len(KeepRecent(Append(recent[o], Head(batch).id))) <= MaxRecent
    BY <2>1, KeepRecentType, Appended DEF TypeOK
  <2>3. /\ recent' \in [ToSet(outputs) -> Seq(Nat)]
        /\ \A o \in ToSet(outputs) : Len(recent'[o]) <= MaxRecent
    BY <1>22, <2>2 DEF AddRecent, TypeOK
  <2>4. pc' \in PCs
    BY <1>22 DEF AddRecent, Resume, PCs
  <2> QED BY <1>22, <2>1, <2>3, <2>4
          DEF AddRecent, TypeOK, channel, routing, history
<1>23. CASE BeginDrain
  <2>1. delayQueue' \in Seq(Msg) /\ batch' \in Seq(Msg) /\ draining' \in BOOLEAN
    BY <1>23 DEF BeginDrain, TypeOK
  <2> QED BY <1>23, <2>1 DEF BeginDrain, TypeOK, PCs, channel, shared, routing, history
<1>24. CASE DrainNext
  <2>1. batch' \in Seq(Msg)
    <3>1. batch # <<>> /\ (batch' = Tail(batch) \/ batch' = batch)
      BY <1>24 DEF DrainNext
    <3>2. batch \in Seq(Msg)
      BY DEF TypeOK
    <3> QED BY <3>1, <3>2, HeadTail
  <2>2. skipSet' \subseteq Nat /\ pc' \in PCs
    BY <1>24 DEF DrainNext, TypeOK, PCs
  <2> QED BY <1>24, <2>1, <2>2 DEF DrainNext, TypeOK, channel, routing, history
<1>25. CASE DrainDone
  BY <1>25 DEF DrainDone, TypeOK, PCs, channel, shared, routing, queue, history
<1>26. CASE Exit
  BY <1>26 DEF Exit, TypeOK, PCs, channel, shared, routing, queue, history
<1>27. CASE TimePasses
  BY <1>27, AgedType DEF TimePasses, TypeOK, channel, shared, routing, history
<1>28. CASE UNCHANGED vars
  BY <1>28 DEF TypeOK, vars, channel, shared, routing, queue, history
<1> QED
  BY <1>1, <1>2, <1>3, <1>4, <1>5, <1>6, <1>7, <1>8, <1>9, <1>10, <1>11, <1>12,
     <1>13, <1>14, <1>15, <1>16, <1>17, <1>18, <1>19, <1>20, <1>21, <1>22, <1>23,
     <1>24, <1>25, <1>26, <1>27, <1>28
  DEF Steps, Accept, Control, Work, Select

LEMMA StepStanding == TypeOK /\ Standing /\ [Steps]_vars => Standing'
<1> SUFFICES ASSUME TypeOK, Standing, [Steps]_vars PROVE Standing'
  OBVIOUS
<1> USE DEF Standing
<1>1. CASE UNCHANGED <<pc, batch, todo, nextSeq>>
  BY <1>1
<1>2. CASE pc' \notin {"flush", "enqueue", "send", "recent"}
  BY <1>2
<1>3. CASE RouteOutput
  BY <1>3 DEF RouteOutput, queue
<1>4. CASE FlushLine
  BY <1>4 DEF FlushLine, queue, TypeOK
<1>5. CASE Enqueue
  BY <1>5 DEF Enqueue
<1>6. CASE ProcessNext
  BY <1>6 DEF ProcessNext, routing
<1>7. CASE SendChunks
  BY <1>7 DEF SendChunks, queue, routing
<1>8. CASE DrainNext
  BY <1>8 DEF DrainNext, routing
<1>9. CASE TimePasses
  <2>1. UNCHANGED <<pc, todo, nextSeq>> /\ DOMAIN batch' = DOMAIN batch
    BY <1>9, AgedType, BoundsAssumption DEF TimePasses, TypeOK, routing
  <2>2. DOMAIN batch = {} <=> batch = <<>>
    BY DEF TypeOK
  <2>3. DOMAIN batch' = {} <=> batch' = <<>>
    BY <1>9, AgedType, BoundsAssumption DEF TimePasses, TypeOK
  <2> QED BY <2>1, <2>2, <2>3
<1>10. CASE Accept
  <2>1. PICK t \in Translation : Submit(t)
    BY <1>10 DEF Accept
  <2> QED BY <2>1, <1>1 DEF Submit, routing, queue
<1> QED
  BY <1>1, <1>2, <1>3, <1>4, <1>5, <1>6, <1>7, <1>8, <1>9, <1>10
  DEF Steps, Accept, Control, Work, Select, Submit, Cancel, Stop, SetPaused,
      SkipPending, SyncOutputs, StartRun, Receive, LogTranscript, RoutePanics,
      RouteDone, FlushGap, TickerFires, Retain, ProcessDone, SendNowhere, Resume,
      AddRecent, BeginDrain, DrainDone, Exit, vars, routing, queue

LEMMA NextIsStep == [Next]_vars => [Steps]_vars
<1>1. ASSUME NEW s \in Seqs, SubmitSeq(s) PROVE Accept
  <2>1. PICK texts \in SUBSET Outputs :
          Submit([utt |-> s, seq |-> s, texts |-> texts])
    BY <1>1 DEF SubmitSeq
  <2>2. [utt |-> s, seq |-> s, texts |-> texts] \in Translation
    BY DEF Translation, Seqs
  <2> QED BY <2>1, <2>2 DEF Accept
<1> QED BY <1>1 DEF Next, Steps

LEMMA NextType == TypeOK /\ Standing /\ [Next]_vars => TypeOK'
BY StepType, NextIsStep

\* TypeOK holds of every controller.
THEOREM TypeCorrect == Spec => []TypeOK
<1>1. Init => TypeOK /\ Standing
  BY InitType DEF Init, Standing
<1>2. TypeOK /\ Standing /\ [Next]_vars => (TypeOK /\ Standing)'
  BY NextType, StepStanding, NextIsStep
<1> QED BY <1>1, <1>2, PTL DEF Spec

-----------------------------------------------------------------------------
(* The order of the queue.                                                 *)

LEMMA SortedTail ==
  ASSUME NEW s \in Seq(Msg), s # <<>>, Sorted(s)
  PROVE  Sorted(Tail(s)) /\ \A i \in DOMAIN Tail(s) : Before(s[1], Tail(s)[i])
<1>1. /\ DOMAIN Tail(s) = 1 .. Len(s) - 1 /\ DOMAIN s = 1 .. Len(s)
      /\ \A i \in DOMAIN Tail(s) : Tail(s)[i] = s[i + 1]
      /\ Len(s) \in Nat \ {0}
  OBVIOUS
<1>2. \A i \in DOMAIN Tail(s) : /\ i + 1 \in DOMAIN s /\ 1 \in DOMAIN s /\ 1 < i + 1
                               /\ \A j \in DOMAIN Tail(s) : i < j => i + 1 < j + 1
  BY <1>1
<1>3. \A i \in DOMAIN Tail(s) : Before(s[1], Tail(s)[i])
  BY <1>1, <1>2 DEF Sorted
<1>4. ASSUME NEW i \in DOMAIN Tail(s), NEW j \in DOMAIN Tail(s), i < j
      PROVE  Before(Tail(s)[i], Tail(s)[j])
  <2>1. Before(s[i + 1], s[j + 1])
    BY <1>2, <1>4 DEF Sorted
  <2> QED BY <1>1, <2>1
<1> QED BY <1>3, <1>4 DEF Sorted

LEMMA SortedAppend ==
  ASSUME NEW s \in Seq(Msg), NEW e \in Msg, Sorted(s),
         \A i \in DOMAIN s : Before(s[i], e)
  PROVE  Sorted(Append(s, e))
<1>1. /\ DOMAIN Append(s, e) = 1 .. Len(s) + 1 /\ DOMAIN s = 1 .. Len(s)
      /\ \A i \in DOMAIN s : Append(s, e)[i] = s[i]
      /\ Append(s, e)[Len(s) + 1] = e
      /\ Len(s) \in Nat
  OBVIOUS
<1> QED BY <1>1 DEF Sorted

\* Time passing keeps what is before before.
LEMMA AgedBefore ==
  ASSUME NEW s \in Seq(Msg), NEW t \in Seq(Msg), NEW i \in DOMAIN s,
         NEW j \in DOMAIN t, SendDelay \in Nat, Before(s[i], t[j])
  PROVE  Before(Aged(s)[i], Aged(t)[j])
<1>1. s[i] \in Msg /\ t[j] \in Msg
  OBVIOUS
<1>2. \A m \in Msg : m.left \in Int
  BY DEF Msg
<1>3. /\ Aged(s)[i] = [s[i] EXCEPT !.left = IF @ > 0 THEN @ - 1 ELSE 0]
      /\ Aged(t)[j] = [t[j] EXCEPT !.left = IF @ > 0 THEN @ - 1 ELSE 0]
  BY AgedType
<1>4. ASSUME NEW m \in Msg, NEW k \in Int
      PROVE  LET n == [m EXCEPT !.left = k]
             IN  n.id = m.id /\ n.out = m.out /\ n.utt = m.utt /\ n.left = k
  BY DEF Msg
<1> QED BY <1>1, <1>2, <1>3, <1>4 DEF Before

\* The fields that identify a message stay.
LEMMA AgedFields ==
  ASSUME NEW s \in Seq(Msg), NEW i \in DOMAIN s, SendDelay \in Nat
  PROVE  /\ Aged(s)[i].id = s[i].id /\ Aged(s)[i].out = s[i].out
         /\ Aged(s)[i].utt = s[i].utt
<1>1. Aged(s)[i] = [s[i] EXCEPT !.left = IF @ > 0 THEN @ - 1 ELSE 0]
  BY AgedType
<1>2. s[i] \in Msg
  OBVIOUS
<1> QED BY <1>1, <1>2 DEF Msg

LEMMA NextSameNumbers ==
  TypeOK /\ Standing /\ SameNumbers /\ [Next]_vars => SameNumbers'
<1> SUFFICES ASSUME TypeOK, Standing, SameNumbers, [Next]_vars PROVE SameNumbers'
  OBVIOUS
<1> USE DEF SameNumbers
<1>1. CASE UNCHANGED <<ch, cur, nextSeq, buf>>
  BY <1>1
<1>2. ASSUME NEW s \in Seqs, SubmitSeq(s) PROVE SameNumbers'
  <2>1. PICK t \in Translation : Submit(t) /\ t.utt = t.seq
    BY <1>2 DEF SubmitSeq, Seqs, Translation
  <2>2. ch \in Seq(Translation) /\ ch' = Append(ch, t)
    BY <2>1 DEF Submit, TypeOK
  <2>3. \A i \in DOMAIN ch' : ch'[i].utt = ch'[i].seq
    BY <2>1, <2>2
  <2> QED BY <2>1, <2>3 DEF Submit, routing
<1>3. CASE StartRun
  BY <1>3 DEF StartRun, channel
<1>4. CASE Receive
  <2>1. ch \in Seq(Translation) /\ ch # <<>> /\ ch' = Tail(ch) /\ cur' = ch[1]
    BY <1>4 DEF Receive, TypeOK
  <2>2. cur'.utt = cur'.seq /\ \A i \in DOMAIN ch' : ch'[i].utt = ch'[i].seq
    BY <2>1
  <2> QED BY <1>4, <2>2 DEF Receive
<1>5. CASE RouteOutput
  BY <1>5 DEF RouteOutput, Buffered, LineFor, channel, TypeOK
<1>6. CASE RouteDone
  BY <1>6 DEF RouteDone, NoTranslation, channel
<1>7. CASE FlushLine
  BY <1>7 DEF FlushLine, Standing, channel, TypeOK
<1> QED
  BY <1>1, <1>2, <1>3, <1>4, <1>5, <1>6, <1>7
  DEF Next, Control, Work, Select, Cancel, Stop, SetPaused, SkipPending,
      SyncOutputs, LogTranscript, RoutePanics, FlushGap, Enqueue, TickerFires,
      Retain, ProcessNext, ProcessDone, SendNowhere, SendChunks, AddRecent,
      BeginDrain, DrainNext, DrainDone, Exit, TimePasses, vars, routing, channel

LEMMA StepAtHome ==
  TypeOK /\ Standing /\ AtHome /\ [Steps]_vars => AtHome'
<1> SUFFICES ASSUME TypeOK, Standing, AtHome, [Steps]_vars PROVE AtHome'
  OBVIOUS
<1> USE DEF AtHome
<1>1. CASE UNCHANGED <<pc, delayQueue, shown, batch, due, draining>>
  BY <1>1
<1>2. CASE UNCHANGED <<delayQueue, shown, batch, due, draining>>
           /\ {pc, pc'} \cap {"start", "process", "send", "recent", "drain", "done"} = {}
  BY <1>2
<1>3. CASE StartRun
  BY <1>3 DEF StartRun, queue, history
<1>4. CASE Enqueue
  BY <1>4 DEF Enqueue, history
<1>5. CASE TickerFires \/ ProcessDone \/ BeginDrain \/ DrainDone \/ Exit
  BY <1>5 DEF TickerFires, ProcessDone, BeginDrain, DrainDone, Exit, queue, history
<1>6. CASE Retain \/ ProcessNext \/ DrainNext
  BY <1>6 DEF Retain, ProcessNext, DrainNext, history
<1>7. CASE SendNowhere \/ SendChunks \/ AddRecent
  BY <1>7 DEF SendNowhere, SendChunks, AddRecent, Resume, queue, history
<1>8. CASE TimePasses
  <2>1. /\ UNCHANGED <<pc, shown, due, draining>>
        /\ delayQueue' = Aged(delayQueue) /\ batch' = Aged(batch)
        /\ delayQueue \in Seq(Msg) /\ batch \in Seq(Msg)
    BY <1>8 DEF TimePasses, history, TypeOK
  <2>2. /\ delayQueue' \in Seq(Msg) /\ DOMAIN delayQueue' = DOMAIN delayQueue
        /\ batch' \in Seq(Msg) /\ DOMAIN batch' = DOMAIN batch
    BY <2>1, AgedType, BoundsAssumption
  <2>3. /\ delayQueue = <<>> => delayQueue' = <<>>
        /\ batch = <<>> => batch' = <<>>
    BY <2>1, <2>2
  <2>4. CASE batch # <<>>
    <3>1. 1 \in DOMAIN batch /\ Head(batch) = batch[1] /\ Head(batch') = batch'[1]
      BY <2>1, <2>2, <2>4
    <3>2. Head(batch').id = Head(batch).id
      BY <2>1, <3>1, AgedFields, BoundsAssumption
    <3> QED BY <2>1, <2>3, <3>2
  <2>5. CASE batch = <<>>
    BY <2>1, <2>3, <2>5 DEF Standing
  <2> QED BY <2>4, <2>5
<1> QED
  BY <1>1, <1>2, <1>3, <1>4, <1>5, <1>6, <1>7, <1>8
  DEF Steps, Accept, Control, Work, Select, Submit, Cancel, Stop, SetPaused,
      SkipPending, SyncOutputs, Receive, LogTranscript, RouteOutput, RoutePanics,
      RouteDone, FlushGap, FlushLine, vars, queue, history

LEMMA NextPassed ==
  TypeOK /\ Standing /\ AtHome /\ SameNumbers /\ Passed /\ [Next]_vars => Passed'
<1> SUFFICES ASSUME TypeOK, Standing, AtHome, SameNumbers, Passed, [Next]_vars
             PROVE Passed'
  OBVIOUS
<1>0. /\ delayQueue \in Seq(Msg) /\ batch \in Seq(Msg) /\ shown \in Seq(Msg)
      /\ nextMsgID \in Nat
  BY DEF TypeOK
<1> USE DEF Passed, PassedBy
<1>1. CASE UNCHANGED <<delayQueue, batch, shown, nextMsgID, nextSeq, pc, todo, txt>>
  BY <1>1
<1>2. CASE /\ UNCHANGED <<delayQueue, batch, shown, nextMsgID, nextSeq>>
           /\ pc' # "enqueue" /\ pc # "enqueue"
  BY <1>2
<1>3. CASE StartRun
  BY <1>3 DEF StartRun, AtHome, queue, history
<1>4. CASE FlushLine
  <2> DEFINE o == Head(todo)
  <2>1. o \in DOMAIN nextSeq /\ pc = "flush"
    BY <1>4 DEF FlushLine, Standing
  <2>2. PICK e \in Ready(o) :
          /\ nextSeq' = [nextSeq EXCEPT ![o] = e.seq + 1]
          /\ \/ pc' = "enqueue" /\ txt' = e.utt
             \/ UNCHANGED <<pc, txt>>
    BY <1>4 DEF FlushLine
  <2>3. e.seq = nextSeq[o] /\ e.utt = nextSeq[o] /\ nextSeq[o] \in Nat
    BY <2>1, <2>2 DEF Ready, SameNumbers, TypeOK
  <2>4. UNCHANGED <<delayQueue, batch, shown, nextMsgID, todo>>
    BY <1>4 DEF FlushLine, shared, queue, history
  <2>5. /\ DOMAIN nextSeq' = DOMAIN nextSeq
        /\ nextSeq'[o] = nextSeq[o] + 1
        /\ \A x \in DOMAIN nextSeq : x # o => nextSeq'[x] = nextSeq[x]
    BY <2>1, <2>2, <2>3 DEF TypeOK
  <2>6. ASSUME NEW m \in Msg, PassedBy(m)
        PROVE  /\ m.id < nextMsgID' /\ m.out \in DOMAIN nextSeq'
               /\ m.utt < nextSeq'[m.out]
               /\ pc' = "enqueue" /\ m.out = Head(todo') => m.utt < txt'
    <3>1. m.utt \in Nat
      BY DEF Msg
    <3> QED BY <2>1, <2>2, <2>3, <2>4, <2>5, <2>6, <3>1
  <2>7. pc' = "enqueue" => nextSeq'[Head(todo')] = txt' + 1
    BY <2>1, <2>2, <2>3, <2>4, <2>5
  <2> QED BY <1>0, <2>4, <2>6, <2>7
<1>5. CASE Enqueue
  <2> DEFINE new == [id |-> nextMsgID, out |-> Head(todo), utt |-> txt,
                     left |-> SendDelay]
  <2>1. Head(todo) \in DOMAIN nextSeq /\ nextSeq[Head(todo)] = txt + 1 /\ txt \in Nat
    BY <1>5 DEF Enqueue, Standing, TypeOK
  <2>2. /\ delayQueue' = Append(delayQueue, new) /\ nextMsgID' = nextMsgID + 1
        /\ pc' = "flush" /\ UNCHANGED <<batch, shown, nextSeq>>
    BY <1>5 DEF Enqueue, history
  <2>3. new \in Msg
    BY <2>1, <1>0, BoundsAssumption DEF Msg, TypeOK
  <2>4. \A m \in Msg : PassedBy(m) => m.id < nextMsgID'
    BY <1>0, <2>2 DEF Msg
  <2>5. ASSUME NEW i \in DOMAIN delayQueue'
        PROVE  /\ delayQueue'[i].id < nextMsgID'
               /\ delayQueue'[i].out \in DOMAIN nextSeq'
               /\ delayQueue'[i].utt < nextSeq'[delayQueue'[i].out]
    <3>1. CASE i = Len(delayQueue) + 1
      BY <1>0, <2>1, <2>2, <2>3, <3>1
    <3>2. CASE i \in DOMAIN delayQueue
      BY <1>0, <2>2, <2>3, <2>4, <3>2
    <3> QED BY <1>0, <2>2, <2>3, <3>1, <3>2
  <2> QED BY <1>0, <2>2, <2>4, <2>5
<1>6. CASE Retain
  <2>1. /\ delayQueue' = Append(delayQueue, batch[1]) /\ batch' = Tail(batch)
        /\ batch # <<>> /\ pc' = "process"
        /\ UNCHANGED <<shown, nextMsgID, nextSeq>>
    BY <1>0, <1>6 DEF Retain, shared, routing, history
  <2>2. \A i \in DOMAIN batch' : i + 1 \in DOMAIN batch /\ batch'[i] = batch[i + 1]
    BY <1>0, <2>1
  <2>3. \A i \in DOMAIN delayQueue' : \/ delayQueue'[i] = batch[1]
                                      \/ i \in DOMAIN delayQueue
                                         /\ delayQueue'[i] = delayQueue[i]
    BY <1>0, <2>1
  <2>4. 1 \in DOMAIN batch
    BY <1>0, <2>1
  <2> QED BY <2>1, <2>2, <2>3, <2>4
<1>7. CASE /\ batch' = Tail(batch) /\ batch # <<>> /\ pc' # "enqueue"
           /\ UNCHANGED <<delayQueue, shown, nextMsgID, nextSeq>>
  <2>1. \A i \in DOMAIN batch' : i + 1 \in DOMAIN batch /\ batch'[i] = batch[i + 1]
    BY <1>0, <1>7
  <2> QED BY <1>7, <2>1
<1>8. CASE TickerFires \/ BeginDrain
  BY <1>8 DEF TickerFires, BeginDrain, shared, routing, history
<1>9. CASE SendChunks
  <2>1. /\ UNCHANGED <<delayQueue, batch, nextMsgID, nextSeq>> /\ pc' = "recent"
        /\ shown' = shown \/ shown' = Append(shown, batch[1])
        /\ 1 \in DOMAIN batch /\ batch[1] \in Msg
    BY <1>0, <1>9 DEF SendChunks, Standing, shared, routing, queue
  <2>2. \A i \in DOMAIN shown' : \/ shown'[i] = batch[1]
                                 \/ i \in DOMAIN shown /\ shown'[i] = shown[i]
    <3>1. shown \in Seq(Msg)
      BY <1>0
    <3>2. CASE shown' = Append(shown, batch[1])
      <4>1. /\ DOMAIN shown' = DOMAIN shown \cup {Len(shown) + 1}
            /\ shown'[Len(shown) + 1] = batch[1]
            /\ \A i \in DOMAIN shown : shown'[i] = shown[i]
        BY <2>1, <3>1, <3>2, Appended
      <4> QED BY <4>1
    <3>3. CASE shown' = shown
      BY <3>3
    <3> QED BY <2>1, <3>2, <3>3
  <2> QED BY <2>1, <2>2
<1>10. CASE TimePasses
  <2>1. /\ UNCHANGED <<shown, nextMsgID, nextSeq, pc, todo, txt>>
        /\ delayQueue' = Aged(delayQueue) /\ batch' = Aged(batch)
    BY <1>10 DEF TimePasses, shared, routing, history
  <2>2. DOMAIN delayQueue' = DOMAIN delayQueue /\ DOMAIN batch' = DOMAIN batch
    BY <1>0, <2>1, AgedType, BoundsAssumption
  <2>3. \A i \in DOMAIN delayQueue : /\ delayQueue'[i].id = delayQueue[i].id
                                     /\ delayQueue'[i].out = delayQueue[i].out
                                     /\ delayQueue'[i].utt = delayQueue[i].utt
    BY <1>0, <2>1, AgedFields, BoundsAssumption
  <2>4. \A i \in DOMAIN batch : /\ batch'[i].id = batch[i].id
                                /\ batch'[i].out = batch[i].out
                                /\ batch'[i].utt = batch[i].utt
    BY <1>0, <2>1, AgedFields, BoundsAssumption
  <2> QED BY <2>1, <2>2, <2>3, <2>4
<1>11. CASE ProcessNext \/ DrainNext
  BY <1>1, <1>2, <1>7, <1>11 DEF ProcessNext, DrainNext, routing, history
<1>12. CASE SendNowhere \/ AddRecent
  BY <1>7, <1>12
  DEF SendNowhere, AddRecent, Resume, Standing, shared, routing, history
<1> QED
  BY <1>1, <1>2, <1>3, <1>4, <1>5, <1>6, <1>8, <1>9, <1>10, <1>11, <1>12
  DEF Next, Control, Work, Select, SubmitSeq, Submit, Cancel, Stop, SetPaused,
      SkipPending, SyncOutputs, Receive, LogTranscript, RouteOutput, RoutePanics,
      RouteDone, FlushGap, ProcessDone, DrainDone, Exit,
      vars, shared, routing, queue, history

LEMMA StepQueueSorted ==
  /\ TypeOK /\ Standing /\ AtHome /\ NextIsLast /\ QueueSorted /\ RetainedFirst
  /\ [Steps]_vars
  => QueueSorted'
<1> SUFFICES ASSUME TypeOK, Standing, AtHome, NextIsLast, QueueSorted, RetainedFirst,
                    [Steps]_vars
             PROVE QueueSorted'
  OBVIOUS
<1>0. delayQueue \in Seq(Msg) /\ batch \in Seq(Msg)
  BY DEF TypeOK
<1> USE DEF QueueSorted
<1>1. CASE UNCHANGED <<delayQueue, batch>>
  BY <1>1 DEF Sorted
<1>2. CASE Enqueue
  <2> DEFINE new == [id |-> nextMsgID, out |-> Head(todo), utt |-> txt,
                     left |-> SendDelay]
  <2>1. delayQueue' = Append(delayQueue, new) /\ UNCHANGED batch /\ pc = "enqueue"
    BY <1>2 DEF Enqueue
  <2>2. new \in Msg
    BY <2>1, BoundsAssumption DEF Msg, TypeOK, Standing
  <2>3. \A i \in DOMAIN delayQueue : delayQueue[i].left <= SendDelay
    <3>1. \A m \in Msg : m.left <= SendDelay
      BY BoundsAssumption DEF Msg
    <3> QED BY <1>0, <3>1
  <2>4. \A i \in DOMAIN delayQueue : Before(delayQueue[i], new)
    BY <2>1, <2>3 DEF Before, NextIsLast, BeforeNext
  <2> QED BY <1>0, <2>1, <2>2, <2>4, SortedAppend
<1>3. CASE Retain
  <2>1. /\ delayQueue' = Append(delayQueue, batch[1]) /\ batch' = Tail(batch)
        /\ batch # <<>> /\ 1 \in DOMAIN batch /\ batch[1] \in Msg
    BY <1>0, <1>3 DEF Retain
  <2>2. \A i \in DOMAIN delayQueue : Before(delayQueue[i], batch[1])
    BY <2>1 DEF RetainedFirst
  <2> QED BY <1>0, <2>1, <2>2, SortedAppend, SortedTail
<1>4. CASE UNCHANGED delayQueue /\ batch # <<>> /\ batch' = Tail(batch)
  BY <1>0, <1>4, SortedTail DEF Sorted
<1>5. CASE TickerFires \/ BeginDrain
  BY <1>5 DEF TickerFires, BeginDrain, Sorted
<1>6. CASE TimePasses
  <2>1. delayQueue' = Aged(delayQueue) /\ batch' = Aged(batch)
    BY <1>6 DEF TimePasses
  <2>2. ASSUME NEW s \in Seq(Msg), Sorted(s) PROVE Sorted(Aged(s))
    <3>1. DOMAIN Aged(s) = DOMAIN s
      BY AgedType, BoundsAssumption
    <3> QED BY <2>2, <3>1, AgedBefore, BoundsAssumption DEF Sorted
  <2> QED BY <1>0, <2>1, <2>2
<1> QED
  BY <1>1, <1>2, <1>3, <1>4, <1>5, <1>6
  DEF Steps, Accept, Control, Work, Select, Submit, Cancel, Stop, SetPaused,
      SkipPending, SyncOutputs, StartRun, Receive, LogTranscript, RouteOutput,
      RoutePanics, RouteDone, FlushGap, FlushLine, ProcessNext, ProcessDone,
      SendNowhere, SendChunks, AddRecent, DrainNext, DrainDone, Exit,
      Standing, vars, queue

LEMMA StepRetainedFirst ==
  /\ TypeOK /\ Standing /\ AtHome /\ QueueSorted /\ RetainedFirst /\ DuePrefix
  /\ [Steps]_vars
  => RetainedFirst'
<1> SUFFICES ASSUME TypeOK, Standing, AtHome, QueueSorted, RetainedFirst, DuePrefix,
                    [Steps]_vars
             PROVE RetainedFirst'
  OBVIOUS
<1>0. delayQueue \in Seq(Msg) /\ batch \in Seq(Msg)
  BY DEF TypeOK
<1> USE DEF RetainedFirst
<1>1. CASE UNCHANGED <<delayQueue, batch, due>>
  BY <1>1
<1>2. CASE delayQueue' = <<>> \/ batch' = <<>>
  BY <1>2
<1>3. CASE Retain
  <2>1. /\ delayQueue' = Append(delayQueue, batch[1]) /\ batch' = Tail(batch)
        /\ batch # <<>> /\ 1 \in DOMAIN batch /\ batch[1] \in Msg
        /\ batch[1].id \notin due /\ due' = due
    BY <1>0, <1>3 DEF Retain
  <2>2. \A i \in DOMAIN batch' : /\ i + 1 \in DOMAIN batch /\ batch'[i] = batch[i + 1]
                                 /\ 1 < i + 1
    BY <1>0, <2>1
  <2>3. \A i \in DOMAIN delayQueue' : \/ delayQueue'[i] = batch[1]
                                      \/ i \in DOMAIN delayQueue
                                         /\ delayQueue'[i] = delayQueue[i]
    BY <1>0, <2>1
  <2>4. \A i \in DOMAIN batch' : Before(batch[1], batch'[i])
    BY <1>0, <2>1, SortedTail DEF QueueSorted
  <2>5. \A i \in DOMAIN batch' : batch'[i].id \notin due
    BY <2>1, <2>2 DEF DuePrefix
  <2> QED BY <2>1, <2>2, <2>3, <2>4, <2>5
<1>4. CASE UNCHANGED <<delayQueue, due>> /\ batch # <<>> /\ batch' = Tail(batch)
  <2>1. \A i \in DOMAIN batch' : i + 1 \in DOMAIN batch /\ batch'[i] = batch[i + 1]
    BY <1>0, <1>4
  <2> QED BY <1>4, <2>1
<1>5. CASE TimePasses
  <2>1. delayQueue' = Aged(delayQueue) /\ batch' = Aged(batch) /\ due' = due
    BY <1>5 DEF TimePasses
  <2>2. DOMAIN delayQueue' = DOMAIN delayQueue /\ DOMAIN batch' = DOMAIN batch
    BY <1>0, <2>1, AgedType, BoundsAssumption
  <2>3. \A i \in DOMAIN batch : batch'[i].id = batch[i].id
    BY <1>0, <2>1, AgedFields, BoundsAssumption
  <2> QED BY <1>0, <2>1, <2>2, <2>3, AgedBefore, BoundsAssumption
<1>6. CASE Enqueue
  BY <1>2, <1>6 DEF Enqueue, AtHome
<1> QED
  BY <1>1, <1>2, <1>3, <1>4, <1>5, <1>6
  DEF Steps, Accept, Control, Work, Select, Submit, Cancel, Stop, SetPaused,
      SkipPending, SyncOutputs, StartRun, Receive, LogTranscript, RouteOutput,
      RoutePanics, RouteDone, FlushGap, FlushLine, TickerFires, ProcessNext,
      ProcessDone, SendNowhere, SendChunks, AddRecent, BeginDrain, DrainNext,
      DrainDone, Exit, Standing, vars, queue

LEMMA StepDuePrefix ==
  /\ TypeOK /\ Standing /\ AtHome /\ QueueSorted /\ DuePrefix /\ [Steps]_vars
  => DuePrefix'
<1> SUFFICES ASSUME TypeOK, Standing, AtHome, QueueSorted, DuePrefix, [Steps]_vars
             PROVE DuePrefix'
  OBVIOUS
<1>0. delayQueue \in Seq(Msg) /\ batch \in Seq(Msg)
  BY DEF TypeOK
<1> USE DEF DuePrefix
<1>1. CASE UNCHANGED <<batch, due>>
  BY <1>1
<1>2. CASE batch' = <<>> \/ due' = {}
  BY <1>2
<1>3. CASE UNCHANGED due /\ batch # <<>> /\ batch' = Tail(batch)
  <2>1. \A i \in DOMAIN batch' :
          i \in Nat /\ i + 1 \in DOMAIN batch /\ batch'[i] = batch[i + 1]
    BY <1>0, <1>3
  <2>2. \A i, j \in DOMAIN batch' : i < j => i + 1 < j + 1
    BY <2>1
  <2> QED BY <1>3, <2>1, <2>2
<1>4. CASE TickerFires
  <2>1. /\ batch' = delayQueue
        /\ due' = {m.id : m \in {x \in ToSet(delayQueue) : x.left = 0}}
    BY <1>4 DEF TickerFires, Expired
  <2>2. SUFFICES ASSUME NEW i \in DOMAIN delayQueue, NEW j \in DOMAIN delayQueue,
                        i < j, delayQueue[j].id \in due'
                 PROVE  delayQueue[i].id \in due'
    BY <2>1
  <2>3. PICK k \in DOMAIN delayQueue : /\ delayQueue[k].left = 0
                                       /\ delayQueue[k].id = delayQueue[j].id
    BY <2>1, <2>2 DEF ToSet
  <2>4. \A m \in Msg : m.id \in Int /\ m.left \in Int /\ m.left >= 0
    BY BoundsAssumption DEF Msg
  <2>5. k = j
    BY <1>0, <2>3, <2>4 DEF QueueSorted, Sorted, Before
  <2>6. delayQueue[i].left = 0
    BY <1>0, <2>2, <2>3, <2>4, <2>5 DEF QueueSorted, Sorted, Before
  <2> QED BY <2>1, <2>6 DEF ToSet
<1>5. CASE BeginDrain
  BY <1>2, <1>5 DEF BeginDrain, AtHome
<1>6. CASE TimePasses
  <2>1. batch' = Aged(batch) /\ due' = due
    BY <1>6 DEF TimePasses
  <2>2. DOMAIN batch' = DOMAIN batch
    BY <1>0, <2>1, AgedType, BoundsAssumption
  <2>3. \A i \in DOMAIN batch : batch'[i].id = batch[i].id
    BY <1>0, <2>1, AgedFields, BoundsAssumption
  <2> QED BY <2>1, <2>2, <2>3
<1> QED
  BY <1>1, <1>2, <1>3, <1>4, <1>5, <1>6
  DEF Steps, Accept, Control, Work, Select, Submit, Cancel, Stop, SetPaused,
      SkipPending, SyncOutputs, StartRun, Receive, LogTranscript, RouteOutput,
      RoutePanics, RouteDone, FlushGap, FlushLine, Enqueue, Retain, ProcessNext,
      ProcessDone, SendNowhere, SendChunks, AddRecent, DrainNext,
      DrainDone, Exit, Standing, vars, queue

\* Nothing that may still be shown was retained when a message is being sent.
LEMMA NothingRetained ==
  ASSUME TypeOK, Standing, AtHome, RetainedFirst, pc \in {"send", "recent"}
  PROVE  delayQueue = <<>> /\ batch # <<>> /\ 1 \in DOMAIN batch
<1>1. batch # <<>> /\ 1 \in DOMAIN batch /\ Head(batch) = batch[1]
  BY DEF Standing, TypeOK
<1>2. CASE draining
  BY <1>1, <1>2 DEF AtHome
<1>3. CASE ~draining
  <2>1. DOMAIN delayQueue = {}
    BY <1>1, <1>3 DEF AtHome, RetainedFirst
  <2> QED BY <1>1, <2>1 DEF TypeOK
<1> QED BY <1>2, <1>3 DEF TypeOK

LEMMA StepShownFirst ==
  /\ TypeOK /\ Standing /\ AtHome /\ NextIsLast /\ QueueSorted /\ RetainedFirst
  /\ ShownFirst /\ [Steps]_vars
  => ShownFirst'
<1> SUFFICES ASSUME TypeOK, Standing, AtHome, NextIsLast, QueueSorted, RetainedFirst,
                    ShownFirst, [Steps]_vars
             PROVE ShownFirst'
  OBVIOUS
<1>0. /\ delayQueue \in Seq(Msg) /\ batch \in Seq(Msg) /\ shown \in Seq(Msg)
  BY DEF TypeOK
<1> USE DEF ShownFirst, Precedes
<1>1. CASE UNCHANGED <<delayQueue, batch, shown, pc>>
  BY <1>1
<1>2. CASE UNCHANGED <<delayQueue, batch, shown>> /\ pc # "recent" /\ pc' # "recent"
  BY <1>2
<1>3. CASE Enqueue
  <2> DEFINE new == [id |-> nextMsgID, out |-> Head(todo), utt |-> txt,
                     left |-> SendDelay]
  <2>1. /\ delayQueue' = Append(delayQueue, new) /\ UNCHANGED <<batch, shown>>
        /\ pc = "enqueue" /\ pc' = "flush"
    BY <1>3 DEF Enqueue, history
  <2>2. new \in Msg
    BY <2>1, BoundsAssumption DEF Msg, TypeOK, Standing
  <2>3. \A i \in DOMAIN delayQueue' : \/ delayQueue'[i] = new
                                      \/ i \in DOMAIN delayQueue
                                         /\ delayQueue'[i] = delayQueue[i]
    BY <1>0, <2>1, <2>2
  <2>4. \A i \in DOMAIN shown : shown[i].out = new.out => shown[i].utt < new.utt
    BY <2>1 DEF NextIsLast, BeforeNext
  <2> QED BY <2>1, <2>3, <2>4
<1>4. CASE Retain
  <2>1. /\ delayQueue' = Append(delayQueue, batch[1]) /\ batch' = Tail(batch)
        /\ batch # <<>> /\ 1 \in DOMAIN batch /\ batch[1] \in Msg
        /\ pc = "process" /\ pc' = "process" /\ UNCHANGED shown
    BY <1>0, <1>4 DEF Retain, history
  <2>2. \A i \in DOMAIN batch' : i + 1 \in DOMAIN batch /\ batch'[i] = batch[i + 1]
    BY <1>0, <2>1
  <2>3. \A i \in DOMAIN delayQueue' : \/ delayQueue'[i] = batch[1]
                                      \/ i \in DOMAIN delayQueue
                                         /\ delayQueue'[i] = delayQueue[i]
    BY <1>0, <2>1
  <2> QED BY <2>1, <2>2, <2>3
<1>5. CASE /\ UNCHANGED <<delayQueue, shown>> /\ pc' # "recent"
           /\ batch # <<>> /\ batch' = Tail(batch)
  <2>1. \A i \in DOMAIN batch' :
          i + 1 \in DOMAIN batch /\ i + 1 > 1 /\ batch'[i] = batch[i + 1]
    BY <1>0, <1>5
  <2> QED BY <1>5, <2>1
<1>6. CASE TickerFires \/ BeginDrain
  BY <1>6 DEF TickerFires, BeginDrain, history
<1>7. CASE SendChunks
  <2>1. /\ delayQueue = <<>> /\ 1 \in DOMAIN batch /\ batch[1] \in Msg
    BY <1>0, <1>7, NothingRetained DEF SendChunks
  <2>2. /\ UNCHANGED <<delayQueue, batch>> /\ pc = "send" /\ pc' = "recent"
        /\ shown' = shown \/ shown' = Append(shown, batch[1])
    BY <1>0, <1>7, <2>1 DEF SendChunks, queue
  <2>3. \A i \in DOMAIN shown' : \/ shown'[i] = batch[1]
                                 \/ i \in DOMAIN shown /\ shown'[i] = shown[i]
    BY <1>0, <2>1, <2>2
  <2>4. \A j \in DOMAIN batch :
          j > 1 /\ batch[1].out = batch[j].out => batch[1].utt < batch[j].utt
    BY <1>0, <2>1 DEF QueueSorted, Sorted, Before
  <2> QED BY <2>1, <2>2, <2>3, <2>4
<1>8. CASE TimePasses
  <2>1. /\ UNCHANGED <<shown, pc>>
        /\ delayQueue' = Aged(delayQueue) /\ batch' = Aged(batch)
    BY <1>8 DEF TimePasses, history
  <2>2. DOMAIN delayQueue' = DOMAIN delayQueue /\ DOMAIN batch' = DOMAIN batch
    BY <1>0, <2>1, AgedType, BoundsAssumption
  <2>3. \A i \in DOMAIN delayQueue : /\ delayQueue'[i].out = delayQueue[i].out
                                     /\ delayQueue'[i].utt = delayQueue[i].utt
    BY <1>0, <2>1, AgedFields, BoundsAssumption
  <2>4. \A i \in DOMAIN batch : /\ batch'[i].out = batch[i].out
                                /\ batch'[i].utt = batch[i].utt
    BY <1>0, <2>1, AgedFields, BoundsAssumption
  <2> QED BY <2>1, <2>2, <2>3, <2>4
<1>9. CASE SendNowhere \/ AddRecent
  BY <1>5, <1>9 DEF SendNowhere, AddRecent, Resume, Standing, history
<1>10. CASE ProcessNext \/ DrainNext
  BY <1>2, <1>5, <1>10 DEF ProcessNext, DrainNext, history
<1> QED
  BY <1>1, <1>2, <1>3, <1>4, <1>6, <1>7, <1>8, <1>9, <1>10
  DEF Steps, Accept, Control, Work, Select, Submit, Cancel, Stop, SetPaused,
      SkipPending, SyncOutputs, StartRun, Receive, LogTranscript, RouteOutput,
      RoutePanics, RouteDone, FlushGap, FlushLine, ProcessDone, DrainDone, Exit,
      vars, queue, history

LEMMA StepOrdered ==
  /\ TypeOK /\ Standing /\ ShownFirst /\ OrderedDelivery /\ [Steps]_vars
  => OrderedDelivery'
<1> SUFFICES ASSUME TypeOK, Standing, ShownFirst, OrderedDelivery, [Steps]_vars
             PROVE OrderedDelivery'
  OBVIOUS
<1>1. CASE UNCHANGED shown
  BY <1>1 DEF OrderedDelivery
<1>2. CASE SendChunks /\ shown' # shown
  <2>1. /\ shown' = Append(shown, batch[1]) /\ pc = "send"
        /\ 1 \in DOMAIN batch /\ batch[1] \in Msg /\ shown \in Seq(Msg)
    BY <1>2 DEF SendChunks, Standing, TypeOK
  <2>2. \A i \in DOMAIN shown :
          shown[i].out = batch[1].out => shown[i].utt < batch[1].utt
    BY <2>1 DEF ShownFirst, Precedes
  <2>3. /\ DOMAIN shown' = 1 .. Len(shown) + 1 /\ DOMAIN shown = 1 .. Len(shown)
        /\ \A i \in DOMAIN shown : shown'[i] = shown[i]
        /\ shown'[Len(shown) + 1] = batch[1]
        /\ Len(shown) \in Nat
    BY <2>1
  <2> QED BY <2>2, <2>3 DEF OrderedDelivery
<1> QED
  BY <1>1, <1>2
  DEF Steps, Accept, Control, Work, Select, Submit, Cancel, Stop, SetPaused,
      SkipPending, SyncOutputs, StartRun, Receive, LogTranscript, RouteOutput,
      RoutePanics, RouteDone, FlushGap, FlushLine, Enqueue, TickerFires, Retain,
      ProcessNext, ProcessDone, SendNowhere, AddRecent, BeginDrain, DrainNext,
      DrainDone, Exit, TimePasses, vars, history

LEMMA InitOrder == Init => OrderInv
BY DEF Init, OrderInv, Standing, AtHome, SameNumbers, Passed, QueueSorted, Sorted,
       RetainedFirst, DuePrefix, ShownFirst, OrderedDelivery, NoTranslation

LEMMA StepQueue ==
  TypeOK /\ QueueInv /\ NextIsLast' /\ [Steps]_vars => TypeOK' /\ QueueInv'
BY StepType, StepStanding, StepAtHome, StepQueueSorted, StepRetainedFirst,
   StepDuePrefix, StepShownFirst, StepOrdered
DEF QueueInv

LEMMA OrderIsQueue == OrderInv => QueueInv
BY DEF OrderInv, QueueInv, Passed, PassedBy, NextIsLast, BeforeNext

LEMMA NextOrder == TypeOK /\ OrderInv /\ [Next]_vars => OrderInv'
<1> SUFFICES ASSUME TypeOK, OrderInv, [Next]_vars PROVE OrderInv'
  OBVIOUS
<1>1. SameNumbers' /\ Passed'
  BY NextSameNumbers, NextPassed DEF OrderInv
<1>2. NextIsLast'
  BY <1>1 DEF Passed, PassedBy, NextIsLast, BeforeNext
<1>3. QueueInv'
  BY <1>2, OrderIsQueue, StepQueue, NextIsStep
<1> QED BY <1>1, <1>3 DEF OrderInv, QueueInv

\* Every output's viewers see utterances in the order they were said.
THEOREM OrderCorrect == Spec => []OrderedDelivery
<1>1. Init => TypeOK /\ OrderInv
  BY InitType, InitOrder
<1>2. TypeOK /\ OrderInv /\ [Next]_vars => (TypeOK /\ OrderInv)'
  BY NextType, NextOrder DEF OrderInv
<1>3. TypeOK /\ OrderInv => OrderedDelivery
  BY DEF OrderInv
<1> QED BY <1>1, <1>2, <1>3, PTL DEF Spec
=============================================================================
