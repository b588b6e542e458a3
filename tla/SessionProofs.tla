---------------------------- MODULE SessionProofs ---------------------------
(***************************************************************************)
(* What holds of every session, however many outputs, workers and slots it *)
(* has and however often its pipeline restarts, and of the audio that a    *)
(* pipeline recognises, however many streams it takes.                     *)
(***************************************************************************)
EXTENDS SessionInvariant, ControllerReviewProofs, SpeechStream, SequenceTheorems

-----------------------------------------------------------------------------
(* The controller of a session takes the controller's steps.               *)

LEMMA SessionIsStep == SessionType /\ [SessionNext]_allVars => [Steps]_vars
<1> SUFFICES ASSUME SessionType, [SessionNext]_allVars PROVE [Steps]_vars
  OBVIOUS
<1>1. ASSUME NEW r \in workers, WorkerSubmits(r) PROVE Accept
  <2>1. PICK texts \in SUBSET Outputs :
          Submit([utt |-> r.utt, seq |-> r.seq, texts |-> texts])
    BY <1>1 DEF WorkerSubmits
  <2>2. r \in Result
    BY DEF SessionType
  <2>3. [utt |-> r.utt, seq |-> r.seq, texts |-> texts] \in Translation
    BY <2>2 DEF Translation, Result
  <2> QED BY <2>1, <2>3 DEF Accept
<1>2. CASE ControllerStep
  BY <1>2 DEF ControllerStep, Steps, Control
<1>3. CASE StopController
  BY <1>3 DEF StopController, Steps
<1>4. CASE UNCHANGED vars
  BY <1>4
<1> QED
  BY <1>1, <1>2, <1>3, <1>4
  DEF SessionNext, Agent, Boot, GiveUp, Retry, Dispatch, Acquire, PipelineEnds,
      PipelineReturns, StopReturns, Speak, SttReconnects, SttEnds, Steps, allVars

LEMMA InitSession == SessionInit => TypeOK /\ SessionType /\ Standing /\ AgentInv
<1> SUFFICES ASSUME SessionInit PROVE TypeOK /\ SessionType /\ Standing /\ AgentInv
  OBVIOUS
<1>1. TypeOK /\ Standing
  BY InitType DEF SessionInit, Init, Standing
<1>2. SessionType
  BY DEF SessionInit, SessionType, APCs
<1>3. AgentInv
  BY DEF SessionInit, Init, AgentInv, AgentAt, FixedOutputs
<1> QED BY <1>1, <1>2, <1>3

LEMMA NextSessionType ==
  SessionType /\ [SessionNext]_allVars => SessionType'
<1> SUFFICES ASSUME SessionType, [SessionNext]_allVars PROVE SessionType'
  OBVIOUS
<1> USE DEF SessionType, APCs
<1>1. CASE UNCHANGED agent
  BY <1>1 DEF agent
<1>2. CASE Boot \/ GiveUp \/ Retry \/ PipelineEnds \/ PipelineReturns
           \/ StopController \/ StopReturns
  BY <1>2 DEF Boot, GiveUp, Retry, PipelineEnds, PipelineReturns, StopController,
              StopReturns
<1>3. CASE SttReconnects \/ SttEnds
  BY <1>3 DEF SttReconnects, SttEnds
<1>4. CASE Dispatch
  <2>1. Head(results) \in Nat /\ results' \in Seq(Nat)
    BY <1>4 DEF Dispatch
  <2>2. [utt |-> Head(results), seq |-> seq] \in Result
    BY <2>1 DEF Result
  <2>3. <<[utt |-> Head(results), seq |-> seq]>> \in Seq(Result)
    BY <2>2
  <2>4. held' \in Seq(Result) /\ seq' \in Nat /\ apc' \in APCs
    <3>1. CASE IsAnyPaused
      BY <1>4, <3>1 DEF Dispatch
    <3>2. CASE ~IsAnyPaused
      <4>1. /\ held' = <<[utt |-> Head(results), seq |-> seq]>>
            /\ seq' = seq + 1 /\ apc' = "acquire"
        BY <1>4, <3>2 DEF Dispatch
      <4> QED BY <2>3, <4>1
    <3> QED BY <3>1, <3>2
  <2> QED BY <1>4, <2>1, <2>4 DEF Dispatch
<1>5. CASE Acquire
  <2>1. ToSet(held) \subseteq Result
    BY ToSetType
  <2> QED BY <1>5, <2>1 DEF Acquire
<1>6. CASE Speak
  <2>1. /\ UNCHANGED <<apc, stt, seq, held, workers>> /\ spoken' = spoken + 1
        /\ results' = results \/ results' = Append(results, spoken)
    BY <1>6 DEF Speak
  <2>2. results \in Seq(Nat) /\ spoken \in Nat
    OBVIOUS
  <2>3. results' \in Seq(Nat) /\ spoken' \in Nat
    BY <2>1, <2>2, Appended
  <2> QED BY <2>1, <2>3
<1>7. ASSUME NEW r \in workers, WorkerSubmits(r) PROVE SessionType'
  BY <1>7 DEF WorkerSubmits
<1> QED
  BY <1>1, <1>2, <1>3, <1>4, <1>5, <1>6, <1>7
  DEF SessionNext, Agent, ControllerStep, allVars

\* The channel is closed by Stop and never opened again.
LEMMA ClosedByStop ==
  ASSUME [SessionNext]_allVars, closed' # closed
  PROVE  StopController
<1>1. \A t : Submit(t) => closed' = closed
  BY DEF Submit
<1>2. \A r : WorkerSubmits(r) => closed' = closed
  BY <1>1 DEF WorkerSubmits
<1>3. ControllerStep => closed' = closed
  BY DEF ControllerStep, Work, Select, Cancel, SetPaused, SkipPending, StartRun,
         Receive, LogTranscript, RouteOutput, RoutePanics, RouteDone, FlushGap,
         FlushLine, Enqueue, TickerFires, Retain, ProcessNext, ProcessDone, SendNowhere,
         SendChunks, AddRecent, BeginDrain, DrainNext, DrainDone, Exit, TimePasses,
         channel
<1> QED
  BY <1>2, <1>3
  DEF SessionNext, Agent, Boot, GiveUp, Retry, Dispatch, Acquire, PipelineEnds,
      PipelineReturns, StopReturns, Speak, SttReconnects, SttEnds, allVars, vars,
      channel

LEMMA NextAgentAt ==
  SessionType /\ AgentAt /\ [SessionNext]_allVars => AgentAt'
<1> SUFFICES ASSUME SessionType, AgentAt, [SessionNext]_allVars PROVE AgentAt'
  OBVIOUS
<1> USE DEF AgentAt
<1>1. CASE StopController
  BY <1>1 DEF StopController
<1>2. CASE closed' = closed
  <2>1. CASE UNCHANGED agent
    BY <1>2, <2>1 DEF agent
  <2>2. CASE Boot \/ GiveUp \/ Retry \/ PipelineEnds \/ PipelineReturns
    BY <1>2, <2>2 DEF Boot, GiveUp, Retry, PipelineEnds, PipelineReturns,
                      ResultsClosed, WorkersDone
  <2>3. CASE Dispatch \/ Acquire \/ StopReturns
    BY <1>2, <2>3 DEF Dispatch, Acquire, StopReturns
  <2>4. CASE Speak \/ SttReconnects \/ SttEnds
    BY <1>2, <2>4 DEF Speak, SttReconnects, SttEnds
  <2>5. ASSUME NEW r \in workers, WorkerSubmits(r) PROVE AgentAt'
    BY <1>2, <2>5 DEF WorkerSubmits
  <2> QED
    BY <1>1, <2>1, <2>2, <2>3, <2>4, <2>5
    DEF SessionNext, Agent, ControllerStep, allVars
<1> QED BY <1>1, <1>2, ClosedByStop

LEMMA NextFixedOutputs ==
  TypeOK /\ Standing /\ FixedOutputs /\ [SessionNext]_allVars => FixedOutputs'
<1> SUFFICES ASSUME TypeOK, Standing, FixedOutputs, [SessionNext]_allVars
             PROVE  FixedOutputs'
  OBVIOUS
<1> USE DEF FixedOutputs
<1>1. CASE UNCHANGED <<outputs, pc, nextSeq, todo>>
  BY <1>1
<1>2. CASE UNCHANGED <<outputs, nextSeq>> /\ pc # "start"
           /\ pc' \notin {"start", "panic", "route", "flush", "enqueue"}
  BY <1>2
<1>3. CASE StartRun
  BY <1>3 DEF StartRun, shared
<1>4. CASE LogTranscript
  BY <1>4 DEF LogTranscript, shared
<1>5. CASE RouteOutput
  BY <1>5 DEF RouteOutput, shared
<1>6. CASE RoutePanics
  <2>1. todo \in Seq(Outputs) /\ todo # <<>>
    BY <1>6 DEF RoutePanics, TypeOK
  <2>2. Head(todo) \in ToSet(todo)
    BY <2>1 DEF ToSet
  <2> QED BY <1>6, <2>2 DEF RoutePanics
<1>7. CASE FlushGap
  <2>1. todo \in Seq(Outputs) /\ todo # <<>>
    BY <1>7 DEF FlushGap, TypeOK, Standing
  <2>2. ToSet(Tail(todo)) \subseteq ToSet(todo)
    <3>1. \A i \in DOMAIN Tail(todo) : i + 1 \in DOMAIN todo /\ Tail(todo)[i] = todo[i + 1]
      BY <2>1
    <3> QED BY <3>1 DEF ToSet
  <2> QED BY <1>7, <2>2 DEF FlushGap, shared
<1>8. CASE FlushLine
  BY <1>8 DEF FlushLine, shared, TypeOK
<1>9. CASE Enqueue
  BY <1>9 DEF Enqueue
<1>10. ASSUME NEW r \in workers, WorkerSubmits(r) PROVE FixedOutputs'
  <2>1. PICK t : Submit(t)
    BY <1>10 DEF WorkerSubmits
  <2> QED BY <1>1, <2>1 DEF Submit, shared, routing
<1>11. CASE UNCHANGED vars
  BY <1>1, <1>11 DEF vars, shared, routing
<1>12. CASE StopController
  BY <1>1, <1>12 DEF StopController, Stop, shared, routing
<1>13. CASE ControllerStep
  <2>1. CASE Cancel \/ (\E o \in Outputs, p \in BOOLEAN : SetPaused(o, p))
             \/ (\E id \in Skippable : SkipPending(id)) \/ TimePasses \/ Retain
    BY <1>1, <2>1 DEF Cancel, SetPaused, SkipPending, TimePasses, Retain, shared, routing
  <2>2. CASE Select
    BY <1>2, <2>2 DEF Select, Receive, TickerFires, BeginDrain, Exit, shared, routing
  <2>3. CASE RouteDone \/ ProcessNext \/ ProcessDone \/ SendNowhere \/ SendChunks
             \/ AddRecent \/ DrainNext \/ DrainDone
    BY <1>1, <1>2, <2>3
    DEF RouteDone, ProcessNext, ProcessDone, SendNowhere, SendChunks, AddRecent,
        DrainNext, DrainDone, Resume, shared, routing
  <2> QED
    BY <1>3, <1>4, <1>5, <1>6, <1>7, <1>8, <1>9, <1>13, <2>1, <2>2, <2>3
    DEF ControllerStep, Work
<1> QED
  BY <1>10, <1>11, <1>12, <1>13
  DEF SessionNext, Agent, Boot, GiveUp, Retry, Dispatch, Acquire, PipelineEnds,
      PipelineReturns, StopReturns, Speak, SttReconnects, SttEnds, allVars

Settled == TypeOK /\ SessionType /\ Standing /\ AgentInv

LEMMA NextSettled == Settled /\ [SessionNext]_allVars => Settled'
BY SessionIsStep, StepType, StepStanding, NextSessionType, NextAgentAt,
   NextFixedOutputs
DEF Settled, AgentInv

\* When Stop closes c.ch nobody is left who could send on it, and nobody comes:
\* the agent waits for its workers in every run and on every way out.
THEOREM ClosedCorrect == SessionSpec => []NoSendOnClosed
<1>1. SessionInit => Settled
  BY InitSession DEF Settled
<1>2. Settled => NoSendOnClosed
  BY DEF Settled, AgentInv, AgentAt, NoSendOnClosed
<1> QED BY <1>1, <1>2, NextSettled, PTL DEF SessionSpec

\* Without edits of the outputs the run goroutine never panics, in any run.
THEOREM SessionNoPanic == SessionSpec => []NoPanic
<1>1. SessionInit => Settled
  BY InitSession DEF Settled
<1>2. Settled => NoPanic
  BY DEF Settled, AgentInv, FixedOutputs, NoPanic
<1> QED BY <1>1, <1>2, NextSettled, PTL DEF SessionSpec

-----------------------------------------------------------------------------
(* How the steps change what a sender has still to do with.                *)

LEMMA KnownType ==
  ASSUME Settled, NEW o
  PROVE  /\ Known(o) \subseteq Result /\ Stored(o) \subseteq Result
         /\ Coming(o) \subseteq Result /\ Awaited(o) \in Nat
<1>1. \A t \in Translation : NumberOf(t) \in Result
  BY DEF NumberOf, Translation, Result
<1>2. \A e \in Line : NumberOf(e) \in Result
  BY DEF NumberOf, Line, Result
<1>3. Routing(o) \subseteq Result
  BY <1>1 DEF Routing, Settled, TypeOK
<1>4. Sent \subseteq Result
  BY <1>1 DEF Sent, Settled, TypeOK
<1>5. Translating \subseteq Result
  BY ToSetType DEF Translating, Settled, SessionType
<1>6. Stored(o) \subseteq Result /\ Awaited(o) \in Nat
  BY <1>2 DEF Stored, Awaited, Settled, TypeOK
<1> QED BY <1>3, <1>4, <1>5, <1>6 DEF Known, Coming

\* Nothing of that changes.
AgentSame == UNCHANGED <<results, spoken, seq>> /\ Translating' = Translating

SameView ==
  /\ \A o \in Served : /\ Stored(o)' = Stored(o) /\ Routing(o)' = Routing(o)
                       /\ Awaited(o)' = Awaited(o)
  /\ ch' = ch /\ AgentSame
  /\ pc' \in RoutingPCs => pc \in RoutingPCs /\ cur' = cur

\* The steps of the controller that only shift what is routed, or less
LEMMA ControllerView ==
  ASSUME Settled, UNCHANGED agent,
         \/ Cancel \/ (\E o \in Outputs, p \in BOOLEAN : SetPaused(o, p))
         \/ (\E id \in Skippable : SkipPending(id)) \/ TimePasses
         \/ TickerFires \/ BeginDrain \/ Exit
         \/ StartRun \/ LogTranscript \/ RoutePanics \/ RouteDone \/ FlushGap
         \/ Enqueue \/ Retain \/ ProcessNext \/ ProcessDone
         \/ SendNowhere \/ SendChunks \/ AddRecent \/ DrainNext \/ DrainDone
  PROVE  SameView
<1> USE DEF SameView, RoutingPCs
<1>1. AgentSame
  BY DEF agent, AgentSame, Translating
<1>2. CASE UNCHANGED <<ch, cur, pc, todo, nextSeq, buf>>
  BY <1>1, <1>2 DEF Stored, Routing, Unrouted, Awaited
<1>3. CASE /\ UNCHANGED <<ch, cur, todo, nextSeq, buf>>
           /\ pc \notin RoutingPCs /\ pc' \notin RoutingPCs
  BY <1>1, <1>3 DEF Stored, Routing, Unrouted, Awaited
<1>4. CASE StartRun
  <2>1. ASSUME NEW o \in Served
        PROVE  Stored(o)' = Stored(o) /\ Awaited(o)' = Awaited(o)
    <3>1. /\ DOMAIN nextSeq = {} /\ o \in DOMAIN nextSeq'
          /\ nextSeq'[o] = 0 /\ buf'[o] = {}
      BY <1>4 DEF StartRun, Settled, AgentInv, FixedOutputs, Served
    <3>2. {NumberOf(e) : e \in {}} = {}
      OBVIOUS
    <3> QED BY <3>1, <3>2 DEF Stored, Awaited
  <2>2. ASSUME NEW o \in Served PROVE Routing(o)' = Routing(o)
    BY <1>4 DEF StartRun, Routing, Unrouted
  <2> QED BY <1>1, <1>4, <2>1, <2>2 DEF StartRun, channel
<1>5. CASE LogTranscript
  <2>1. /\ UNCHANGED <<ch, cur, nextSeq, buf>> /\ pc = "log" /\ pc' = "route"
        /\ ToSet(todo') = Served
    BY <1>5 DEF LogTranscript, channel, Settled, AgentInv, FixedOutputs, Served
  <2>2. ASSUME NEW o \in Served PROVE Routing(o)' = Routing(o)
    BY <2>1 DEF Routing, Unrouted
  <2> QED BY <1>1, <2>1, <2>2 DEF Stored, Awaited
<1>6. CASE RoutePanics
  <2>1. todo \in Seq(Outputs) /\ todo # <<>>
    BY <1>6 DEF RoutePanics, Settled, TypeOK
  <2>2. Head(todo) \in ToSet(todo)
    BY <2>1 DEF ToSet
  <2> QED BY <1>6, <2>2 DEF RoutePanics, Settled, AgentInv, FixedOutputs
<1>7. CASE RouteDone
  <2>1. /\ UNCHANGED <<ch, todo, nextSeq, buf>> /\ pc = "route" /\ pc' = "select"
        /\ todo = <<>>
    BY <1>7 DEF RouteDone, channel
  <2>2. ToSet(todo) = {}
    BY <2>1 DEF ToSet
  <2>3. ASSUME NEW o \in Served PROVE Routing(o)' = Routing(o)
    BY <2>1, <2>2 DEF Routing, Unrouted
  <2> QED BY <1>1, <2>1, <2>3 DEF Stored, Awaited
<1>8. CASE FlushGap
  <2>1. /\ UNCHANGED <<ch, cur, nextSeq, buf>> /\ pc = "flush" /\ pc' = "route"
        /\ todo' = Tail(todo)
    BY <1>8 DEF FlushGap, channel
  <2>2. ASSUME NEW o \in Served PROVE Routing(o)' = Routing(o)
    BY <2>1 DEF Routing, Unrouted
  <2> QED BY <1>1, <2>1, <2>2 DEF Stored, Awaited
<1>9. CASE Enqueue
  <2>1. /\ UNCHANGED <<ch, cur, todo, nextSeq, buf>> /\ pc = "enqueue" /\ pc' = "flush"
    BY <1>9 DEF Enqueue, channel
  <2>2. ASSUME NEW o \in Served PROVE Routing(o)' = Routing(o)
    BY <2>1 DEF Routing, Unrouted
  <2> QED BY <1>1, <2>1, <2>2 DEF Stored, Awaited
<1>10. CASE Cancel \/ (\E o \in Outputs, p \in BOOLEAN : SetPaused(o, p))
            \/ (\E id \in Skippable : SkipPending(id)) \/ TimePasses \/ Retain
  BY <1>2, <1>10 DEF Cancel, SetPaused, SkipPending, TimePasses, Retain, routing, channel
<1>11. CASE TickerFires \/ BeginDrain \/ Exit
  BY <1>3, <1>11 DEF TickerFires, BeginDrain, Exit, routing, channel
<1>12. CASE ProcessNext \/ ProcessDone \/ SendNowhere \/ SendChunks \/ AddRecent
            \/ DrainNext \/ DrainDone
  BY <1>3, <1>12 DEF ProcessNext, ProcessDone, SendNowhere, SendChunks, AddRecent,
     DrainNext, DrainDone, Resume, routing, channel
<1> QED BY <1>4, <1>5, <1>6, <1>7, <1>8, <1>9, <1>10, <1>11, <1>12

\* The steps of the agent and of the speech goroutine that move no result
LEMMA AgentView ==
  ASSUME Settled,
         \/ GiveUp \/ Retry \/ PipelineEnds \/ PipelineReturns \/ StopController
         \/ StopReturns \/ SttReconnects \/ SttEnds \/ Acquire
         \/ UNCHANGED allVars
  PROVE  SameView
<1>1. UNCHANGED <<ch, cur, pc, todo, nextSeq, buf>>
  BY DEF GiveUp, Retry, PipelineEnds, PipelineReturns, StopController, Stop,
         StopReturns, SttReconnects, SttEnds, Acquire, allVars, vars, channel, routing
<1>2. AgentSame
  <2>1. CASE Acquire
    <3>1. ToSet(<<>>) = {}
      BY DEF ToSet
    <3> QED BY <2>1, <3>1 DEF Acquire, AgentSame, Translating
  <2>2. CASE UNCHANGED <<results, spoken, seq, workers, held>>
    BY <2>2 DEF AgentSame, Translating
  <2> QED
    BY <2>1, <2>2
    DEF GiveUp, Retry, PipelineEnds, PipelineReturns, StopController,
        StopReturns, SttReconnects, SttEnds, allVars, agent
<1> QED BY <1>1, <1>2 DEF SameView, Stored, Routing, Unrouted, Awaited

\* The controller's part of a step of the agent that does not touch it
LEMMA ControllerSame ==
  ASSUME UNCHANGED vars, NEW o
  PROVE  /\ Stored(o)' = Stored(o) /\ Routing(o)' = Routing(o)
         /\ Awaited(o)' = Awaited(o) /\ Sent' = Sent
         /\ UNCHANGED <<ch, cur, pc>>
BY DEF vars, channel, routing, Stored, Routing, Unrouted, Awaited, Sent

\* A pipeline starts: its predecessor has left nothing behind, and numbers
\* begin again.
Restarts ==
  /\ UNCHANGED <<vars, spoken>>
  /\ results = <<>> /\ results' = <<>>
  /\ Translating = {} /\ Translating' = {} /\ seq' = 0

LEMMA BootView == Settled /\ Boot => SameView \/ Restarts
<1> SUFFICES ASSUME Settled, Boot PROVE SameView \/ Restarts
  OBVIOUS
<1>1. /\ UNCHANGED <<vars, results, spoken, held, workers>>
      /\ results = <<>> /\ held = <<>> /\ workers = {}
  BY DEF Boot, Settled, AgentInv, AgentAt
<1>2. Translating = {} /\ Translating' = {}
  BY <1>1 DEF Translating, ToSet
<1>3. CASE seq' = seq
  <2>1. AgentSame
    BY <1>1, <1>2, <1>3 DEF AgentSame
  <2> QED BY <1>1, <2>1, ControllerSame DEF SameView
<1>4. CASE seq' = 0
  BY <1>1, <1>2, <1>4 DEF Restarts
<1> QED BY <1>3, <1>4 DEF Boot

\* A result is dropped, or gets the next number.
Drops ==
  /\ UNCHANGED <<vars, spoken, seq>>
  /\ results # <<>> /\ results' = Tail(results)
  /\ Translating' = Translating

Numbers ==
  /\ UNCHANGED <<vars, spoken>>
  /\ results # <<>> /\ results' = Tail(results)
  /\ seq' = seq + 1
  /\ Translating' = Translating \cup {[utt |-> Head(results), seq |-> seq]}

LEMMA DispatchView == Settled /\ Dispatch => Drops \/ Numbers
<1> SUFFICES ASSUME Settled, Dispatch PROVE Drops \/ Numbers
  OBVIOUS
<1>1. CASE IsAnyPaused
  BY <1>1 DEF Dispatch, Drops, Translating
<1>2. CASE ~IsAnyPaused
  <2>1. held = <<>>
    BY DEF Dispatch, Settled, AgentInv, AgentAt
  <2>2. \A r : ToSet(<<r>>) = {r}
    BY DEF ToSet
  <2>3. ToSet(<<>>) = {}
    BY DEF ToSet
  <2> QED BY <1>2, <2>1, <2>2, <2>3 DEF Dispatch, Numbers, Translating
<1> QED BY <1>1, <1>2

\* Something is said.
Says ==
  /\ UNCHANGED <<vars, seq>>
  /\ spoken' = spoken + 1
  /\ results' = results \/ results' = Append(results, spoken)
  /\ Translating' = Translating

LEMMA SpeakView == Speak => Says
BY DEF Speak, Says, Translating

\* A worker submits: what was being translated is sent.
Submits(r) ==
  /\ r \in Translating
  /\ \E t \in Translation : NumberOf(t) = r /\ ch' = Append(ch, t)
  /\ UNCHANGED <<pc, cur, todo, nextSeq, buf, results, spoken, seq>>
  /\ Translating \ {r} \subseteq Translating' /\ Translating' \subseteq Translating

LEMMA SubmitView ==
  ASSUME Settled, NEW r \in workers, WorkerSubmits(r)
  PROVE  Submits(r)
<1>1. r \in Result
  BY DEF Settled, SessionType
<1>2. PICK texts \in SUBSET Outputs :
        Submit([utt |-> r.utt, seq |-> r.seq, texts |-> texts])
  BY DEF WorkerSubmits
<1>3. /\ [utt |-> r.utt, seq |-> r.seq, texts |-> texts] \in Translation
      /\ NumberOf([utt |-> r.utt, seq |-> r.seq, texts |-> texts]) = r
  BY <1>1 DEF Translation, NumberOf, Result
<1>4. /\ UNCHANGED <<pc, cur, todo, nextSeq, buf, results, spoken, seq, held>>
      /\ workers' = workers \ {r}
  BY <1>2 DEF WorkerSubmits, Submit, routing
<1>5. /\ r \in Translating /\ Translating \ {r} \subseteq Translating'
      /\ Translating' \subseteq Translating
  BY <1>4 DEF Translating
<1> QED BY <1>2, <1>3, <1>4, <1>5 DEF Submits, Submit

\* Every step is one of these.
LEMMA StepView ==
  ASSUME Settled, [SessionNext]_allVars
  PROVE  \/ SameView \/ Restarts \/ Drops \/ Numbers \/ Says
         \/ \E r \in workers : WorkerSubmits(r) /\ Submits(r)
         \/ (Receive \/ RouteOutput \/ FlushLine) /\ UNCHANGED agent
<1>1. CASE ControllerStep
  BY <1>1, ControllerView DEF ControllerStep, Work, Select
<1>2. ASSUME NEW r \in workers, WorkerSubmits(r) PROVE Submits(r)
  BY <1>2, SubmitView
<1>3. CASE Boot
  BY <1>3, BootView
<1>4. CASE Dispatch
  BY <1>4, DispatchView
<1>5. CASE Speak
  BY <1>5, SpeakView
<1>6. CASE \/ GiveUp \/ Retry \/ PipelineEnds \/ PipelineReturns \/ StopController
           \/ StopReturns \/ SttReconnects \/ SttEnds \/ Acquire
           \/ UNCHANGED allVars
  BY <1>6, AgentView
<1> QED BY <1>1, <1>2, <1>3, <1>4, <1>5, <1>6 DEF SessionNext, Agent

-----------------------------------------------------------------------------
(* The invariant RunsInv, kind of step by kind of step.                    *)

LEMMA NumberFields == \A x : NumberOf(x).utt = x.utt /\ NumberOf(x).seq = x.seq
BY DEF NumberOf

LEMMA KnownSaid ==
  ASSUME Said, NEW o \in Served, NEW x \in Known(o)
  PROVE  SaidBefore(x.utt)
<1>1. CASE x \in Routing(o)
  BY <1>1 DEF Routing, Unrouted, RoutingPCs, Said, NumberOf
<1>2. CASE x \in Sent \cup Translating \cup Stored(o)
  BY <1>2 DEF Said
<1> QED BY <1>1, <1>2 DEF Known, Coming

\* What a sender has passed stays before what it may pass.
StaysBehind ==
  \A o \in Served, u \in Nat : BeforeOpen(o, u) => BeforeOpen(o, u)'

\* What is known stays, and so does what only depends on that.
LEMMA SameKnown ==
  ASSUME NEW starts, RunsInv(starts), seq' = seq,
         \A o \in Served : /\ Known(o)' = Known(o) /\ Stored(o)' = Stored(o)
                           /\ Awaited(o)' = Awaited(o)
  PROVE  NumbersInOrder(starts)' /\ NoGaps(starts)' /\ OneRunStored(starts)'
<1>1. NumbersInOrder(starts)'
  BY DEF NumbersInOrder, RunsInv
<1>2. NoGaps(starts)'
  BY DEF NoGaps, RunsInv
<1>3. OneRunStored(starts)'
  BY DEF OneRunStored, Open, RunsInv
<1> QED BY <1>1, <1>2, <1>3

LEMMA SameViewRuns ==
  ASSUME NEW starts, RunsInv(starts), Said, SameView
  PROVE  (RunsInv(starts) /\ Said)' /\ StaysBehind
<1>1. UNCHANGED <<ch, results, spoken, seq>> /\ Translating' = Translating
  BY DEF SameView, AgentSame
<1>2. Sent' = Sent
  BY <1>1 DEF Sent
<1>3. ASSUME NEW o \in Served
      PROVE  /\ Known(o)' = Known(o) /\ Coming(o)' = Coming(o)
             /\ Stored(o)' = Stored(o) /\ Awaited(o)' = Awaited(o)
  BY <1>1, <1>2 DEF SameView, Known, Coming
<1>4. RunAfterRun(starts)'
  BY <1>1, <1>3 DEF RunAfterRun, RunsInv, SameView, RoutingPCs
<1>5. Said'
  BY <1>1, <1>2, <1>3 DEF Said, SaidBefore, SameView
<1>20. StaysBehind
  BY <1>1, <1>3 DEF StaysBehind, BeforeOpen, SaidBefore, Open
<1> QED BY <1>20, <1>1, <1>3, <1>4, <1>5, SameKnown DEF RunsInv

\* A new run begins with what is said next, and has no results yet.
LEMMA RestartsRuns ==
  ASSUME Settled, NEW starts \in SUBSET (0 .. spoken), RunsInv(starts), Said, Restarts
  PROVE  (Runs /\ Said)' /\ StaysBehind
<1> SUFFICES ASSUME NEW new, new = starts \cup {spoken}
             PROVE  RunsInv(new)' /\ new \in SUBSET (0 .. spoken') /\ Said'
                    /\ StaysBehind
  BY DEF Runs
<1>1. spoken \in Nat /\ spoken' = spoken
  BY DEF Settled, SessionType, Restarts
<1>2. UNCHANGED <<ch, cur, pc, results>> /\ Translating = {} /\ Translating' = {}
      /\ results = <<>> /\ seq' = 0 /\ Sent' = Sent
  BY DEF Restarts, vars, channel, routing, Sent
<1>3. ASSUME NEW o \in Served
      PROVE  /\ Known(o)' = Known(o) /\ Coming(o)' = Coming(o)
             /\ Stored(o)' = Stored(o) /\ Awaited(o)' = Awaited(o)
  <2>1. UNCHANGED vars
    BY DEF Restarts
  <2> QED BY <1>2, <2>1, ControllerSame DEF Known, Coming
<1>4. ASSUME NEW u \in Nat, NEW v \in Nat, u < spoken, v < spoken
      PROVE  /\ SameRun(new, u, v) <=> SameRun(starts, u, v)
             /\ ~InLatest(new, u)
  BY <1>1, <1>4 DEF SameRun, InLatest
<1>5. ASSUME NEW o \in Served, NEW x \in Known(o)
      PROVE  x.utt \in Nat /\ x.seq \in Nat /\ x.utt < spoken
  BY KnownType, KnownSaid DEF SaidBefore, Result
<1>6. /\ \A i \in DOMAIN ch : ch[i].utt \in Nat /\ ch[i].utt < spoken
      /\ pc \in RoutingPCs => cur.utt \in Nat /\ cur.utt < spoken
  <2>1. /\ \A i \in DOMAIN ch : ch[i] \in Translation
        /\ cur \in Translation
    BY DEF Settled, TypeOK
  <2>2. \A i \in DOMAIN ch : NumberOf(ch[i]) \in Sent
    BY DEF Sent
  <2>3. \A i \in DOMAIN ch : ch[i].utt < spoken
    BY <2>2, NumberFields DEF Said, SaidBefore
  <2> QED BY <2>1, <2>3 DEF Said, SaidBefore, Translation
<1>7. RunAfterRun(new)'
  <2>1. ASSUME NEW u \in Nat, NEW v \in Nat, u < spoken, v < spoken,
               RunsInOrder(starts, u, v)
        PROVE  RunsInOrder(new, u, v)
    BY <1>4, <2>1 DEF RunsInOrder
  <2>2. \A i, j \in DOMAIN ch : i < j => RunsInOrder(new, ch[i].utt, ch[j].utt)
    BY <1>6, <2>1 DEF RunsInv, RunAfterRun
  <2>3. pc \in RoutingPCs => \A i \in DOMAIN ch : RunsInOrder(new, cur.utt, ch[i].utt)
    BY <1>6, <2>1 DEF RunsInv, RunAfterRun
  <2>4. \A o \in Served : \A x \in Stored(o), y \in Coming(o) :
          RunsInOrder(new, x.utt, y.utt)
    BY <1>5, <2>1 DEF RunsInv, RunAfterRun, Known
  <2>5. Translating' = {} /\ DOMAIN results' = {}
    BY <1>2
  <2>6. \A o \in Served : \A x \in Stored(o)', y \in Coming(o)' :
          RunsInOrder(new, x.utt, y.utt)
    BY <1>3, <2>4
  <2> QED BY <1>2, <2>2, <2>3, <2>5, <2>6 DEF RunAfterRun
<1>8. NumbersInOrder(new)'
  <2>1. \A o \in Served : \A x, y \in Known(o) :
          SameRun(new, x.utt, y.utt) /\ x.seq < y.seq => x.utt < y.utt
    BY <1>4, <1>5 DEF RunsInv, NumbersInOrder
  <2>2. \A o \in Served : \A x \in Known(o) : ~InLatest(new, x.utt)
    BY <1>4, <1>5
  <2> QED BY <1>3, <2>1, <2>2 DEF NumbersInOrder
<1>9. NoGaps(new)'
  <2>2. \A o \in Served : Awaited(o) .. seq' - 1 = {}
    BY <1>2, KnownType
  <2>3. ASSUME NEW o \in Served
        PROVE  /\ \A x \in Known(o)' : \A k \in Awaited(o)' .. x.seq - 1 :
                    \E y \in Known(o)' : y.seq = k /\ SameRun(new, x.utt, y.utt)
               /\ Awaited(o)' .. seq' - 1 = {}
    <3>1. Known(o)' = Known(o) /\ Awaited(o)' = Awaited(o)
      BY <1>3
    <3>2. Awaited(o)' .. seq' - 1 = {}
      BY <2>2, <3>1
    <3>3. ASSUME NEW x \in Known(o)', NEW k \in Awaited(o)' .. x.seq - 1
          PROVE  \E y \in Known(o)' : y.seq = k /\ SameRun(new, x.utt, y.utt)
      <4>1. x \in Known(o) /\ k \in Awaited(o) .. x.seq - 1
        BY <3>1
      <4>2. PICK y \in Known(o) : y.seq = k /\ SameRun(starts, x.utt, y.utt)
        BY <4>1 DEF RunsInv, NoGaps
      <4>3. SameRun(new, x.utt, y.utt)
        BY <1>4, <1>5, <4>1, <4>2
      <4>4. y \in Known(o)'
        BY <3>1
      <4> QED BY <4>2, <4>3, <4>4
    <3> QED BY <3>2, <3>3
  <2> QED BY <2>3 DEF NoGaps
<1>10. OneRunStored(new)'
  <2>1. \A o \in Served : \A x, y \in Stored(o) :
          Open(o, x) /\ Open(o, y) => SameRun(new, x.utt, y.utt)
    BY <1>4, <1>5 DEF RunsInv, OneRunStored, Known
  <2> QED BY <1>3, <2>1 DEF OneRunStored, Open
<1>11. Said'
  BY <1>1, <1>2, <1>3 DEF Said, SaidBefore
<1>12. new \in SUBSET (0 .. spoken')
  BY <1>1
<1>20. StaysBehind
  BY <1>1, <1>2, <1>3 DEF StaysBehind, BeforeOpen, SaidBefore, Open
<1> QED BY <1>20, <1>7, <1>8, <1>9, <1>10, <1>11, <1>12 DEF RunsInv

LEMMA TailOfResults ==
  ASSUME Settled, results # <<>>, results' = Tail(results)
  PROVE  /\ \A i \in DOMAIN results' :
              i \in Nat \ {0} /\ i + 1 \in DOMAIN results /\ results'[i] = results[i + 1]
         /\ 1 \in DOMAIN results /\ Head(results) = results[1]
         /\ \A i \in DOMAIN results : results[i] \in Nat
BY DEF Settled, SessionType

LEMMA DropsRuns ==
  ASSUME Settled, NEW starts, RunsInv(starts), Said, Drops
  PROVE  (RunsInv(starts) /\ Said)' /\ StaysBehind
<1>1. /\ UNCHANGED <<ch, cur, pc, spoken, seq>> /\ Translating' = Translating
      /\ Sent' = Sent
  BY DEF Drops, vars, channel, routing, Sent
<1>2. ASSUME NEW o \in Served
      PROVE  /\ Known(o)' = Known(o) /\ Coming(o)' = Coming(o)
             /\ Stored(o)' = Stored(o) /\ Awaited(o)' = Awaited(o)
  BY <1>1, ControllerSame DEF Drops, Known, Coming
<1>3. /\ \A i \in DOMAIN results' :
           i \in Nat /\ i + 1 \in DOMAIN results /\ results'[i] = results[i + 1]
  BY TailOfResults DEF Drops
<1>4. RunAfterRun(starts)'
  BY <1>1, <1>2, <1>3 DEF RunAfterRun, RunsInv
<1>5. \A u : SaidBefore(u) => SaidBefore(u)'
  BY <1>1, <1>3 DEF SaidBefore
<1>6. Said'
  <2>1. /\ \A x \in (Sent \cup Translating)' : SaidBefore(x.utt)'
        /\ pc' \in RoutingPCs => SaidBefore(cur.utt)'
        /\ \A o \in Served : \A x \in Stored(o)' : SaidBefore(x.utt)'
    BY <1>1, <1>2, <1>5 DEF Said
  <2>2. /\ \A i, j \in DOMAIN results' : i < j => results'[i] < results'[j]
        /\ \A i \in DOMAIN results' : results'[i] < spoken'
    <3>1. \A i, j \in DOMAIN results' : i < j => i + 1 < j + 1
      BY <1>3
    <3> QED BY <1>1, <1>3, <3>1 DEF Said
  <2> QED BY <2>1, <2>2 DEF Said
<1>20. StaysBehind
  BY <1>1, <1>2, <1>3 DEF StaysBehind, BeforeOpen, SaidBefore, Open
<1> QED BY <1>20, <1>1, <1>2, <1>4, <1>6, SameKnown DEF RunsInv

LEMMA SaysRuns ==
  ASSUME Settled, NEW starts \in SUBSET (0 .. spoken), RunsInv(starts), Said, Says
  PROVE  (RunsInv(starts) /\ Said)' /\ StaysBehind /\ starts \in SUBSET (0 .. spoken')
<1>1. /\ UNCHANGED <<ch, cur, pc, seq>> /\ Translating' = Translating
      /\ Sent' = Sent /\ spoken \in Nat /\ spoken' = spoken + 1
      /\ results \in Seq(Nat)
  BY DEF Says, vars, channel, routing, Sent, Settled, SessionType
<1>2. ASSUME NEW o \in Served
      PROVE  /\ Known(o)' = Known(o) /\ Coming(o)' = Coming(o)
             /\ Stored(o)' = Stored(o) /\ Awaited(o)' = Awaited(o)
  BY <1>1, ControllerSame DEF Says, Known, Coming
<1>3. ASSUME NEW i \in DOMAIN results'
      PROVE  \/ i \in DOMAIN results /\ results'[i] = results[i]
             \/ i = Len(results) + 1 /\ results'[i] = spoken
  BY <1>1 DEF Says
<1>4. InLatest(starts, spoken)
  BY DEF InLatest
<1>5. RunAfterRun(starts)'
  <2>1. \A i \in DOMAIN results' : InLatest(starts, results'[i])
    BY <1>3, <1>4 DEF RunAfterRun, RunsInv
  <2> QED BY <1>1, <1>2, <2>1 DEF RunAfterRun, RunsInv
<1>6. ASSUME NEW u \in Nat, SaidBefore(u) PROVE SaidBefore(u)'
  BY <1>1, <1>3, <1>6 DEF SaidBefore
<1>7. Said'
  <2>1. /\ \A x \in Sent \cup Translating : x.utt \in Nat
        /\ cur.utt \in Nat
        /\ \A o \in Served : \A x \in Stored(o) : x.utt \in Nat
    <3>1. cur \in Translation /\ \A i \in DOMAIN ch : ch[i] \in Translation
      BY DEF Settled, TypeOK
    <3>2. \A t \in Translation : t.utt \in Nat
      BY DEF Translation
    <3>3. \A x \in Sent : x.utt \in Nat
      BY <3>1, <3>2, NumberFields DEF Sent
    <3>4. Translating \subseteq Result
      BY ToSetType DEF Translating, Settled, SessionType
    <3>5. \A o \in Served : \A x \in Stored(o) : x.utt \in Nat
      BY KnownType DEF Result
    <3> QED BY <3>1, <3>2, <3>3, <3>4, <3>5 DEF Result
  <2>2. /\ \A x \in (Sent \cup Translating)' : SaidBefore(x.utt)'
        /\ pc' \in RoutingPCs => SaidBefore(cur.utt)'
        /\ \A o \in Served : \A x \in Stored(o)' : SaidBefore(x.utt)'
    BY <1>1, <1>2, <1>6, <2>1 DEF Said
  <2>3. /\ \A i, j \in DOMAIN results' : i < j => results'[i] < results'[j]
        /\ \A i \in DOMAIN results' : results'[i] < spoken'
    <3>1. \A i \in DOMAIN results : results[i] \in Nat /\ results[i] < spoken
      BY <1>1 DEF Said
    <3>2. \A i \in DOMAIN results' : results'[i] < spoken'
      BY <1>1, <1>3, <3>1
    <3>3. ASSUME NEW i \in DOMAIN results', NEW j \in DOMAIN results', i < j
          PROVE  results'[i] < results'[j]
      <4>1. i \in DOMAIN results /\ results'[i] = results[i]
        <5>1. CASE i \in DOMAIN results /\ results'[i] = results[i]
          BY <5>1
        <5>2. CASE i = Len(results) + 1
          <6>1. Len(results) \in Nat /\ i \in Nat /\ j \in Nat /\ j <= Len(results) + 1
            BY <1>1, <1>3, <3>3, <5>2
          <6> QED BY <3>3, <5>2, <6>1
        <5> QED BY <1>3, <5>1, <5>2
      <4>2. CASE j \in DOMAIN results /\ results'[j] = results[j]
        BY <3>3, <4>1, <4>2 DEF Said
      <4>3. CASE results'[j] = spoken
        BY <3>1, <4>1, <4>3
      <4> QED BY <1>3, <4>2, <4>3
    <3> QED BY <3>2, <3>3
  <2> QED BY <2>2, <2>3 DEF Said
<1>8. starts \in SUBSET (0 .. spoken')
  BY <1>1
<1>20. StaysBehind
  BY <1>2, <1>6 DEF StaysBehind, BeforeOpen, Open
<1> QED BY <1>20, <1>1, <1>2, <1>5, <1>7, <1>8, SameKnown DEF RunsInv

\* Runs follow one another among utterances that are known.
LEMMA LatestIsLast ==
  ASSUME NEW starts \in SUBSET Nat, NEW u \in Nat, NEW v \in Nat, InLatest(starts, v)
  PROVE  RunsInOrder(starts, u, v)
BY DEF InLatest, RunsInOrder, SameRun

\* A result gets the next number: it is the latest of the latest run.
LEMMA NumbersRuns ==
  ASSUME Settled, NEW starts \in SUBSET (0 .. spoken), RunsInv(starts), Said, Numbers
  PROVE  (RunsInv(starts) /\ Said)' /\ StaysBehind
<1> SUFFICES ASSUME NEW z, z = [utt |-> Head(results), seq |-> seq]
             PROVE  (RunsInv(starts) /\ Said)' /\ StaysBehind
  OBVIOUS
<1>1. /\ UNCHANGED <<ch, cur, pc, spoken>> /\ Translating' = Translating \cup {z}
      /\ Sent' = Sent /\ seq' = seq + 1 /\ seq \in Nat
  BY DEF Numbers, vars, channel, routing, Sent, Settled, SessionType
<1>2. /\ \A i \in DOMAIN results' :
           i \in Nat \ {0} /\ i + 1 \in DOMAIN results /\ results'[i] = results[i + 1]
      /\ 1 \in DOMAIN results /\ Head(results) = results[1]
      /\ \A i \in DOMAIN results : results[i] \in Nat
  BY TailOfResults DEF Numbers
<1>3. z.utt = results[1] /\ z.seq = seq /\ z.utt \in Nat
  BY <1>2
<1>4. InLatest(starts, z.utt)
  BY <1>2, <1>3 DEF RunsInv, RunAfterRun
<1>5. \A u : SaidBefore(u) => u < z.utt
  BY <1>2, <1>3 DEF SaidBefore
<1>6. ASSUME NEW o \in Served
      PROVE  /\ Known(o)' = Known(o) \cup {z} /\ Coming(o)' = Coming(o) \cup {z}
             /\ Stored(o)' = Stored(o) /\ Awaited(o)' = Awaited(o)
  <2>1. /\ Stored(o)' = Stored(o) /\ Routing(o)' = Routing(o)
        /\ Awaited(o)' = Awaited(o)
    BY ControllerSame DEF Numbers
  <2> QED BY <1>1, <2>1 DEF Known, Coming
<1>7. ASSUME NEW o \in Served, NEW x \in Known(o)
      PROVE  x.utt \in Nat /\ x.seq \in Nat /\ x.utt < z.utt
  BY <1>5, KnownType, KnownSaid DEF Result
<1>8. RunAfterRun(starts)'
  <2>1. \A x \in Translating' : InLatest(starts, x.utt)
    BY <1>1, <1>4 DEF RunsInv, RunAfterRun
  <2>2. \A i \in DOMAIN results' : InLatest(starts, results'[i])
    BY <1>2 DEF RunsInv, RunAfterRun
  <2>3. ASSUME NEW o \in Served, NEW x \in Stored(o), NEW y \in Coming(o)'
        PROVE  RunsInOrder(starts, x.utt, y.utt)
    <3>1. CASE y \in Coming(o)
      BY <3>1 DEF RunsInv, RunAfterRun
    <3>2. CASE y = z
      <4>1. x.utt < z.utt /\ x.utt \in Nat
        BY <1>7 DEF Known
      <4> QED BY <1>3, <3>2, <4>1 DEF RunsInOrder
    <3> QED BY <1>6, <3>1, <3>2
  <2> QED BY <1>1, <1>6, <2>1, <2>2, <2>3 DEF RunsInv, RunAfterRun
<1>9. NumbersInOrder(starts)'
  <2>1. ASSUME NEW o \in Served, NEW x \in Known(o) \cup {z}, NEW y \in Known(o) \cup {z},
               SameRun(starts, x.utt, y.utt), x.seq < y.seq
        PROVE  x.utt < y.utt
    <3>1. CASE x \in Known(o) /\ y \in Known(o)
      BY <2>1, <3>1 DEF RunsInv, NumbersInOrder
    <3>2. CASE x \in Known(o) /\ y = z
      BY <1>7, <3>2
    <3>3. CASE x = z /\ y \in Known(o)
      <4>1. y.utt \in Nat /\ y.seq \in Nat
        BY <1>7, <3>3
      <4>2. InLatest(starts, y.utt)
        BY <1>4, <2>1, <3>3 DEF SameRun, InLatest
      <4>3. y.seq < seq
        BY <3>3, <4>2 DEF RunsInv, NumbersInOrder
      <4> QED BY <1>1, <1>3, <2>1, <3>3, <4>1, <4>3
    <3>4. CASE x = z /\ y = z
      BY <1>1, <1>3, <2>1, <3>4
    <3> QED BY <3>1, <3>2, <3>3, <3>4
  <2>2. ASSUME NEW o \in Served, NEW x \in Known(o) \cup {z}, InLatest(starts, x.utt)
        PROVE  x.seq < seq'
    <3>1. CASE x \in Known(o)
      <4>1. x.seq < seq
        BY <2>2, <3>1 DEF RunsInv, NumbersInOrder
      <4> QED BY <1>1, <1>7, <3>1, <4>1
    <3>2. CASE x = z
      BY <1>1, <1>3, <3>2
    <3> QED BY <3>1, <3>2
  <2> QED BY <1>6, <2>1, <2>2 DEF NumbersInOrder
<1>10. NoGaps(starts)'
  <2>1. ASSUME NEW o \in Served, NEW k \in Awaited(o) .. seq - 1
        PROVE  \E y \in Known(o) : y.seq = k /\ InLatest(starts, y.utt)
    BY DEF RunsInv, NoGaps
  <2>2. ASSUME NEW o \in Served, NEW x \in Known(o) \cup {z},
               NEW k \in Awaited(o) .. x.seq - 1
        PROVE  \E y \in Known(o) \cup {z} : y.seq = k /\ SameRun(starts, x.utt, y.utt)
    <3>1. CASE x \in Known(o)
      <4>1. PICK y \in Known(o) : y.seq = k /\ SameRun(starts, x.utt, y.utt)
        BY <3>1 DEF RunsInv, NoGaps
      <4> QED BY <4>1
    <3>2. CASE x = z
      <4>1. k \in Awaited(o) .. seq - 1
        BY <1>3, <3>2
      <4>2. PICK y \in Known(o) : y.seq = k /\ InLatest(starts, y.utt)
        BY <2>1, <4>1
      <4>3. SameRun(starts, x.utt, y.utt)
        BY <1>4, <3>2, <4>2 DEF SameRun, InLatest
      <4> QED BY <4>2, <4>3
    <3> QED BY <3>1, <3>2
  <2>3. ASSUME NEW o \in Served, NEW k \in Awaited(o) .. seq' - 1
        PROVE  \E y \in Known(o) \cup {z} : y.seq = k /\ InLatest(starts, y.utt)
    <3>1. CASE k = seq
      BY <1>3, <1>4, <3>1
    <3>2. CASE k # seq
      <4>1. k \in Awaited(o) .. seq - 1
        BY <1>1, <3>2, KnownType
      <4>2. PICK y \in Known(o) : y.seq = k /\ InLatest(starts, y.utt)
        BY <2>1, <4>1
      <4> QED BY <4>2
    <3> QED BY <3>1, <3>2
  <2>4. ASSUME NEW o \in Served
        PROVE  /\ \A x \in Known(o)' : \A k \in Awaited(o)' .. x.seq - 1 :
                    \E y \in Known(o)' : y.seq = k /\ SameRun(starts, x.utt, y.utt)
               /\ \A k \in Awaited(o)' .. seq' - 1 :
                    \E y \in Known(o)' : y.seq = k /\ InLatest(starts, y.utt)
    <3>1. Known(o)' = Known(o) \cup {z} /\ Awaited(o)' = Awaited(o)
      BY <1>6
    <3>2. ASSUME NEW x \in Known(o)', NEW k \in Awaited(o)' .. x.seq - 1
          PROVE  \E y \in Known(o)' : y.seq = k /\ SameRun(starts, x.utt, y.utt)
      <4>1. x \in Known(o) \cup {z} /\ k \in Awaited(o) .. x.seq - 1
        BY <3>1
      <4>2. PICK y \in Known(o) \cup {z} : y.seq = k /\ SameRun(starts, x.utt, y.utt)
        BY <2>2, <4>1
      <4> QED BY <3>1, <4>2
    <3>3. ASSUME NEW k \in Awaited(o)' .. seq' - 1
          PROVE  \E y \in Known(o)' : y.seq = k /\ InLatest(starts, y.utt)
      <4>1. k \in Awaited(o) .. seq' - 1
        BY <3>1
      <4>2. PICK y \in Known(o) \cup {z} : y.seq = k /\ InLatest(starts, y.utt)
        BY <2>3, <4>1
      <4> QED BY <3>1, <4>2
    <3> QED BY <3>2, <3>3
  <2> QED BY <2>4 DEF NoGaps
<1>11. OneRunStored(starts)'
  BY <1>6 DEF RunsInv, OneRunStored, Open
<1>12. Said'
  <2>1. \A u : SaidBefore(u) => SaidBefore(u)'
    BY <1>1, <1>2 DEF SaidBefore
  <2>2. \A i, j \in DOMAIN results' : i < j => i + 1 < j + 1
    BY <1>2
  <2>3. /\ \A i, j \in DOMAIN results' : i < j => results'[i] < results'[j]
        /\ \A i \in DOMAIN results' : results'[i] < spoken'
    BY <1>1, <1>2, <2>2 DEF Said
  <2>4. SaidBefore(z.utt)'
    <3>1. \A i \in DOMAIN results' : 1 < i + 1
      BY <1>2
    <3> QED BY <1>1, <1>2, <1>3, <3>1 DEF Said, SaidBefore
  <2>5. /\ \A x \in (Sent \cup Translating)' : SaidBefore(x.utt)'
        /\ pc' \in RoutingPCs => SaidBefore(cur.utt)'
        /\ \A o \in Served : \A x \in Stored(o)' : SaidBefore(x.utt)'
    BY <1>1, <1>6, <2>1, <2>4 DEF Said
  <2> QED BY <2>3, <2>5 DEF Said
<1>20. StaysBehind
  <2>1. \A u : SaidBefore(u) => SaidBefore(u)'
    BY <1>1, <1>2 DEF SaidBefore
  <2> QED BY <1>5, <1>6, <2>1 DEF StaysBehind, BeforeOpen, Open
<1> QED BY <1>20, <1>8, <1>9, <1>10, <1>11, <1>12 DEF RunsInv

LEMMA NumbersAreNat ==
  ASSUME Settled
  PROVE  /\ \A i \in DOMAIN ch : ch[i] \in Translation /\ ch[i].utt \in Nat
         /\ cur.utt \in Nat
         /\ \A x \in Translating : x \in Result /\ x.utt \in Nat
<1>1. cur \in Translation /\ \A i \in DOMAIN ch : ch[i] \in Translation
  BY DEF Settled, TypeOK
<1>2. \A t \in Translation : t.utt \in Nat
  BY DEF Translation
<1>3. Translating \subseteq Result
  BY ToSetType DEF Translating, Settled, SessionType
<1> QED BY <1>1, <1>2, <1>3 DEF Result

\* A worker submits in whatever order: its result is of the latest run.
LEMMA SubmitsRuns ==
  ASSUME Settled, NEW starts \in SUBSET (0 .. spoken), RunsInv(starts), Said,
         NEW r, Submits(r)
  PROVE  (RunsInv(starts) /\ Said)' /\ StaysBehind
<1>1. /\ UNCHANGED <<pc, cur, todo, nextSeq, buf, results, spoken, seq>>
      /\ r \in Translating
      /\ Translating \ {r} \subseteq Translating' /\ Translating' \subseteq Translating
  BY DEF Submits
<1>2. PICK t \in Translation : NumberOf(t) = r /\ ch' = Append(ch, t)
  BY DEF Submits
<1>3. ch \in Seq(Translation)
  BY DEF Settled, TypeOK
<1>4. t.utt = r.utt /\ t.utt \in Nat /\ InLatest(starts, t.utt)
  <2>1. t.utt = r.utt
    BY <1>2, NumberFields
  <2> QED BY <1>1, <2>1, NumbersAreNat DEF RunsInv, RunAfterRun
<1>5. ASSUME NEW i \in DOMAIN ch'
      PROVE  \/ i \in DOMAIN ch /\ ch'[i] = ch[i]
             \/ i = Len(ch) + 1 /\ ch'[i] = t
  BY <1>2, <1>3
<1>6. /\ \A i \in DOMAIN ch : i \in DOMAIN ch' /\ ch'[i] = ch[i]
      /\ Len(ch) + 1 \in DOMAIN ch' /\ ch'[Len(ch) + 1] = t
  BY <1>2, <1>3
<1>7. Sent' = Sent \cup {r}
  BY <1>2, <1>5, <1>6 DEF Sent
<1>8. ASSUME NEW o \in Served
      PROVE  /\ Known(o)' = Known(o) /\ Coming(o)' = Coming(o)
             /\ Stored(o)' = Stored(o) /\ Awaited(o)' = Awaited(o)
  <2>1. /\ Stored(o)' = Stored(o) /\ Routing(o)' = Routing(o)
        /\ Awaited(o)' = Awaited(o)
    BY <1>1 DEF Stored, Routing, Unrouted, Awaited
  <2>2. Sent' \cup Translating' = Sent \cup Translating
    BY <1>1, <1>7
  <2> QED BY <2>1, <2>2 DEF Known, Coming
<1>9. RunAfterRun(starts)'
  <2>1. \A u \in Nat : RunsInOrder(starts, u, t.utt)
    BY <1>4, LatestIsLast DEF Settled, SessionType
  <2>2. ASSUME NEW i \in DOMAIN ch', NEW j \in DOMAIN ch', i < j
        PROVE  RunsInOrder(starts, ch'[i].utt, ch'[j].utt)
    <3>1. i \in DOMAIN ch /\ ch'[i] = ch[i]
      BY <1>2, <1>3, <2>2
    <3>2. CASE j \in DOMAIN ch /\ ch'[j] = ch[j]
      BY <2>2, <3>1, <3>2 DEF RunsInv, RunAfterRun
    <3>3. CASE ch'[j] = t
      BY <2>1, <3>1, <3>3, NumbersAreNat
    <3> QED BY <1>5, <3>2, <3>3
  <2>3. ASSUME pc \in RoutingPCs, NEW i \in DOMAIN ch'
        PROVE  RunsInOrder(starts, cur.utt, ch'[i].utt)
    <3>1. CASE i \in DOMAIN ch /\ ch'[i] = ch[i]
      BY <2>3, <3>1 DEF RunsInv, RunAfterRun
    <3>2. CASE ch'[i] = t
      BY <2>1, <3>2, NumbersAreNat
    <3> QED BY <1>5, <3>1, <3>2
  <2> QED BY <1>1, <1>8, <2>2, <2>3 DEF RunsInv, RunAfterRun
<1>10. Said'
  <2>1. \A u : SaidBefore(u) => SaidBefore(u)'
    BY <1>1 DEF SaidBefore
  <2>2. Sent' \cup Translating' = Sent \cup Translating
    BY <1>1, <1>7
  <2> QED BY <1>1, <1>8, <2>1, <2>2 DEF Said
<1>20. StaysBehind
  BY <1>1, <1>8 DEF StaysBehind, BeforeOpen, SaidBefore, Open
<1> QED BY <1>20, <1>1, <1>8, <1>9, <1>10, SameKnown DEF RunsInv

\* run takes a translation: what was sent is being routed.
LEMMA ReceiveRuns ==
  ASSUME Settled, NEW starts, RunsInv(starts), Said, Receive, UNCHANGED agent
  PROVE  (RunsInv(starts) /\ Said)' /\ StaysBehind
<1>1. /\ UNCHANGED <<todo, nextSeq, buf, results, spoken, seq>>
      /\ Translating' = Translating /\ pc = "select" /\ pc' = "log"
      /\ ch \in Seq(Translation) /\ ch # <<>> /\ ch' = Tail(ch) /\ cur' = ch[1]
  BY DEF Receive, agent, Translating, Settled, TypeOK
<1>2. /\ \A i \in DOMAIN ch' :
           i \in Nat \ {0} /\ i + 1 \in DOMAIN ch /\ ch'[i] = ch[i + 1]
      /\ \A i \in DOMAIN ch : i = 1 \/ (i - 1 \in DOMAIN ch' /\ ch'[i - 1] = ch[i])
      /\ 1 \in DOMAIN ch
  BY <1>1
<1>3. Sent = Sent' \cup {NumberOf(ch[1])}
  BY <1>2 DEF Sent
<1>4. ASSUME NEW o \in Served
      PROVE  /\ Known(o)' = Known(o) /\ Coming(o)' = Coming(o)
             /\ Stored(o)' = Stored(o) /\ Awaited(o)' = Awaited(o)
  <2>1. /\ Stored(o)' = Stored(o) /\ Awaited(o)' = Awaited(o)
        /\ Routing(o)' = {NumberOf(ch[1])} /\ Routing(o) = {}
    BY <1>1 DEF Stored, Routing, Unrouted, Awaited
  <2>2. Routing(o)' \cup Sent' = Routing(o) \cup Sent
    BY <1>3, <2>1
  <2> QED BY <1>1, <2>1, <2>2 DEF Known, Coming
<1>5. RunAfterRun(starts)'
  <2>1. \A i, j \in DOMAIN ch' : i < j => i + 1 < j + 1
    BY <1>2
  <2>2. \A i, j \in DOMAIN ch' : i < j => RunsInOrder(starts, ch'[i].utt, ch'[j].utt)
    BY <1>2, <2>1 DEF RunsInv, RunAfterRun
  <2>3. \A i \in DOMAIN ch' : 1 < i + 1
    BY <1>2
  <2>4. \A i \in DOMAIN ch' : RunsInOrder(starts, cur'.utt, ch'[i].utt)
    BY <1>1, <1>2, <2>3 DEF RunsInv, RunAfterRun
  <2> QED BY <1>1, <1>4, <2>2, <2>4 DEF RunsInv, RunAfterRun
<1>6. Said'
  <2>1. \A u : SaidBefore(u) => SaidBefore(u)'
    BY <1>1 DEF SaidBefore
  <2>2. SaidBefore(cur.utt)'
    <3>1. NumberOf(ch[1]) \in Sent /\ NumberOf(ch[1]).utt = cur'.utt
      BY <1>1, <1>3, NumberFields
    <3>2. SaidBefore(cur'.utt)
      BY <3>1 DEF Said
    <3> QED BY <1>1, <3>2 DEF SaidBefore
  <2>3. Sent' \subseteq Sent
    BY <1>3
  <2> QED BY <1>1, <1>4, <2>1, <2>2, <2>3 DEF Said
<1>20. StaysBehind
  BY <1>1, <1>4 DEF StaysBehind, BeforeOpen, SaidBefore, Open
<1> QED BY <1>20, <1>1, <1>4, <1>5, <1>6, SameKnown DEF RunsInv

\* What the steps of RouteOutput and FlushLine do to what is known
LEMMA SameRunLaws ==
  ASSUME NEW starts \in SUBSET Nat, NEW u \in Nat, NEW v \in Nat, NEW w \in Nat
  PROVE  /\ SameRun(starts, u, u)
         /\ SameRun(starts, u, v) => SameRun(starts, v, u)
         /\ SameRun(starts, u, v) /\ SameRun(starts, v, w) => SameRun(starts, u, w)
         /\ SameRun(starts, u, w) /\ u <= v /\ v <= w => SameRun(starts, u, v)
         /\ InLatest(starts, u) /\ SameRun(starts, u, v) => InLatest(starts, v)
BY DEF SameRun, InLatest

\* When a result is routed, what its sender has buffered and not passed is of
\* the same run: otherwise something of the run before would still be coming,
\* and that comes first.
LEMMA StoredOfThisRun ==
  ASSUME Settled, NEW starts \in SUBSET (0 .. spoken), RunsInv(starts), Flushed,
         pc = "route", NEW o \in Served, o \in ToSet(todo),
         NEW x \in Stored(o), Open(o, x)
  PROVE  SameRun(starts, x.utt, cur.utt)
<1>1. /\ o \in DOMAIN nextSeq /\ Ready(o) = {}
      /\ starts \in SUBSET Nat
  BY DEF Settled, AgentInv, FixedOutputs, Served, Flushed, SessionType
<1>2. \A y \in Stored(o) : y.seq # Awaited(o)
  BY <1>1, NumberFields DEF Stored, Ready, Awaited
<1>3. x \in Known(o) /\ x.seq \in Nat /\ x.utt \in Nat /\ Awaited(o) \in Nat
      /\ cur.utt \in Nat
  BY KnownType, NumbersAreNat DEF Known, Result
<1>4. Awaited(o) \in Awaited(o) .. x.seq - 1
  BY <1>2, <1>3 DEF Open
<1>5. PICK y \in Known(o) : y.seq = Awaited(o) /\ SameRun(starts, x.utt, y.utt)
  BY <1>3, <1>4 DEF RunsInv, NoGaps
<1>6. y \in Coming(o) /\ y.utt \in Nat
  BY <1>2, <1>5, KnownType DEF Known, Result
<1>7. NumberOf(cur) \in Coming(o)
  BY DEF Coming, Routing, Unrouted
<1>8. RunsInOrder(starts, x.utt, cur.utt)
  BY <1>7, NumberFields DEF RunsInv, RunAfterRun
<1>9. RunsInOrder(starts, cur.utt, y.utt)
  <2>1. CASE y \in Routing(o)
    BY <1>3, <2>1, NumberFields DEF Routing, RunsInOrder
  <2>2. CASE y \in Sent
    <3>1. PICK i \in DOMAIN ch : y = NumberOf(ch[i])
      BY <2>2 DEF Sent
    <3> QED BY <3>1, NumberFields DEF RunsInv, RunAfterRun, RoutingPCs
  <2>3. CASE y \in Translating
    BY <1>1, <1>3, <1>6, <2>3, LatestIsLast DEF RunsInv, RunAfterRun
  <2> QED BY <1>6, <2>1, <2>2, <2>3 DEF Coming
<1> QED BY <1>1, <1>3, <1>5, <1>6, <1>8, <1>9, SameRunLaws DEF RunsInOrder

LEMMA RouteView ==
  ASSUME Settled, RouteOutput, UNCHANGED agent, NEW o \in Served
  PROVE  /\ Known(o)' \subseteq Known(o) /\ Coming(o)' \subseteq Coming(o)
         /\ \A x \in Known(o) : x.seq # cur.seq => x \in Known(o)'
         /\ Awaited(o)' = Awaited(o)
         /\ \/ Stored(o)' = Stored(o) /\ Known(o)' = Known(o)
            \/ /\ o \in ToSet(todo)
               /\ Stored(o)' \subseteq Stored(o) \cup {NumberOf(cur)}
               /\ NumberOf(cur) \in Stored(o)'
               /\ \A x \in Known(o) \ Known(o)' : x \in Stored(o)
<1> DEFINE h == Head(todo)
<1>1. /\ pc = "route" /\ pc' = "flush" /\ h \in DOMAIN nextSeq
      /\ UNCHANGED <<ch, cur, todo, nextSeq>>
      /\ buf' = [buf EXCEPT ![h] = Buffered(h)]
      /\ todo \in Seq(Outputs) /\ todo # <<>> /\ DOMAIN buf = DOMAIN nextSeq
  BY DEF RouteOutput, channel, Settled, TypeOK
<1>2. Sent' = Sent /\ Translating' = Translating /\ Awaited(o)' = Awaited(o)
  BY <1>1 DEF Sent, agent, Translating, Awaited
<1>3. ToSet(todo) = ToSet(Tail(todo)) \cup {h}
  <2>1. /\ \A i \in DOMAIN Tail(todo) : i + 1 \in DOMAIN todo
                                       /\ Tail(todo)[i] = todo[i + 1]
        /\ 1 \in DOMAIN todo /\ h = todo[1]
    BY <1>1
  <2>2. ASSUME NEW i \in DOMAIN todo, i # 1
        PROVE  i - 1 \in DOMAIN Tail(todo) /\ Tail(todo)[i - 1] = todo[i]
    BY <1>1, <2>2
  <2>3. ToSet(Tail(todo)) \cup {h} \subseteq ToSet(todo)
    BY <2>1 DEF ToSet
  <2>4. ASSUME NEW i \in DOMAIN todo
        PROVE  todo[i] \in ToSet(Tail(todo)) \cup {h}
    <3>1. CASE i = 1
      BY <2>1, <3>1
    <3>2. CASE i # 1
      <4>1. /\ i - 1 \in DOMAIN Tail(todo) /\ Tail(todo)[i - 1] = todo[i]
        BY <2>2, <3>2
      <4> QED BY <4>1 DEF ToSet
    <3> QED BY <3>1, <3>2
  <2>5. ToSet(todo) \subseteq ToSet(Tail(todo)) \cup {h}
    BY <2>4 DEF ToSet
  <2> QED BY <2>3, <2>5
<1>4. CASE o # h
  <2>1. Stored(o)' = Stored(o)
    BY <1>1, <1>4 DEF Stored
  <2>2. Routing(o)' = Routing(o)
    BY <1>1, <1>3, <1>4 DEF Routing, Unrouted
  <2> QED BY <1>2, <2>1, <2>2 DEF Known, Coming
<1>5. CASE o = h
  <2>1. /\ buf'[o] = {e \in buf[o] : e.seq # cur.seq} \cup {LineFor(o)}
        /\ o \in DOMAIN nextSeq'
    BY <1>1, <1>5 DEF Buffered
  <2>2. NumberOf(LineFor(o)) = NumberOf(cur)
    BY DEF NumberOf, LineFor
  <2>3. /\ Stored(o)' \subseteq Stored(o) \cup {NumberOf(cur)}
        /\ NumberOf(cur) \in Stored(o)'
        /\ \A x \in Stored(o) : x.seq # cur.seq => x \in Stored(o)'
    BY <1>1, <1>5, <2>1, <2>2, NumberFields DEF Stored
  <2>4. Routing(o) = {NumberOf(cur)} /\ Routing(o)' \subseteq {NumberOf(cur)}
    BY <1>1, <1>3, <1>5 DEF Routing, Unrouted
  <2>5. o \in ToSet(todo)
    BY <1>3, <1>5
  <2> QED BY <1>2, <2>3, <2>4, <2>5 DEF Known, Coming
<1> QED BY <1>4, <1>5

LEMMA RouteRuns ==
  ASSUME Settled, NEW starts \in SUBSET (0 .. spoken), RunsInv(starts), Said, Flushed,
         RouteOutput, UNCHANGED agent
  PROVE  (RunsInv(starts) /\ Said)' /\ StaysBehind
<1>1. /\ UNCHANGED <<ch, cur, todo, nextSeq, results, spoken, seq>>
      /\ pc = "route" /\ pc' = "flush" /\ Translating' = Translating /\ Sent' = Sent
      /\ starts \in SUBSET Nat
  BY DEF RouteOutput, channel, agent, Translating, Sent, Settled, SessionType
<1>2. ASSUME NEW o \in Served
      PROVE  /\ Known(o) \subseteq Result /\ Stored(o) \subseteq Known(o)
             /\ Awaited(o) \in Nat /\ cur.utt \in Nat
             /\ NumberOf(cur).utt = cur.utt /\ NumberOf(cur).seq = cur.seq
  BY KnownType, NumbersAreNat, NumberFields DEF Known
<1>3. ASSUME NEW o \in Served, NEW x \in Stored(o)', Open(o, x), x \notin Stored(o)
      PROVE  x = NumberOf(cur) /\ o \in ToSet(todo)
  BY <1>3, RouteView
<1>4. RunAfterRun(starts)'
  <2>1. ASSUME NEW o \in Served, NEW x \in Stored(o)', NEW y \in Coming(o)'
        PROVE  RunsInOrder(starts, x.utt, y.utt)
    <3>1. y \in Coming(o)
      BY RouteView
    <3>2. CASE x \in Stored(o)
      BY <3>1, <3>2 DEF RunsInv, RunAfterRun
    <3>3. CASE x = NumberOf(cur)
      <4>1. CASE y \in Routing(o)
        BY <1>2, <3>3, <4>1 DEF Routing, RunsInOrder
      <4>2. CASE y \in Sent
        <5>1. PICK i \in DOMAIN ch : y = NumberOf(ch[i])
          BY <4>2 DEF Sent
        <5> QED BY <1>1, <3>3, <5>1, NumberFields DEF RunsInv, RunAfterRun, RoutingPCs
      <4>3. CASE y \in Translating
        <5>1. y.utt \in Nat /\ InLatest(starts, y.utt)
          BY <4>3, NumbersAreNat DEF RunsInv, RunAfterRun
        <5> QED BY <1>1, <1>2, <3>3, <5>1, LatestIsLast
      <4> QED BY <3>1, <4>1, <4>2, <4>3 DEF Coming
    <3> QED BY <3>2, <3>3, RouteView
  <2>2. pc \in RoutingPCs
    BY <1>1 DEF RoutingPCs
  <2> QED BY <1>1, <2>1, <2>2 DEF RunsInv, RunAfterRun
<1>5. NumbersInOrder(starts)'
  <2>1. \A o \in Served : Known(o)' \subseteq Known(o)
    BY RouteView
  <2> QED BY <1>1, <2>1 DEF RunsInv, NumbersInOrder
\* What is overwritten has the number of cur, and is of its run.
<1>6. ASSUME NEW o \in Served, NEW y \in Known(o), y \notin Known(o)',
             y.seq >= Awaited(o)
      PROVE  /\ NumberOf(cur) \in Known(o)' /\ cur.seq = y.seq
             /\ SameRun(starts, y.utt, cur.utt)
  <2>1. /\ o \in ToSet(todo) /\ y \in Stored(o) /\ y.seq = cur.seq
        /\ NumberOf(cur) \in Stored(o)'
    BY <1>6, RouteView
  <2>2. SameRun(starts, y.utt, cur.utt)
    BY <1>1, <1>6, <2>1, StoredOfThisRun DEF Open
  <2> QED BY <2>1, <2>2 DEF Known
<1>7. NoGaps(starts)'
  <2>1. ASSUME NEW o \in Served, NEW x \in Known(o)', NEW k \in Awaited(o)' .. x.seq - 1
        PROVE  \E y \in Known(o)' : y.seq = k /\ SameRun(starts, x.utt, y.utt)
    <3>1. x \in Known(o) /\ k \in Awaited(o) .. x.seq - 1
      BY RouteView
    <3>2. PICK y \in Known(o) : y.seq = k /\ SameRun(starts, x.utt, y.utt)
      BY <3>1 DEF RunsInv, NoGaps
    <3>3. CASE y \in Known(o)'
      BY <3>2, <3>3
    <3>4. CASE y \notin Known(o)'
      <4>1. /\ NumberOf(cur) \in Known(o)' /\ cur.seq = k
            /\ SameRun(starts, y.utt, cur.utt)
        BY <1>2, <1>6, <3>1, <3>2, <3>4
      <4>2. SameRun(starts, x.utt, cur.utt)
        BY <3>2, <4>1 DEF SameRun
      <4> QED BY <1>2, <4>1, <4>2
    <3> QED BY <3>3, <3>4
  <2>2. ASSUME NEW o \in Served, NEW k \in Awaited(o)' .. seq' - 1
        PROVE  \E y \in Known(o)' : y.seq = k /\ InLatest(starts, y.utt)
    <3>1. k \in Awaited(o) .. seq - 1
      BY <1>1, RouteView
    <3>2. PICK y \in Known(o) : y.seq = k /\ InLatest(starts, y.utt)
      BY <3>1 DEF RunsInv, NoGaps
    <3>3. CASE y \in Known(o)'
      BY <3>2, <3>3
    <3>4. CASE y \notin Known(o)'
      <4>1. /\ NumberOf(cur) \in Known(o)' /\ cur.seq = k
            /\ SameRun(starts, y.utt, cur.utt)
        BY <1>2, <1>6, <3>1, <3>2, <3>4
      <4>2. InLatest(starts, cur.utt)
        BY <3>2, <4>1 DEF SameRun, InLatest
      <4> QED BY <1>2, <4>1, <4>2
    <3> QED BY <3>3, <3>4
  <2> QED BY <2>1, <2>2 DEF NoGaps
<1>8. OneRunStored(starts)'
  <2>1. SUFFICES ASSUME NEW o \in Served, NEW x \in Stored(o)', NEW y \in Stored(o)',
                        Open(o, x), Open(o, y)
                 PROVE  SameRun(starts, x.utt, y.utt)
    <3>1. \A o \in Served : Awaited(o)' = Awaited(o)
      BY RouteView
    <3> QED BY <2>1, <3>1 DEF OneRunStored, Open
  <2>2. CASE x \in Stored(o) /\ y \in Stored(o)
    BY <2>1, <2>2 DEF RunsInv, OneRunStored
  <2>3. CASE x \in Stored(o) /\ y \notin Stored(o)
    BY <1>1, <1>2, <1>3, <2>1, <2>3, StoredOfThisRun
  <2>4. CASE x \notin Stored(o) /\ y \in Stored(o)
    <3>1. SameRun(starts, y.utt, cur.utt)
      BY <1>1, <1>2, <1>3, <2>1, <2>4, StoredOfThisRun
    <3> QED BY <1>2, <1>3, <2>1, <2>4, <3>1 DEF SameRun
  <2>5. CASE x \notin Stored(o) /\ y \notin Stored(o)
    BY <1>3, <2>1, <2>5 DEF SameRun
  <2> QED BY <2>2, <2>3, <2>4, <2>5
<1>9. Said'
  <2>1. \A u : SaidBefore(u) => SaidBefore(u)'
    BY <1>1 DEF SaidBefore
  <2>2. \A o \in Served : \A x \in Stored(o)' : SaidBefore(x.utt)
    <3>1. \A o \in Served : Stored(o)' \subseteq Known(o)
      BY RouteView DEF Known
    <3> QED BY <3>1, KnownSaid
  <2>3. SaidBefore(cur.utt)
    BY <1>1 DEF Said, RoutingPCs
  <2> QED BY <1>1, <2>1, <2>2, <2>3 DEF Said
<1>20. StaysBehind
  <2>1. \A o \in Served : Known(o)' \subseteq Known(o) /\ Awaited(o)' = Awaited(o)
    BY RouteView
  <2> QED BY <1>1, <2>1 DEF StaysBehind, BeforeOpen, SaidBefore, Open
<1> QED BY <1>20, <1>4, <1>5, <1>7, <1>8, <1>9 DEF RunsInv

\* A sender passes the line that it awaits: what it may still pass was said
\* later, also if it is of a later run and has a number that is too low.
LEMMA PassRuns ==
  ASSUME Settled, NEW starts \in SUBSET (0 .. spoken), RunsInv(starts), Said,
         FlushLine, UNCHANGED agent
  PROVE  /\ (RunsInv(starts) /\ Said)' /\ StaysBehind
         /\ \E u \in Nat :
              /\ pc' = "enqueue" => txt' = u
              /\ BeforeOpen(Head(todo), u)'
              /\ \A v : BeforeOpen(Head(todo), v) => v < u
<1> DEFINE h == Head(todo)
<1>1. /\ UNCHANGED <<ch, cur, todo, results, spoken, seq>>
      /\ pc = "flush" /\ pc' \in {"flush", "enqueue"}
      /\ Translating' = Translating /\ Sent' = Sent
      /\ h \in DOMAIN nextSeq /\ h \in Served /\ DOMAIN buf = DOMAIN nextSeq
      /\ starts \in SUBSET Nat
  BY DEF FlushLine, channel, agent, Translating, Sent, Settled, SessionType, Standing,
         AgentInv, FixedOutputs, Served, TypeOK
<1>2. PICK e \in Ready(h) :
        /\ buf' = [buf EXCEPT ![h] = @ \ {e}]
        /\ nextSeq' = [nextSeq EXCEPT ![h] = e.seq + 1]
        /\ pc' = "enqueue" => txt' = e.utt
  BY <1>1 DEF FlushLine
<1>3. /\ e \in buf[h] /\ e.seq = nextSeq[h] /\ e.seq \in Nat /\ e.utt \in Nat
      /\ NumberOf(e) \in Stored(h) /\ Awaited(h) = e.seq
  BY <1>1, <1>2 DEF Ready, Stored, Awaited, Settled, TypeOK, Line
<1>4. ASSUME NEW o \in Served
      PROVE  /\ Coming(o)' = Coming(o) /\ Stored(o)' \subseteq Stored(o)
             /\ Known(o)' \subseteq Known(o)
             /\ Awaited(o) \in Nat /\ Awaited(o)' \in Nat /\ Awaited(o) <= Awaited(o)'
             /\ \A x \in Known(o) : x.seq >= Awaited(o)' => x \in Known(o)'
             /\ o = h => Awaited(o)' = e.seq + 1
  <2>1. Coming(o)' = Coming(o)
    BY <1>1 DEF Coming, Routing, Unrouted
  <2>2. CASE o # h
    <3>1. Stored(o)' = Stored(o) /\ Awaited(o)' = Awaited(o)
      BY <1>1, <1>2, <2>2 DEF Stored, Awaited
    <3> QED BY <2>1, <2>2, <3>1, KnownType DEF Known
  <2>3. CASE o = h
    <3>1. /\ Awaited(o)' = e.seq + 1 /\ buf'[o] = buf[o] \ {e}
          /\ o \in DOMAIN nextSeq'
      BY <1>1, <1>2, <2>3 DEF Awaited
    <3>2. /\ Stored(o)' \subseteq Stored(o)
          /\ \A x \in Stored(o) : x # NumberOf(e) => x \in Stored(o)'
      BY <1>1, <2>3, <3>1 DEF Stored
    <3>3. \A x \in Known(o) : x.seq >= e.seq + 1 => x # NumberOf(e)
      BY <1>3, NumberFields
    <3> QED BY <1>3, <2>1, <2>3, <3>1, <3>2, <3>3 DEF Known
  <2> QED BY <2>2, <2>3
<1>5. RunAfterRun(starts)'
  BY <1>1, <1>4 DEF RunsInv, RunAfterRun, RoutingPCs
<1>6. NumbersInOrder(starts)'
  BY <1>1, <1>4 DEF RunsInv, NumbersInOrder
<1>7. NoGaps(starts)'
  <2>1. ASSUME NEW o \in Served, NEW x \in Known(o)', NEW k \in Awaited(o)' .. x.seq - 1
        PROVE  \E y \in Known(o)' : y.seq = k /\ SameRun(starts, x.utt, y.utt)
    <3>1. /\ x \in Known(o) /\ k \in Awaited(o) .. x.seq - 1 /\ k >= Awaited(o)'
      BY <1>4, KnownType DEF Result
    <3>2. PICK y \in Known(o) : y.seq = k /\ SameRun(starts, x.utt, y.utt)
      BY <3>1 DEF RunsInv, NoGaps
    <3> QED BY <1>4, <3>1, <3>2
  <2>2. ASSUME NEW o \in Served, NEW k \in Awaited(o)' .. seq' - 1
        PROVE  \E y \in Known(o)' : y.seq = k /\ InLatest(starts, y.utt)
    <3>1. k \in Awaited(o) .. seq - 1 /\ k >= Awaited(o)'
      BY <1>1, <1>4 DEF Settled, SessionType
    <3>2. PICK y \in Known(o) : y.seq = k /\ InLatest(starts, y.utt)
      BY <3>1 DEF RunsInv, NoGaps
    <3> QED BY <1>4, <3>1, <3>2
  <2> QED BY <2>1, <2>2 DEF NoGaps
<1>8. ASSUME NEW o \in Served, NEW x \in Known(o)', Open(o, x)'
      PROVE  x \in Known(o) /\ Open(o, x)
  <2>1. x \in Known(o) /\ x.seq \in Nat /\ x.seq >= Awaited(o)'
    BY <1>4, <1>8, KnownType DEF Open, Result
  <2> QED BY <1>4, <2>1 DEF Open
<1>9. OneRunStored(starts)'
  BY <1>4, <1>8 DEF RunsInv, OneRunStored, Known
<1>10. \A u : SaidBefore(u) => SaidBefore(u)'
  BY <1>1 DEF SaidBefore
<1>11. Said'
  BY <1>1, <1>4, <1>10 DEF Said, RoutingPCs
<1>12. StaysBehind
  BY <1>4, <1>8, <1>10 DEF StaysBehind, BeforeOpen
<1>13. ASSUME NEW x \in Known(h), x.seq > e.seq PROVE e.utt < x.utt
  <2>1. x.utt \in Nat /\ x.seq \in Nat
    BY <1>1, KnownType DEF Result
  <2>2. NumberOf(e).utt = e.utt /\ NumberOf(e).seq = e.seq /\ NumberOf(e) \in Known(h)
    BY <1>3, NumberFields DEF Known
  <2>3. SameRun(starts, e.utt, x.utt) => e.utt < x.utt
    BY <1>1, <1>13, <2>2 DEF RunsInv, NumbersInOrder
  <2>4. CASE x \in Stored(h)
    <3>1. SameRun(starts, e.utt, x.utt)
      BY <1>1, <1>3, <1>13, <2>1, <2>2, <2>4 DEF RunsInv, OneRunStored, Open
    <3> QED BY <2>3, <3>1
  <2>5. CASE x \in Coming(h)
    <3>1. RunsInOrder(starts, e.utt, x.utt)
      BY <1>1, <1>3, <2>2, <2>5 DEF RunsInv, RunAfterRun
    <3>2. e.utt = x.utt => SameRun(starts, e.utt, x.utt)
      BY DEF SameRun
    <3> QED BY <1>3, <2>1, <2>3, <3>1, <3>2 DEF RunsInOrder
  <2> QED BY <2>4, <2>5 DEF Known
<1>14. BeforeOpen(h, e.utt)'
  <2>1. SaidBefore(e.utt)
    BY <1>1, <1>3, NumberFields DEF Said
  <2>2. \A x \in Known(h)' : Open(h, x)' => e.utt < x.utt
    BY <1>1, <1>3, <1>4, <1>13, KnownType DEF Open, Result
  <2> QED BY <1>1, <1>10, <2>1, <2>2 DEF BeforeOpen
<1>15. \A u : BeforeOpen(h, u) => u < e.utt
  BY <1>3, NumberFields DEF BeforeOpen, Open, Known
<1>16. /\ pc' = "enqueue" => txt' = e.utt
       /\ BeforeOpen(Head(todo), e.utt)'
       /\ \A v : BeforeOpen(Head(todo), v) => v < e.utt
  BY <1>2, <1>14, <1>15
<1> QED
  BY <1>3, <1>16, <1>5, <1>6, <1>7, <1>9, <1>11, <1>12 DEF RunsInv

\* The flush loop ends only when nothing is left that could be passed.
LEMMA NextFlushed ==
  ASSUME TypeOK, Standing, Flushed, [Steps]_vars
  PROVE  Flushed'
<1> USE DEF Flushed, Ready
<1>1. CASE UNCHANGED <<pc, todo, nextSeq, buf>>
  BY <1>1
<1>2. CASE UNCHANGED <<nextSeq, buf>> /\ pc \notin {"flush", "enqueue"}
  BY <1>2
<1>3. CASE StartRun
  BY <1>3 DEF StartRun
<1>4. CASE RouteOutput
  <2>1. /\ pc' = "flush" /\ UNCHANGED <<todo, nextSeq>> /\ pc = "route"
        /\ buf' = [buf EXCEPT ![Head(todo)] = Buffered(Head(todo))]
        /\ DOMAIN buf = DOMAIN nextSeq
    BY <1>4 DEF RouteOutput, TypeOK
  <2> QED BY <2>1
<1>5. CASE FlushGap
  BY <1>5 DEF FlushGap
<1>6. CASE FlushLine
  <2>1. PICK e \in Ready(Head(todo)) :
          /\ buf' = [buf EXCEPT ![Head(todo)] = @ \ {e}]
          /\ nextSeq' = [nextSeq EXCEPT ![Head(todo)] = e.seq + 1]
          /\ \/ pc' = "enqueue"
             \/ UNCHANGED pc
    BY <1>6 DEF FlushLine
  <2>2. pc = "flush" /\ UNCHANGED todo /\ DOMAIN buf = DOMAIN nextSeq
    BY <1>6 DEF FlushLine, TypeOK
  <2> QED BY <2>1, <2>2
<1>7. CASE Enqueue
  BY <1>7 DEF Enqueue
<1>8. CASE Accept
  <2>1. PICK t \in Translation : Submit(t)
    BY <1>8 DEF Accept
  <2> QED BY <2>1, <1>1 DEF Submit, routing
<1> QED
  BY <1>1, <1>2, <1>3, <1>4, <1>5, <1>6, <1>7, <1>8
  DEF Steps, Control, Work, Select, Cancel, Stop, SetPaused, SkipPending, SyncOutputs,
      Receive, LogTranscript, RoutePanics, RouteDone, TickerFires, Retain, ProcessNext,
      ProcessDone, SendNowhere, SendChunks, AddRecent, BeginDrain, DrainNext, DrainDone,
      Exit, TimePasses, vars, routing

-----------------------------------------------------------------------------
(* Messages.                                                               *)

\* A message comes from Enqueue, and keeps its id, output and utterance.
LEMMA MessagesStay ==
  ASSUME TypeOK, Standing, [Steps]_vars
  PROVE  \A m \in Messages' :
           \/ m \in Messages
           \/ Enqueue /\ m = <<nextMsgID, Head(todo), txt>>
<1>0. delayQueue \in Seq(Msg) /\ batch \in Seq(Msg) /\ shown \in Seq(Msg)
  BY DEF TypeOK
<1> USE DEF Messages
<1>1. CASE /\ ToSet(delayQueue)' \subseteq ToSet(delayQueue) \cup ToSet(batch)
           /\ ToSet(batch)' \subseteq ToSet(delayQueue) \cup ToSet(batch)
           /\ ToSet(shown)' \subseteq ToSet(shown) \cup ToSet(batch)
  BY <1>1
<1>2. ASSUME NEW s \in Seq(Msg), s # <<>>
      PROVE  ToSet(Tail(s)) \subseteq ToSet(s) /\ Head(s) \in ToSet(s)
  <2>1. /\ \A i \in DOMAIN Tail(s) : i + 1 \in DOMAIN s /\ Tail(s)[i] = s[i + 1]
        /\ 1 \in DOMAIN s /\ Head(s) = s[1]
    BY <1>2
  <2> QED BY <2>1 DEF ToSet
<1>3. ASSUME NEW s \in Seq(Msg), NEW m \in Msg
      PROVE  ToSet(Append(s, m)) = ToSet(s) \cup {m}
  <2>1. /\ \A i \in DOMAIN s : i \in DOMAIN Append(s, m) /\ Append(s, m)[i] = s[i]
        /\ Len(s) + 1 \in DOMAIN Append(s, m) /\ Append(s, m)[Len(s) + 1] = m
        /\ \A i \in DOMAIN Append(s, m) : i \in DOMAIN s \/ i = Len(s) + 1
    BY <1>3
  <2> QED BY <2>1 DEF ToSet
<1>4. ToSet(<<>>) = {}
  BY DEF ToSet
<1>5. CASE UNCHANGED <<delayQueue, batch, shown>>
  BY <1>1, <1>5
<1>6. CASE Enqueue
  <2> DEFINE new == [id |-> nextMsgID, out |-> Head(todo), utt |-> txt,
                     left |-> SendDelay]
  <2>1. delayQueue' = Append(delayQueue, new) /\ UNCHANGED <<batch, shown>>
    BY <1>6 DEF Enqueue, history
  <2>2. new \in Msg
    <3>1. Head(todo) \in Outputs
      BY <1>6, HeadTail DEF Enqueue, TypeOK, Standing
    <3>2. nextMsgID \in Nat /\ txt \in Nat /\ SendDelay \in 0 .. SendDelay
      BY BoundsAssumption DEF TypeOK
    <3> QED BY <3>1, <3>2 DEF Msg
  <2>3. Key(new) = <<nextMsgID, Head(todo), txt>>
    BY DEF Key
  <2>4. ToSet(delayQueue)' = ToSet(delayQueue) \cup {new}
    BY <1>0, <1>3, <2>1, <2>2
  <2> QED BY <1>6, <2>1, <2>3, <2>4
<1>7. CASE Retain
  <2>1. /\ delayQueue' = Append(delayQueue, Head(batch)) /\ batch' = Tail(batch)
        /\ batch # <<>> /\ Head(batch) \in Msg /\ UNCHANGED shown
    BY <1>0, <1>7 DEF Retain, history
  <2>2. ToSet(delayQueue)' = ToSet(delayQueue) \cup {Head(batch)}
    BY <1>0, <1>3, <2>1
  <2> QED BY <1>0, <1>1, <1>2, <2>1, <2>2
<1>8. CASE UNCHANGED <<delayQueue, shown>> /\ batch # <<>> /\ batch' = Tail(batch)
  BY <1>0, <1>1, <1>2, <1>8
<1>9. CASE TickerFires \/ BeginDrain
  BY <1>1, <1>4, <1>9 DEF TickerFires, BeginDrain, history
<1>10. CASE SendChunks
  <2>1. /\ UNCHANGED <<delayQueue, batch>> /\ batch # <<>> /\ Head(batch) \in Msg
        /\ shown' = shown \/ shown' = Append(shown, Head(batch))
    BY <1>0, <1>10 DEF SendChunks, Standing, queue
  <2>2. ToSet(shown)' \subseteq ToSet(shown) \cup {Head(batch)}
    BY <1>0, <1>3, <2>1
  <2> QED BY <1>0, <1>1, <1>2, <2>1, <2>2
<1>11. CASE TimePasses
  <2>1. delayQueue' = Aged(delayQueue) /\ batch' = Aged(batch) /\ shown' = shown
    BY <1>11 DEF TimePasses, history
  <2>2. ASSUME NEW s \in Seq(Msg)
        PROVE  \A m \in ToSet(Aged(s)) : \E n \in ToSet(s) : Key(m) = Key(n)
    <3>1. DOMAIN Aged(s) = DOMAIN s
      BY AgedType, BoundsAssumption
    <3>2. \A i \in DOMAIN s : Key(Aged(s)[i]) = Key(s[i])
      BY AgedFields, BoundsAssumption DEF Key
    <3> QED BY <3>1, <3>2 DEF ToSet
  <2>3. /\ \A m \in ToSet(delayQueue)' : \E n \in ToSet(delayQueue) : Key(m) = Key(n)
        /\ \A m \in ToSet(batch)' : \E n \in ToSet(batch) : Key(m) = Key(n)
        /\ ToSet(shown)' = ToSet(shown)
    BY <1>0, <2>1, <2>2
  <2> QED BY <2>3
<1>12. CASE ProcessNext \/ DrainNext
  BY <1>5, <1>8, <1>12 DEF ProcessNext, DrainNext, history
<1>13. CASE SendNowhere \/ AddRecent
  BY <1>8, <1>13 DEF SendNowhere, AddRecent, Standing, history
<1>14. CASE Accept
  <2>1. PICK t \in Translation : Submit(t)
    BY <1>14 DEF Accept
  <2> QED BY <2>1, <1>5 DEF Submit, queue, history
<1> QED
  BY <1>5, <1>6, <1>7, <1>9, <1>10, <1>11, <1>12, <1>13, <1>14
  DEF Steps, Control, Work, Select, Cancel, Stop, SetPaused, SkipPending, SyncOutputs,
      StartRun, Receive, LogTranscript, RouteOutput, RoutePanics, RouteDone, FlushGap,
      FlushLine, ProcessDone, DrainDone, Exit, vars, queue, history

\* Who makes the senders, moves them and lets them enqueue
LEMMA SenderSteps ==
  ASSUME SessionType, [SessionNext]_allVars
  PROVE  /\ nextSeq' = nextSeq \/ StartRun \/ (FlushLine /\ UNCHANGED agent)
         /\ \/ pc' # "enqueue"
            \/ UNCHANGED <<pc, todo, txt>>
            \/ FlushLine /\ UNCHANGED agent
         /\ nextMsgID' = nextMsgID \/ nextMsgID' = nextMsgID + 1
         /\ Enqueue => pc' = "flush" /\ nextMsgID' = nextMsgID + 1
<1>1. Enqueue => pc' = "flush" /\ nextMsgID' = nextMsgID + 1
  BY DEF Enqueue
<1>2. CASE UNCHANGED <<pc, todo, txt, nextSeq, nextMsgID>>
  BY <1>1, <1>2
<1>3. ASSUME NEW r \in workers, WorkerSubmits(r)
      PROVE  UNCHANGED <<pc, todo, txt, nextSeq, nextMsgID>>
  <2>1. PICK t : Submit(t)
    BY <1>3 DEF WorkerSubmits
  <2> QED BY <2>1 DEF Submit, routing, shared
<1>4. CASE ControllerStep
  <2>1. CASE FlushLine
    BY <1>1, <1>4, <2>1 DEF FlushLine, ControllerStep, shared
  <2>2. CASE Enqueue
    BY <1>1, <2>2 DEF Enqueue
  <2>3. CASE StartRun
    BY <1>1, <2>3 DEF StartRun, shared
  <2>4. CASE UNCHANGED <<nextSeq, nextMsgID>> /\ pc' # "enqueue"
    BY <1>1, <2>4
  <2>5. CASE Work
    BY <1>2, <2>1, <2>2, <2>3, <2>4, <2>5
    DEF Work, LogTranscript, RouteOutput, RoutePanics, RouteDone, FlushGap, Retain,
        ProcessNext, ProcessDone, SendNowhere, SendChunks, AddRecent, DrainNext,
        DrainDone, Resume, routing, shared
  <2>6. CASE Select
    BY <2>4, <2>6 DEF Select, Receive, TickerFires, BeginDrain, Exit, routing, shared
  <2> QED
    BY <1>2, <1>4, <2>5, <2>6
    DEF ControllerStep, Cancel, SetPaused, SkipPending, TimePasses, routing, shared
<1>5. CASE UNCHANGED vars \/ StopController
  BY <1>2, <1>5 DEF vars, StopController, Stop, routing, shared
<1> QED
  BY <1>2, <1>3, <1>4, <1>5
  DEF SessionNext, Agent, Boot, GiveUp, Retry, Dispatch, Acquire, PipelineEnds,
      PipelineReturns, StopReturns, Speak, SttReconnects, SttEnds, allVars

LEMMA NextRuns ==
  ASSUME Settled, Runs, Said, Flushed, [SessionNext]_allVars
  PROVE  /\ (Runs /\ Said)' /\ StaysBehind
         /\ FlushLine /\ UNCHANGED agent =>
              \E u \in Nat : /\ pc' = "enqueue" => txt' = u
                             /\ BeforeOpen(Head(todo), u)'
                             /\ \A v : BeforeOpen(Head(todo), v) => v < u
<1>1. PICK starts \in SUBSET (0 .. spoken) : RunsInv(starts)
  BY DEF Runs
<1>2. FlushLine /\ UNCHANGED agent =>
        /\ (RunsInv(starts) /\ Said)' /\ StaysBehind
        /\ \E u \in Nat : /\ pc' = "enqueue" => txt' = u
                          /\ BeforeOpen(Head(todo), u)'
                          /\ \A v : BeforeOpen(Head(todo), v) => v < u
  BY <1>1, PassRuns
<1>3. CASE Restarts
  BY <1>1, <1>2, <1>3, RestartsRuns
<1>4. CASE Says
  BY <1>1, <1>2, <1>4, SaysRuns DEF Runs
<1>5. CASE /\ (RunsInv(starts) /\ Said)' /\ StaysBehind
           /\ spoken' = spoken
  BY <1>1, <1>2, <1>5 DEF Runs
<1>6. CASE SameView
  BY <1>1, <1>5, <1>6, SameViewRuns DEF SameView, AgentSame
<1>7. CASE Drops
  BY <1>1, <1>5, <1>7, DropsRuns DEF Drops
<1>8. CASE Numbers
  BY <1>1, <1>5, <1>8, NumbersRuns DEF Numbers
<1>9. ASSUME NEW r \in workers, Submits(r)
      PROVE  (RunsInv(starts) /\ Said)' /\ StaysBehind /\ spoken' = spoken
  BY <1>1, <1>9, SubmitsRuns DEF Submits
<1>10. CASE Receive /\ UNCHANGED agent
  BY <1>1, <1>5, <1>10, ReceiveRuns DEF agent
<1>11. CASE RouteOutput /\ UNCHANGED agent
  BY <1>1, <1>5, <1>11, RouteRuns DEF agent
<1>12. CASE FlushLine /\ UNCHANGED agent
  BY <1>2, <1>5, <1>12 DEF agent
<1> QED
  BY StepView, <1>3, <1>4, <1>5, <1>6, <1>7, <1>8, <1>9, <1>10, <1>11, <1>12

LEMMA LastByMessage ==
  NextIsLast <=> \A m \in Messages :
                   /\ m[1] < nextMsgID
                   /\ pc = "enqueue" /\ m[2] = Head(todo) => m[3] < txt
<1>1. \A m : Key(m)[1] = m.id /\ Key(m)[2] = m.out /\ Key(m)[3] = m.utt
  BY DEF Key
<1> QED BY <1>1 DEF NextIsLast, BeforeNext, Messages, ToSet

LEMMA MessageType ==
  ASSUME TypeOK, NEW m \in Messages
  PROVE  m[1] \in Nat /\ m[3] \in Nat
<1>1. \A x \in Msg : Key(x)[1] \in Nat /\ Key(x)[3] \in Nat
  BY DEF Key, Msg
<1>2. ToSet(delayQueue) \cup ToSet(batch) \cup ToSet(shown) \subseteq Msg
  BY ToSetType DEF TypeOK
<1> QED BY <1>1, <1>2 DEF Messages

LEMMA NextPassedInOrder ==
  ASSUME Settled, Runs, Said, Flushed, PassedInOrder, NextIsLast,
         [SessionNext]_allVars
  PROVE  (PassedInOrder /\ NextIsLast)'
<1>1. /\ TypeOK /\ SessionType /\ Standing /\ [Steps]_vars /\ nextMsgID \in Nat
  BY SessionIsStep DEF Settled, TypeOK
<1>2. StaysBehind
  BY NextRuns
<1>3. /\ DOMAIN nextSeq = {} \/ DOMAIN nextSeq = Served
      /\ StartRun => DOMAIN nextSeq = {}
  BY DEF Settled, AgentInv, FixedOutputs, StartRun, Served
<1>4. FlushLine => DOMAIN nextSeq' = DOMAIN nextSeq
  BY DEF FlushLine
<1>5. ASSUME NEW o \in DOMAIN nextSeq
      PROVE  o \in DOMAIN nextSeq' /\ o \in Served
  BY <1>1, <1>3, <1>4, SenderSteps
<1>6. pc \in {"flush", "enqueue"} => Head(todo) \in DOMAIN nextSeq
  BY <1>1 DEF Standing
<1>7. ASSUME NEW m \in Messages'
      PROVE  m[2] \in DOMAIN nextSeq' /\ BeforeOpen(m[2], m[3])'
  <2>1. CASE m \in Messages
    <3>1. m[2] \in DOMAIN nextSeq /\ BeforeOpen(m[2], m[3]) /\ m[3] \in Nat
      BY <1>1, <2>1, MessageType DEF PassedInOrder
    <3> QED BY <1>2, <1>5, <3>1 DEF StaysBehind
  <2>2. CASE Enqueue /\ m = <<nextMsgID, Head(todo), txt>>
    <3>1. /\ m[2] = Head(todo) /\ m[3] = txt /\ txt \in Nat /\ pc = "enqueue"
      BY <1>1, <2>2 DEF Enqueue, TypeOK
    <3>2. m[2] \in DOMAIN nextSeq /\ BeforeOpen(m[2], m[3])
      BY <1>6, <3>1 DEF PassedInOrder
    <3> QED BY <1>2, <1>5, <3>1, <3>2 DEF StaysBehind
  <2> QED BY <1>1, <2>1, <2>2, MessagesStay
<1>8. ASSUME pc' = "enqueue" PROVE BeforeOpen(Head(todo), txt)'
  <2>1. CASE UNCHANGED <<pc, todo, txt>>
    <3>1. BeforeOpen(Head(todo), txt) /\ Head(todo) \in Served /\ txt \in Nat
      BY <1>1, <1>5, <1>6, <1>8, <2>1 DEF PassedInOrder, TypeOK
    <3>2. ASSUME NEW o, NEW u, o = Head(todo), u = txt
          PROVE  BeforeOpen(o, u)'
      BY <1>2, <3>1, <3>2 DEF StaysBehind
    <3> QED BY <2>1, <3>2
  <2>2. CASE FlushLine /\ UNCHANGED agent
    <3>1. PICK u \in Nat : /\ pc' = "enqueue" => txt' = u
                           /\ BeforeOpen(Head(todo), u)'
      BY <2>2, NextRuns
    <3> QED BY <1>8, <3>1
  <2> QED BY <1>1, <1>8, <2>1, <2>2, SenderSteps
<1>9. ASSUME NEW m \in Messages'
      PROVE  /\ m[1] < nextMsgID'
             /\ pc' = "enqueue" /\ m[2] = Head(todo') => m[3] < txt'
  <2>1. CASE m \in Messages
    <3>1. /\ m[1] \in Nat /\ m[1] < nextMsgID
          /\ pc = "enqueue" /\ m[2] = Head(todo) => m[3] < txt
      BY <1>1, <2>1, MessageType, LastByMessage
    <3>2. m[1] < nextMsgID'
      BY <1>1, <3>1, SenderSteps
    <3>3. ASSUME pc' = "enqueue", m[2] = Head(todo') PROVE m[3] < txt'
      <4>1. CASE UNCHANGED <<pc, todo, txt>>
        BY <3>1, <3>3, <4>1
      <4>2. CASE FlushLine /\ UNCHANGED agent
        <5>1. PICK u \in Nat : /\ pc' = "enqueue" => txt' = u
                               /\ \A v : BeforeOpen(Head(todo), v) => v < u
          BY <4>2, NextRuns
        <5>2. BeforeOpen(m[2], m[3]) /\ todo' = todo
          BY <2>1, <4>2 DEF PassedInOrder, FlushLine
        <5> QED BY <3>3, <5>1, <5>2
      <4> QED BY <1>1, <3>3, <4>1, <4>2, SenderSteps
    <3> QED BY <3>2, <3>3
  <2>2. CASE Enqueue /\ m = <<nextMsgID, Head(todo), txt>>
    <3>1. nextMsgID' = nextMsgID + 1 /\ pc' = "flush" /\ m[1] = nextMsgID
      BY <1>1, <2>2, SenderSteps
    <3> QED BY <1>1, <3>1
  <2> QED BY <1>1, <2>1, <2>2, MessagesStay
<1>10. NextIsLast'
  <2>1. (\A m \in Messages : /\ m[1] < nextMsgID
                             /\ pc = "enqueue" /\ m[2] = Head(todo) => m[3] < txt)'
    BY <1>9
  <2> QED BY <2>1, LastByMessage, PTL
<1> QED BY <1>7, <1>8, <1>10 DEF PassedInOrder

LEMMA InitDelivery == SessionInit => DeliveryInv
<1> SUFFICES ASSUME SessionInit PROVE DeliveryInv
  OBVIOUS
<1>1. QueueInv
  BY DEF SessionInit, Init, QueueInv, Standing, AtHome, NextIsLast, QueueSorted, Sorted,
         RetainedFirst, DuePrefix, ShownFirst, OrderedDelivery
<1>2. /\ Sent = {} /\ Translating = {} /\ seq = 0 /\ spoken = 0
      /\ DOMAIN ch = {} /\ DOMAIN results = {} /\ pc = "start" /\ DOMAIN nextSeq = {}
  BY DEF SessionInit, Init, Sent, Translating, ToSet
<1>3. \A o : Stored(o) = {} /\ Coming(o) = {} /\ Known(o) = {} /\ Awaited(o) = 0
  BY <1>2 DEF Stored, Coming, Known, Awaited, Routing, Unrouted
<1>4. RunsInv({})
  BY <1>2, <1>3 DEF RunsInv, RunAfterRun, NumbersInOrder, NoGaps, OneRunStored, RoutingPCs
<1>5. Said /\ Flushed
  BY <1>2, <1>3 DEF Said, Flushed, RoutingPCs
<1>6. PassedInOrder
  BY DEF SessionInit, Init, PassedInOrder, Messages, ToSet
<1> QED BY <1>1, <1>4, <1>5, <1>6 DEF DeliveryInv, Runs

LEMMA NextDelivery ==
  Settled /\ DeliveryInv /\ [SessionNext]_allVars => (Settled /\ DeliveryInv)'
<1> SUFFICES ASSUME Settled, DeliveryInv, [SessionNext]_allVars
             PROVE  (Settled /\ DeliveryInv)'
  OBVIOUS
<1>1. TypeOK /\ Standing /\ [Steps]_vars
  BY SessionIsStep DEF Settled
<1>2. Settled'
  BY NextSettled
<1>3. (Runs /\ Said)'
  BY NextRuns DEF DeliveryInv
<1>4. Flushed'
  BY <1>1, NextFlushed DEF DeliveryInv
<1>5. (PassedInOrder /\ NextIsLast)'
  BY NextPassedInOrder DEF DeliveryInv, QueueInv
<1>6. QueueInv'
  BY <1>1, <1>5, StepQueue DEF DeliveryInv, QueueInv
<1> QED BY <1>2, <1>3, <1>4, <1>5, <1>6 DEF DeliveryInv

\* In a whole session, however often the pipeline restarts and numbers its
\* results anew, every output's viewers see utterances in the order they were
\* said, each at most once.
THEOREM SessionOrderCorrect == SessionSpec => []OrderedDelivery
<1>1. SessionInit => Settled /\ DeliveryInv
  BY InitSession, InitDelivery DEF Settled
<1>2. Settled /\ DeliveryInv => OrderedDelivery
  BY DEF DeliveryInv, QueueInv
<1> QED BY <1>1, <1>2, NextDelivery, PTL DEF SessionSpec

-----------------------------------------------------------------------------
(* The review in a whole session.                                          *)

\* Skips are final, the lists of pending messages hold what is under review and
\* nothing else, in a session of any number of pipeline runs too (handleSkip).
THEOREM SessionReviewCorrect ==
  SessionSpec => [](RevokedNeverShown /\ NoGhostPending /\ ReviewComplete)
<1> DEFINE Inv == Settled /\ DeliveryInv /\ ReviewInv /\ ListedOrSkipped
<1>1. SessionInit => Inv
  BY InitSession, InitDelivery, InitReview, InitListed DEF Settled, SessionInit
<1>2. Inv /\ [SessionNext]_allVars => Inv'
  <2> SUFFICES ASSUME Inv, [SessionNext]_allVars PROVE Inv'
    OBVIOUS
  <2>1. TypeOK /\ QueueInv /\ [Steps]_vars
    BY SessionIsStep DEF Settled, DeliveryInv
  <2>2. ReviewInv' /\ ListedOrSkipped'
    BY <2>1, StepReview, StepListed
  <2> QED BY <2>2, NextDelivery
<1>3. Inv => RevokedNeverShown /\ NoGhostPending /\ ReviewComplete
  BY ReviewListed, ListedComplete DEF Settled, ReviewInv
<1> QED BY <1>1, <1>2, <1>3, PTL DEF SessionSpec

-----------------------------------------------------------------------------
(* The audio of one pipeline.                                              *)

StreamStates == {"open", "half", "broken", "done"}
FeederStates == {"gate", "read", "send", "ended"}

SpeechType ==
  /\ read \in Nat
  /\ stream \in Seq(StreamStates) /\ feeder \in Seq(FeederStates)
  /\ holding \in Seq(Nat) /\ heard \in Seq(Seq(Nat))
  /\ Len(feeder) = Len(stream) /\ Len(holding) = Len(stream) /\ Len(heard) = Len(stream)

\* A feeder has a chunk in its hands only between its read and its send.
HoldsToSend == \A i \in Streams : feeder[i] # "send" => holding[i] = 0

\* Only an open stream is fed for good.
FedWhileOpen == \A i \in Streams : stream[i] = "open" => feeder[i] # "ended"

\* The feeders that have noticed that their streams are over
GaveUp == {i \in Ended : feeder[i] = "ended"}

\* A chunk that is lost has cost a feeder its place.
LossInv ==
  SpeechType /\ HoldsToSend /\ FedWhileOpen /\ Cardinality(Lost) <= Cardinality(GaveUp)

Somewhere(x) ==
  \/ x \in discarded
  \/ \E i \in Streams : x = holding[i] \/ \E j \in DOMAIN heard[i] : x = heard[i][j]

LEMMA LostIs == \A x : x \in Lost <=> x \in 1 .. read /\ ~Somewhere(x)
<1> SUFFICES ASSUME NEW x
             PROVE  x \in Lost <=> x \in 1 .. read /\ ~Somewhere(x)
  OBVIOUS
<1>1. x \in Held <=> \E i \in Streams : x = holding[i]
  BY DEF Held
<1>2. x \in Heard <=> \E i \in Streams : \E j \in DOMAIN heard[i] : x = heard[i][j]
  BY DEF Heard, ToSet
<1>3. x \in Lost <=> x \in 1 .. read /\ x \notin discarded /\ x \notin Held /\ x \notin Heard
  BY DEF Lost
<1> QED BY <1>1, <1>2, <1>3 DEF Somewhere

LEMMA FiniteLoss ==
  SpeechType => IsFiniteSet(Lost) /\ IsFiniteSet(GaveUp) /\ IsFiniteSet(Ended)
<1> SUFFICES ASSUME SpeechType PROVE IsFiniteSet(Lost) /\ IsFiniteSet(GaveUp) /\ IsFiniteSet(Ended)
  OBVIOUS
<1>1. IsFiniteSet(1 .. read) /\ IsFiniteSet(1 .. Len(stream))
  BY FS_Interval DEF SpeechType
<1>2. Lost \subseteq 1 .. read
  BY DEF Lost
<1>3. GaveUp \subseteq 1 .. Len(stream) /\ Ended \subseteq 1 .. Len(stream)
  BY DEF SpeechType, GaveUp, Ended, Streams
<1> QED BY <1>1, <1>2, <1>3, FS_Subset

\* Nothing is lost, or one chunk is and a feeder ends for it.
LossStep ==
  /\ GaveUp \subseteq GaveUp'
  /\ \/ Lost' \subseteq Lost
     \/ /\ \E x : Lost' \subseteq Lost \cup {x}
        /\ \E i : i \in GaveUp' /\ i \notin GaveUp

LEMMA LossStepCounts ==
  ASSUME SpeechType, SpeechType', LossStep, Cardinality(Lost) <= Cardinality(GaveUp)
  PROVE  (Cardinality(Lost) <= Cardinality(GaveUp))'
<1>1. IsFiniteSet(Lost) /\ IsFiniteSet(GaveUp)
  BY FiniteLoss
<1>2. (IsFiniteSet(Lost) /\ IsFiniteSet(GaveUp))'
  BY FiniteLoss, PTL
<1> DEFINE a == Cardinality(Lost)
           b == Cardinality(GaveUp)
           c == Cardinality(Lost')
           d == Cardinality(GaveUp')
<1>3. a \in Nat /\ b \in Nat /\ c \in Nat /\ d \in Nat /\ a <= b
  BY <1>1, <1>2, FS_CardinalityType
<1>4. b <= d
  BY <1>2, FS_Subset DEF LossStep
<1>5. CASE Lost' \subseteq Lost
  <2>1. c <= a
    BY <1>1, <1>5, FS_Subset
  <2> HIDE DEF a, b, c, d
  <2>2. c <= d
    BY <1>3, <1>4, <2>1
  <2> QED BY <2>2 DEF c, d
<1>6. ASSUME NEW x, Lost' \subseteq Lost \cup {x},
             NEW i, i \in GaveUp', i \notin GaveUp
      PROVE  c <= d
  <2>1. /\ IsFiniteSet(Lost \cup {x})
        /\ Cardinality(Lost \cup {x}) = IF x \in Lost THEN a ELSE a + 1
    BY <1>1, FS_AddElement
  <2>2. c <= Cardinality(Lost \cup {x})
    BY <1>6, <2>1, FS_Subset
  <2>3. /\ IsFiniteSet(GaveUp \cup {i})
        /\ Cardinality(GaveUp \cup {i}) = b + 1
    BY <1>1, <1>6, FS_AddElement
  <2>4. GaveUp \cup {i} \subseteq GaveUp'
    BY <1>6 DEF LossStep
  <2>5. b + 1 <= d
    BY <1>2, <2>3, <2>4, FS_Subset
  <2> HIDE DEF a, b, c, d
  <2> QED BY <1>3, <2>1, <2>2, <2>5
<1> HIDE DEF c, d
<1>7. c <= d
  BY <1>5, <1>6 DEF LossStep, c, d
<1> QED BY <1>7 DEF c, d

\* What a chunk is in does not let go of it.
LEMMA KeepsChunks ==
  ASSUME SpeechType, SpeechType', read' = read, discarded \subseteq discarded',
         Streams \subseteq Streams',
         \A i \in Streams : holding'[i] = holding[i] /\ heard'[i] = heard[i]
  PROVE  Lost' \subseteq Lost
<1> SUFFICES ASSUME NEW c \in Lost' PROVE c \in Lost
  OBVIOUS
<1>1. (\A x : x \in Lost <=> x \in 1 .. read /\ ~Somewhere(x))'
  BY LostIs, PTL
<1>2. c \in 1 .. read' /\ ~(Somewhere(c)')
  BY <1>1
<1>3. ~Somewhere(c)
  BY <1>2 DEF Somewhere
<1> QED BY <1>2, <1>3, LostIs

LEMMA StepSpeechType == SpeechType /\ [SpeechNext]_speechVars => SpeechType'
<1> SUFFICES ASSUME SpeechType, [SpeechNext]_speechVars PROVE SpeechType'
  OBVIOUS
<1> USE DEF SpeechType
<1>0. /\ \A x \in {"open", "half", "broken", "done"} : x \in StreamStates
      /\ \A x \in {"gate", "read", "send", "ended"} : x \in FeederStates
      /\ 0 \in Nat /\ <<>> \in Seq(Nat)
  BY DEF StreamStates, FeederStates
<1>1. CASE OpenStream
  <2>1. PICK s \in StreamStates, f \in FeederStates :
          stream' = Append(stream, s) /\ feeder' = Append(feeder, f)
    BY <1>0, <1>1 DEF OpenStream
  <2>2. /\ read' = read
        /\ holding' = Append(holding, 0) /\ heard' = Append(heard, <<>>)
    BY <1>1 DEF OpenStream
  <2> QED BY <1>0, <2>1, <2>2, AppendProperties
<1>2. CASE Received \/ Reconnect \/ CloseAudio
  BY <1>2 DEF Received, Reconnect, CloseAudio, ReaderStep
<1>3. ASSUME NEW i \in 1 .. MaxStreams, PassGate(i) PROVE SpeechType'
  BY <1>0, <1>3 DEF PassGate, Feed, Streams
<1>4. ASSUME NEW i \in 1 .. MaxStreams, Discard(i) PROVE SpeechType'
  BY <1>4 DEF Discard
<1>5. ASSUME NEW i \in 1 .. MaxStreams, ReadChunk(i) PROVE SpeechType'
  BY <1>0, <1>5 DEF ReadChunk, Feed, Streams
<1>6. ASSUME NEW i \in 1 .. MaxStreams, ReadError(i) PROVE SpeechType'
  <2>1. i \in DOMAIN stream /\ feeder' = [feeder EXCEPT ![i] = "ended"]
    BY <1>6 DEF ReadError, Feed, Finished, Streams
  <2>2. stream' = stream \/ stream' = [stream EXCEPT ![i] = "half"]
    BY <1>6 DEF ReadError
  <2>3. stream' \in Seq(StreamStates) /\ Len(stream') = Len(stream)
    <3>1. CASE stream' = stream
      BY <3>1
    <3>2. CASE stream' = [stream EXCEPT ![i] = "half"]
      BY <1>0, <2>1, <3>2
    <3> QED BY <2>2, <3>1, <3>2
  <2>4. feeder' \in Seq(FeederStates) /\ Len(feeder') = Len(feeder)
    BY <1>0, <2>1
  <2> QED BY <1>6, <2>3, <2>4 DEF ReadError
<1>7. ASSUME NEW i \in 1 .. MaxStreams, SendAudio(i) PROVE SpeechType'
  <2>1. /\ i \in 1 .. Len(stream) /\ i \in DOMAIN feeder
        /\ i \in DOMAIN holding /\ i \in DOMAIN heard
    BY <1>7 DEF SendAudio, Feed, Streams
  <2>2. heard[i] \in Seq(Nat) /\ holding[i] \in Nat
    BY <2>1
  <2> DEFINE more == Append(heard[i], holding[i])
             Heards == Seq(Nat)
  <2>3. more \in Heards
    BY <2>2, AppendProperties
  <2>4. heard' = heard \/ heard' = [heard EXCEPT ![i] = more]
    BY <1>7 DEF SendAudio
  <2>5. heard \in Seq(Heards)
    OBVIOUS
  <2> HIDE DEF more, Heards
  <2>6. heard' \in Seq(Heards) /\ Len(heard') = Len(heard)
    <3>1. CASE heard' = heard
      BY <2>5, <3>1
    <3>2. CASE heard' = [heard EXCEPT ![i] = more]
      BY <2>1, <2>3, <2>5, <3>2
    <3> QED BY <2>4, <3>1, <3>2
  <2>7. PICK f \in FeederStates : feeder' = [feeder EXCEPT ![i] = f]
    BY <1>0, <1>7 DEF SendAudio, Feed, AfterSendError
  <2>8. feeder' \in Seq(FeederStates) /\ Len(feeder') = Len(feeder)
    BY <2>1, <2>7
  <2>9. holding' \in Seq(Nat) /\ Len(holding') = Len(holding)
    BY <1>7, <2>1 DEF SendAudio
  <2> QED BY <1>7, <2>6, <2>8, <2>9 DEF SendAudio, Heards
<1>8. ASSUME NEW from, NEW to \in {"half", "broken", "done"}, StreamBecomes(from, to)
      PROVE  SpeechType'
  BY <1>0, <1>8 DEF StreamBecomes, Newest
<1>9. CASE AudioDies \/ PauseChanges
  BY <1>9 DEF AudioDies, PauseChanges
<1>10. CASE UNCHANGED speechVars
  BY <1>10 DEF speechVars
<1> QED BY <1>1, <1>2, <1>3, <1>4, <1>5, <1>6, <1>7, <1>8, <1>9, <1>10
        DEF SpeechNext, Feeder, StreamBreaks, StreamDone

\* A step that moves no chunk and lets no stream open again.
LEMMA NoLoss ==
  ASSUME SpeechType, SpeechType', UNCHANGED <<read, discarded, holding, heard>>,
         Streams \subseteq Streams',
         \A i \in GaveUp : stream'[i] # "open" /\ feeder'[i] = feeder[i]
  PROVE  LossStep
<1>1. Lost' \subseteq Lost
  BY KeepsChunks
<1>2. GaveUp \subseteq GaveUp'
  BY DEF GaveUp, Ended
<1> QED BY <1>1, <1>2 DEF LossStep

LEMMA StepLoss ==
  SpeechType /\ SpeechType' /\ HoldsToSend /\ FedWhileOpen /\ [SpeechNext]_speechVars
    => LossStep /\ HoldsToSend' /\ FedWhileOpen'
<1> SUFFICES ASSUME SpeechType, SpeechType', HoldsToSend, FedWhileOpen,
                    [SpeechNext]_speechVars
             PROVE  LossStep /\ HoldsToSend' /\ FedWhileOpen'
  OBVIOUS
<1>0. /\ Streams = 1 .. Len(stream) /\ Newest \in Nat
      /\ DOMAIN feeder = Streams /\ DOMAIN holding = Streams /\ DOMAIN heard = Streams
  BY DEF SpeechType, Streams, Newest
<1>1. CASE OpenStream
  <2>1. /\ Streams' = 1 .. Len(stream) + 1 /\ Streams \subseteq Streams'
    BY <1>0, <1>1 DEF OpenStream, SpeechType, Streams
  <2>2. /\ \A i \in Streams : /\ stream'[i] = stream[i] /\ feeder'[i] = feeder[i]
                              /\ holding'[i] = holding[i] /\ heard'[i] = heard[i]
        /\ holding'[Len(stream) + 1] = 0
        /\ \/ feeder'[Len(stream) + 1] = "gate"
           \/ stream'[Len(stream) + 1] = "broken"
    <3>1. PICK s \in StreamStates, f \in FeederStates :
            /\ stream' = Append(stream, s) /\ feeder' = Append(feeder, f)
            /\ f = "gate" \/ s = "broken"
      BY <1>1 DEF OpenStream, StreamStates, FeederStates
    <3>2. /\ 0 \in Nat /\ <<>> \in Seq(Nat)
          /\ holding' = Append(holding, 0) /\ heard' = Append(heard, <<>>)
      BY <1>1 DEF OpenStream
    <3>3. /\ \A i \in 1 .. Len(stream) : stream'[i] = stream[i]
          /\ stream'[Len(stream) + 1] = s
      BY <3>1, AppendProperties DEF SpeechType
    <3>4. /\ \A i \in 1 .. Len(stream) : feeder'[i] = feeder[i]
          /\ feeder'[Len(stream) + 1] = f
      BY <3>1, AppendProperties DEF SpeechType
    <3>5. /\ \A i \in 1 .. Len(stream) : holding'[i] = holding[i]
          /\ holding'[Len(stream) + 1] = 0
      BY <3>2, AppendProperties DEF SpeechType
    <3>6. \A i \in 1 .. Len(stream) : heard'[i] = heard[i]
      BY <3>2, AppendProperties DEF SpeechType
    <3> QED BY <1>0, <3>1, <3>3, <3>4, <3>5, <3>6
  <2>3. Lost' \subseteq Lost
    BY <1>1, <2>1, <2>2, KeepsChunks DEF OpenStream
  <2>4. GaveUp \subseteq GaveUp'
    BY <2>1, <2>2 DEF GaveUp, Ended
  <2>5. \A i \in Streams' : i \in Streams \/ i = Len(stream) + 1
    BY <1>0, <2>1 DEF SpeechType
  <2>6. HoldsToSend'
    BY <2>2, <2>5 DEF HoldsToSend
  <2>7. FedWhileOpen'
    BY <2>2, <2>5 DEF FedWhileOpen
  <2> QED BY <2>3, <2>4, <2>6, <2>7 DEF LossStep
<1>2. CASE UNCHANGED <<read, stream, feeder, holding, heard, discarded>>
  <2>1. LossStep
    BY <1>2, NoLoss DEF GaveUp, Ended, Streams
  <2>2. HoldsToSend' /\ FedWhileOpen'
    BY <1>2 DEF HoldsToSend, FedWhileOpen, Streams
  <2> QED BY <2>1, <2>2
<1>3. ASSUME NEW i \in 1 .. MaxStreams, PassGate(i)
      PROVE  LossStep /\ HoldsToSend' /\ FedWhileOpen'
  <2>1. \A j \in Streams : /\ j # i => feeder'[j] = feeder[j]
                           /\ j = i => feeder[j] = "gate" /\ feeder'[j] = "read"
    BY <1>0, <1>3 DEF PassGate, Feed
  <2>2. Streams' = Streams /\ UNCHANGED <<read, stream, discarded, holding, heard>>
    BY <1>3 DEF PassGate, Feed, Streams
  <2>3. LossStep
    BY <2>1, <2>2, NoLoss DEF GaveUp, Ended
  <2>4. HoldsToSend' /\ FedWhileOpen'
    BY <2>1, <2>2 DEF HoldsToSend, FedWhileOpen
  <2> QED BY <2>3, <2>4
<1>4. ASSUME NEW i \in 1 .. MaxStreams, Discard(i)
      PROVE  LossStep /\ HoldsToSend' /\ FedWhileOpen'
  <2>1. /\ read' = read + 1 /\ discarded' = discarded \cup {read'}
        /\ UNCHANGED <<stream, feeder, holding, heard>> /\ Streams' = Streams
    BY <1>4 DEF Discard, Streams
  <2>2. ASSUME NEW c \in Lost' PROVE c \in Lost
    <3>1. (\A x : x \in Lost <=> x \in 1 .. read /\ ~Somewhere(x))'
      BY LostIs, PTL
    <3>2. c \in 1 .. read' /\ ~(Somewhere(c)')
      BY <3>1
    <3>3. ~Somewhere(c) /\ c # read'
      BY <2>1, <3>2 DEF Somewhere
    <3>4. c \in 1 .. read
      BY <2>1, <3>2, <3>3 DEF SpeechType
    <3> QED BY <3>3, <3>4, LostIs
  <2>3. GaveUp' = GaveUp
    BY <2>1 DEF GaveUp, Ended
  <2>4. HoldsToSend' /\ FedWhileOpen'
    BY <2>1 DEF HoldsToSend, FedWhileOpen
  <2> QED BY <2>2, <2>3, <2>4 DEF LossStep
<1>5. ASSUME NEW i \in 1 .. MaxStreams, ReadChunk(i)
      PROVE  LossStep /\ HoldsToSend' /\ FedWhileOpen'
  <2>1. /\ read' = read + 1
        /\ UNCHANGED <<stream, discarded, heard>> /\ Streams' = Streams /\ i \in Streams
    BY <1>5 DEF ReadChunk, Feed, Streams
  <2>2. \A j \in Streams :
          /\ j # i => feeder'[j] = feeder[j] /\ holding'[j] = holding[j]
          /\ j = i => /\ feeder[j] = "read" /\ feeder'[j] = "send"
                      /\ holding[j] = 0 /\ holding'[j] = read'
    BY <1>0, <1>5 DEF ReadChunk, Feed, HoldsToSend
  <2>3. ASSUME NEW c \in Lost' PROVE c \in Lost
    <3>1. (\A x : x \in Lost <=> x \in 1 .. read /\ ~Somewhere(x))'
      BY LostIs, PTL
    <3>2. c \in 1 .. read' /\ ~(Somewhere(c)')
      BY <3>1
    <3>3. /\ c \notin discarded
          /\ \A j \in Streams : c # holding'[j] /\ \A k \in DOMAIN heard[j] : c # heard[j][k]
      BY <2>1, <3>2 DEF Somewhere
    <3>6. c # read' /\ c # 0
      BY <2>1, <2>2, <3>2, <3>3 DEF SpeechType
    <3>4. ~Somewhere(c)
      BY <2>1, <2>2, <3>3, <3>6 DEF Somewhere
    <3>5. c \in 1 .. read
      BY <2>1, <3>2, <3>6 DEF SpeechType
    <3> QED BY <3>4, <3>5, LostIs
  <2>4. GaveUp \subseteq GaveUp'
    BY <2>1, <2>2 DEF GaveUp, Ended
  <2>5. HoldsToSend' /\ FedWhileOpen'
    BY <2>1, <2>2 DEF HoldsToSend, FedWhileOpen
  <2> QED BY <2>3, <2>4, <2>5 DEF LossStep
<1>6. ASSUME NEW i \in 1 .. MaxStreams, ReadError(i)
      PROVE  LossStep /\ HoldsToSend' /\ FedWhileOpen'
  <2>1. /\ i \in Streams /\ feeder[i] \in {"read", "gate"}
        /\ feeder' = [feeder EXCEPT ![i] = "ended"]
        /\ UNCHANGED <<read, discarded, holding, heard>>
    BY <1>6 DEF ReadError, Feed, Finished
  <2>2. stream' = IF stream[i] = "open" THEN [stream EXCEPT ![i] = "half"] ELSE stream
    BY <1>6 DEF ReadError
  <2>3. Streams' = Streams
    BY <2>2 DEF Streams
  <2>4. \A j \in Streams : /\ j # i => feeder'[j] = feeder[j] /\ stream'[j] = stream[j]
                           /\ j = i => feeder'[j] = "ended" /\ stream'[j] # "open"
    BY <1>0, <2>1, <2>2
  <2>5. LossStep
    BY <2>1, <2>3, <2>4, NoLoss DEF GaveUp, Ended
  <2>6. HoldsToSend' /\ FedWhileOpen'
    BY <2>1, <2>3, <2>4 DEF HoldsToSend, FedWhileOpen
  <2> QED BY <2>5, <2>6
<1>7. ASSUME NEW i \in 1 .. MaxStreams, SendAudio(i)
      PROVE  LossStep /\ HoldsToSend' /\ FedWhileOpen'
  <2>1. /\ i \in Streams /\ feeder[i] = "send"
        /\ UNCHANGED <<read, discarded, stream>> /\ Streams' = Streams
        /\ holding' = [holding EXCEPT ![i] = 0]
    BY <1>7 DEF SendAudio, Feed, Streams
  <2>2. \A j \in Streams : /\ j # i => feeder'[j] = feeder[j] /\ holding'[j] = holding[j]
                           /\ j = i => holding'[j] = 0
                           /\ j = i /\ stream[i] = "open" => feeder'[j] = "gate"
                           /\ j = i /\ stream[i] # "open" => feeder'[j] = "ended"
    BY <1>0, <1>7, <2>1 DEF SendAudio, Feed, AfterSendError
  <2>3. HoldsToSend' /\ FedWhileOpen'
    BY <2>1, <2>2 DEF HoldsToSend, FedWhileOpen
  <2>4. GaveUp \subseteq GaveUp'
    BY <2>1, <2>2 DEF GaveUp, Ended
  <2>5. (\A x : x \in Lost <=> x \in 1 .. read /\ ~Somewhere(x))'
    BY LostIs, PTL
  <2>6. CASE stream[i] = "open"
    <3>1. heard' = [heard EXCEPT ![i] = Append(heard[i], holding[i])]
      BY <1>7, <2>6 DEF SendAudio
    <3>2. heard[i] \in Seq(Nat) /\ holding[i] \in Nat
      BY <1>0, <2>1 DEF SpeechType
    <3>3. /\ \A j \in DOMAIN heard[i] : j \in DOMAIN heard'[i] /\ heard'[i][j] = heard[i][j]
          /\ \E j \in DOMAIN heard'[i] : heard'[i][j] = holding[i]
      <4>1. heard'[i] = Append(heard[i], holding[i])
        BY <1>0, <2>1, <3>1
      <4>2. Len(heard[i]) + 1 \in DOMAIN heard'[i]
        BY <3>2, <4>1
      <4>3. heard'[i][Len(heard[i]) + 1] = holding[i]
        BY <3>2, <4>1
      <4>4. \A j \in DOMAIN heard[i] : j \in DOMAIN heard'[i] /\ heard'[i][j] = heard[i][j]
        BY <3>2, <4>1
      <4> QED BY <4>2, <4>3, <4>4
    <3>4. \A j \in Streams : j # i => heard'[j] = heard[j]
      BY <1>0, <3>1
    <3>5. ASSUME NEW c \in Lost' PROVE c \in Lost
      <4>1. c \in 1 .. read' /\ ~(Somewhere(c)')
        BY <2>5
      <4>2. /\ \A j \in Streams : c # holding'[j]
            /\ \A j \in Streams : \A k \in DOMAIN heard'[j] : c # heard'[j][k]
        BY <2>1, <4>1 DEF Somewhere
      <4>3. \A j \in Streams : \A k \in DOMAIN heard[j] : c # heard[j][k]
        <5>1. SUFFICES ASSUME NEW j \in Streams, NEW k \in DOMAIN heard[j]
                       PROVE  c # heard[j][k]
          OBVIOUS
        <5>2. CASE j = i
          BY <3>3, <4>2, <5>2
        <5>3. CASE j # i
          BY <3>4, <4>2, <5>3
        <5> QED BY <5>2, <5>3
      <4>5. \A j \in Streams : c # holding[j]
        <5>1. c # holding[i]
          BY <2>1, <3>3, <4>2
        <5> QED BY <2>2, <4>2, <5>1
      <4>4. ~Somewhere(c)
        BY <2>1, <4>1, <4>3, <4>5 DEF Somewhere
      <4> QED BY <2>1, <4>1, <4>4, LostIs
    <3> QED BY <2>3, <2>4, <3>5 DEF LossStep
  <2>7. CASE stream[i] # "open"
    <3>1. heard' = heard
      BY <1>7, <2>7 DEF SendAudio
    <3>2. ASSUME NEW c \in Lost', c # holding[i] PROVE c \in Lost
      <4>1. c \in 1 .. read' /\ ~(Somewhere(c)')
        BY <2>5
      <4>2. ~Somewhere(c)
        BY <2>1, <2>2, <3>1, <3>2, <4>1 DEF Somewhere
      <4> QED BY <2>1, <4>1, <4>2, LostIs
    <3>3. Lost' \subseteq Lost \cup {holding[i]}
      BY <3>2
    <3>4. i \in GaveUp' /\ i \notin GaveUp
      BY <2>1, <2>2, <2>7 DEF GaveUp, Ended
    <3> QED BY <2>3, <2>4, <3>3, <3>4 DEF LossStep
  <2> QED BY <2>6, <2>7
<1>8. ASSUME NEW from \in {"open", "half"}, NEW to \in {"half", "broken", "done"},
             StreamBecomes(from, to)
      PROVE  LossStep /\ HoldsToSend' /\ FedWhileOpen'
  <2>1. /\ stream' = [stream EXCEPT ![Newest] = to] /\ Streams' = Streams
        /\ UNCHANGED <<read, feeder, discarded, holding, heard>>
    BY <1>8 DEF StreamBecomes, Streams
  <2>2. \A j \in Streams : stream'[j] = stream[j] \/ stream'[j] # "open"
    BY <2>1 DEF Streams
  <2>3. LossStep
    BY <2>1, <2>2, NoLoss DEF GaveUp, Ended
  <2>4. HoldsToSend' /\ FedWhileOpen'
    BY <2>1, <2>2 DEF HoldsToSend, FedWhileOpen
  <2> QED BY <2>3, <2>4
<1>9. CASE Received \/ Reconnect \/ CloseAudio
  BY <1>2, <1>9 DEF Received, Reconnect, CloseAudio, ReaderStep
<1>10. CASE AudioDies \/ PauseChanges
  BY <1>2, <1>10 DEF AudioDies, PauseChanges
<1>11. CASE UNCHANGED speechVars
  BY <1>2, <1>11 DEF speechVars
<1> QED BY <1>1, <1>3, <1>4, <1>5, <1>6, <1>7, <1>8, <1>9, <1>10, <1>11
        DEF SpeechNext, Feeder, StreamBreaks, StreamDone

\* A feeder that outlives its stream costs one chunk of audio at most, for any
\* number of streams and chunks and however the gate and the streams change.
THEOREM LossCorrect == SpeechSpec => []LossBounded
<1>1. SpeechInit => LossInv
  <2> SUFFICES ASSUME SpeechInit PROVE LossInv
    OBVIOUS
  <2>1. SpeechType /\ HoldsToSend /\ FedWhileOpen
    BY DEF SpeechInit, SpeechType, HoldsToSend, FedWhileOpen, Streams
  <2>2. Lost = {} /\ GaveUp = {}
    BY DEF SpeechInit, Lost, GaveUp, Ended, Streams
  <2> QED BY <2>1, <2>2, FS_EmptySet DEF LossInv
<1>2. LossInv /\ [SpeechNext]_speechVars => LossInv'
  BY StepSpeechType, StepLoss, LossStepCounts DEF LossInv
<1>3. LossInv => LossBounded
  <2> SUFFICES ASSUME LossInv PROVE LossBounded
    OBVIOUS
  <2>1. IsFiniteSet(Ended) /\ IsFiniteSet(GaveUp) /\ IsFiniteSet(Lost)
    BY FiniteLoss DEF LossInv
  <2>2. Cardinality(GaveUp) <= Cardinality(Ended)
    BY <2>1, FS_Subset DEF GaveUp
  <2>3. /\ Cardinality(GaveUp) \in Nat /\ Cardinality(Ended) \in Nat
        /\ Cardinality(Lost) \in Nat
    BY <2>1, FS_CardinalityType
  <2> QED BY <2>2, <2>3 DEF LossInv, LossBounded
<1> QED BY <1>1, <1>2, <1>3, PTL DEF SpeechSpec

=============================================================================
