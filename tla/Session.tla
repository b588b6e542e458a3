------------------------------ MODULE Session -------------------------------
(***************************************************************************)
(* One live session: the agent of internal/agent/agent.go (the Run loop    *)
(* that restarts the pipeline, the goroutine that reads speech results,    *)
(* the dispatcher and its bounded pool of translation workers) composed    *)
(* with the Controller it submits to, from the room going live to the      *)
(* return of Controller.Stop.                                              *)
(*                                                                         *)
(* What is said is numbered by utterance over the whole session, while the *)
(* pipeline numbers its results from zero in every run.                    *)
(***************************************************************************)
EXTENDS Controller

CONSTANTS ResultsCap,  \* capacity of resultsCh (50 in the code)
          Workers      \* slots of sem, max(3, 3 * outputs) in the code

ASSUME PoolAssumption == ResultsCap \in Nat \ {0} /\ Workers \in Nat \ {0}

VARIABLES
  apc,      \* where Run, runPipeline and the caller of Stop stand
  stt,      \* the goroutine that runs sttClient.Stream
  results,  \* resultsCh; closed when stt = "ended"
  spoken,   \* utterances so far; MaxSeq bounds it
  seq,      \* runPipeline's seq
  held,     \* the result waiting for a slot, as a sequence of at most one
  workers   \* results being translated

agent == <<apc, stt, results, spoken, seq, held, workers>>
allVars == <<vars, agent>>

Result == [utt : Nat, seq : Nat]

SessionInit ==
  /\ Init
  /\ apc = "boot" /\ stt = "ended" /\ results = <<>>
  /\ spoken = 0 /\ seq = 0 /\ held = <<>> /\ workers = {}

\* IsAnyPaused: true when there are outputs and all of them are paused.  A
\* paused entry of an output that is gone counts as well.
IsAnyPaused == DOMAIN paused # {} /\ \A o \in DOMAIN paused : paused[o]

-----------------------------------------------------------------------------
(* Run and runPipeline.                                                    *)

\* Stream URL, ffmpeg and the speech client are there, or one of them fails.
Boot ==
  /\ apc = "boot" /\ ~ctxDone
  /\ \/ apc' = "dispatch" /\ stt' = "streaming" /\ seq' = 0
     \/ apc' = "backoff" /\ UNCHANGED <<stt, seq>>
  /\ UNCHANGED <<vars, results, spoken, held, workers>>

\* The Run loop and the wait for the next attempt look at the context.
GiveUp ==
  /\ apc \in {"boot", "backoff"} /\ ctxDone
  /\ apc' = "returned"
  /\ UNCHANGED <<vars, stt, results, spoken, seq, held, workers>>

Retry ==
  /\ apc = "backoff"
  /\ apc' = "boot"
  /\ UNCHANGED <<vars, stt, results, spoken, seq, held, workers>>

\* A final result is dropped while everything is paused, numbered otherwise.
Dispatch ==
  /\ apc = "dispatch" /\ results # <<>>
  /\ results' = Tail(results)
  /\ IF IsAnyPaused
     THEN UNCHANGED <<apc, seq, held>>
     ELSE /\ held' = <<[utt |-> Head(results), seq |-> seq]>>
          /\ seq' = seq + 1
          /\ apc' = "acquire"
  /\ UNCHANGED <<vars, stt, spoken, workers>>

\* sem <- struct{}{} blocks while every slot is taken.
SlotFree == Cardinality(workers) < Workers

Acquire ==
  /\ apc = "acquire" /\ SlotFree
  /\ workers' = workers \cup ToSet(held)
  /\ held' = <<>>
  /\ apc' = "dispatch"
  /\ UNCHANGED <<vars, stt, results, spoken, seq>>

NeverClosed == FALSE                                            \* mutant
\* The speech goroutine closes resultsCh when it ends.
ResultsClosed == stt = "ended"

\* resultsCh is closed and empty: the range loop ends.
PipelineEnds ==
  /\ apc = "dispatch" /\ ResultsClosed /\ results = <<>>
  /\ apc' = "wait"
  /\ UNCHANGED <<vars, stt, results, spoken, seq, held, workers>>

WorkersForgotten == TRUE                                        \* mutant
\* translateWg.Wait
WorkersDone == workers = {}

PipelineReturns ==
  /\ apc = "wait" /\ WorkersDone
  /\ apc' = IF ctxDone THEN "returned" ELSE "backoff"
  /\ UNCHANGED <<vars, stt, results, spoken, seq, held, workers>>

\* TranslateAndSubmit: a failed translation is submitted without text.
WorkerSubmits(r) ==
  /\ r \in workers
  /\ \E texts \in SUBSET Outputs :
       Submit([utt |-> r.utt, seq |-> r.seq, texts |-> texts])
  /\ workers' = workers \ {r}
  /\ UNCHANGED <<apc, stt, results, spoken, seq, held>>

\* After Run the stream goroutine stops the controller and waits for it.
StopController ==
  /\ apc = "returned"
  /\ Stop
  /\ apc' = "stopping"
  /\ UNCHANGED <<stt, results, spoken, seq, held, workers>>

StopReturns ==
  /\ apc = "stopping" /\ pc = "done"
  /\ apc' = "stopped"
  /\ UNCHANGED <<vars, stt, results, spoken, seq, held, workers>>

-----------------------------------------------------------------------------
(* The speech goroutine.                                                   *)

\* Something is said.  pausableReader throws its audio away while everything
\* is paused; otherwise its final result is sent to resultsCh.
Speak ==
  /\ stt = "streaming" /\ ~ctxDone /\ spoken < MaxSeq
  /\ spoken' = spoken + 1
  /\ IF IsAnyPaused THEN UNCHANGED results
     ELSE /\ Len(results) < ResultsCap
          /\ results' = Append(results, spoken)
  /\ UNCHANGED <<vars, apc, stt, seq, held, workers>>

\* The stream ends with an error (the 305 s limit) and is opened again, or
\* the new client fails and the goroutine closes resultsCh.
SttReconnects ==
  /\ \/ stt = "streaming" /\ stt' = "retry"
     \/ stt = "retry" /\ stt' \in {"streaming", "ended"}
  /\ UNCHANGED <<vars, apc, results, spoken, seq, held, workers>>

\* Audio EOF or a cancelled context ends the goroutine.
SttEnds ==
  /\ stt = "streaming" \/ (stt = "retry" /\ ctxDone)
  /\ stt' = "ended"
  /\ UNCHANGED <<vars, apc, results, spoken, seq, held, workers>>

-----------------------------------------------------------------------------

Agent ==
  \/ Boot \/ GiveUp \/ Retry \/ Dispatch \/ Acquire
  \/ PipelineEnds \/ PipelineReturns \/ StopController \/ StopReturns

ControllerStep ==
  /\ \/ Work \/ Select \/ TimePasses
     \/ Cancel
     \/ \E o \in Outputs, p \in BOOLEAN : SetPaused(o, p)
     \/ \E id \in Skippable : SkipPending(id)
  /\ UNCHANGED agent

SessionNext ==
  \/ Agent
  \/ \E r \in workers : WorkerSubmits(r)
  \/ Speak \/ SttReconnects \/ SttEnds
  \/ ControllerStep

SessionSpec == SessionInit /\ [][SessionNext]_allVars

\* Goroutines keep running; a sender blocked on c.ch is served in turn; after
\* a cancellation the speech stream ends.
SessionFairness ==
  /\ WF_allVars(Work /\ UNCHANGED agent)
  /\ WF_allVars(TimePasses /\ UNCHANGED agent)
  /\ SF_allVars(Receive /\ UNCHANGED agent)
  /\ SF_allVars(TickerFires /\ UNCHANGED agent)
  /\ SF_allVars((BeginDrain \/ Exit) /\ UNCHANGED agent)
  /\ WF_allVars(Agent)
  /\ WF_allVars(ctxDone /\ SttEnds)
  /\ \A u \in Seqs : SF_allVars(\E r \in workers : r.utt = u /\ WorkerSubmits(r))

FairSession == SessionSpec /\ SessionFairness

-----------------------------------------------------------------------------
(* Properties.                                                             *)

\* Nobody sends on the closed channel: when Stop closes c.ch no worker is
\* left, and none can start.
NoSendOnClosed == closed => workers = {} /\ held = <<>>

\* A session whose context is cancelled comes to its end: "Stop gracefully
\* shuts down the controller" (controller.go).  It holds while everything said
\* fits into c.ch (MaxSeq <= ChanCap): the run goroutine leaves on the
\* cancelled context without reading the rest, and a worker whose Submit finds
\* the channel full then waits for ever, and Run with it.
ShutdownCompletes == ctxDone ~> apc = "stopped"

\* A submitted utterance does not stay in the reordering buffer for ever,
\* unless the session ends: "Automatically restarts ffmpeg + STT if the audio
\* stream dies" (agent.go).  After a restart the numbers begin again at zero
\* and the senders' do not.
RestartedLinesPass ==
  \A u \in Seqs :
    (\E o \in DOMAIN buf : \E e \in buf[o] : e.utt = u)
      ~> \/ ctxDone
         \/ ~ \E o \in DOMAIN buf : \E e \in buf[o] : e.utt = u

=============================================================================
