----------------------------- MODULE SpeechStream ---------------------------
(***************************************************************************)
(* How the audio of a pipeline gets to speech recognition.  Google ends a  *)
(* stream after five minutes, so the reader goroutine of runPipeline opens *)
(* one stream after the other; each has a goroutine of its own that feeds  *)
(* it from the one audio reader, through the gate that throws audio away   *)
(* while every output is paused.  A feeder learns that its stream is over  *)
(* only when it sends, so the next stream's runs beside it for a while.    *)
(*                                                                         *)
(* Chunks of audio are numbered as they are read.  What recognition makes  *)
(* of them is in Session.                                                  *)
(***************************************************************************)
EXTENDS Integers, Sequences, FiniteSets, SequencesExt

CONSTANTS MaxChunks,  \* bound: chunks of audio
          MaxStreams, \* bound: streams tried
          MaxPauses   \* bound: times that pausing changes

ASSUME SpeechAssumption == /\ MaxChunks \in Nat /\ MaxPauses \in Nat
                           /\ MaxStreams \in Nat \ {0}

VARIABLES
  audio,     \* "alive", or "over" for the end of ffmpeg
  read,      \* chunks read from it so far
  gate,      \* IsAnyPaused
  pauses,    \* times it has changed
  reader,    \* where the reader goroutine stands
  stream,    \* the streams: "open", "half" (CloseSend), "broken" or "done"
  feeder,    \* where the feeder of each stream stands
  holding,   \* the chunk that it has read and not sent
  heard,     \* history: the chunks sent on each stream while it was open
  discarded  \* history: chunks thrown away by the gate

speechVars == <<audio, read, gate, pauses, reader, stream, feeder, holding,
                heard, discarded>>

SpeechInit ==
  /\ audio = "alive" /\ read = 0 /\ gate \in BOOLEAN /\ pauses = 0
  /\ reader = "start" /\ stream = <<>> /\ feeder = <<>>
  /\ holding = <<>> /\ heard = <<>> /\ discarded = {}

Streams == DOMAIN stream
Newest == Len(stream)

-----------------------------------------------------------------------------
(* The reader goroutine of runPipeline, with Stream.                       *)

\* StreamingRecognize and the first Send: a stream with its feeder, or an error,
\* unless this is the last try of the instance.
OpenStream ==
  /\ reader = "start"
  /\ \/ /\ reader' = "receive"
        /\ stream' = Append(stream, "open")
        /\ feeder' = Append(feeder, "gate")
     \/ /\ Newest + 1 < MaxStreams
        /\ reader' = "backoff"
        /\ stream' = Append(stream, "broken")
        /\ feeder' = Append(feeder, "ended")
  /\ holding' = Append(holding, 0) /\ heard' = Append(heard, <<>>)
  /\ UNCHANGED <<audio, read, gate, pauses, discarded>>

ReaderStep(from, to) ==
  /\ reader = from /\ reader' = to
  /\ UNCHANGED <<read, gate, pauses, stream, feeder, holding, heard, discarded>>

\* An error: try again.  The end: ffmpeg has died.
Received ==
  /\ UNCHANGED audio
  /\ \/ ReaderStep("receive", "backoff") /\ stream[Newest] = "broken"
     \/ ReaderStep("receive", "ended") /\ stream[Newest] = "done"

\* time.After, then NewGoogleSTT, which may fail.
Reconnect ==
  /\ UNCHANGED audio
  /\ ReaderStep("backoff", "start") \/ ReaderStep("backoff", "ended")

\* The results are closed, and runPipeline returns: audioReader.Close.
CloseAudio == audio' = "over" /\ ReaderStep("ended", "closed")

-----------------------------------------------------------------------------
(* The feeder of stream i.                                                 *)

StillFeeding(i) == feeder[i]                                     \* mutant
\* CloseSend, and the goroutine returns.
Finished(i) == "ended"

Feed(i, from, to) ==
  /\ i \in Streams /\ feeder[i] = from
  /\ feeder' = [feeder EXCEPT ![i] = to]
  /\ UNCHANGED <<audio, gate, pauses, reader, discarded>>

PassGate(i) ==
  /\ Feed(i, "gate", "read") /\ ~gate
  /\ UNCHANGED <<read, stream, holding, heard>>

\* pausableReader: 100 ms of audio are thrown away, and the gate looked at again.
Discard(i) ==
  /\ i \in Streams /\ feeder[i] = "gate" /\ gate
  /\ audio = "alive" /\ read < MaxChunks
  /\ read' = read + 1 /\ discarded' = discarded \cup {read'}
  /\ UNCHANGED <<audio, gate, pauses, reader, stream, feeder, holding, heard>>

ReadChunk(i) ==
  /\ Feed(i, "read", "send")
  /\ audio = "alive" /\ read < MaxChunks
  /\ read' = read + 1 /\ holding' = [holding EXCEPT ![i] = read']
  /\ UNCHANGED <<stream, heard>>

\* Behind the gate or before it
ReadError(i) ==
  /\ audio = "over"
  /\ Feed(i, "read", Finished(i)) \/ (gate /\ Feed(i, "gate", Finished(i)))
  /\ stream' = IF stream[i] = "open" THEN [stream EXCEPT ![i] = "half"] ELSE stream
  /\ UNCHANGED <<read, holding, heard>>

TriesAgain == "gate"                                             \* mutant
AfterSendError == "ended"

SendAudio(i) ==
  /\ Feed(i, "send", IF stream[i] = "open" THEN "gate" ELSE AfterSendError)
  /\ holding' = [holding EXCEPT ![i] = 0]
  /\ heard' = IF stream[i] = "open"
              THEN [heard EXCEPT ![i] = Append(@, holding[i])] ELSE heard
  /\ UNCHANGED <<read, stream>>

Feeder(i) == PassGate(i) \/ Discard(i) \/ ReadChunk(i) \/ ReadError(i) \/ SendAudio(i)

-----------------------------------------------------------------------------
(* Outside: the recognition service, ffmpeg and who pauses.                *)

StreamBecomes(from, to) ==
  /\ stream # <<>> /\ stream[Newest] = from
  /\ stream' = [stream EXCEPT ![Newest] = to]
  /\ UNCHANGED <<audio, read, gate, pauses, reader, feeder, holding, heard, discarded>>

\* The limit of five minutes, or the network
StreamBreaks == Newest < MaxStreams /\ \E s \in {"open", "half"} : StreamBecomes(s, "broken")
\* All results have come after CloseSend.
StreamDone == StreamBecomes("half", "done")

AudioDies ==
  /\ audio = "alive" /\ audio' = "over"
  /\ UNCHANGED <<read, gate, pauses, reader, stream, feeder, holding, heard, discarded>>

PauseChanges ==
  /\ pauses < MaxPauses /\ pauses' = pauses + 1 /\ gate' = ~gate
  /\ UNCHANGED <<audio, read, reader, stream, feeder, holding, heard, discarded>>

SpeechNext ==
  \/ OpenStream \/ Received \/ Reconnect \/ CloseAudio
  \/ \E i \in 1 .. MaxStreams : Feeder(i)
  \/ StreamBreaks \/ StreamDone \/ AudioDies \/ PauseChanges

SpeechSpec == SpeechInit /\ [][SpeechNext]_speechVars

\* The goroutines run, and the service answers a stream that was closed.
SpeechFairness ==
  /\ WF_speechVars(OpenStream) /\ WF_speechVars(Received)
  /\ WF_speechVars(Reconnect) /\ WF_speechVars(CloseAudio)
  /\ \A i \in 1 .. MaxStreams : WF_speechVars(Feeder(i))
  /\ WF_speechVars(StreamDone)

-----------------------------------------------------------------------------

Ended == {i \in Streams : stream[i] # "open"}
\* In a feeder's hands, and recognised
Held == {holding[i] : i \in Streams}
Heard == UNION {ToSet(heard[i]) : i \in Streams}
Lost == 1 .. read \ (discarded \cup Held \cup Heard)

\* What is said while a stream is replaced is recognised by the next one: the
\* feeder that outlives its stream takes one chunk from it (100 ms) and no more,
\* although nothing tells it, and the two read from one reader meanwhile.
LossBounded == Cardinality(Lost) <= Cardinality(Ended)

\* When ffmpeg has died the pipeline ends, so that the agent can restart it,
\* and every goroutine that read from it returns: "Automatically restarts
\* ffmpeg + STT if the audio stream dies" (agent.go:36); also while everything
\* is paused, and whichever stream is being replaced.
DeadAudioEndsPipeline ==
  audio = "over" ~> reader = "closed" /\ \A i \in Streams : feeder[i] = "ended"

=============================================================================
