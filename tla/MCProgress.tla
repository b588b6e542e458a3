----------------------------- MODULE MCProgress -----------------------------
(***************************************************************************)
(* Instances for TLC of what must go on: sessions that follow their rooms, *)
(* without and with edits of the configuration file; speech recognition    *)
(* over one stream after the other; the choice of the model; the pushes to *)
(* browsers, and what a page shows.  But for the first two they share no   *)
(* state, so a behaviour first decides which of them it is about, and the  *)
(* others rest.                                                            *)
(***************************************************************************)
EXTENDS MCReload, SpeechStream, ModelFallback, StatusPush, Page, TLC

CONSTANTS ReloadFlips,    \* bound: RoomFlips in behaviours about the file
          ReloadSessions  \* bound: sessions in them

VARIABLE about   \* what this behaviour is about

Parts == {"rooms", "reload", "speech", "fallback", "push", "page"}

progressVars == <<reloadVars, speechVars, fallbackVars, pushVars, pageVars, about>>

\* A pipeline that has ended: its reader has nothing left to do.
NoPipeline ==
  /\ audio = "over" /\ read = 0 /\ gate = FALSE /\ pauses = 0
  /\ reader = "closed" /\ stream = <<>> /\ feeder = <<>>
  /\ holding = <<>> /\ heard = <<>> /\ discarded = {}

MCInit ==
  /\ about \in Parts
  /\ Init /\ FileInit /\ calm = (about = "reload")
  /\ FallbackInit /\ PushInit /\ PageInit
  /\ IF about = "speech" THEN SpeechInit ELSE NoPipeline

Resting ==
  /\ about \notin {"rooms", "reload"} => UNCHANGED lifeVars
  /\ about # "reload" => UNCHANGED fileVars
  /\ about # "speech" => UNCHANGED speechVars
  /\ about # "fallback" => UNCHANGED fallbackVars
  /\ about # "push" => UNCHANGED pushVars
  /\ about # "page" => UNCHANGED pageVars

MCNext ==
  /\ \/ about = "rooms" /\ Next
     \/ about = "reload" /\ ReloadNext /\ flips' <= ReloadFlips /\ started' <= ReloadSessions
     \/ about = "speech" /\ SpeechNext
     \/ about = "fallback" /\ FallbackNext
     \/ about = "push" /\ PushNext
     \/ about = "page" /\ PageNext
  /\ Resting
  /\ UNCHANGED about

MCSpec == MCInit /\ [][MCNext]_progressVars

FairMCSpec ==
  /\ MCSpec /\ LifeFairness /\ SpeechFairness /\ FallbackFairness
  /\ PushFairness /\ PageFairness

=============================================================================
