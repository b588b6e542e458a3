----------------------------- MODULE MCServices -----------------------------
(***************************************************************************)
(* Instances for TLC of what is beside the sessions: the panel with two    *)
(* outputs (o1 is configured with auto_start, o2 may be added) and with o1 *)
(* only but more clicks and edits, the configuration, the bots, how a      *)
(* message is cut and sent, the transcripts and the logins.  They share no *)
(* state, so nothing is lost by looking at one at a time: a behaviour      *)
(* first decides which of them it is about, and the others rest.           *)
(***************************************************************************)
EXTENDS Panel, HotConfig, BotPool, Sending, SplitWrap, Transcripts, LoginSessions, TLC

CONSTANTS o1, o2, b1, b2,
          PanelClicks,   \* bound: clicks under way with two outputs
          PanelEdits     \* bound: edits with two outputs

BothOutputs == {o1, o2}
OneConfigured == <<o1>>
FirstAuto == {o1}

\* Edits of an output's accounts: another order, one less
SomeLists == {<<b1, b2>>, <<b2, b1>>, <<b2>>}

VARIABLE about   \* the service that this behaviour is about

Services == {"panel", "output", "config", "bots", "sending", "split", "transcripts", "logins"}

servicesVars == <<panelVars, configVars, botVars, sendingVars, splitVars,
                  transcriptVars, loginVars, about>>

MCInit ==
  /\ about \in Services
  /\ Init /\ ConfigInit /\ BotInit /\ SendingInit /\ SplitInit
  /\ TranscriptsInit /\ LoginInit
  /\ about # "split" => text = <<>> /\ wrap = 0 /\ maxLen = 0
  /\ about # "sending" => list = <<b2>> /\ limit = [a \in Bots |-> 0]

Resting ==
  /\ about \notin {"panel", "output"} => UNCHANGED panelVars
  /\ about # "config" => UNCHANGED configVars
  /\ about # "bots" => UNCHANGED botVars
  /\ about # "sending" => UNCHANGED sendingVars
  /\ about # "split" => UNCHANGED splitVars
  /\ about # "transcripts" => UNCHANGED transcriptVars
  /\ about # "logins" => UNCHANGED loginVars

MCNext ==
  /\ \/ /\ about = "panel" /\ Next
        /\ Cardinality(clicks') <= PanelClicks /\ edits' <= PanelEdits
     \/ about = "output" /\ Next /\ ToSet(configured') \subseteq {o1}
     \/ about = "config" /\ ConfigNext
     \/ about = "bots" /\ BotNext
     \/ about = "sending" /\ SendingNext
     \/ about = "split" /\ SplitNext
     \/ about = "transcripts" /\ TranscriptsNext
     \/ about = "logins" /\ LoginNext
  /\ Resting
  /\ UNCHANGED about

MCSpec == MCInit /\ [][MCNext]_servicesVars

=============================================================================
