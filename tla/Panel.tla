------------------------------- MODULE Panel --------------------------------
(***************************************************************************)
(* What is paused.  The web server keeps it for a streamer across sessions *)
(* (streamerRuntime.paused); the controller of the running session keeps   *)
(* its own map, which decides what is sent, and a copy in the state of     *)
(* every output, which the panel shows.  They are changed by the button of *)
(* the panel, by danmaku commands, by edits of the outputs, by auto-start  *)
(* and by the beginning of a session, each in its own goroutine and few of *)
(* them in one step.                                                       *)
(*                                                                         *)
(* There is one streamer, and its sessions do not overlap: what happens    *)
(* when they do is in Lifecycle.tla.                                       *)
(***************************************************************************)
EXTENDS Integers, Sequences, FiniteSets, SequencesExt

CONSTANTS Outputs,     \* names an output may have
          InitOutputs, \* outputs configured when the process starts
          InitAuto,    \* those with auto_start
          MaxSessions, \* bound: sessions
          MaxClicks,   \* bound: requests of the button in flight
          MaxEdits     \* bound: edits of outputs

ASSUME PanelOutputsAssumption == /\ InitOutputs \in Seq(Outputs)
                                 /\ InitAuto \subseteq ToSet(InitOutputs)
ASSUME PanelBoundsAssumption == /\ MaxSessions \in Nat /\ MaxClicks \in Nat
                                /\ MaxEdits \in Nat

VARIABLES
  configured, \* sc.Outputs, the names
  auto,       \* outputs whose configuration says auto_start
  onFile,     \* both, as they were last written to the file
  edit,       \* the edit of an output between its steps, or NoEdit
  edits,      \* edits so far
  rtPaused,   \* rt.paused, a map that outlives sessions
  webCtrl,    \* rt.ctrl is the controller of the running session
  phase,      \* where the session is
  session,    \* sessions so far
  cOutputs,   \* the copy of sc.Outputs the session starts with; then c.outputs
  cPaused,    \* c.paused of the session's controller
  cShown,     \* outputStates[o].Paused for the outputs of the controller
  cmdCtrl,    \* the command handler has the controller
  command,    \* the command being carried out: outputs left, and to what
  clicks,     \* requests between rt.paused and SetPaused
  asleep,     \* outputs that the panel paused before the last session ended,
              \* and for which nobody has asked for anything else since
  untouched,  \* outputs added on the web that nobody has resumed since
  added,      \* outputs that SyncOutputs gave to the running controller and
              \* whose pause nobody has set since
  mixed       \* outputs whose pause was set since the session began by other
              \* means than one click after the other

configuration == <<configured, auto, onFile, edit, edits>>
controller == <<cOutputs, cPaused, cShown>>
users == <<command, clicks>>
history == <<asleep, untouched, added, mixed>>
panelVars == <<configuration, rtPaused, webCtrl, phase, session, controller,
               cmdCtrl, users, history>>

NoEdit == [op |-> "none"]
NoCommand == [left |-> <<>>, to |-> FALSE, of |-> 0]

\* m[o] of a Go map with FALSE for a key that is missing
Get(m, o) == o \in DOMAIN m /\ m[o]
\* m[o] = v
Put(m, o, v) == [x \in DOMAIN m \cup {o} |-> IF x = o THEN v ELSE m[x]]

Init ==
  /\ configured = InitOutputs /\ auto = InitAuto
  /\ onFile = [outputs |-> InitOutputs, auto |-> InitAuto]
  /\ edit = NoEdit /\ edits = 0
  /\ rtPaused = [o \in ToSet(InitOutputs) |-> o \notin InitAuto]
  /\ webCtrl = FALSE /\ phase = "offline" /\ session = 0
  /\ cOutputs = <<>>
  /\ cPaused = [o \in {} |-> FALSE] /\ cShown = [o \in {} |-> FALSE]
  /\ cmdCtrl = FALSE
  /\ command = NoCommand /\ clicks = {}
  /\ asleep = {} /\ untouched = {} /\ added = {} /\ mixed = {}

\* Controller.SetPaused: the map, and the output's state if there is one
OnlyTheCard(o, v) == cPaused                                    \* mutant
SetPausedMap(o, v) == Put(cPaused, o, v)
OnlyTheMap(o, v) == cShown                                      \* mutant
SetPausedShown(o, v) == IF o \in DOMAIN cShown THEN [cShown EXCEPT ![o] = v] ELSE cShown

-----------------------------------------------------------------------------
(* The session: SetLive, New, SetController, and the end.                  *)

\* The monitor reports the room live: auto_start outputs are resumed for the
\* new session, which takes its copy of the outputs.
GoLive ==
  /\ phase = "offline" /\ session < MaxSessions
  /\ session' = session + 1
  /\ rtPaused' = [o \in DOMAIN rtPaused \cup (auto \cap ToSet(configured)) |->
                    IF o \in auto \cap ToSet(configured) THEN FALSE ELSE rtPaused[o]]
  /\ cOutputs' = configured
  /\ phase' = "starting"
  /\ asleep' = asleep \ auto /\ untouched' = untouched \ auto
  /\ UNCHANGED <<configuration, webCtrl, cPaused, cShown, cmdCtrl, users, added, mixed>>

NewController ==
  /\ phase = "starting"
  /\ cPaused' = [o \in ToSet(cOutputs) |-> FALSE]
  /\ cShown' = [o \in ToSet(cOutputs) |-> FALSE]
  /\ phase' = "created"
  /\ added' = {}
  /\ UNCHANGED <<configuration, rtPaused, webCtrl, session, cOutputs,
                 cmdCtrl, users, asleep, untouched, mixed>>

NothingCopied == cPaused                                        \* mutant
\* rt.paused over c.paused, keys of outputs that are gone included
CopiedMap == [o \in DOMAIN cPaused \cup DOMAIN rtPaused |->
                IF o \in DOMAIN rtPaused THEN rtPaused[o] ELSE cPaused[o]]

\* Before Start: the controller takes the state the server has kept.
SetController ==
  /\ phase = "created"
  /\ webCtrl' = TRUE
  /\ cPaused' = CopiedMap
  /\ cShown' = [o \in DOMAIN cShown |->
                  IF o \in DOMAIN rtPaused THEN rtPaused[o] ELSE cShown[o]]
  /\ phase' = "registered"
  /\ mixed' = {}
  /\ UNCHANGED <<configuration, rtPaused, session, cOutputs, cmdCtrl, users,
                 asleep, untouched, added>>

LinkCommands ==
  /\ phase = "registered"
  /\ cmdCtrl' = TRUE
  /\ phase' = "running"
  /\ UNCHANGED <<configuration, rtPaused, webCtrl, session, controller, users, history>>

\* The controller has stopped: SetController(name, nil).
UnsetController ==
  /\ phase = "running"
  /\ webCtrl' = FALSE
  /\ asleep' = {o \in DOMAIN cShown : cPaused[o]}
                \ (auto \cup {c.out : c \in clicks} \cup added \cup mixed)
  /\ phase' = "unset"
  /\ UNCHANGED <<configuration, rtPaused, session, controller, cmdCtrl, users,
                 untouched, added, mixed>>

UnlinkCommands ==
  /\ phase = "unset"
  /\ cmdCtrl' = FALSE
  /\ phase' = "offline"
  /\ UNCHANGED <<configuration, rtPaused, webCtrl, session, controller, users, history>>

-----------------------------------------------------------------------------
(* handleToggle                                                            *)

\* The badge of an output: the controller's state, or the server's without one
Shown(o) == IF webCtrl THEN Get(cShown, o) ELSE Get(rtPaused, o)
OnPanel == IF webCtrl THEN DOMAIN cShown ELSE ToSet(configured)

\* Under s.mu; "was" is what the panel showed, "of" the controller found.
Click(o) ==
  /\ Cardinality(clicks) < MaxClicks
  /\ o \in OnPanel
  /\ rtPaused' = Put(rtPaused, o, ~Get(rtPaused, o))
  /\ clicks' = clicks \cup {[out |-> o, to |-> ~Get(rtPaused, o), was |-> Shown(o),
                             of |-> IF webCtrl THEN session ELSE 0]}
  /\ asleep' = asleep \ {o} /\ untouched' = untouched \ {o}
  /\ mixed' = mixed \cup ({o} \cap {c.out : c \in clicks})
  /\ UNCHANGED <<configuration, webCtrl, phase, session, controller, cmdCtrl,
                 command, added>>

\* After s.mu is released: ctrl.SetPaused, of a controller that may be gone.
ClickDone(c) ==
  /\ c \in clicks
  /\ clicks' = clicks \ {c}
  /\ IF c.of # 0 /\ c.of = session
     THEN /\ cPaused' = SetPausedMap(c.out, c.to)
          /\ cShown' = SetPausedShown(c.out, c.to)
          /\ added' = added \ {c.out} /\ untouched' = untouched \ {c.out}
     ELSE UNCHANGED <<cPaused, cShown, added, untouched>>
  /\ UNCHANGED <<configuration, rtPaused, webCtrl, phase, session, cOutputs,
                 cmdCtrl, command, asleep, mixed>>

\* Save: what the configuration in memory has become is in the file.
SavedToFile == onFile' = [outputs |-> configured', auto |-> auto']

\* handleToggleAutoStart: the configuration, nothing that runs; an error of Save
\* is ignored.
ToggleAutoStart(o) ==
  /\ o \in ToSet(configured)
  /\ edits < MaxEdits /\ edits' = edits + 1
  /\ auto' = IF o \in auto THEN auto \ {o} ELSE auto \cup {o}
  /\ UNCHANGED <<configured, edit, rtPaused, webCtrl, phase, session, controller,
                 cmdCtrl, users, history>>
  /\ SavedToFile \/ UNCHANGED onFile

-----------------------------------------------------------------------------
(* Danmaku commands: one goroutine, which reads the outputs and then calls *)
(* SetPaused for each.                                                     *)

Command(list, v) ==
  /\ cmdCtrl /\ command.left = <<>>
  /\ command' = [left |-> list, to |-> v, of |-> session]
  /\ UNCHANGED <<configuration, rtPaused, webCtrl, phase, session, controller,
                 cmdCtrl, clicks, history>>

CommandAll(v) == cOutputs # <<>> /\ Command(cOutputs, v)
CommandOne(o, v) == o \in DOMAIN cShown /\ Command(<<o>>, v)

CommandStep ==
  /\ command.left # <<>>
  /\ command' = IF Len(command.left) = 1 THEN NoCommand
                ELSE [command EXCEPT !.left = Tail(@)]
  /\ LET o == Head(command.left) IN
       IF command.of = session
       THEN /\ cPaused' = SetPausedMap(o, command.to)
            /\ cShown' = SetPausedShown(o, command.to)
            /\ untouched' = untouched \ {o}
            /\ added' = added \ {o} /\ mixed' = mixed \cup {o}
       ELSE UNCHANGED <<cPaused, cShown, untouched, added, mixed>>
  /\ UNCHANGED <<configuration, rtPaused, webCtrl, phase, session, cOutputs,
                 cmdCtrl, clicks, asleep>>

-----------------------------------------------------------------------------
(* Outputs are saved and deleted on the web, without s.mu.                 *)

MayEdit == edits < MaxEdits /\ edit = NoEdit

\* An output of the same name is replaced, another one appended.
Added(o) == IF o \in ToSet(configured) THEN configured ELSE Append(configured, o)

\* An output that neither the configuration nor the running session has.
New(o) == o \notin ToSet(configured) /\ (phase = "offline" \/ o \notin ToSet(cOutputs))

\* The configuration in memory is changed.
SetOutput(o, a) ==
  /\ configured' = Added(o)
  /\ auto' = IF a THEN auto \cup {o} ELSE auto \ {o}

DropOutput(o) ==
  /\ o \in ToSet(configured)
  /\ configured' = SelectSeq(configured, LAMBDA x : x # o)
  /\ auto' = auto \ {o}

\* It is written to the file.
SaveOutput(o, a) ==
  /\ MayEdit
  /\ SetOutput(o, a) /\ SavedToFile
  /\ edit' = [op |-> "save", out |-> o, since |-> session]
  /\ edits' = edits + 1
  /\ asleep' = asleep \ {o}
  /\ untouched' = IF New(o) THEN untouched \cup {o} ELSE untouched
  /\ UNCHANGED <<rtPaused, webCtrl, phase, session, controller, cmdCtrl, users,
                 added, mixed>>

NotPaused == rtPaused                                           \* mutant
\* rt.paused[req.Name] = true, whether the output is new or not
PausedOnSave == Put(rtPaused, edit.out, TRUE)

SavePauses ==
  /\ edit.op = "save"
  /\ rtPaused' = PausedOnSave
  /\ edit' = [edit EXCEPT !.op = "sync"]
  /\ mixed' = mixed \cup {edit.out}
  /\ UNCHANGED <<configured, auto, onFile, edits, webCtrl, phase, session, controller,
                 cmdCtrl, users, asleep, untouched, added>>

DeleteOutput(o) ==
  /\ MayEdit
  /\ DropOutput(o) /\ SavedToFile
  /\ edit' = [op |-> "sync", out |-> o, since |-> session]
  /\ edits' = edits + 1
  /\ asleep' = asleep \ {o} /\ untouched' = untouched \ {o}
  /\ UNCHANGED <<rtPaused, webCtrl, phase, session, controller, cmdCtrl, users,
                 added, mixed>>

\* Save fails: the handler answers 500 and leaves the configuration as it has
\* changed it; it pauses nothing and tells no controller.
OutputSaveFails(o) ==
  /\ MayEdit
  /\ DropOutput(o) \/ \E a \in BOOLEAN : SetOutput(o, a)
  /\ edits' = edits + 1
  /\ asleep' = asleep \ {o}
  /\ UNCHANGED <<onFile, edit, rtPaused, webCtrl, phase, session, controller, cmdCtrl,
                 users, untouched, added, mixed>>

\* Controller.SyncOutputs: a new output is paused, but its state says it is not.
SyncController ==
  /\ edit.op = "sync"
  /\ edit' = NoEdit
  /\ untouched' = IF edit.since = session THEN untouched ELSE untouched \ {edit.out}
  /\ mixed' = mixed \cup {edit.out}
  /\ IF webCtrl
     THEN /\ cOutputs' = configured
          /\ cPaused' = [o \in ToSet(configured) |-> o \in DOMAIN cShown => cPaused[o]]
          /\ cShown' = [o \in ToSet(configured) |-> Get(cShown, o)]
          /\ added' = added \cup (ToSet(configured) \ DOMAIN cShown)
     ELSE UNCHANGED <<controller, added>>
  /\ UNCHANGED <<configured, auto, onFile, edits, rtPaused, webCtrl, phase, session,
                 cmdCtrl, users, asleep>>

\* An output is added to the file by hand: HotConfig reloads it, with what the
\* file has and not what could not be saved, and UpdateConfig knows of new
\* streamers only.
Reload(o) ==
  /\ MayEdit
  /\ o \notin ToSet(onFile.outputs)
  /\ configured' = Append(onFile.outputs, o)
  /\ auto' = onFile.auto
  /\ SavedToFile
  /\ edits' = edits + 1
  /\ UNCHANGED <<edit, rtPaused, webCtrl, phase, session, controller,
                 cmdCtrl, users, history>>

-----------------------------------------------------------------------------

Session ==
  \/ GoLive \/ NewController \/ SetController \/ LinkCommands
  \/ UnsetController \/ UnlinkCommands

OutputEdit ==
  \/ \E o \in Outputs : DeleteOutput(o) \/ OutputSaveFails(o) \/ Reload(o)
  \/ \E o \in Outputs, a \in BOOLEAN : SaveOutput(o, a)
  \/ SavePauses \/ SyncController

Next ==
  \/ Session
  \/ \E o \in Outputs : Click(o) \/ ToggleAutoStart(o)
  \/ \E c \in clicks : ClickDone(c)
  \/ \E v \in BOOLEAN : CommandAll(v) \/ \E o \in Outputs : CommandOne(o, v)
  \/ CommandStep
  \/ OutputEdit

Spec == Init /\ [][Next]_panelVars

-----------------------------------------------------------------------------
(* Properties.                                                             *)

PanelTypeOK ==
  /\ configured \in Seq(Outputs) /\ auto \subseteq Outputs
  /\ \A i, j \in DOMAIN configured : configured[i] = configured[j] => i = j
  /\ edits \in 0 .. MaxEdits /\ session \in 0 .. MaxSessions
  /\ DOMAIN rtPaused \subseteq Outputs /\ \A o \in DOMAIN rtPaused : rtPaused[o] \in BOOLEAN
  /\ DOMAIN cPaused \subseteq Outputs /\ \A o \in DOMAIN cPaused : cPaused[o] \in BOOLEAN
  /\ DOMAIN cShown \subseteq DOMAIN cPaused
  /\ \A o \in DOMAIN cShown : cShown[o] \in BOOLEAN
  /\ cOutputs \in Seq(Outputs)
  /\ phase \in {"offline", "starting", "created", "registered", "running", "unset"}
  /\ webCtrl = (phase \in {"registered", "running"})
  /\ cmdCtrl = (phase \in {"running", "unset"})
  /\ Cardinality(clicks) <= MaxClicks
  /\ command.left \in Seq(Outputs)
  /\ asleep \cup untouched \cup added \cup mixed \subseteq Outputs

\* A card that says Paused is silent: whatever the controller shows as paused
\* it does not send, after any mixture of clicks, commands and edits.
PausedCardIsSilent == \A o \in DOMAIN cShown : cShown[o] => cPaused[o]

\* And a card that says Translating is not paused: "Status badge: Translating
\* (blue) or Paused (orange)" (MANUAL).  The exception is an output added to a
\* running session: SyncOutputs pauses it and leaves its state as it is.
CardTellsTruth ==
  webCtrl => \A o \in DOMAIN cShown \ added : cShown[o] = cPaused[o]

\* For an output that no request is in the middle of, the server's map is the
\* controller's: that is what the next session starts from, "output name ->
\* paused (persists across streams)" (server.go).  Commands, edits and two
\* requests for one output at once make them differ.
MapsAgree ==
  webCtrl =>
    \A o \in DOMAIN cShown \ (added \cup mixed \cup {c.out : c \in clicks}) :
      Get(rtPaused, o) = cPaused[o]

\* The button does what it says: a click on the card of a running session
\* changes what the card showed (MANUAL, section 3), unless something else than
\* the button has been used since the session began.
ClickTakesEffect ==
  [][\A c \in clicks \ clicks' :
       /\ c.of = session /\ webCtrl /\ c.out \in DOMAIN cShown \ (added \cup mixed)
       => cPaused'[c.out] # c.was]_panelVars

\* "The pause state persists across stream sessions (if the streamer goes
\* offline and comes back, the output stays paused)" (MANUAL).  A pause by a
\* command does not.
PausePersists ==
  [][phase' = "registered" /\ phase = "created" =>
       \A o \in asleep \cap DOMAIN cShown : cPaused'[o]]_panelVars

\* "Newly added outputs start in paused state - you need to resume them on the
\* Control Panel" (MANUAL), in this session or a later one.  One that is added
\* while a session begins may not be (edit.since).  It holds of requests that
\* were answered with success: an output whose Save failed is in memory all the
\* same, without a pause, and the next session translates it (OutputSaveFails).
AddedStartsPaused ==
  webCtrl /\ edit = NoEdit =>
    \A o \in untouched \cap DOMAIN cShown : cPaused[o]

=============================================================================
