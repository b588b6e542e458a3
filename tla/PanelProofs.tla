----------------------------- MODULE PanelProofs ----------------------------
(***************************************************************************)
(* What holds of every panel: for any outputs, any number of sessions, of  *)
(* requests in flight and of edits.                                        *)
(***************************************************************************)
EXTENDS Panel, TLAPS

\* A Go map from outputs to booleans
Flags(m) == m \in [DOMAIN m -> BOOLEAN]

\* Every pause that is kept or on its way is a boolean.
Pauses ==
  /\ Flags(rtPaused) /\ Flags(cPaused) /\ Flags(cShown)
  /\ DOMAIN cShown \subseteq DOMAIN cPaused
  /\ \A c \in clicks : c.to \in BOOLEAN
  /\ command.to \in BOOLEAN

\* Whether or not a session is registered, the card shows what the controller
\* does, but for outputs that SyncOutputs has just added; and what it shows as
\* paused is paused even for those.
Cards ==
  /\ PausedCardIsSilent
  /\ \A o \in DOMAIN cShown \ added : cShown[o] = cPaused[o]

CardInv == Pauses /\ Cards

-----------------------------------------------------------------------------

\* An assignment to a map keeps the other keys.
LEMMA PutFlag ==
  ASSUME NEW m, Flags(m), NEW o, NEW v \in BOOLEAN
  PROVE  /\ Flags(Put(m, o, v))
         /\ DOMAIN Put(m, o, v) = DOMAIN m \cup {o}
         /\ Put(m, o, v)[o] = v
         /\ \A x \in DOMAIN m : x # o => Put(m, o, v)[x] = m[x]
BY DEF Flags, Put

\* SetPaused changes the map and the card together.
LEMMA SetPausedBoth ==
  ASSUME CardInv, NEW o, NEW v \in BOOLEAN,
         cPaused' = SetPausedMap(o, v), cShown' = SetPausedShown(o, v),
         added' = added \ {o}, rtPaused' = rtPaused,
         \A c \in clicks' : c.to \in BOOLEAN, command'.to \in BOOLEAN
  PROVE  CardInv'
<1>1. /\ Flags(cPaused') /\ DOMAIN cPaused' = DOMAIN cPaused \cup {o}
      /\ cPaused'[o] = v
      /\ \A x \in DOMAIN cPaused : x # o => cPaused'[x] = cPaused[x]
  <2>1. cPaused' = Put(cPaused, o, v) /\ Flags(cPaused)
    BY DEF CardInv, Pauses, SetPausedMap
  <2>2. /\ Put(cPaused, o, v) \in [DOMAIN cPaused \cup {o} -> BOOLEAN]
        /\ DOMAIN Put(cPaused, o, v) = DOMAIN cPaused \cup {o}
        /\ Put(cPaused, o, v)[o] = v
        /\ \A x \in DOMAIN cPaused : x # o => Put(cPaused, o, v)[x] = cPaused[x]
    BY <2>1 DEF Flags, Put
  <2> QED BY <2>1, <2>2 DEF Flags
<1>2. /\ Flags(cShown') /\ DOMAIN cShown' = DOMAIN cShown
      /\ o \in DOMAIN cShown => cShown'[o] = v
      /\ \A x \in DOMAIN cShown : x # o => cShown'[x] = cShown[x]
  BY DEF CardInv, Pauses, SetPausedShown, Flags
<1>3. Pauses'
  BY <1>1, <1>2 DEF CardInv, Pauses
<1>4. Cards'
  <2>1. \A x \in DOMAIN cShown : cShown'[x] => cPaused'[x]
    BY <1>1, <1>2 DEF CardInv, Pauses, Cards, PausedCardIsSilent
  <2>2. \A x \in DOMAIN cShown \ added' : cShown'[x] = cPaused'[x]
    BY <1>1, <1>2 DEF CardInv, Pauses, Cards
  <2> QED BY <1>2, <2>1, <2>2 DEF Cards, PausedCardIsSilent
<1> QED BY <1>3, <1>4 DEF CardInv

\* Steps that leave the controller alone
LEMMA ControllerAlone ==
  ASSUME CardInv, UNCHANGED <<cPaused, cShown, added>>, Flags(rtPaused'),
         \A c \in clicks' : c.to \in BOOLEAN, command'.to \in BOOLEAN
  PROVE  CardInv'
BY DEF CardInv, Pauses, Cards, PausedCardIsSilent

LEMMA InitCards == Init => CardInv
BY DEF Init, CardInv, Pauses, Cards, PausedCardIsSilent, Flags, NoCommand

-----------------------------------------------------------------------------

LEMMA SessionStep ==
  ASSUME CardInv, Session
  PROVE  CardInv'
<1> USE DEF Flags
<1>1. CASE GoLive
  <2>1. Flags(rtPaused')
    BY <1>1 DEF GoLive, CardInv, Pauses
  <2> QED BY <1>1, <2>1, ControllerAlone DEF GoLive, CardInv, Pauses, users
<1>2. CASE NewController
  BY <1>2 DEF NewController, CardInv, Pauses, Cards, PausedCardIsSilent, users
<1>3. CASE SetController
  <2>1. /\ cPaused' = [o \in DOMAIN cPaused \cup DOMAIN rtPaused |->
                         IF o \in DOMAIN rtPaused THEN rtPaused[o] ELSE cPaused[o]]
        /\ cShown' = [o \in DOMAIN cShown |->
                        IF o \in DOMAIN rtPaused THEN rtPaused[o] ELSE cShown[o]]
        /\ UNCHANGED <<rtPaused, clicks, command, added>>
    BY <1>3 DEF SetController, CopiedMap, users
  <2>2. Pauses'
    BY <2>1 DEF CardInv, Pauses
  <2>3. Cards'
    BY <2>1 DEF CardInv, Pauses, Cards, PausedCardIsSilent
  <2> QED BY <2>2, <2>3 DEF CardInv
<1>4. CASE LinkCommands \/ UnsetController \/ UnlinkCommands
  <2>1. UNCHANGED <<cPaused, cShown, rtPaused, clicks, command, added>>
    BY <1>4 DEF LinkCommands, UnsetController, UnlinkCommands, controller, users, history
  <2> QED BY <2>1, ControllerAlone DEF CardInv, Pauses
<1> QED BY <1>1, <1>2, <1>3, <1>4 DEF Session

LEMMA ClickStep ==
  ASSUME CardInv, NEW o, Click(o)
  PROVE  CardInv'
<1>1. (~Get(rtPaused, o)) \in BOOLEAN
  <2>1. CASE Get(rtPaused, o)
    BY <2>1
  <2>2. CASE ~Get(rtPaused, o)
    BY <2>2
  <2> QED BY <2>1, <2>2
<1>2. Flags(rtPaused')
  BY <1>1, PutFlag DEF Click, CardInv, Pauses
<1>3. \A c \in clicks' : c.to \in BOOLEAN
  <2>1. \A c \in clicks' : c \in clicks \/ c.to = ~Get(rtPaused, o)
    BY DEF Click
  <2> QED BY <1>1, <2>1 DEF CardInv, Pauses
<1>4. UNCHANGED <<cPaused, cShown, added, command>>
  BY DEF Click, controller
<1> QED BY <1>2, <1>3, <1>4, ControllerAlone DEF CardInv, Pauses

LEMMA ClickDoneStep ==
  ASSUME CardInv, NEW c \in clicks, ClickDone(c)
  PROVE  CardInv'
<1>1. /\ c.to \in BOOLEAN /\ rtPaused' = rtPaused /\ command' = command
      /\ \A x \in clicks' : x.to \in BOOLEAN
      /\ Flags(rtPaused) /\ command.to \in BOOLEAN
  BY DEF ClickDone, CardInv, Pauses
<1>2. CASE UNCHANGED <<cPaused, cShown, added>>
  BY <1>1, <1>2, ControllerAlone
<1>3. CASE /\ cPaused' = SetPausedMap(c.out, c.to)
           /\ cShown' = SetPausedShown(c.out, c.to)
           /\ added' = added \ {c.out}
  BY <1>1, <1>3, SetPausedBoth
<1> QED BY <1>2, <1>3 DEF ClickDone

LEMMA CommandStepStep ==
  ASSUME CardInv, CommandStep
  PROVE  CardInv'
<1> DEFINE o == Head(command.left)
<1>1. /\ command.to \in BOOLEAN /\ rtPaused' = rtPaused /\ clicks' = clicks
      /\ Flags(rtPaused) /\ \A c \in clicks : c.to \in BOOLEAN
  BY DEF CommandStep, CardInv, Pauses
<1>2. command'.to \in BOOLEAN
  <2>1. CASE command' = NoCommand
    BY <2>1 DEF NoCommand
  <2>2. CASE command' = [command EXCEPT !.left = Tail(@)]
    <3>1. command'.to = command.to
      BY <2>2
    <3> QED BY <1>1, <3>1
  <2> QED BY <2>1, <2>2 DEF CommandStep
<1>3. CASE UNCHANGED <<cPaused, cShown, added>>
  BY <1>1, <1>2, <1>3, ControllerAlone
<1>4. CASE /\ cPaused' = SetPausedMap(o, command.to)
           /\ cShown' = SetPausedShown(o, command.to)
           /\ added' = added \ {o}
  BY <1>1, <1>2, <1>4, SetPausedBoth
<1> QED BY <1>3, <1>4 DEF CommandStep

LEMMA CommandBegins ==
  ASSUME CardInv, NEW list, NEW v \in BOOLEAN, Command(list, v)
  PROVE  CardInv'
<1>1. /\ UNCHANGED <<cPaused, cShown, added, rtPaused, clicks>>
      /\ command'.to = v
  BY DEF Command, controller, history
<1> QED BY <1>1, ControllerAlone DEF CardInv, Pauses

LEMMA EditStep ==
  ASSUME CardInv, OutputEdit
  PROVE  CardInv'
<1>1. CASE SyncController
  <2>1. UNCHANGED <<rtPaused, clicks, command>>
    BY <1>1 DEF SyncController, users
  <2>2. CASE UNCHANGED <<controller, added>>
    BY <2>1, <2>2, ControllerAlone DEF CardInv, Pauses, controller
  <2>3. CASE /\ cPaused' = [o \in ToSet(configured) |-> o \in DOMAIN cShown => cPaused[o]]
             /\ cShown' = [o \in ToSet(configured) |-> Get(cShown, o)]
             /\ added' = added \cup (ToSet(configured) \ DOMAIN cShown)
    <3>1. Flags(cPaused') /\ Flags(cShown') /\ DOMAIN cShown' = DOMAIN cPaused'
      BY <2>3 DEF Flags, Get
    <3>2. Pauses'
      BY <2>1, <3>1 DEF CardInv, Pauses
    <3>3. \A o \in DOMAIN cShown' : cShown'[o] => cPaused'[o]
      BY <2>3 DEF CardInv, Cards, PausedCardIsSilent, Get
    <3>4. \A o \in DOMAIN cShown' \ added' : cShown'[o] = cPaused'[o]
      <4> SUFFICES ASSUME NEW o \in DOMAIN cShown' \ added'
                   PROVE  cShown'[o] = cPaused'[o]
        OBVIOUS
      <4>1. o \in ToSet(configured) /\ o \in DOMAIN cShown \ added
        BY <2>3
      <4>2. cShown[o] = cPaused[o] /\ cPaused[o] \in BOOLEAN
        BY <4>1 DEF CardInv, Cards, Pauses, Flags
      <4> QED BY <2>3, <4>1, <4>2 DEF Get
    <3> QED BY <3>2, <3>3, <3>4 DEF CardInv, Cards, PausedCardIsSilent
  <2> QED BY <1>1, <2>2, <2>3 DEF SyncController
<1>2. CASE SavePauses
  <2>1. Flags(rtPaused')
    BY <1>2, PutFlag DEF SavePauses, PausedOnSave, CardInv, Pauses
  <2>2. UNCHANGED <<cPaused, cShown, added, clicks, command>>
    BY <1>2 DEF SavePauses, controller, users
  <2> QED BY <2>1, <2>2, ControllerAlone DEF CardInv, Pauses
<1>3. CASE \/ \E o \in Outputs : DeleteOutput(o) \/ OutputSaveFails(o) \/ Reload(o)
           \/ \E o \in Outputs, a \in BOOLEAN : SaveOutput(o, a)
  <2>1. UNCHANGED <<cPaused, cShown, rtPaused, clicks, command, added>>
    BY <1>3 DEF DeleteOutput, OutputSaveFails, Reload, SaveOutput, controller, users, history
  <2> QED BY <2>1, ControllerAlone DEF CardInv, Pauses
<1> QED BY <1>1, <1>2, <1>3 DEF OutputEdit

LEMMA NextCards == CardInv /\ [Next]_panelVars => CardInv'
<1> SUFFICES ASSUME CardInv, [Next]_panelVars PROVE CardInv'
  OBVIOUS
<1>1. CASE UNCHANGED panelVars
  <2>1. UNCHANGED <<cPaused, cShown, rtPaused, clicks, command, added>>
    BY <1>1 DEF panelVars, controller, users, history
  <2> QED BY <2>1, ControllerAlone DEF CardInv, Pauses
<1>2. CASE \E o \in Outputs : ToggleAutoStart(o)
  <2>1. UNCHANGED <<cPaused, cShown, rtPaused, clicks, command, added>>
    BY <1>2 DEF ToggleAutoStart, controller, users, history
  <2> QED BY <2>1, ControllerAlone DEF CardInv, Pauses
<1>3. CASE \E v \in BOOLEAN : CommandAll(v) \/ \E o \in Outputs : CommandOne(o, v)
  BY <1>3, CommandBegins DEF CommandAll, CommandOne
<1>4. CASE \E o \in Outputs : Click(o)
  BY <1>4, ClickStep
<1>5. CASE \E c \in clicks : ClickDone(c)
  BY <1>5, ClickDoneStep
<1> QED
  BY <1>1, <1>2, <1>3, <1>4, <1>5, SessionStep, CommandStepStep, EditStep DEF Next

\* Whatever a card shows as paused is not sent, after any mixture of clicks,
\* commands, edits and sessions.
THEOREM SilentCorrect == Spec => []PausedCardIsSilent
<1>1. CardInv => PausedCardIsSilent
  BY DEF CardInv, Cards
<1> QED BY <1>1, InitCards, NextCards, PTL DEF Spec

\* And the card is right about every output that has not just been added.
THEOREM CardCorrect == Spec => []CardTellsTruth
<1>1. CardInv => CardTellsTruth
  BY DEF CardInv, Cards, CardTellsTruth
<1> QED BY <1>1, InitCards, NextCards, PTL DEF Spec

-----------------------------------------------------------------------------
(* The server's map and the controller's.                                  *)

\* A request of the button that has found the controller of this session
Live(c) == c.of # 0 /\ c.of = session

\* Sessions are numbered, requests and edits have the number of theirs, and a
\* controller that is not registered yet has been reached by none.
Numbers ==
  /\ session \in Nat
  /\ phase \in {"offline", "starting", "created", "registered", "running", "unset"}
  /\ webCtrl <=> phase \in {"registered", "running"}
  /\ cmdCtrl <=> phase \in {"running", "unset"}
  /\ \A c \in clicks : c.of \in 0 .. session
  /\ command.of \in 0 .. session
  /\ webCtrl \/ phase = "unset" => session > 0
  /\ phase \in {"starting", "created"} =>
       /\ command.of < session
       /\ \A c \in clicks : c.of < session
  /\ phase = "created" => \A o \in DOMAIN cShown : cPaused[o] = FALSE

\* As long as only one click followed the other on its output, a click in
\* flight has set the server's map to what it will tell the controller, and
\* that is the opposite of what the panel showed.
Clicks ==
  \A c \in clicks : Live(c) /\ c.out \notin mixed =>
    /\ Get(rtPaused, c.out) = c.to
    /\ \A d \in clicks : d.out = c.out => d = c
    /\ c.out \notin added => c.to = ~c.was

\* Without a click in flight the two maps agree on such an output.
Agreed ==
  webCtrl =>
    \A o \in DOMAIN cShown \ (added \cup mixed) :
      (\A c \in clicks : Live(c) => c.out # o) => Get(rtPaused, o) = cPaused[o]

\* What was paused by the button stays so in the server's map.
Asleep == \A o \in asleep : Get(rtPaused, o)

MapsInv == CardInv /\ Numbers /\ Clicks /\ Agreed /\ Asleep

-----------------------------------------------------------------------------
(* Outputs that are added on the web.                                      *)

\* An output that SaveOutput has added and SavePauses has not paused yet
Saving(o) == edit.op = "save" /\ edit.out = o

\* An edit has the number of a session; a controller has its outputs' states.
Edits ==
  /\ edit = NoEdit \/ (edit.op \in {"save", "sync"} /\ edit.since \in 0 .. session)
  /\ phase \notin {"offline", "starting"} => DOMAIN cShown = ToSet(cOutputs)

\* Nobody has resumed an untouched output, so the server's map pauses it, at
\* the latest when the edit goes on; and so does a controller that has it, or
\* the edit that adds it is older than the session.
Untouched ==
  /\ \A o \in untouched : Get(rtPaused, o) \/ Saving(o)
  /\ \A o \in untouched :
       /\ Saving(o) /\ ~Get(rtPaused, o)
       /\ edit.since = session /\ phase # "offline"
       => o \notin ToSet(cOutputs)
  /\ webCtrl => \A o \in untouched \cap DOMAIN cShown :
       cPaused[o] \/ (edit # NoEdit /\ edit.out = o /\ edit.since # session)

AddedInv == CardInv /\ Numbers /\ Edits /\ Untouched

-----------------------------------------------------------------------------

LEMMA GetPut ==
  ASSUME NEW m, Flags(m), NEW o, NEW v \in BOOLEAN
  PROVE  /\ Get(Put(m, o, v), o) = v
         /\ \A x : x # o => Get(Put(m, o, v), x) = Get(m, x)
BY DEF Flags, Put, Get

\* What SetPaused leaves in the controller's map
LEMMA SetPausedValue ==
  ASSUME Pauses, NEW o, NEW v \in BOOLEAN
  PROVE  /\ SetPausedMap(o, v)[o] = v
         /\ \A x \in DOMAIN cPaused : x # o => SetPausedMap(o, v)[x] = cPaused[x]
BY DEF Pauses, Flags, SetPausedMap, Put

LEMMA InitMaps == Init => MapsInv
<1> SUFFICES ASSUME Init PROVE MapsInv
  OBVIOUS
<1>1. Numbers
  BY DEF Init, Numbers, NoCommand
<1>2. Clicks /\ Agreed /\ Asleep
  BY DEF Init, Clicks, Agreed, Asleep
<1> QED BY <1>1, <1>2, InitCards DEF MapsInv

\* The session begins, its controller is made and takes the server's map.
LEMMA SessionMaps ==
  ASSUME MapsInv, Session
  PROVE  Numbers' /\ Clicks' /\ Agreed' /\ Asleep'
<1> USE DEF MapsInv, Numbers
<1>1. CASE GoLive
  <2>1. Numbers'
    BY <1>1 DEF GoLive, users
  <2>2. \A c \in clicks' : ~Live(c)'
    BY <1>1, <2>1 DEF GoLive, Live, users
  <2>3. Agreed' /\ Clicks'
    BY <1>1, <2>2 DEF GoLive, Agreed, Clicks
  <2>4. Asleep'
    BY <1>1 DEF GoLive, Asleep, Get
  <2> QED BY <2>1, <2>3, <2>4
<1>2. CASE NewController
  <2>1. Numbers'
    BY <1>2 DEF NewController, users
  <2>2. \A c \in clicks' : ~Live(c)'
    BY <1>2 DEF NewController, Live, users
  <2>3. Agreed' /\ Clicks'
    BY <1>2, <2>2 DEF NewController, Agreed, Clicks
  <2>4. Asleep'
    BY <1>2 DEF NewController, Asleep
  <2> QED BY <2>1, <2>3, <2>4
<1>3. CASE SetController
  <2>1. Numbers'
    BY <1>3 DEF SetController, users
  <2>2. \A c \in clicks' : ~Live(c)'
    BY <1>3 DEF SetController, Live, users
  <2>3. Clicks'
    BY <2>2 DEF Clicks
  <2>4. Agreed'
    <3>1. /\ cPaused' = CopiedMap /\ DOMAIN cShown' = DOMAIN cShown
          /\ rtPaused' = rtPaused /\ DOMAIN cShown \subseteq DOMAIN cPaused
          /\ \A o \in DOMAIN cShown : cPaused[o] = FALSE
      BY <1>3 DEF SetController, CardInv, Pauses
    <3>2. \A o \in DOMAIN cShown : Get(rtPaused, o) = CopiedMap[o]
      <4> SUFFICES ASSUME NEW o \in DOMAIN cShown
                   PROVE  Get(rtPaused, o) = CopiedMap[o]
        OBVIOUS
      <4>1. CASE o \in DOMAIN rtPaused
        BY <3>1, <4>1 DEF CopiedMap, Get, CardInv, Pauses, Flags
      <4>2. CASE o \notin DOMAIN rtPaused
        BY <3>1, <4>2 DEF CopiedMap, Get
      <4> QED BY <4>1, <4>2
    <3> QED BY <3>1, <3>2 DEF Agreed
  <2>5. Asleep'
    BY <1>3 DEF SetController, Asleep
  <2> QED BY <2>1, <2>3, <2>4, <2>5
<1>4. CASE LinkCommands \/ UnlinkCommands
  <2>1. UNCHANGED <<session, clicks, command, cShown, cPaused, rtPaused, mixed, added, asleep>>
    BY <1>4 DEF LinkCommands, UnlinkCommands, controller, users, history
  <2>2. Numbers' /\ (webCtrl' => webCtrl)
    BY <1>4, <2>1 DEF LinkCommands, UnlinkCommands
  <2> QED BY <2>1, <2>2 DEF Clicks, Agreed, Asleep, Live
<1>5. CASE UnsetController
  <2>1. UNCHANGED <<session, clicks, command, cShown, cPaused, rtPaused, mixed, added>>
    BY <1>5 DEF UnsetController, controller, users
  <2>2. Numbers' /\ webCtrl /\ ~webCtrl'
    BY <1>5, <2>1 DEF UnsetController
  <2>3. Clicks' /\ Agreed'
    BY <2>1, <2>2 DEF Clicks, Agreed, Live
  <2>4. Asleep'
    <3> SUFFICES ASSUME NEW o \in asleep' PROVE Get(rtPaused, o)
      BY <2>1 DEF Asleep
    <3>1. /\ o \in DOMAIN cShown \ (added \cup mixed) /\ cPaused[o]
          /\ \A c \in clicks : c.out # o
      BY <1>5 DEF UnsetController
    <3> QED BY <2>2, <3>1 DEF Agreed
  <2> QED BY <2>2, <2>3, <2>4
<1> QED BY <1>1, <1>2, <1>3, <1>4, <1>5 DEF Session

\* What the panel shows is the opposite of what the request asks for.
LEMMA ClickMaps ==
  ASSUME MapsInv, NEW o, Click(o)
  PROVE  Numbers' /\ Clicks' /\ Agreed' /\ Asleep'
<1> USE DEF MapsInv
<1> DEFINE n == [out |-> o, to |-> ~Get(rtPaused, o), was |-> Shown(o),
                 of |-> IF webCtrl THEN session ELSE 0]
<1>1. /\ UNCHANGED <<webCtrl, cmdCtrl, phase, session, cPaused, cShown, command, added>>
      /\ rtPaused' = Put(rtPaused, o, n.to)
      /\ clicks' = clicks \cup {n} /\ n.out = o /\ n.to = ~Get(rtPaused, o)
      /\ n.to \in BOOLEAN /\ n.was = Shown(o)
      /\ n.of = IF webCtrl THEN session ELSE 0
      /\ asleep' = asleep \ {o} /\ mixed' = mixed \cup ({o} \cap {c.out : c \in clicks})
  <2>1. n.to \in BOOLEAN
    <3>1. CASE Get(rtPaused, o)
      BY <3>1
    <3>2. CASE ~Get(rtPaused, o)
      BY <3>2
    <3> QED BY <3>1, <3>2
  <2> QED BY <2>1 DEF Click, controller
<1> HIDE DEF n
<1>2. /\ Get(rtPaused', o) = n.to
      /\ \A x : x # o => Get(rtPaused', x) = Get(rtPaused, x)
  <2>1. Flags(rtPaused) /\ n.to \in BOOLEAN
    BY <1>1 DEF CardInv, Pauses
  <2>2. /\ Get(Put(rtPaused, o, n.to), o) = n.to
        /\ \A x : x # o => Get(Put(rtPaused, o, n.to), x) = Get(rtPaused, x)
    BY <2>1, GetPut
  <2>3. rtPaused' = Put(rtPaused, o, n.to)
    BY <1>1
  <2> QED BY <2>2, <2>3, Zenon
<1>3. Numbers'
  <2>1. n.of \in 0 .. session /\ (phase \in {"starting", "created"} => n.of < session)
    <3>1. CASE webCtrl
      BY <1>1, <3>1 DEF Numbers
    <3>2. CASE ~webCtrl
      BY <1>1, <3>2 DEF Numbers
    <3> QED BY <3>1, <3>2
  <2> QED BY <1>1, <2>1 DEF Numbers
<1>4. Asleep'
  BY <1>1, <1>2 DEF Asleep
<1>5. \A c : Live(c)' = Live(c)
  BY <1>1 DEF Live
<1>6. Clicks'
  <2> SUFFICES ASSUME NEW c \in clicks', Live(c), c.out \notin mixed'
               PROVE  /\ Get(rtPaused', c.out) = c.to
                      /\ \A d \in clicks' : d.out = c.out => d = c
                      /\ c.out \notin added => c.to = ~c.was
    BY <1>1, <1>5 DEF Clicks
  <2>1. CASE c.out # o
    BY <1>1, <1>2, <2>1 DEF Clicks
  <2>2. CASE c.out = o
    <3>1. \A d \in clicks : d.out # o
      BY <1>1, <2>2
    <3>2. c = n
      BY <1>1, <2>2, <3>1
    <3>3. webCtrl
      BY <1>1, <3>2 DEF Live
    <3>4. ASSUME o \notin added PROVE n.was = Get(rtPaused, o)
      <4>1. o \in DOMAIN cShown /\ n.was = Get(cShown, o)
        BY <1>1, <3>3 DEF Click, OnPanel, Shown
      <4>2. cShown[o] = cPaused[o] /\ cShown[o] \in BOOLEAN
        BY <3>4, <4>1 DEF CardInv, Cards, Pauses, Flags
      <4>3. Get(rtPaused, o) = cPaused[o]
        BY <1>1, <2>2, <3>1, <3>3, <3>4, <4>1 DEF Agreed
      <4>4. Get(cShown, o) = cShown[o]
        BY <4>1, <4>2 DEF Get
      <4> QED BY <4>1, <4>2, <4>3, <4>4
    <3> QED BY <1>1, <1>2, <3>1, <3>2, <3>4
  <2> QED BY <2>1, <2>2
<1>7. Agreed'
  <2> SUFFICES ASSUME webCtrl, NEW x \in DOMAIN cShown \ (added \cup mixed'),
                      \A c \in clicks' : Live(c) => c.out # x
               PROVE  Get(rtPaused', x) = cPaused[x]
    BY <1>1, <1>5 DEF Agreed
  <2>1. x # o
    BY <1>1 DEF Live, Numbers
  <2> QED BY <1>1, <1>2, <2>1 DEF Agreed
<1> QED BY <1>3, <1>4, <1>6, <1>7

\* The request tells the controller what the server's map says already.
LEMMA ClickDoneMaps ==
  ASSUME MapsInv, NEW c \in clicks, ClickDone(c)
  PROVE  Numbers' /\ Clicks' /\ Agreed' /\ Asleep'
<1> USE DEF MapsInv
<1>1. /\ UNCHANGED <<webCtrl, cmdCtrl, phase, session, rtPaused, command, asleep, mixed>>
      /\ clicks' = clicks \ {c} /\ DOMAIN cShown' = DOMAIN cShown
      /\ added' \subseteq added
  BY DEF ClickDone, SetPausedShown
<1>2. Asleep'
  BY <1>1 DEF Asleep
<1>3. CASE Live(c)
  <2>1. cPaused' = SetPausedMap(c.out, c.to) /\ added' = added \ {c.out}
    BY <1>3 DEF ClickDone, Live
  <2>2. /\ cPaused'[c.out] = c.to
        /\ \A x \in DOMAIN cPaused : x # c.out => cPaused'[x] = cPaused[x]
    <3>1. c.to \in BOOLEAN
      BY DEF CardInv, Pauses
    <3> QED BY <2>1, <3>1, SetPausedValue DEF CardInv
  <2>3. DOMAIN cShown \subseteq DOMAIN cPaused
    BY DEF CardInv, Pauses
  <2>4. Numbers'
    <3>1. phase # "created"
      BY <1>3 DEF Live, Numbers
    <3> QED BY <1>1, <3>1 DEF Numbers
  <2>5. Clicks'
    BY <1>1, <1>3, <2>1 DEF Clicks, Live
  <2>6. Agreed'
    <3> SUFFICES ASSUME webCtrl, NEW x \in DOMAIN cShown \ (added' \cup mixed),
                        \A d \in clicks' : Live(d) => d.out # x
                 PROVE  Get(rtPaused, x) = cPaused'[x]
      BY <1>1 DEF Agreed, Live
    <3>1. CASE x = c.out
      BY <1>3, <2>2, <3>1 DEF Clicks
    <3>2. CASE x # c.out
      BY <1>1, <2>1, <2>2, <2>3, <3>2 DEF Agreed
    <3> QED BY <3>1, <3>2
  <2> QED BY <1>2, <2>4, <2>5, <2>6
<1>4. CASE ~Live(c)
  <2>1. UNCHANGED <<cPaused, cShown, added>>
    BY <1>4 DEF ClickDone, Live
  <2>2. Numbers'
    BY <1>1, <2>1 DEF Numbers
  <2> QED BY <1>1, <1>2, <1>4, <2>1, <2>2 DEF Clicks, Agreed, Live
<1> QED BY <1>3, <1>4

LEMMA CommandMaps ==
  ASSUME MapsInv, CommandStep
  PROVE  Numbers' /\ Clicks' /\ Agreed' /\ Asleep'
<1> USE DEF MapsInv
<1> DEFINE o == Head(command.left)
<1>1. /\ UNCHANGED <<webCtrl, cmdCtrl, phase, session, rtPaused, asleep, clicks>>
      /\ DOMAIN cShown' = DOMAIN cShown
      /\ added' \subseteq added /\ mixed \subseteq mixed'
  BY DEF CommandStep, SetPausedShown
<1>2. Asleep'
  BY <1>1 DEF Asleep
<1>3. command'.of \in 0 .. command.of
  <2>0. command.of \in Nat
    BY DEF Numbers
  <2>1. CASE command' = NoCommand
    BY <2>0, <2>1 DEF NoCommand
  <2>2. CASE command' = [command EXCEPT !.left = Tail(@)]
    <3>1. command'.of = command.of
      BY <2>2
    <3> QED BY <2>0, <3>1
  <2> QED BY <2>1, <2>2 DEF CommandStep
<1>4. CASE command.of = session
  <2>1. /\ cPaused' = SetPausedMap(o, command.to)
        /\ added' = added \ {o} /\ mixed' = mixed \cup {o}
    BY <1>4 DEF CommandStep
  <2>2. \A x \in DOMAIN cPaused : x # o => cPaused'[x] = cPaused[x]
    <3>1. command.to \in BOOLEAN
      BY DEF CardInv, Pauses
    <3> QED BY <2>1, <3>1, SetPausedValue DEF CardInv
  <2>3. DOMAIN cShown \subseteq DOMAIN cPaused
    BY DEF CardInv, Pauses
  <2>4. Numbers'
    <3>1. phase \notin {"starting", "created"}
      BY <1>4 DEF Numbers
    <3> QED BY <1>1, <1>3, <3>1 DEF Numbers
  <2>5. Clicks'
    BY <1>1, <2>1 DEF Clicks, Live
  <2>6. Agreed'
    BY <1>1, <2>1, <2>2, <2>3 DEF Agreed, Live
  <2> QED BY <1>2, <2>4, <2>5, <2>6
<1>5. CASE command.of # session
  <2>1. UNCHANGED <<cPaused, cShown, added, mixed>>
    BY <1>5 DEF CommandStep
  <2>2. Numbers'
    BY <1>1, <1>3, <2>1 DEF Numbers
  <2> QED BY <1>1, <1>2, <2>1, <2>2 DEF Clicks, Agreed, Live
<1> QED BY <1>4, <1>5

LEMMA CommandBeginsMaps ==
  ASSUME MapsInv, NEW list, NEW v, Command(list, v)
  PROVE  Numbers' /\ Clicks' /\ Agreed' /\ Asleep'
<1>1. /\ UNCHANGED <<webCtrl, phase, session, rtPaused, clicks, cPaused, cShown,
                     cmdCtrl, asleep, added, mixed>>
      /\ command'.of = session /\ cmdCtrl
  BY DEF Command, controller, history
<1> QED BY <1>1 DEF MapsInv, Numbers, Clicks, Agreed, Asleep, Live

\* Edits change the server's map and the list of outputs, and are counted as
\* mixed; outputs that stay keep their pause.
LEMMA EditMaps ==
  ASSUME MapsInv, OutputEdit
  PROVE  Numbers' /\ Clicks' /\ Agreed' /\ Asleep'
<1> USE DEF MapsInv
<1>1. /\ UNCHANGED <<webCtrl, cmdCtrl, phase, session, clicks, command>>
      /\ asleep' \subseteq asleep /\ mixed \subseteq mixed'
  BY DEF OutputEdit, DeleteOutput, OutputSaveFails, Reload, SaveOutput, SavePauses, SyncController,
         controller, users, history
<1>2. CASE SyncController
  <2>1. UNCHANGED <<rtPaused, asleep>>
    BY <1>2 DEF SyncController
  <2>2. CASE UNCHANGED <<controller, added>>
    BY <1>1, <2>1, <2>2 DEF controller, Numbers, Clicks, Agreed, Asleep, Live
  <2>3. CASE /\ webCtrl
             /\ cPaused' = [o \in ToSet(configured) |-> o \in DOMAIN cShown => cPaused[o]]
             /\ cShown' = [o \in ToSet(configured) |-> Get(cShown, o)]
             /\ added' = added \cup (ToSet(configured) \ DOMAIN cShown)
    <3>1. Numbers'
      <4>1. phase # "created"
        BY <2>3 DEF Numbers
      <4> QED BY <1>1, <4>1 DEF Numbers
    <3>2. Clicks' /\ Asleep'
      BY <1>1, <2>1, <2>3 DEF Clicks, Asleep, Live
    <3>3. Agreed'
      <4> SUFFICES ASSUME NEW o \in DOMAIN cShown' \ (added' \cup mixed'),
                          \A c \in clicks : Live(c) => c.out # o
                   PROVE  Get(rtPaused, o) = cPaused'[o]
        BY <1>1, <2>1 DEF Agreed, Live
      <4>1. o \in ToSet(configured) /\ o \in DOMAIN cShown \ (added \cup mixed)
        BY <1>1, <2>3
      <4>2. Get(rtPaused, o) = cPaused[o]
        BY <2>3, <4>1 DEF Agreed
      <4>3. cPaused[o] \in BOOLEAN
        BY <4>1 DEF CardInv, Pauses, Flags
      <4>4. cPaused'[o] = cPaused[o]
        BY <2>3, <4>1, <4>3
      <4> QED BY <4>2, <4>4
    <3> QED BY <3>1, <3>2, <3>3
  <2> QED BY <1>2, <2>2, <2>3 DEF SyncController
<1>3. CASE SavePauses
  <2>1. UNCHANGED <<cPaused, cShown, added, asleep>>
    BY <1>3 DEF SavePauses, controller
  <2>2. /\ rtPaused' = Put(rtPaused, edit.out, TRUE) /\ mixed' = mixed \cup {edit.out}
    BY <1>3 DEF SavePauses, PausedOnSave
  <2>3. /\ Get(Put(rtPaused, edit.out, TRUE), edit.out)
        /\ \A x : x # edit.out => Get(Put(rtPaused, edit.out, TRUE), x) = Get(rtPaused, x)
    <3>1. Flags(rtPaused) /\ TRUE \in BOOLEAN
      BY DEF CardInv, Pauses
    <3>2. Get(Put(rtPaused, edit.out, TRUE), edit.out) = TRUE
      BY <3>1, GetPut
    <3>3. \A x : x # edit.out => Get(Put(rtPaused, edit.out, TRUE), x) = Get(rtPaused, x)
      BY DEF Get, Put
    <3> QED BY <3>2, <3>3
  <2>4. Get(rtPaused', edit.out) /\ \A x : x # edit.out => Get(rtPaused', x) = Get(rtPaused, x)
    BY <2>2, <2>3, Zenon
  <2>5. Numbers'
    BY <1>1, <2>1 DEF Numbers
  <2>6. Clicks'
    BY <1>1, <2>1, <2>2, <2>4 DEF Clicks, Live
  <2>7. Agreed'
    BY <1>1, <2>1, <2>2, <2>4 DEF Agreed, Live
  <2>8. Asleep'
    BY <2>1, <2>4 DEF Asleep
  <2> QED BY <2>5, <2>6, <2>7, <2>8
<1>4. CASE \/ \E o \in Outputs : DeleteOutput(o) \/ OutputSaveFails(o) \/ Reload(o)
           \/ \E o \in Outputs, a \in BOOLEAN : SaveOutput(o, a)
  <2>1. UNCHANGED <<cPaused, cShown, rtPaused, added, mixed>>
    BY <1>4 DEF DeleteOutput, OutputSaveFails, Reload, SaveOutput, controller, history
  <2> QED BY <1>1, <2>1 DEF Numbers, Clicks, Agreed, Asleep, Live
<1> QED BY <1>2, <1>3, <1>4 DEF OutputEdit

LEMMA NextMaps == MapsInv /\ [Next]_panelVars => MapsInv'
<1> SUFFICES ASSUME MapsInv, [Next]_panelVars PROVE MapsInv'
  OBVIOUS
<1>1. CardInv'
  BY NextCards DEF MapsInv
<1>2. CASE UNCHANGED panelVars \/ \E o \in Outputs : ToggleAutoStart(o)
  <2>1. UNCHANGED <<webCtrl, cmdCtrl, phase, session, clicks, command, cPaused, cShown,
                    rtPaused, added, mixed, asleep>>
    BY <1>2 DEF ToggleAutoStart, panelVars, controller, users, history
  <2> QED BY <1>1, <2>1 DEF MapsInv, Numbers, Clicks, Agreed, Asleep, Live
<1>3. CASE \E v \in BOOLEAN : CommandAll(v) \/ \E o \in Outputs : CommandOne(o, v)
  BY <1>1, <1>3, CommandBeginsMaps DEF CommandAll, CommandOne, MapsInv
<1>4. CASE \E o \in Outputs : Click(o)
  BY <1>1, <1>4, ClickMaps DEF MapsInv
<1>5. CASE \E c \in clicks : ClickDone(c)
  BY <1>1, <1>5, ClickDoneMaps DEF MapsInv
<1>6. CASE Session \/ CommandStep \/ OutputEdit
  BY <1>1, <1>6, SessionMaps, CommandMaps, EditMaps DEF MapsInv
<1> QED
  BY <1>2, <1>3, <1>4, <1>5, <1>6 DEF Next

\* An output that no request is in the middle of is paused in the server's map
\* exactly if it is in the controller's, as long as it is clicked on only, for
\* any outputs, sessions and requests in flight.
THEOREM MapsCorrect == Spec => []MapsAgree
<1>1. MapsInv => MapsAgree
  BY DEF MapsInv, Agreed, MapsAgree
<1> QED BY <1>1, InitMaps, NextMaps, PTL DEF Spec

\* A click does what the button said when it was pressed (handleToggle).
THEOREM ClickCorrect == Spec => ClickTakesEffect
<1> DEFINE Effect == \A c \in clicks \ clicks' :
             /\ c.of = session /\ webCtrl /\ c.out \in DOMAIN cShown \ (added \cup mixed)
             => cPaused'[c.out] # c.was
<1>1. MapsInv /\ [Next]_panelVars => [Effect]_panelVars
  <2> SUFFICES ASSUME MapsInv, [Next]_panelVars, NEW c \in clicks \ clicks',
                      c.of = session, webCtrl,
                      c.out \in DOMAIN cShown \ (added \cup mixed)
               PROVE  cPaused'[c.out] # c.was
    OBVIOUS
  <2>1. ClickDone(c)
    <3>1. PICK d \in clicks : ClickDone(d)
      BY DEF Next, panelVars, Session, GoLive, NewController, SetController,
             LinkCommands, UnsetController, UnlinkCommands, Click, ToggleAutoStart,
             CommandAll, CommandOne, Command, CommandStep, OutputEdit, DeleteOutput,
             OutputSaveFails, Reload, SaveOutput, SavePauses, SyncController, users
    <3>2. d = c
      BY <3>1 DEF ClickDone
    <3> QED BY <3>1, <3>2
  <2>2. Live(c)
    BY DEF Live, MapsInv, Numbers
  <2>3. c.to = ~c.was
    BY <2>2 DEF MapsInv, Clicks
  <2>4. cPaused'[c.out] = c.to
    <3>1. cPaused' = SetPausedMap(c.out, c.to)
      BY <2>1, <2>2 DEF ClickDone, Live
    <3>2. Pauses /\ c.to \in BOOLEAN
      BY DEF MapsInv, CardInv, Pauses
    <3>3. SetPausedMap(c.out, c.to)[c.out] = c.to
      BY <3>2, SetPausedValue
    <3> QED BY <3>1, <3>3
  <2> QED BY <2>3, <2>4
<1> QED BY <1>1, InitMaps, NextMaps, PTL DEF Spec, ClickTakesEffect

\* What the panel paused stays paused in the next session, whatever happens in
\* between, unless somebody asks for something else (SetController).
THEOREM PersistCorrect == Spec => PausePersists
<1> DEFINE Kept == phase' = "registered" /\ phase = "created" =>
                     \A o \in asleep \cap DOMAIN cShown : cPaused'[o]
<1>1. MapsInv /\ [Next]_panelVars => [Kept]_panelVars
  <2> SUFFICES ASSUME MapsInv, [Next]_panelVars, phase' = "registered", phase = "created",
                      NEW o \in asleep \cap DOMAIN cShown
               PROVE  cPaused'[o]
    OBVIOUS
  <2>1. SetController
    BY DEF Next, panelVars, Session, GoLive, NewController, SetController,
           LinkCommands, UnsetController, UnlinkCommands, Click, ClickDone,
           ToggleAutoStart, CommandAll, CommandOne, Command, CommandStep, OutputEdit,
           DeleteOutput, OutputSaveFails, Reload, SaveOutput, SavePauses, SyncController
  <2>2. o \in DOMAIN rtPaused /\ rtPaused[o]
    BY DEF MapsInv, Asleep, Get
  <2> QED BY <2>1, <2>2 DEF SetController, CopiedMap
<1> QED BY <1>1, InitMaps, NextMaps, PTL DEF Spec, PausePersists

-----------------------------------------------------------------------------

LEMMA InitAdded == Init => AddedInv
<1> SUFFICES ASSUME Init PROVE AddedInv
  OBVIOUS
<1>1. Edits /\ Untouched
  BY DEF Init, Edits, Untouched
<1> QED BY <1>1, InitMaps DEF AddedInv, MapsInv

LEMMA SessionAdded ==
  ASSUME AddedInv, Numbers', Session
  PROVE  Edits' /\ Untouched'
<1> USE DEF AddedInv, Numbers, Edits
<1>1. edit' = edit
  BY DEF Session, GoLive, NewController, SetController, LinkCommands,
         UnsetController, UnlinkCommands, configuration
<1>2. CASE GoLive
  <2>1. /\ session' = session + 1 /\ phase' = "starting" /\ untouched' = untouched \ auto
        /\ \A o : o \notin auto /\ Get(rtPaused, o) => Get(rtPaused', o)
        /\ ~webCtrl /\ webCtrl' = webCtrl
    BY <1>2 DEF GoLive, Get
  <2>2. Edits'
    BY <1>1, <2>1
  <2>3. \A o : Saving(o) => edit.since # session'
    BY <2>1 DEF Saving, NoEdit
  <2> QED BY <1>1, <2>1, <2>2, <2>3 DEF Untouched, Saving
<1>3. CASE NewController
  BY <1>1, <1>3 DEF NewController, Untouched, Saving
<1>4. CASE SetController
  <2>1. /\ cPaused' = CopiedMap /\ DOMAIN cShown' = DOMAIN cShown
        /\ UNCHANGED <<rtPaused, session, cOutputs, untouched>>
        /\ phase = "created" /\ phase' = "registered"
    BY <1>4 DEF SetController
  <2>2. Edits'
    BY <1>1, <2>1
  <2>3. ASSUME NEW o \in untouched \cap DOMAIN cShown
        PROVE  cPaused'[o] \/ (edit # NoEdit /\ edit.out = o /\ edit.since # session)
    <3>1. o \in ToSet(cOutputs)
      BY <2>1
    <3>2. CASE Get(rtPaused, o)
      BY <2>1, <3>2 DEF Get, CopiedMap
    <3>3. CASE ~Get(rtPaused, o)
      BY <2>1, <3>1, <3>3 DEF Untouched, Saving, NoEdit
    <3> QED BY <3>2, <3>3
  <2> QED BY <1>1, <2>1, <2>2, <2>3 DEF Untouched, Saving
<1>5. CASE LinkCommands \/ UnsetController \/ UnlinkCommands
  <2>1. UNCHANGED <<cShown, cPaused, cOutputs, rtPaused, session, untouched>>
    BY <1>5 DEF LinkCommands, UnsetController, UnlinkCommands, controller, history
  <2>2. /\ phase \notin {"offline", "starting"}
        /\ webCtrl' => webCtrl
    BY <1>5 DEF LinkCommands, UnsetController, UnlinkCommands
  <2> QED BY <1>1, <2>1, <2>2 DEF Untouched, Saving
<1> QED BY <1>2, <1>3, <1>4, <1>5 DEF Session

\* Whoever sets a pause touches the output.
LEMMA PauseAdded ==
  ASSUME AddedInv, NEW o, NEW v \in BOOLEAN,
         cPaused' = SetPausedMap(o, v), DOMAIN cShown' = DOMAIN cShown,
         untouched' = untouched \ {o},
         UNCHANGED <<edit, rtPaused, session, phase, cOutputs, webCtrl>>
  PROVE  Edits' /\ Untouched'
<1>1. \A x \in DOMAIN cPaused : x # o => cPaused'[x] = cPaused[x]
  BY SetPausedValue DEF AddedInv, CardInv
<1>2. DOMAIN cShown \subseteq DOMAIN cPaused
  BY DEF AddedInv, CardInv, Pauses
<1> QED BY <1>1, <1>2 DEF AddedInv, Edits, Untouched, Saving

LEMMA ClickAdded ==
  ASSUME AddedInv, NEW o, Click(o)
  PROVE  Edits' /\ Untouched'
<1>1. /\ UNCHANGED <<edit, session, phase, cOutputs, cPaused, cShown, webCtrl>>
      /\ rtPaused' = Put(rtPaused, o, ~Get(rtPaused, o))
      /\ untouched' = untouched \ {o}
  BY DEF Click, controller, configuration
<1>2. \A x : x # o => Get(rtPaused', x) = Get(rtPaused, x)
  BY <1>1 DEF Get, Put
<1> QED BY <1>1, <1>2 DEF AddedInv, Edits, Untouched, Saving

\* An output is added: it waits for SavePauses, and for SyncController.
LEMMA SaveAdded ==
  ASSUME AddedInv, NEW o \in Outputs, NEW a \in BOOLEAN, SaveOutput(o, a)
  PROVE  Edits' /\ Untouched'
<1> USE DEF AddedInv, Numbers, Edits
<1>1. /\ UNCHANGED <<rtPaused, session, phase, cOutputs, cPaused, cShown, webCtrl>>
      /\ edit = NoEdit /\ edit' = [op |-> "save", out |-> o, since |-> session]
      /\ untouched' = IF New(o) THEN untouched \cup {o} ELSE untouched
  BY DEF SaveOutput, MayEdit, controller
<1>2. Edits'
  BY <1>1
<1>3. \A x \in untouched : Get(rtPaused, x)
  BY <1>1 DEF Untouched, Saving, NoEdit
<1>4. \A x : Saving(x)' <=> x = o
  BY <1>1 DEF Saving
<1>5. webCtrl => \A x \in untouched \cap DOMAIN cShown : cPaused[x]
  BY <1>1 DEF Untouched
<1>6. New(o) /\ phase # "offline" => o \notin ToSet(cOutputs)
  BY DEF New
<1>7. New(o) /\ webCtrl => o \notin DOMAIN cShown
  BY <1>6
<1> QED BY <1>1, <1>2, <1>3, <1>4, <1>5, <1>6, <1>7 DEF Untouched

\* SyncOutputs pauses what is new to the controller.
LEMMA SyncAdded ==
  ASSUME AddedInv, SyncController
  PROVE  Edits' /\ Untouched'
<1> USE DEF AddedInv, Numbers, Edits
<1>1. /\ UNCHANGED <<rtPaused, session, phase, webCtrl, configured>>
      /\ edit.op = "sync" /\ edit # NoEdit /\ edit' = NoEdit
      /\ untouched' = IF edit.since = session THEN untouched ELSE untouched \ {edit.out}
  BY DEF SyncController, NoEdit
<1>2. \A o \in untouched' : o \in untouched /\ Get(rtPaused, o) /\ ~Saving(o)'
  BY <1>1 DEF Untouched, Saving, NoEdit
<1>3. CASE ~webCtrl
  <2>1. UNCHANGED <<cPaused, cShown, cOutputs>>
    BY <1>3 DEF SyncController, controller
  <2> QED BY <1>1, <1>2, <1>3, <2>1 DEF Untouched
<1>4. CASE webCtrl
  <2>1. /\ cOutputs' = configured
        /\ cPaused' = [o \in ToSet(configured) |-> o \in DOMAIN cShown => cPaused[o]]
        /\ DOMAIN cShown' = ToSet(configured)
    BY <1>4 DEF SyncController
  <2>2. \A o \in untouched' \cap DOMAIN cShown' : cPaused'[o]
    BY <1>1, <1>4, <2>1 DEF Untouched
  <2> QED BY <1>1, <1>2, <1>4, <2>1, <2>2 DEF Untouched
<1> QED BY <1>3, <1>4

LEMMA SavePausesAdded ==
  ASSUME AddedInv, SavePauses
  PROVE  Edits' /\ Untouched'
<1> USE DEF AddedInv, Numbers, Edits
<1>1. /\ UNCHANGED <<session, phase, cOutputs, cPaused, cShown, webCtrl, untouched>>
      /\ edit.op = "save" /\ edit # NoEdit /\ edit' = [edit EXCEPT !.op = "sync"]
      /\ rtPaused' = Put(rtPaused, edit.out, TRUE)
  BY DEF SavePauses, PausedOnSave, controller, NoEdit
<1>2. edit'.op = "sync" /\ edit'.out = edit.out /\ edit'.since = edit.since
  BY <1>1
<1>3. \A x : Get(rtPaused, x) \/ x = edit.out => Get(rtPaused', x)
  BY <1>1 DEF Get, Put
<1> QED BY <1>1, <1>2, <1>3 DEF Untouched, Saving, NoEdit

LEMMA NextAdded == AddedInv /\ Numbers' /\ [Next]_panelVars => AddedInv'
<1> SUFFICES ASSUME AddedInv, Numbers', [Next]_panelVars PROVE Edits' /\ Untouched'
  BY NextCards DEF AddedInv
<1>1. CASE \/ UNCHANGED panelVars
           \/ \E o \in Outputs : ToggleAutoStart(o)
           \/ \E v \in BOOLEAN : CommandAll(v) \/ \E o \in Outputs : CommandOne(o, v)
  <2>1. UNCHANGED <<edit, webCtrl, phase, session, cPaused, cShown, cOutputs, rtPaused,
                    untouched>>
    BY <1>1 DEF ToggleAutoStart, CommandAll, CommandOne, Command, panelVars, controller,
                configuration, history
  <2> QED BY <2>1 DEF AddedInv, Edits, Untouched, Saving
<1>2. ASSUME NEW c \in clicks, ClickDone(c) PROVE Edits' /\ Untouched'
  <2>1. UNCHANGED <<edit, rtPaused, session, phase, cOutputs, webCtrl>>
    BY <1>2 DEF ClickDone, configuration
  <2>2. CASE UNCHANGED <<cPaused, cShown, untouched>>
    BY <2>1, <2>2 DEF AddedInv, Edits, Untouched, Saving
  <2>3. CASE /\ cPaused' = SetPausedMap(c.out, c.to)
             /\ cShown' = SetPausedShown(c.out, c.to)
             /\ untouched' = untouched \ {c.out}
    <3>1. c.to \in BOOLEAN
      BY DEF AddedInv, CardInv, Pauses
    <3>2. DOMAIN cShown' = DOMAIN cShown
      BY <2>3 DEF SetPausedShown
    <3> QED BY <2>1, <2>3, <3>1, <3>2, PauseAdded
  <2> QED BY <1>2, <2>2, <2>3 DEF ClickDone
<1>3. CASE CommandStep
  <2> DEFINE o == Head(command.left)
  <2>1. UNCHANGED <<edit, rtPaused, session, phase, cOutputs, webCtrl>>
    BY <1>3 DEF CommandStep, configuration
  <2>2. CASE UNCHANGED <<cPaused, cShown, untouched>>
    BY <2>1, <2>2 DEF AddedInv, Edits, Untouched, Saving
  <2>3. CASE /\ cPaused' = SetPausedMap(o, command.to)
             /\ cShown' = SetPausedShown(o, command.to)
             /\ untouched' = untouched \ {o}
    <3>1. command.to \in BOOLEAN
      BY DEF AddedInv, CardInv, Pauses
    <3>2. DOMAIN cShown' = DOMAIN cShown
      BY <2>3 DEF SetPausedShown
    <3> QED BY <2>1, <2>3, <3>1, <3>2, PauseAdded
  <2> QED BY <1>3, <2>2, <2>3 DEF CommandStep
<1>4. ASSUME NEW o \in Outputs, DeleteOutput(o) PROVE Edits' /\ Untouched'
  <2>1. /\ UNCHANGED <<rtPaused, session, phase, cOutputs, cPaused, cShown, webCtrl>>
        /\ edit = NoEdit /\ edit' = [op |-> "sync", out |-> o, since |-> session]
        /\ untouched' = untouched \ {o}
    BY <1>4 DEF DeleteOutput, MayEdit, controller
  <2> QED BY <2>1 DEF AddedInv, Numbers, Edits, Untouched, Saving, NoEdit
<1>5. ASSUME NEW o \in Outputs, OutputSaveFails(o) \/ Reload(o) PROVE Edits' /\ Untouched'
  <2>1. UNCHANGED <<edit, webCtrl, phase, session, cPaused, cShown, cOutputs, rtPaused,
                    untouched>>
    BY <1>5 DEF OutputSaveFails, Reload, controller, history
  <2> QED BY <2>1 DEF AddedInv, Edits, Untouched, Saving
<1>6. CASE Session
  BY <1>6, SessionAdded
<1>7. ASSUME NEW o \in Outputs, Click(o) PROVE Edits' /\ Untouched'
  BY <1>7, ClickAdded
<1>8. CASE OutputEdit
  BY <1>4, <1>5, <1>8, SaveAdded, SavePausesAdded, SyncAdded DEF OutputEdit
<1> QED
  BY <1>1, <1>2, <1>3, <1>6, <1>7, <1>8 DEF Next

\* An output added on the web is paused until somebody resumes it, in the
\* session it was added to and in the later ones.
THEOREM AddedCorrect == Spec => []AddedStartsPaused
<1>1. AddedInv => AddedStartsPaused
  BY DEF AddedInv, Untouched, AddedStartsPaused
<1>2. MapsInv => Numbers
  BY DEF MapsInv
<1> QED BY <1>1, <1>2, InitMaps, NextMaps, InitAdded, NextAdded, PTL DEF Spec

=============================================================================
