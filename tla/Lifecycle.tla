----------------------------- MODULE Lifecycle ------------------------------
(***************************************************************************)
(* The process of cmd/livesub/main.go around its sessions: the goroutine   *)
(* that reads the monitor's events, the goroutine of every session, the    *)
(* map of active streams they share under mu, and the registrations of the *)
(* running controller with the web server and with the command handler.    *)
(* Streamers are added and removed through the web server meanwhile.       *)
(*                                                                         *)
(* A streamer is identified by its room: the request that gives a streamer *)
(* another room is left out.  The inside of a session (agent and           *)
(* controller) is in Session.tla; here it runs until its context is        *)
(* cancelled and then takes its time to end.                               *)
(***************************************************************************)
EXTENDS Integers, Sequences, FiniteSets, SequencesExt

CONSTANTS Rooms,          \* rooms of the streamers
          InitStreamers,  \* cfg.Streamers at the start
          CommandRooms,   \* rooms that have a command handler
          MaxSessions,    \* bound: sessions started
          MaxFlips,       \* bound: times a room goes live or offline
          MaxEdits        \* bound: streamers added or removed

ASSUME StreamersAssumption == InitStreamers \in Seq(Rooms) /\ InitStreamers # <<>>
ASSUME RoomsAssumption == CommandRooms \subseteq Rooms
ASSUME LifeBoundsAssumption == /\ MaxSessions \in Nat
                               /\ MaxFlips \in Nat /\ MaxEdits \in Nat

SessionIds == 1 .. MaxSessions
None == 0

VARIABLES
  roomLive,   \* whether the streamer of a room is live (outside the program)
  flips,      \* changes of roomLive so far
  hasty,      \* rooms reported live again before their last session ended
  events,     \* monEvents
  streamers,  \* cfg.Streamers, shared by the web server and HotConfig
  edits,      \* changes of streamers so far
  changes,    \* goroutines of onStreamerChange that have not taken mu yet
  marks,      \* those that have released mu and not called SetLive yet
  active,     \* active: the session a room is mapped to, or None
  started,    \* sessions started so far
  room,       \* the room of a session
  spc,        \* where the goroutine of a session stands
  cancelled,  \* sessions whose context is cancelled
  webLive,    \* streamers[name].live of the web server
  webCtrl,    \* streamers[name].ctrl: the session whose controller it is
  cmdCtrl,    \* ctrl of the room's command handler
  crashed     \* the process has panicked

outside == <<roomLive, flips, hasty>>
monitor == <<outside, events>>
config == <<streamers, edits, changes, marks>>
sessions == <<started, room, spc, cancelled>>
web == <<webLive, webCtrl>>
lifeVars == <<monitor, config, active, sessions, web, cmdCtrl, crashed>>

Init ==
  /\ roomLive = [r \in Rooms |-> FALSE] /\ flips = 0
  /\ hasty = {} /\ events = <<>>
  /\ streamers = InitStreamers /\ edits = 0 /\ changes = 0 /\ marks = 0
  /\ active = [r \in Rooms |-> None]
  /\ started = 0 /\ cancelled = {}
  /\ room = [k \in {} |-> None] /\ spc = [k \in {} |-> ""]
  /\ webLive = [r \in Rooms |-> FALSE] /\ webCtrl = [r \in Rooms |-> None]
  /\ cmdCtrl = [r \in Rooms |-> None]
  /\ crashed = FALSE

-----------------------------------------------------------------------------
(* The monitor and the goroutine that reads its events.                    *)

\* Sessions of r that have not ended
Open(r) == {k \in DOMAIN room : room[k] = r /\ spc[k] # "ended"}

\* Still to be done for r when it is reported live again
Unfinished(r) == Open(r) # {} \/ r \in {events[i].room : i \in DOMAIN events}

\* The monitor finds that a room went live or offline and reports it.
RoomFlips(r) ==
  /\ ~crashed /\ flips < MaxFlips
  /\ hasty' = IF ~roomLive[r] /\ Unfinished(r) THEN hasty \cup {r} ELSE hasty
  /\ roomLive' = [roomLive EXCEPT ![r] = ~@]
  /\ flips' = flips + 1
  /\ events' = Append(events, [room |-> r, live |-> ~roomLive[r]])
  /\ UNCHANGED <<config, active, sessions, web, cmdCtrl, crashed>>

Configured(r) == r \in ToSet(streamers)

UnknownRoom ==
  /\ ~crashed /\ events # <<>> /\ ~Configured(Head(events).room)
  /\ events' = Tail(events)
  /\ UNCHANGED <<outside, config, active, sessions, web, cmdCtrl, crashed>>

\* A room that is active already keeps its session.
GoesLive ==
  /\ ~crashed /\ events # <<>>
  /\ LET r == Head(events).room IN
       /\ Configured(r) /\ Head(events).live
       /\ webLive' = [webLive EXCEPT ![r] = TRUE]
       /\ IF active[r] # None
          THEN UNCHANGED <<active, sessions>>
          ELSE /\ started < MaxSessions
               /\ started' = started + 1
               /\ active' = [active EXCEPT ![r] = started']
               /\ room' = [k \in 1 .. started' |-> IF k = started' THEN r ELSE room[k]]
               /\ spc' = [k \in 1 .. started' |-> IF k = started' THEN "create" ELSE spc[k]]
               /\ UNCHANGED cancelled
  /\ events' = Tail(events)
  /\ UNCHANGED <<outside, config, webCtrl, cmdCtrl, crashed>>

DropUncancelled(r) == cancelled                                 \* mutant
\* as.cancel of the session that a room is mapped to
CancelActive(r) == cancelled \cup ({active[r]} \ {None})

KeepActive(r) == active                                         \* mutant
\* delete(active, room)
Forget(r) == [active EXCEPT ![r] = None]

GoesOffline ==
  /\ ~crashed /\ events # <<>>
  /\ LET r == Head(events).room IN
       /\ Configured(r) /\ ~Head(events).live
       /\ webLive' = [webLive EXCEPT ![r] = FALSE]
       /\ cancelled' = CancelActive(r)
       /\ active' = Forget(r)
  /\ events' = Tail(events)
  /\ UNCHANGED <<outside, config, started, room, spc, webCtrl, cmdCtrl, crashed>>

-----------------------------------------------------------------------------
(* The goroutine of a session.                                             *)

At(k, p) == ~crashed /\ k \in DOMAIN spc /\ spc[k] = p
Goto(k, p) == spc' = [spc EXCEPT ![k] = p]

\* Transcript logger, controller, SetController, Start
Register(k) ==
  /\ At(k, "create") /\ Goto(k, "link")
  /\ webCtrl' = [webCtrl EXCEPT ![room[k]] = k]
  /\ UNCHANGED <<monitor, config, active, started, room, cancelled, webLive,
                 cmdCtrl, crashed>>

\* The controller set on, or taken from, the room's command handler
Linked(k, c) == IF room[k] \in CommandRooms
                THEN [cmdCtrl EXCEPT ![room[k]] = c] ELSE cmdCtrl

LinkCommands(k) ==
  /\ At(k, "link") /\ Goto(k, "run")
  /\ cmdCtrl' = Linked(k, k)
  /\ UNCHANGED <<monitor, config, active, started, room, cancelled, web, crashed>>

\* Agent.Run returns once the context is cancelled, then Stop.
RunEnds(k) ==
  /\ At(k, "run") /\ Goto(k, "unregister")
  /\ k \in cancelled
  /\ UNCHANGED <<monitor, config, active, started, room, cancelled, web,
                 cmdCtrl, crashed>>

StaysRegistered(k) == webCtrl                                   \* mutant
AllUnregistered(k) == [r \in Rooms |-> None]                     \* mutant
\* SetController(name, nil), whichever controller is set
Unregistered(k) == [webCtrl EXCEPT ![room[k]] = None]

Unregister(k) ==
  /\ At(k, "unregister") /\ Goto(k, "unlink")
  /\ webCtrl' = Unregistered(k)
  /\ UNCHANGED <<monitor, config, active, started, room, cancelled, webLive,
                 cmdCtrl, crashed>>

\* The command handler loses its controller; streamCancel
UnlinkCommands(k) ==
  /\ At(k, "unlink") /\ Goto(k, "delete")
  /\ cmdCtrl' = Linked(k, None)
  /\ cancelled' = cancelled \cup {k}
  /\ UNCHANGED <<monitor, config, active, started, room, web, crashed>>

\* delete(active, room), whichever session is there
Leave(k) ==
  /\ At(k, "delete") /\ Goto(k, "ended")
  /\ active' = Forget(room[k])
  /\ UNCHANGED <<monitor, config, started, room, cancelled, web, cmdCtrl, crashed>>

-----------------------------------------------------------------------------
(* Streamers are edited on the web: the handler, then onStreamerChange.    *)

\* A streamer is added, or the settings of a configured one are saved.
SaveStreamer(r) ==
  /\ ~crashed /\ edits < MaxEdits
  /\ streamers' = IF Configured(r) THEN streamers ELSE Append(streamers, r)
  /\ edits' = edits + 1 /\ changes' = changes + 1
  /\ UNCHANGED <<monitor, marks, active, sessions, web, cmdCtrl, crashed>>

\* The web server forgets the streamer with its controller.
RemoveStreamer(r) ==
  /\ ~crashed /\ edits < MaxEdits
  /\ Configured(r)
  /\ streamers' = SelectSeq(streamers, LAMBDA x : x # r)
  /\ webLive' = [webLive EXCEPT ![r] = FALSE]
  /\ webCtrl' = [webCtrl EXCEPT ![r] = None]
  /\ edits' = edits + 1 /\ changes' = changes + 1
  /\ UNCHANGED <<monitor, marks, active, sessions, cmdCtrl, crashed>>

\* Save fails: the handler answers 500, with the streamers as it has changed
\* them and nobody told.
StreamerSaveFails(r) ==
  /\ ~crashed /\ edits < MaxEdits
  /\ streamers' = IF Configured(r) THEN SelectSeq(streamers, LAMBDA x : x # r)
                  ELSE Append(streamers, r)
  /\ edits' = edits + 1
  /\ UNCHANGED <<monitor, changes, marks, active, sessions, web, cmdCtrl, crashed>>

\* Sessions of rooms that are not listed are cancelled.
CancelUnlisted(list) ==
  LET gone == {r \in Rooms : active[r] # None /\ r \notin ToSet(list)} IN
    /\ cancelled' = cancelled \cup {active[r] : r \in gone}
    /\ active' = [r \in Rooms |-> IF r \in gone THEN None ELSE active[r]]

\* Under mu.  hotCfg.Get() comes before it, but without a reload there is one
\* object only, whose streamers are read here; Reload keeps the two apart.
StreamerChange ==
  /\ ~crashed /\ changes > 0
  /\ CancelUnlisted(streamers)
  /\ changes' = changes - 1 /\ marks' = marks + 1
  /\ UNCHANGED <<monitor, streamers, edits, started, room, spc, web, cmdCtrl, crashed>>

\* SetLive(newCfg.Streamers[0].Name, false)
MarkFirst ==
  /\ ~crashed /\ marks > 0
  /\ marks' = marks - 1
  /\ IF streamers = <<>>
     THEN crashed' = TRUE /\ UNCHANGED webLive
     ELSE webLive' = [webLive EXCEPT ![Head(streamers)] = FALSE] /\ UNCHANGED crashed
  /\ UNCHANGED <<monitor, streamers, edits, changes, active, sessions, webCtrl, cmdCtrl>>

-----------------------------------------------------------------------------

EventLoop == UnknownRoom \/ GoesLive \/ GoesOffline
SessionGoroutine(k) ==
  \/ Register(k) \/ LinkCommands(k) \/ RunEnds(k)
  \/ Unregister(k) \/ UnlinkCommands(k) \/ Leave(k)

Next ==
  \/ \E r \in Rooms : \/ RoomFlips(r)
                      \/ SaveStreamer(r) \/ RemoveStreamer(r) \/ StreamerSaveFails(r)
  \/ EventLoop
  \/ \E k \in SessionIds : SessionGoroutine(k)
  \/ StreamerChange \/ MarkFirst

Spec == Init /\ [][Next]_lifeVars

\* The goroutines run; rooms and operators do as they please.
LifeFairness ==
  /\ WF_lifeVars(EventLoop)
  /\ \A k \in SessionIds : WF_lifeVars(SessionGoroutine(k))
  /\ WF_lifeVars(StreamerChange) /\ WF_lifeVars(MarkFirst)

FairSpec == Spec /\ LifeFairness

-----------------------------------------------------------------------------
(* Properties.                                                             *)

LifeTypeOK ==
  /\ roomLive \in [Rooms -> BOOLEAN] /\ flips \in 0 .. MaxFlips
  /\ events \in Seq([room : Rooms, live : BOOLEAN])
  /\ streamers \in Seq(Rooms) /\ edits \in 0 .. MaxEdits
  /\ changes \in 0 .. MaxEdits /\ marks \in 0 .. MaxEdits
  /\ active \in [Rooms -> {None} \cup SessionIds]
  /\ started \in 0 .. MaxSessions
  /\ room \in [1 .. started -> Rooms]
  /\ spc \in [1 .. started -> {"create", "link", "run", "unregister",
                               "unlink", "delete", "ended"}]
  /\ cancelled \subseteq 1 .. started
  /\ webLive \in [Rooms -> BOOLEAN]
  /\ webCtrl \in [Rooms -> 0 .. started] /\ cmdCtrl \in [Rooms -> 0 .. started]
  /\ crashed \in BOOLEAN /\ hasty \subseteq Rooms

\* Sessions that go on until something cancels them
Going(r) == Open(r) \ cancelled

\* The map never holds a session on its way out, so a room that comes back
\* gets a new one; nor one of another room.
ActiveIsGoing == \A r \in Rooms : active[r] # None => active[r] \in Going(r)

\* Whatever goes on can be stopped: it is what the map holds for its room.
\* Otherwise going offline cancels nothing and coming back starts a second
\* pipeline beside the first: "Auto-starts/stops translation when streamers go
\* live" (README).  It does not hold for a room that came back while its last
\* session was still ending: Leave then forgets the new one.
GoingIsActive == \A r \in Rooms \ hasty : Going(r) \subseteq {active[r]}

\* "Auto-starts/stops translation when streamers go live (30s polling)" (README):
\* a room that is offline, with all its events read, has no session going on.
\* It does not hold for a room that came back while its last session was ending:
\* that session's Leave forgets the new one, which no event can then cancel.
StoppedOffline ==
  edits = 0 /\ events = <<>> => \A r \in Rooms : ~roomLive[r] => Going(r) = {}

\* A session that runs can be paused, resumed and skipped from the panel:
\* "You can pause or resume any translation output at any time" (MANUAL).
\* Hasty rooms lose their controller to Unregister, and a streamer that was
\* removed and added again has lost it with RemoveStreamer.
PanelReachesSession ==
  edits = 0 =>
    \A r \in Rooms \ hasty, k \in SessionIds :
      k \in Going(r) /\ spc[k] = "run" => webCtrl[r] = k

\* Neither the panel nor a command reaches the controller of a session that
\* has ended.
NoDeadController ==
  \A r \in Rooms : {webCtrl[r], cmdCtrl[r]} \subseteq {None} \cup Open(r)

\* A room whose events have had their usual consequences
Calm(r) == r \notin hasty /\ edits = 0

\* A streamer's session starts when the room is live and stops when it is not.
FollowsTheRoom ==
  \A r \in Rooms :
    /\ roomLive[r] ~> ~Calm(r) \/ ~roomLive[r] \/ \E k \in Going(r) : spc[k] = "run"
    /\ ~roomLive[r] ~> ~Calm(r) \/ roomLive[r] \/ Open(r) = {}

=============================================================================
