--------------------------- MODULE LifecycleProofs --------------------------
(***************************************************************************)
(* What holds of the sessions of every process: for any rooms, any number  *)
(* of sessions, changes of the rooms and edits of the streamers.           *)
(***************************************************************************)
EXTENDS Reload, TLAPS

Steps == {"create", "link", "run", "unregister", "unlink", "delete", "ended"}
Event == [room : Rooms, live : BOOLEAN]

\* The types of what sessions are made of
Framed ==
  /\ roomLive \in [Rooms -> BOOLEAN] /\ events \in Seq(Event)
  /\ started \in Nat
  /\ active \in [Rooms -> 0 .. started]
  /\ room \in [1 .. started -> Rooms] /\ spc \in [1 .. started -> Steps]
  /\ cancelled \subseteq 1 .. started
  /\ webCtrl \in [Rooms -> 0 .. started] /\ cmdCtrl \in [Rooms -> 0 .. started]

\* A session leaves its run only after it has been cancelled.
LeavesCancelled ==
  \A k \in DOMAIN spc :
    spc[k] \in {"unregister", "unlink", "delete", "ended"} => k \in cancelled

\* The panel knows of a session from Register to Unregister at most.
WebHolds ==
  \A r \in Rooms : webCtrl[r] # None =>
    /\ room[webCtrl[r]] = r
    /\ spc[webCtrl[r]] \in {"link", "run", "unregister"}

\* A command handler knows of it from LinkCommands to UnlinkCommands.
CommandsHold ==
  \A r \in Rooms : cmdCtrl[r] # None =>
    /\ r \in CommandRooms /\ room[cmdCtrl[r]] = r
    /\ spc[cmdCtrl[r]] \in {"run", "unregister", "unlink"}

SessionInv == Framed /\ LeavesCancelled /\ ActiveIsGoing /\ WebHolds /\ CommandsHold

-----------------------------------------------------------------------------

\* A session that the map holds, seen from its parts
LEMMA ActiveMeaning ==
  Framed => (ActiveIsGoing <=>
               \A q \in Rooms : active[q] # None =>
                 /\ active[q] \in 1 .. started /\ room[active[q]] = q
                 /\ spc[active[q]] # "ended" /\ active[q] \notin cancelled)
BY DEF ActiveIsGoing, Going, Open, Framed

\* What the maps hold, if anything, is the number of a session.
LEMMA HeldInRange ==
  ASSUME Framed, NEW r \in Rooms
  PROVE  /\ webCtrl[r] # None => webCtrl[r] \in 1 .. started
         /\ cmdCtrl[r] # None => cmdCtrl[r] \in 1 .. started
         /\ active[r] # None => active[r] \in 1 .. started
<1>1. webCtrl[r] \in 0 .. started /\ cmdCtrl[r] \in 0 .. started /\ active[r] \in 0 .. started
  BY DEF Framed
<1>2. started \in Nat
  BY DEF Framed
<1> QED BY <1>1, <1>2 DEF None

\* The queue of events
LEMMA EventQueue ==
  ASSUME events \in Seq(Event)
  PROVE  /\ events # <<>> => Head(events).room \in Rooms /\ Tail(events) \in Seq(Event)
         /\ \A e \in Event : Append(events, e) \in Seq(Event)
<1>1. events # <<>> => Head(events) \in Event /\ Tail(events) \in Seq(Event)
  OBVIOUS
<1>2. \A e \in Event : Append(events, e) \in Seq(Event)
  OBVIOUS
<1>3. \A e \in Event : e.room \in Rooms
  BY DEF Event
<1> QED BY <1>1, <1>2, <1>3

LEMMA InitSession == Init => SessionInv
<1> SUFFICES ASSUME Init PROVE SessionInv
  OBVIOUS
<1> USE DEF Init, None
<1>1. /\ Framed /\ LeavesCancelled
      /\ WebHolds /\ CommandsHold
  BY DEF Framed, Event, LeavesCancelled, WebHolds, CommandsHold, Steps
<1>2. ActiveIsGoing
  BY DEF ActiveIsGoing
<1> QED BY <1>1, <1>2 DEF SessionInv

\* One session goes from one step to the next.
LEMMA GotoStep ==
  ASSUME Framed, NEW k, NEW p \in Steps, NEW q, At(k, q), Goto(k, p)
  PROVE  /\ k \in 1 .. started /\ spc[k] = q /\ room[k] \in Rooms
         /\ spc' \in [1 .. started -> Steps]
         /\ spc'[k] = p
         /\ \A j \in 1 .. started : j # k => spc'[j] = spc[j]
BY DEF Framed, At, Goto

-----------------------------------------------------------------------------
(* One lemma for each group of actions.                                    *)

LEMMA MonitorStep ==
  ASSUME SessionInv, NEW r \in Rooms, RoomFlips(r)
  PROVE  SessionInv'
<1>1. Framed'
  <2>1. [room |-> r, live |-> ~roomLive[r]] \in Event
    BY DEF Event, SessionInv, Framed
  <2>2. events' \in Seq(Event)
    BY <2>1, EventQueue DEF SessionInv, Framed, RoomFlips
  <2>3. roomLive' \in [Rooms -> BOOLEAN]
    BY DEF SessionInv, Framed, RoomFlips
  <2> QED BY <2>2, <2>3 DEF SessionInv, Framed, RoomFlips, sessions, web
<1>2. UNCHANGED <<active, started, room, spc, cancelled, webCtrl, cmdCtrl>>
  BY DEF RoomFlips, sessions, web
<1> QED
  BY <1>1, <1>2 DEF SessionInv, LeavesCancelled, ActiveIsGoing, Going, Open,
     WebHolds, CommandsHold

LEMMA UnknownRoomStep ==
  ASSUME SessionInv, UnknownRoom
  PROVE  SessionInv'
<1>1. Framed'
  BY EventQueue DEF SessionInv, Framed, UnknownRoom, outside, sessions, web
<1>2. UNCHANGED <<active, started, room, spc, cancelled, webCtrl, cmdCtrl>>
  BY DEF UnknownRoom, sessions, web
<1> QED
  BY <1>1, <1>2 DEF SessionInv, LeavesCancelled, ActiveIsGoing, Going, Open,
     WebHolds, CommandsHold

LEMMA GoesLiveStep ==
  ASSUME SessionInv, GoesLive
  PROVE  SessionInv'
<1> DEFINE r == Head(events).room
<1>1. r \in Rooms /\ Tail(events) \in Seq(Event)
  BY EventQueue DEF SessionInv, Framed, GoesLive
<1>2. CASE active[r] # None
  <2>1. Framed'
    BY <1>1, <1>2 DEF SessionInv, Framed, GoesLive, outside, sessions
  <2>2. UNCHANGED <<active, started, room, spc, cancelled, webCtrl, cmdCtrl>>
    BY <1>2 DEF GoesLive, sessions
  <2> QED
    BY <2>1, <2>2 DEF SessionInv, LeavesCancelled, ActiveIsGoing, Going, Open,
       WebHolds, CommandsHold
<1>3. CASE active[r] = None
  <2>1. /\ started' = started + 1 /\ cancelled' = cancelled
        /\ active' = [active EXCEPT ![r] = started']
        /\ room' = [k \in 1 .. started' |-> IF k = started' THEN r ELSE room[k]]
        /\ spc' = [k \in 1 .. started' |-> IF k = started' THEN "create" ELSE spc[k]]
        /\ events' = Tail(events) /\ roomLive' = roomLive
        /\ webCtrl' = webCtrl /\ cmdCtrl' = cmdCtrl
    BY <1>3 DEF GoesLive, outside
  <2>2. Framed'
    BY <1>1, <2>1 DEF SessionInv, Framed, Steps
  <2>3. \A k \in 1 .. started : /\ room'[k] = room[k] /\ spc'[k] = spc[k]
                                /\ k # started' /\ k \in 1 .. started'
    <3>1. started \in Nat
      BY DEF SessionInv, Framed
    <3>2. \A k \in 1 .. started : k # started' /\ k \in 1 .. started'
      BY <2>1, <3>1
    <3> QED BY <2>1, <3>2
  <2>4. room'[started'] = r /\ spc'[started'] = "create" /\ started' \notin cancelled
    BY <2>1 DEF SessionInv, Framed
  <2>5. LeavesCancelled'
    BY <2>1, <2>3, <2>4 DEF SessionInv, Framed, LeavesCancelled
  <2>6. ActiveIsGoing'
    <3>1. started \in Nat /\ started' \in 1 .. started' /\ active \in [Rooms -> 0 .. started]
      BY <2>1 DEF SessionInv, Framed
    <3>2. ASSUME NEW q \in Rooms, active'[q] # None
          PROVE  /\ active'[q] \in 1 .. started' /\ room'[active'[q]] = q
                 /\ spc'[active'[q]] # "ended" /\ active'[q] \notin cancelled'
      <4>1. CASE q = r
        BY <1>1, <2>1, <2>4, <3>1, <4>1
      <4>2. CASE q # r
        <5>1. active'[q] = active[q]
          BY <2>1, <3>1, <4>2
        <5>2. /\ active[q] \in 1 .. started /\ room[active[q]] = q
              /\ spc[active[q]] # "ended" /\ active[q] \notin cancelled
          BY <3>2, <5>1, ActiveMeaning DEF SessionInv
        <5>3. active[q] \in 1 .. started' /\ cancelled' = cancelled
          BY <2>1, <2>3, <5>2
        <5> QED BY <2>3, <5>1, <5>2, <5>3
      <4> QED BY <4>1, <4>2
    <3>3. (Framed => (ActiveIsGoing <=>
            \A q \in Rooms : active[q] # None =>
              /\ active[q] \in 1 .. started /\ room[active[q]] = q
              /\ spc[active[q]] # "ended" /\ active[q] \notin cancelled))'
      BY ActiveMeaning, PTL
    <3> QED BY <2>2, <3>2, <3>3
  <2>7. /\ \A q \in Rooms : webCtrl[q] # None => webCtrl[q] \in 1 .. started
        /\ \A q \in Rooms : cmdCtrl[q] # None => cmdCtrl[q] \in 1 .. started
    BY HeldInRange DEF SessionInv
  <2>8. WebHolds'
    BY <2>1, <2>3, <2>7 DEF SessionInv, WebHolds
  <2>9. CommandsHold'
    BY <2>1, <2>3, <2>7 DEF SessionInv, CommandsHold
  <2> QED BY <2>2, <2>5, <2>6, <2>8, <2>9 DEF SessionInv
<1> QED BY <1>2, <1>3

\* Cancelling what a set of rooms is mapped to, and forgetting it, leaves the
\* other rooms as they are: no session belongs to two rooms.
LEMMA CancelStep ==
  ASSUME SessionInv, NEW gone \in SUBSET Rooms,
         cancelled' = cancelled \cup ({active[r] : r \in gone} \ {None}),
         active' = [r \in Rooms |-> IF r \in gone THEN None ELSE active[r]],
         events' \in Seq(Event),
         UNCHANGED <<roomLive, started, room, spc, cmdCtrl>>,
         webCtrl' = webCtrl
  PROVE  SessionInv'
<1>1. Framed'
  <2>1. cancelled' \subseteq 1 .. started
    <3>1. \A r \in gone : active[r] # None => active[r] \in 1 .. started
      BY HeldInRange DEF SessionInv
    <3>2. {active[r] : r \in gone} \ {None} \subseteq 1 .. started
      BY <3>1, Zenon
    <3>3. cancelled \subseteq 1 .. started
      BY DEF SessionInv, Framed
    <3> QED BY <3>2, <3>3
  <2>2. active' \in [Rooms -> 0 .. started]
    BY DEF SessionInv, Framed, None
  <2> QED BY <2>1, <2>2 DEF SessionInv, Framed
<1>2. LeavesCancelled' /\ WebHolds' /\ CommandsHold'
  BY DEF SessionInv, LeavesCancelled, WebHolds, CommandsHold
<1>3. \A r \in Rooms \ gone, q \in gone :
        active[r] # None => active[r] # active[q]
  BY ActiveMeaning DEF SessionInv, Framed
<1>4. ActiveIsGoing'
  BY <1>1, <1>3 DEF SessionInv, Framed, ActiveIsGoing, Going, Open, None
<1> QED BY <1>1, <1>2, <1>4 DEF SessionInv

LEMMA GoesOfflineStep ==
  ASSUME SessionInv, GoesOffline
  PROVE  SessionInv'
<1> DEFINE r == Head(events).room
<1>1. r \in Rooms /\ events' \in Seq(Event)
  BY EventQueue DEF SessionInv, Framed, GoesOffline
<1>2. /\ cancelled' = cancelled \cup ({active[q] : q \in {r}} \ {None})
      /\ active' = [q \in Rooms |-> IF q \in {r} THEN None ELSE active[q]]
  BY <1>1 DEF SessionInv, Framed, GoesOffline, CancelActive, Forget
<1>3. UNCHANGED <<roomLive, started, room, spc, cmdCtrl>> /\ webCtrl' = webCtrl
  BY DEF GoesOffline, outside
<1> QED BY <1>1, <1>2, <1>3, CancelStep

\* onStreamerChange, whatever list it has
LEMMA UnlistedStep ==
  ASSUME SessionInv, NEW list, CancelUnlisted(list),
         UNCHANGED <<roomLive, events, started, room, spc, webCtrl, cmdCtrl>>
  PROVE  SessionInv'
<1> DEFINE gone == {r \in Rooms : active[r] # None /\ r \notin ToSet(list)}
<1>1. cancelled' = cancelled \cup ({active[r] : r \in gone} \ {None})
  BY DEF CancelUnlisted
<1>2. active' = [r \in Rooms |-> IF r \in gone THEN None ELSE active[r]]
  BY DEF CancelUnlisted
<1>3. events' \in Seq(Event)
  BY DEF SessionInv, Framed
<1> HIDE DEF gone
<1>4. gone \subseteq Rooms
  BY DEF gone
<1> QED BY <1>1, <1>2, <1>3, <1>4, CancelStep

LEMMA StreamerChangeStep ==
  ASSUME SessionInv, StreamerChange
  PROVE  SessionInv'
BY UnlistedStep DEF StreamerChange, monitor, outside, web

-----------------------------------------------------------------------------
(* The goroutine of a session.                                             *)

LEMMA GoroutineStep ==
  ASSUME SessionInv, NEW k, SessionGoroutine(k)
  PROVE  SessionInv'
<1> USE DEF SessionInv
<1>1. CASE Register(k)
  <2>1. /\ k \in 1 .. started /\ spc[k] = "create" /\ room[k] \in Rooms
        /\ spc' \in [1 .. started -> Steps] /\ spc'[k] = "link"
        /\ \A j \in 1 .. started : j # k => spc'[j] = spc[j]
    BY <1>1, GotoStep DEF Register, Steps
  <2>2. /\ webCtrl' = [webCtrl EXCEPT ![room[k]] = k]
        /\ UNCHANGED <<roomLive, events, active, started, room, cancelled, cmdCtrl>>
    BY <1>1 DEF Register, monitor, outside
  <2>3. Framed'
    BY <2>1, <2>2 DEF Framed
  <2>4. LeavesCancelled'
    BY <2>1, <2>2 DEF Framed, LeavesCancelled
  <2>5. ActiveIsGoing'
    BY <2>1, <2>2 DEF Framed, ActiveIsGoing, Going, Open
  <2>6. WebHolds'
    BY <2>1, <2>2, HeldInRange DEF Framed, WebHolds, None
  <2>7. CommandsHold'
    BY <2>1, <2>2, HeldInRange DEF Framed, CommandsHold, None
  <2> QED BY <2>3, <2>4, <2>5, <2>6, <2>7
<1>2. CASE LinkCommands(k)
  <2>1. /\ k \in 1 .. started /\ spc[k] = "link" /\ room[k] \in Rooms
        /\ spc' \in [1 .. started -> Steps] /\ spc'[k] = "run"
        /\ \A j \in 1 .. started : j # k => spc'[j] = spc[j]
    BY <1>2, GotoStep DEF LinkCommands, Steps
  <2>2. /\ cmdCtrl' = Linked(k, k)
        /\ UNCHANGED <<roomLive, events, active, started, room, cancelled, webCtrl>>
    BY <1>2 DEF LinkCommands, monitor, outside, web
  <2>3. Framed'
    BY <2>1, <2>2 DEF Framed, Linked
  <2>4. LeavesCancelled'
    BY <2>1, <2>2 DEF Framed, LeavesCancelled
  <2>5. ActiveIsGoing'
    BY <2>1, <2>2 DEF Framed, ActiveIsGoing, Going, Open
  <2>6. WebHolds'
    BY <2>1, <2>2, HeldInRange DEF Framed, WebHolds, None
  <2>7. CommandsHold'
    BY <2>1, <2>2, HeldInRange DEF Framed, CommandsHold, Linked, None
  <2> QED BY <2>3, <2>4, <2>5, <2>6, <2>7
<1>3. CASE RunEnds(k)
  <2>1. /\ k \in 1 .. started /\ spc[k] = "run" /\ room[k] \in Rooms
        /\ spc' \in [1 .. started -> Steps] /\ spc'[k] = "unregister"
        /\ \A j \in 1 .. started : j # k => spc'[j] = spc[j]
    BY <1>3, GotoStep DEF RunEnds, Steps
  <2>2. /\ k \in cancelled
        /\ UNCHANGED <<roomLive, events, active, started, room, cancelled, webCtrl, cmdCtrl>>
    BY <1>3 DEF RunEnds, monitor, outside, web
  <2>3. Framed'
    BY <2>1, <2>2 DEF Framed
  <2>4. LeavesCancelled'
    BY <2>1, <2>2 DEF Framed, LeavesCancelled
  <2>5. ActiveIsGoing'
    BY <2>1, <2>2 DEF Framed, ActiveIsGoing, Going, Open
  <2>6. WebHolds' /\ CommandsHold'
    <3>1. WebHolds'
      BY <2>1, <2>2, HeldInRange DEF WebHolds
    <3>2. CommandsHold'
      BY <2>1, <2>2, HeldInRange DEF CommandsHold
    <3> QED BY <3>1, <3>2
  <2> QED BY <2>3, <2>4, <2>5, <2>6
<1>4. CASE Unregister(k)
  <2>1. /\ k \in 1 .. started /\ spc[k] = "unregister" /\ room[k] \in Rooms
        /\ spc' \in [1 .. started -> Steps] /\ spc'[k] = "unlink"
        /\ \A j \in 1 .. started : j # k => spc'[j] = spc[j]
    BY <1>4, GotoStep DEF Unregister, Steps
  <2>2. /\ webCtrl' = [webCtrl EXCEPT ![room[k]] = None]
        /\ UNCHANGED <<roomLive, events, active, started, room, cancelled, cmdCtrl>>
    BY <1>4 DEF Unregister, Unregistered, monitor, outside
  <2>3. Framed'
    BY <2>1, <2>2 DEF Framed, None
  <2>4. LeavesCancelled'
    BY <2>1, <2>2 DEF Framed, LeavesCancelled
  <2>5. ActiveIsGoing'
    BY <2>1, <2>2 DEF Framed, ActiveIsGoing, Going, Open
  <2>6. WebHolds'
    BY <2>1, <2>2, HeldInRange DEF Framed, WebHolds, None
  <2>7. CommandsHold'
    BY <2>1, <2>2, HeldInRange DEF Framed, CommandsHold, None
  <2> QED BY <2>3, <2>4, <2>5, <2>6, <2>7
<1>5. CASE UnlinkCommands(k)
  <2>1. /\ k \in 1 .. started /\ spc[k] = "unlink" /\ room[k] \in Rooms
        /\ spc' \in [1 .. started -> Steps] /\ spc'[k] = "delete"
        /\ \A j \in 1 .. started : j # k => spc'[j] = spc[j]
    BY <1>5, GotoStep DEF UnlinkCommands, Steps
  <2>2. /\ cmdCtrl' = Linked(k, None)
        /\ cancelled' = cancelled \cup {k}
        /\ UNCHANGED <<roomLive, events, active, started, room, webCtrl>>
    BY <1>5 DEF UnlinkCommands, monitor, outside, web
  <2>3. cancelled' = cancelled
    BY <2>1, <2>2 DEF Framed, LeavesCancelled
  <2>4. Framed'
    BY <2>1, <2>2 DEF Framed, Linked, None
  <2>5. LeavesCancelled'
    BY <2>1, <2>2 DEF Framed, LeavesCancelled
  <2>6. ActiveIsGoing'
    BY <2>1, <2>2, <2>3 DEF Framed, ActiveIsGoing, Going, Open
  <2>7. WebHolds'
    BY <2>1, <2>2, HeldInRange DEF Framed, WebHolds, None
  <2>8. CommandsHold'
    <3> SUFFICES ASSUME NEW r \in Rooms, cmdCtrl'[r] # None
                 PROVE  /\ r \in CommandRooms /\ room[cmdCtrl'[r]] = r
                        /\ spc'[cmdCtrl'[r]] \in {"run", "unregister", "unlink"}
      BY <2>2 DEF CommandsHold
    <3>1. cmdCtrl'[r] = cmdCtrl[r]
      BY <2>1, <2>2 DEF Framed, Linked
    <3>2. /\ r \in CommandRooms /\ room[cmdCtrl[r]] = r
          /\ spc[cmdCtrl[r]] \in {"run", "unregister", "unlink"}
          /\ cmdCtrl[r] \in 1 .. started
      BY <3>1, HeldInRange DEF CommandsHold
    <3>3. cmdCtrl[r] # k
      BY <2>1, <2>2, <3>1, <3>2 DEF Framed, Linked
    <3> QED BY <2>1, <3>1, <3>2, <3>3
  <2> QED BY <2>4, <2>5, <2>6, <2>7, <2>8
<1>6. CASE Leave(k)
  <2>1. /\ k \in 1 .. started /\ spc[k] = "delete" /\ room[k] \in Rooms
        /\ spc' \in [1 .. started -> Steps] /\ spc'[k] = "ended"
        /\ \A j \in 1 .. started : j # k => spc'[j] = spc[j]
    BY <1>6, GotoStep DEF Leave, Steps
  <2>2. /\ active' = [active EXCEPT ![room[k]] = None]
        /\ UNCHANGED <<roomLive, events, started, room, cancelled, webCtrl, cmdCtrl>>
    BY <1>6 DEF Leave, Forget, monitor, outside, web
  <2>3. k \in cancelled
    BY <2>1 DEF Framed, LeavesCancelled
  <2>4. Framed'
    BY <2>1, <2>2 DEF Framed, None
  <2>5. LeavesCancelled'
    BY <2>1, <2>2, <2>3 DEF Framed, LeavesCancelled
  <2>6. ActiveIsGoing'
    BY <2>1, <2>2, <2>3 DEF Framed, ActiveIsGoing, Going, Open, None
  <2>7. WebHolds' /\ CommandsHold'
    <3>1. WebHolds'
      BY <2>1, <2>2, HeldInRange DEF WebHolds
    <3>2. CommandsHold'
      BY <2>1, <2>2, HeldInRange DEF CommandsHold
    <3> QED BY <3>1, <3>2
  <2> QED BY <2>4, <2>5, <2>6, <2>7
<1> QED BY <1>1, <1>2, <1>3, <1>4, <1>5, <1>6 DEF SessionGoroutine

\* Streamers come and go on the web; only the panel's controller is touched.
LEMMA EditStep ==
  ASSUME SessionInv, NEW r \in Rooms,
         SaveStreamer(r) \/ RemoveStreamer(r) \/ StreamerSaveFails(r) \/ MarkFirst
  PROVE  SessionInv'
<1>1. UNCHANGED <<roomLive, events, active, started, room, spc, cancelled, cmdCtrl>>
  BY DEF SaveStreamer, RemoveStreamer, StreamerSaveFails, MarkFirst, monitor, outside,
     sessions
<1>2. webCtrl' = webCtrl \/ webCtrl' = [webCtrl EXCEPT ![r] = None]
  BY DEF SaveStreamer, RemoveStreamer, StreamerSaveFails, MarkFirst, web
<1>3. Framed'
  <2>1. webCtrl' \in [Rooms -> 0 .. started]
    <3>1. webCtrl \in [Rooms -> 0 .. started] /\ None \in 0 .. started
      BY DEF SessionInv, Framed, None
    <3>2. [webCtrl EXCEPT ![r] = None] \in [Rooms -> 0 .. started]
      BY <3>1
    <3> QED BY <1>2, <3>1, <3>2
  <2> QED BY <1>1, <2>1 DEF SessionInv, Framed
<1>6. WebHolds'
  <2>1. \A q \in Rooms : webCtrl'[q] = webCtrl[q] \/ webCtrl'[q] = None
    BY <1>2 DEF SessionInv, Framed
  <2> QED BY <1>1, <2>1 DEF SessionInv, WebHolds
<1>4. LeavesCancelled' /\ CommandsHold'
  BY <1>1 DEF SessionInv, LeavesCancelled, CommandsHold
<1>5. ActiveIsGoing'
  BY <1>1 DEF SessionInv, ActiveIsGoing, Going, Open
<1> QED BY <1>3, <1>4, <1>5, <1>6 DEF SessionInv

-----------------------------------------------------------------------------

LEMMA NextSession == SessionInv /\ [Next]_lifeVars => SessionInv'
<1> SUFFICES ASSUME SessionInv, [Next]_lifeVars PROVE SessionInv'
  OBVIOUS
<1>0. \E r : r \in Rooms
  BY StreamersAssumption
<1>1. CASE UNCHANGED lifeVars
  <2>1. UNCHANGED <<roomLive, events, active, started, room, spc, cancelled,
                    webCtrl, cmdCtrl>>
    BY <1>1 DEF lifeVars, monitor, outside, sessions, web
  <2>2. Framed' /\ LeavesCancelled' /\ WebHolds' /\ CommandsHold'
    BY <2>1 DEF SessionInv, Framed, LeavesCancelled, WebHolds, CommandsHold
  <2>3. ActiveIsGoing'
    BY <2>1 DEF SessionInv, ActiveIsGoing, Going, Open
  <2> QED BY <2>2, <2>3 DEF SessionInv
<1>2. CASE EventLoop
  BY <1>2, UnknownRoomStep, GoesLiveStep, GoesOfflineStep DEF EventLoop
<1>3. CASE MarkFirst
  BY <1>0, <1>3, EditStep
<1> QED
  BY <1>1, <1>2, <1>3, MonitorStep, EditStep, GoroutineStep, StreamerChangeStep DEF Next

\* The active map never holds a session on its way out, nor another room's:
\* a room that comes back live is given a session that will run.
THEOREM ActiveCorrect == Spec => []ActiveIsGoing
<1>1. SessionInv => ActiveIsGoing
  BY DEF SessionInv
<1> QED BY <1>1, InitSession, NextSession, PTL DEF Spec

LEMMA HeldAreOpen == SessionInv => NoDeadController
<1> SUFFICES ASSUME SessionInv, NEW r \in Rooms
             PROVE  /\ webCtrl[r] # None => webCtrl[r] \in Open(r)
                    /\ cmdCtrl[r] # None => cmdCtrl[r] \in Open(r)
  BY DEF NoDeadController
<1>1. DOMAIN room = 1 .. started
  BY DEF SessionInv, Framed
<1>2. webCtrl[r] # None => webCtrl[r] \in 1 .. started
  BY HeldInRange DEF SessionInv
<1>3. cmdCtrl[r] # None => cmdCtrl[r] \in 1 .. started
  BY HeldInRange DEF SessionInv
<1> QED BY <1>1, <1>2, <1>3 DEF SessionInv, WebHolds, CommandsHold, Open

\* The panel and the command handlers only reach controllers of sessions that
\* have not ended, however sessions of a room overlap.
THEOREM ControllersCorrect == Spec => []NoDeadController
BY HeldAreOpen, InitSession, NextSession, PTL DEF Spec

-----------------------------------------------------------------------------
(* Sessions of a room that was never in a hurry follow one another.        *)

IsOpen(k) == spc[k] # "ended"

\* No two sessions at once
OneAtATime(r) ==
  \A j, k \in 1 .. started :
    room[j] = r /\ room[k] = r /\ IsOpen(j) /\ IsOpen(k) => j = k

\* The event that starts a session is not reported until the last session has
\* ended and all earlier events are dealt with.
LiveAlone(r) ==
  \A i \in DOMAIN events : events[i].room = r /\ events[i].live =>
    /\ \A k \in 1 .. started : room[k] = r => ~IsOpen(k)
    /\ \A j \in 1 .. i - 1 : events[j].room # r

\* What goes on is in the map.
InTheMap(r) ==
  \A k \in 1 .. started :
    room[k] = r /\ IsOpen(k) /\ k \notin cancelled => active[r] = k

UnhurriedInv == \A r \in Rooms \ hasty : OneAtATime(r) /\ LiveAlone(r) /\ InTheMap(r)

LEMMA InitUnhurried == Init => UnhurriedInv
BY DEF Init, UnhurriedInv, OneAtATime, LiveAlone, InTheMap

\* The queue without its head, and with one more event
LEMMA QueueSteps ==
  ASSUME events \in Seq(Event)
  PROVE  /\ events # <<>> =>
              /\ DOMAIN Tail(events) = 1 .. Len(events) - 1
              /\ 1 \in DOMAIN events /\ Head(events) = events[1]
              /\ \A i \in DOMAIN Tail(events) :
                   i + 1 \in DOMAIN events /\ Tail(events)[i] = events[i + 1]
         /\ \A e \in Event :
              /\ DOMAIN Append(events, e) = 1 .. Len(events) + 1
              /\ Append(events, e)[Len(events) + 1] = e
              /\ \A i \in DOMAIN events : Append(events, e)[i] = events[i]
         /\ Len(events) \in Nat /\ DOMAIN events = 1 .. Len(events)
OBVIOUS

\* Steps that start no session and report nothing: sessions only end, and are
\* only cancelled, and the map keeps those that still go on.
LEMMA UnhurriedStep ==
  ASSUME SessionInv, UnhurriedInv, hasty' = hasty,
         UNCHANGED <<started, room>>,
         events' = events \/ (events # <<>> /\ events' = Tail(events)),
         \A k \in 1 .. started : ~IsOpen(k) => ~IsOpen(k)',
         cancelled \subseteq cancelled',
         \A r \in Rooms \ hasty, k \in 1 .. started :
           active[r] = k /\ room[k] = r /\ IsOpen(k)' /\ k \notin cancelled'
             => active'[r] = k
  PROVE  UnhurriedInv'
<1> SUFFICES ASSUME NEW r \in Rooms \ hasty
             PROVE  OneAtATime(r)' /\ LiveAlone(r)' /\ InTheMap(r)'
  BY DEF UnhurriedInv
<1>0. OneAtATime(r) /\ LiveAlone(r) /\ InTheMap(r) /\ events \in Seq(Event)
  BY DEF UnhurriedInv, SessionInv, Framed
<1> HIDE DEF IsOpen
<1>1. OneAtATime(r)'
  BY <1>0 DEF OneAtATime
<1>2. LiveAlone(r)'
  <2>1. CASE events' = events
    BY <1>0, <2>1 DEF LiveAlone
  <2>2. CASE events # <<>> /\ events' = Tail(events)
    <3> SUFFICES ASSUME NEW i \in DOMAIN events', events'[i].room = r, events'[i].live
                 PROVE  /\ \A k \in 1 .. started : room[k] = r => ~IsOpen(k)'
                        /\ \A j \in 1 .. i - 1 : events'[j].room # r
      BY DEF LiveAlone
    <3>1. /\ i + 1 \in DOMAIN events /\ events'[i] = events[i + 1]
          /\ i \in 1 .. Len(events) - 1 /\ Len(events) \in Nat
          /\ DOMAIN events' = 1 .. Len(events) - 1
      BY <1>0, <2>2, QueueSteps
    <3>2. /\ \A k \in 1 .. started : room[k] = r => ~IsOpen(k)
          /\ \A j \in 1 .. i : events[j].room # r
      BY <1>0, <3>1 DEF LiveAlone
    <3>3. ASSUME NEW j \in 1 .. i - 1
          PROVE  events'[j].room # r
      <4>1. j \in DOMAIN events' /\ j + 1 \in 1 .. i
        BY <3>1
      <4>2. events'[j] = events[j + 1]
        BY <1>0, <2>2, <4>1, QueueSteps
      <4> QED BY <3>2, <4>1, <4>2
    <3> QED BY <3>2, <3>3
  <2> QED BY <2>1, <2>2
<1>3. InTheMap(r)'
  BY <1>0 DEF InTheMap
<1> QED BY <1>1, <1>2, <1>3

\* A room is reported: it was not in a hurry only if nothing of it was left.
LEMMA UnhurriedFlips ==
  ASSUME SessionInv, UnhurriedInv, NEW q \in Rooms, RoomFlips(q)
  PROVE  UnhurriedInv'
<1> DEFINE e == [room |-> q, live |-> ~roomLive[q]]
<1>0. /\ events' = Append(events, e) /\ events \in Seq(Event) /\ e \in Event
      /\ UNCHANGED <<started, room, spc, cancelled, active>>
      /\ hasty' = IF ~roomLive[q] /\ Unfinished(q) THEN hasty \cup {q} ELSE hasty
      /\ DOMAIN room = 1 .. started
  BY DEF RoomFlips, sessions, SessionInv, Framed, Event
<1>1. SUFFICES ASSUME NEW r \in Rooms \ hasty'
               PROVE  OneAtATime(r)' /\ LiveAlone(r)' /\ InTheMap(r)'
  BY DEF UnhurriedInv
<1>2. r \in Rooms \ hasty /\ (r = q => roomLive[q] \/ ~Unfinished(q))
  BY <1>0, <1>1
<1>3. OneAtATime(r) /\ LiveAlone(r) /\ InTheMap(r)
  BY <1>2 DEF UnhurriedInv
<1>4. OneAtATime(r)' /\ InTheMap(r)'
  BY <1>0, <1>3 DEF OneAtATime, InTheMap, IsOpen
<1>5. ASSUME NEW i \in DOMAIN events', events'[i].room = r, events'[i].live
      PROVE  /\ \A k \in 1 .. started : room[k] = r => ~IsOpen(k)
             /\ \A j \in 1 .. i - 1 : events'[j].room # r
  <2>1. /\ DOMAIN events' = 1 .. Len(events) + 1 /\ DOMAIN events = 1 .. Len(events)
        /\ Len(events) \in Nat /\ events'[Len(events) + 1] = e
        /\ \A j \in DOMAIN events : events'[j] = events[j]
    BY <1>0, QueueSteps
  <2>2. CASE i \in DOMAIN events
    <3>1. events'[i] = events[i] /\ \A j \in 1 .. i - 1 : events'[j] = events[j]
      BY <2>1, <2>2
    <3> QED BY <1>3, <1>5, <2>2, <3>1 DEF LiveAlone
  <2>3. CASE i = Len(events) + 1
    <3>1. e.room = r /\ e.live
      BY <1>5, <2>1, <2>3
    <3>2. r = q /\ ~roomLive[q]
      BY <3>1
    <3>3. Open(r) = {} /\ \A j \in DOMAIN events : events[j].room # r
      BY <1>2, <3>2 DEF Unfinished
    <3>4. \A j \in 1 .. i - 1 : j \in DOMAIN events /\ events'[j] = events[j]
      BY <2>1, <2>3
    <3>5. \A k \in 1 .. started : room[k] = r => ~IsOpen(k)
      BY <1>0, <3>3 DEF Open, IsOpen
    <3> QED BY <3>3, <3>4, <3>5
  <2>4. i \in DOMAIN events \/ i = Len(events) + 1
    BY <2>1
  <2> QED BY <2>2, <2>3, <2>4
<1>6. LiveAlone(r)'
  BY <1>0, <1>5 DEF LiveAlone, IsOpen
<1> QED BY <1>4, <1>6

\* A session starts: it is the only one, and no other start waits.
LEMMA UnhurriedStart ==
  ASSUME SessionInv, UnhurriedInv, GoesLive, active[Head(events).room] = None
  PROVE  UnhurriedInv'
<1> DEFINE q == Head(events).room
<1>1. /\ started' = started + 1 /\ cancelled' = cancelled /\ hasty' = hasty
      /\ active' = [active EXCEPT ![q] = started']
      /\ room' = [k \in 1 .. started' |-> IF k = started' THEN q ELSE room[k]]
      /\ spc' = [k \in 1 .. started' |-> IF k = started' THEN "create" ELSE spc[k]]
      /\ events' = Tail(events) /\ events # <<>> /\ Head(events).live
      /\ events \in Seq(Event) /\ started \in Nat /\ active \in [Rooms -> 0 .. started]
      /\ q \in Rooms
  BY EventQueue DEF GoesLive, outside, SessionInv, Framed
<1>2. /\ 1 .. started' = (1 .. started) \cup {started'} /\ started' \notin 1 .. started
      /\ \A k \in 1 .. started :
           room'[k] = room[k] /\ spc'[k] = spc[k] /\ (IsOpen(k)' <=> IsOpen(k))
      /\ room'[started'] = q /\ spc'[started'] = "create"
      /\ \A k \in 1 .. started' : k = started' => IsOpen(k)'
  <2>1. 1 .. started' = (1 .. started) \cup {started'} /\ started' \notin 1 .. started
    BY <1>1
  <2>2. \A k \in 1 .. started : room'[k] = room[k] /\ spc'[k] = spc[k]
    BY <1>1, <2>1
  <2>3. room'[started'] = q /\ spc'[started'] = "create"
    BY <1>1, <2>1
  <2>4. \A k \in 1 .. started : IsOpen(k)' <=> IsOpen(k)
    BY <2>2 DEF IsOpen
  <2>5. \A k \in 1 .. started' : k = started' => IsOpen(k)'
    BY <2>3 DEF IsOpen
  <2> QED BY <2>1, <2>2, <2>3, <2>4, <2>5
<1>3. SUFFICES ASSUME NEW r \in Rooms \ hasty
               PROVE  OneAtATime(r)' /\ LiveAlone(r)' /\ InTheMap(r)'
  BY <1>1 DEF UnhurriedInv
<1>4. OneAtATime(r) /\ LiveAlone(r) /\ InTheMap(r)
  BY DEF UnhurriedInv
<1>5. /\ 1 \in DOMAIN events /\ events[1].room = q /\ events[1].live
      /\ DOMAIN events' = 1 .. Len(events) - 1 /\ Len(events) \in Nat
      /\ \A i \in DOMAIN events' : i + 1 \in DOMAIN events /\ events'[i] = events[i + 1]
  BY <1>1, QueueSteps
<1>6. r = q => \A k \in 1 .. started : room[k] = r => ~IsOpen(k)
  BY <1>4, <1>5 DEF LiveAlone
<1>7. OneAtATime(r)'
  BY <1>2, <1>4, <1>6 DEF OneAtATime
<1>8. InTheMap(r)'
  BY <1>1, <1>2, <1>4, <1>6 DEF InTheMap
<1>9. LiveAlone(r)'
  <2> SUFFICES ASSUME NEW i \in DOMAIN events', events'[i].room = r, events'[i].live
               PROVE  /\ \A k \in 1 .. started' : room'[k] = r => ~IsOpen(k)'
                      /\ \A j \in 1 .. i - 1 : events'[j].room # r
    BY DEF LiveAlone
  <2>1. /\ i \in 1 .. Len(events) - 1 /\ i + 1 \in DOMAIN events
        /\ events'[i] = events[i + 1]
    BY <1>5
  <2>2. /\ \A k \in 1 .. started : room[k] = r => ~IsOpen(k)
        /\ \A j \in 1 .. i : events[j].room # r
    BY <1>4, <2>1 DEF LiveAlone
  <2>3. r # q
    BY <1>5, <2>1, <2>2
  <2>4. \A j \in 1 .. i - 1 : events'[j].room # r
    <3> TAKE j \in 1 .. i - 1
    <3>1. j \in DOMAIN events' /\ j + 1 \in 1 .. i
      BY <1>5, <2>1
    <3>2. events'[j] = events[j + 1]
      BY <1>5, <3>1
    <3> QED BY <2>2, <3>1, <3>2
  <2>5. \A k \in 1 .. started' : room'[k] = r => ~IsOpen(k)'
    BY <1>2, <2>2, <2>3
  <2> QED BY <2>4, <2>5
<1> QED BY <1>7, <1>8, <1>9

LEMMA UnhurriedEvents ==
  ASSUME SessionInv, UnhurriedInv, EventLoop
  PROVE  UnhurriedInv'
<1>1. CASE UnknownRoom
  BY <1>1, UnhurriedStep DEF UnknownRoom, outside, sessions, IsOpen
<1>2. CASE GoesLive /\ active[Head(events).room] # None
  BY <1>2, UnhurriedStep DEF GoesLive, outside, sessions, IsOpen
<1>3. CASE GoesOffline
  <2> DEFINE q == Head(events).room
  <2>1. /\ UNCHANGED <<hasty, started, room, spc>> /\ events # <<>> /\ events' = Tail(events)
        /\ cancelled' = cancelled \cup ({active[q]} \ {None})
        /\ active' = [active EXCEPT ![q] = None]
    BY <1>3 DEF GoesOffline, outside, CancelActive, Forget
  <2>2. \A r \in Rooms, k \in 1 .. started :
          active[r] = k /\ k \notin cancelled' => active'[r] = k
    BY <2>1 DEF SessionInv, Framed, None
  <2> QED BY <2>1, <2>2, UnhurriedStep DEF IsOpen
<1> QED BY <1>1, <1>2, <1>3, UnhurriedStart DEF EventLoop

LEMMA UnhurriedUnlisted ==
  ASSUME SessionInv, UnhurriedInv, NEW list, CancelUnlisted(list),
         UNCHANGED <<hasty, events, started, room, spc>>
  PROVE  UnhurriedInv'
<1> DEFINE gone == {r \in Rooms : active[r] # None /\ r \notin ToSet(list)}
<1>1. /\ cancelled' = cancelled \cup {active[r] : r \in gone}
      /\ active' = [r \in Rooms |-> IF r \in gone THEN None ELSE active[r]]
  BY DEF CancelUnlisted
<1>2. \A r \in Rooms, k \in 1 .. started :
        active[r] = k /\ k \notin cancelled' => active'[r] = k
  BY <1>1
<1> QED BY <1>1, <1>2, UnhurriedStep DEF IsOpen

LEMMA UnhurriedChange ==
  ASSUME SessionInv, UnhurriedInv, StreamerChange
  PROVE  UnhurriedInv'
BY UnhurriedUnlisted DEF StreamerChange, monitor, outside

LEMMA UnhurriedGoroutine ==
  ASSUME SessionInv, UnhurriedInv, NEW k, SessionGoroutine(k)
  PROVE  UnhurriedInv'
<1>1. CASE Leave(k)
  <2>1. /\ k \in 1 .. started /\ spc[k] = "delete" /\ spc'[k] = "ended"
        /\ \A j \in 1 .. started : j # k => spc'[j] = spc[j]
    BY <1>1, GotoStep DEF Leave, Steps, SessionInv
  <2>2. /\ active' = [active EXCEPT ![room[k]] = None]
        /\ UNCHANGED <<hasty, events, started, room, cancelled>>
    BY <1>1 DEF Leave, Forget, monitor, outside
  <2>3. ASSUME NEW r \in Rooms \ hasty, NEW j \in 1 .. started,
               active[r] = j, room[j] = r, IsOpen(j)'
        PROVE  active'[r] = j
    <3>1. IsOpen(j) /\ IsOpen(k) /\ j # k
      BY <2>1, <2>3 DEF IsOpen
    <3>2. room[k] # r
      BY <2>1, <2>3, <3>1 DEF UnhurriedInv, OneAtATime
    <3> QED BY <2>2, <2>3, <3>2 DEF SessionInv, Framed
  <2>4. \A j \in 1 .. started : ~IsOpen(j) => ~IsOpen(j)'
    BY <2>1 DEF IsOpen
  <2> QED BY <2>2, <2>3, <2>4, UnhurriedStep
<1>2. CASE ~Leave(k)
  <2>1. PICK p \in Steps, q \in Steps \ {"ended"} : At(k, q) /\ Goto(k, p) /\ p # "ended"
    BY <1>2 DEF SessionGoroutine, Register, LinkCommands, RunEnds, Unregister,
       UnlinkCommands, Steps
  <2>2. \A j \in 1 .. started : ~IsOpen(j) => ~IsOpen(j)'
    BY <2>1, GotoStep DEF SessionInv, IsOpen
  <2>3. /\ UNCHANGED <<hasty, events, started, room, active>>
        /\ cancelled \subseteq cancelled'
    BY <1>2 DEF SessionGoroutine, Register, LinkCommands, RunEnds, Unregister,
       UnlinkCommands, monitor, outside
  <2> QED BY <2>2, <2>3, UnhurriedStep
<1> QED BY <1>1, <1>2

LEMMA UnhurriedElse ==
  ASSUME SessionInv, UnhurriedInv,
         UNCHANGED <<hasty, events, started, room, spc, cancelled, active>>
  PROVE  UnhurriedInv'
BY UnhurriedStep DEF IsOpen

LEMMA NextUnhurried == SessionInv /\ UnhurriedInv /\ [Next]_lifeVars => UnhurriedInv'
<1> SUFFICES ASSUME SessionInv, UnhurriedInv, [Next]_lifeVars PROVE UnhurriedInv'
  OBVIOUS
<1>1. CASE \/ \E r \in Rooms : SaveStreamer(r) \/ RemoveStreamer(r) \/ StreamerSaveFails(r)
           \/ MarkFirst \/ UNCHANGED lifeVars
  <2>1. UNCHANGED <<hasty, events, started, room, spc, cancelled, active>>
    BY <1>1 DEF SaveStreamer, RemoveStreamer, StreamerSaveFails, MarkFirst, lifeVars,
       monitor, outside, sessions
  <2> QED BY <2>1, UnhurriedElse
<1> QED
  BY <1>1, UnhurriedFlips, UnhurriedEvents, UnhurriedChange, UnhurriedGoroutine DEF Next

\* Whatever goes on can be stopped, for any number of rooms and sessions and
\* however offline events, ends of sessions and edits interleave: the map holds
\* it, if its room never came back before the last session had ended.
THEOREM StoppableCorrect == Spec => []GoingIsActive
<1>1. SessionInv /\ UnhurriedInv => GoingIsActive
  BY DEF SessionInv, Framed, UnhurriedInv, InTheMap, IsOpen, GoingIsActive, Going, Open
<1> QED
  BY <1>1, InitSession, NextSession, InitUnhurried, NextUnhurried, PTL DEF Spec

\* The panel holds the controller of such a room's session from Register on
\* until the session is cancelled.
PanelHolds ==
  edits = 0 =>
    \A r \in Rooms \ hasty, k \in 1 .. started :
      room[k] = r /\ spc[k] \in {"link", "run"} /\ k \notin cancelled => webCtrl[r] = k

PanelInv == edits \in Nat /\ PanelHolds

LEMMA InitPanel == Init => PanelInv
BY DEF Init, PanelInv, PanelHolds

\* Steps that take no session into its run and leave the panel alone
LEMMA PanelStep ==
  ASSUME SessionInv, PanelInv, hasty \subseteq hasty',
         edits' = edits \/ edits' = edits + 1, webCtrl' = webCtrl,
         \A k \in 1 .. started' : spc'[k] \in {"link", "run"} /\ k \notin cancelled' =>
           /\ k \in 1 .. started /\ spc[k] \in {"link", "run"} /\ k \notin cancelled
           /\ room'[k] = room[k]
  PROVE  PanelInv'
<1>1. edits' \in Nat /\ (edits' = 0 => edits = 0)
  BY DEF PanelInv
<1> QED BY <1>1 DEF PanelInv, PanelHolds

LEMMA PanelGoroutine ==
  ASSUME SessionInv, UnhurriedInv, PanelInv, NEW k, SessionGoroutine(k)
  PROVE  PanelInv'
<1>1. UNCHANGED <<hasty, edits, started, room>> /\ cancelled \subseteq cancelled'
  BY DEF SessionGoroutine, Register, LinkCommands, RunEnds, Unregister, UnlinkCommands,
     Leave, monitor, outside, config
<1>2. CASE Register(k)
  <2>1. /\ k \in 1 .. started /\ spc[k] = "create" /\ spc'[k] = "link"
        /\ \A j \in 1 .. started : j # k => spc'[j] = spc[j]
    BY <1>2, GotoStep DEF Register, Steps, SessionInv
  <2>2. webCtrl' = [webCtrl EXCEPT ![room[k]] = k] /\ cancelled' = cancelled
    BY <1>2 DEF Register
  <2> SUFFICES ASSUME edits = 0, NEW r \in Rooms \ hasty, NEW j \in 1 .. started,
                      room[j] = r, spc'[j] \in {"link", "run"}, j \notin cancelled
               PROVE  webCtrl'[r] = j
    BY <1>1, <2>2 DEF PanelInv, PanelHolds
  <2>3. CASE j = k
    BY <2>2, <2>3 DEF SessionInv, Framed
  <2>4. CASE j # k
    <3>1. room[k] # r
      BY <2>1, <2>4 DEF UnhurriedInv, OneAtATime, IsOpen
    <3>2. webCtrl[r] = j
      BY <2>1, <2>4 DEF PanelInv, PanelHolds
    <3> QED BY <2>2, <3>1, <3>2 DEF SessionInv, Framed
  <2> QED BY <2>3, <2>4
<1>3. CASE Unregister(k)
  <2>1. /\ k \in 1 .. started /\ spc[k] = "unregister" /\ spc'[k] = "unlink"
        /\ \A j \in 1 .. started : j # k => spc'[j] = spc[j]
    BY <1>3, GotoStep DEF Unregister, Steps, SessionInv
  <2>2. webCtrl' = [webCtrl EXCEPT ![room[k]] = None] /\ cancelled' = cancelled
    BY <1>3 DEF Unregister, Unregistered
  <2> SUFFICES ASSUME edits = 0, NEW r \in Rooms \ hasty, NEW j \in 1 .. started,
                      room[j] = r, spc'[j] \in {"link", "run"}, j \notin cancelled
               PROVE  webCtrl'[r] = j
    BY <1>1, <2>2 DEF PanelInv, PanelHolds
  <2>3. j # k /\ spc[j] = spc'[j]
    BY <2>1
  <2>4. room[k] # r
    BY <2>1, <2>3 DEF UnhurriedInv, OneAtATime, IsOpen
  <2>5. webCtrl[r] = j
    BY <2>3 DEF PanelInv, PanelHolds
  <2> QED BY <2>2, <2>4, <2>5 DEF SessionInv, Framed
<1>4. CASE LinkCommands(k)
  <2>1. /\ k \in 1 .. started /\ spc[k] = "link"
        /\ \A j \in 1 .. started : j # k => spc'[j] = spc[j]
    BY <1>4, GotoStep DEF LinkCommands, Steps, SessionInv
  <2>2. webCtrl' = webCtrl /\ cancelled' = cancelled
    BY <1>4 DEF LinkCommands, web
  <2> QED BY <1>1, <2>1, <2>2, PanelStep
<1>5. CASE RunEnds(k) \/ UnlinkCommands(k) \/ Leave(k)
  <2>1. PICK p \in {"unregister", "delete", "ended"}, q \in {"run", "unlink", "delete"} : At(k, q) /\ Goto(k, p)
    BY <1>5 DEF RunEnds, UnlinkCommands, Leave
  <2>2. /\ spc'[k] \notin {"link", "run"}
        /\ \A j \in 1 .. started : j # k => spc'[j] = spc[j]
    BY <2>1, GotoStep DEF Steps, SessionInv
  <2>3. webCtrl' = webCtrl
    BY <1>5 DEF RunEnds, UnlinkCommands, Leave, web
  <2> QED BY <1>1, <2>2, <2>3, PanelStep
<1> QED BY <1>2, <1>3, <1>4, <1>5 DEF SessionGoroutine

LEMMA NextPanel ==
  SessionInv /\ UnhurriedInv /\ PanelInv /\ [Next]_lifeVars => PanelInv'
<1> SUFFICES ASSUME SessionInv, UnhurriedInv, PanelInv, [Next]_lifeVars PROVE PanelInv'
  OBVIOUS
<1>1. CASE \E r \in Rooms : RoomFlips(r)
  BY <1>1, PanelStep DEF RoomFlips, config, sessions, web
<1>2. CASE GoesLive
  <2>1. /\ webCtrl' = webCtrl /\ edits' = edits /\ hasty' = hasty /\ cancelled' = cancelled
    BY <1>2 DEF GoesLive, outside, config, sessions
  <2>2. CASE UNCHANGED <<started, room, spc>>
    BY <2>1, <2>2, PanelStep
  <2>3. CASE /\ started' = started + 1
             /\ spc' = [k \in 1 .. started' |->
                          IF k = started' THEN "create" ELSE spc[k]]
             /\ room' = [k \in 1 .. started' |->
                          IF k = started' THEN Head(events).room ELSE room[k]]
    <3>1. ASSUME NEW k \in 1 .. started', spc'[k] \in {"link", "run"}
          PROVE  /\ k \in 1 .. started /\ spc[k] \in {"link", "run"}
                 /\ room'[k] = room[k]
      BY <2>3, <3>1 DEF SessionInv, Framed
    <3> QED BY <2>1, <3>1, PanelStep
  <2> QED BY <1>2, <2>2, <2>3 DEF GoesLive, sessions
<1>3. CASE UnknownRoom \/ GoesOffline \/ StreamerChange \/ MarkFirst
           \/ (\E r \in Rooms : SaveStreamer(r) \/ StreamerSaveFails(r))
           \/ UNCHANGED lifeVars
  <2>1. /\ UNCHANGED <<hasty, webCtrl, started, room, spc>>
        /\ cancelled \subseteq cancelled'
        /\ edits' = edits \/ edits' = edits + 1
    BY <1>3 DEF UnknownRoom, GoesOffline, StreamerChange, CancelUnlisted, MarkFirst,
       SaveStreamer, StreamerSaveFails, CancelActive, lifeVars, monitor, outside, config, sessions, web
  <2> QED BY <2>1, PanelStep
<1>4. CASE \E r \in Rooms : RemoveStreamer(r)
  <2>1. edits' = edits + 1
    BY <1>4 DEF RemoveStreamer
  <2>2. edits' \in Nat /\ edits' # 0
    BY <2>1 DEF PanelInv
  <2> QED BY <2>2 DEF PanelInv, PanelHolds
<1> QED BY <1>1, <1>2, <1>3, <1>4, PanelGoroutine DEF Next, EventLoop

\* A session that runs can be paused, resumed and skipped from the panel, however
\* sessions of other rooms start and end around it (SetController).
THEOREM ReachableCorrect == Spec => []PanelReachesSession
<1>1. SessionInv /\ PanelInv => PanelReachesSession
  BY DEF SessionInv, Framed, PanelInv, PanelHolds, PanelReachesSession, Going, Open
<1> QED
  BY <1>1, InitSession, NextSession, InitUnhurried, NextUnhurried, InitPanel, NextPanel,
     PTL DEF Spec

-----------------------------------------------------------------------------
(* With the configuration file.                                            *)

\* Steps that leave the sessions alone, but for controllers that the panel loses
LEMMA LosesControllers ==
  ASSUME SessionInv, UnhurriedInv,
         UNCHANGED <<roomLive, hasty, events, started, room, spc, cancelled, active, cmdCtrl>>,
         \/ webCtrl' = webCtrl
         \/ \E gone : webCtrl' = [r \in Rooms |-> IF r \in gone THEN None ELSE webCtrl[r]]
  PROVE  SessionInv' /\ UnhurriedInv'
<1>1. /\ webCtrl' \in [Rooms -> 0 .. started]
      /\ \A r \in Rooms : webCtrl'[r] \in {webCtrl[r], None}
  BY DEF SessionInv, Framed, None
<1>2. Framed' /\ LeavesCancelled' /\ CommandsHold'
  BY <1>1 DEF SessionInv, Framed, LeavesCancelled, CommandsHold
<1>3. WebHolds'
  BY <1>1 DEF SessionInv, WebHolds
<1>4. ActiveIsGoing'
  BY DEF SessionInv, ActiveIsGoing, Going, Open
<1> QED BY <1>2, <1>3, <1>4, UnhurriedElse DEF SessionInv

\* What the web and the file do
FileStep ==
  \/ \E list : EditObject(list) \/ EditFile(list)
  \/ Truncate \/ WriteFile \/ SaveFails \/ DropRuntime \/ LoadFile \/ InstallConfig
  \/ GetConfig \/ \E i \in 1 .. MaxEdits : MarkFirstOf(i)

LEMMA ReloadCases ==
  ASSUME [ReloadNext]_reloadVars
  PROVE  \/ FileStep \/ (\E i : ChangeSaved(i)) \/ UNCHANGED reloadVars
         \/ UNCHANGED fileVars /\ \/ \E r \in Rooms : RoomFlips(r)
                                  \/ EventLoop
                                  \/ \E k \in SessionIds : SessionGoroutine(k)
BY DEF ReloadNext, Elsewhere, FileStep, AddStreamer, DropStreamer

\* No step of these touches a session.
LEMMA FileLeavesSessions ==
  ASSUME FileStep
  PROVE  /\ UNCHANGED <<roomLive, hasty, events, started, room, spc, cancelled, active,
                        cmdCtrl>>
         /\ \/ webCtrl' = webCtrl
            \/ \E gone : webCtrl' = [r \in Rooms |-> IF r \in gone THEN None ELSE webCtrl[r]]
<1>1. CASE \/ \E list : EditObject(list) \/ EditFile(list)
           \/ LoadFile \/ GetConfig \/ \E i \in 1 .. MaxEdits : MarkFirstOf(i)
  BY <1>1 DEF EditObject, EditFile, LoadFile, GetConfig, MarkFirstOf, monitor, outside,
     sessions, web
<1>2. CASE Truncate \/ WriteFile \/ SaveFails \/ InstallConfig
  BY <1>2 DEF Truncate, WriteFile, SaveFails, InstallConfig, lifeVars, monitor, outside,
     sessions, web
<1>3. CASE DropRuntime
  BY <1>3 DEF DropRuntime, monitor, outside, sessions
<1> QED BY <1>1, <1>2, <1>3 DEF FileStep

LEMMA ReloadSessions ==
  SessionInv /\ UnhurriedInv /\ [ReloadNext]_reloadVars => SessionInv' /\ UnhurriedInv'
<1> SUFFICES ASSUME SessionInv, UnhurriedInv, [ReloadNext]_reloadVars
             PROVE  SessionInv' /\ UnhurriedInv'
  OBVIOUS
<1>1. CASE FileStep
  BY <1>1, FileLeavesSessions, LosesControllers
<1>2. CASE [Next]_lifeVars
  BY <1>2, NextSession, NextUnhurried
<1>3. ASSUME NEW i, ChangeSaved(i)
      PROVE  SessionInv' /\ UnhurriedInv'
  BY <1>3, UnlistedStep, UnhurriedUnlisted DEF ChangeSaved, monitor, outside, web
<1>5. CASE UNCHANGED reloadVars
  BY <1>2, <1>5 DEF reloadVars
<1>4. CASE \/ \E r \in Rooms : RoomFlips(r)
           \/ EventLoop
           \/ \E k \in SessionIds : SessionGoroutine(k)
  BY <1>2, <1>4 DEF Next
<1> QED BY <1>1, <1>3, <1>4, <1>5, ReloadCases

\* Also with the configuration file between the web and onStreamerChange the map
\* holds what goes on, and nothing on its way out; nobody reaches the controller
\* of a session that has ended.
THEOREM ReloadCorrect ==
  ReloadSpec => [](ActiveIsGoing /\ GoingIsActive /\ NoDeadController)
<1>1. SessionInv /\ UnhurriedInv => ActiveIsGoing /\ GoingIsActive
  BY DEF SessionInv, Framed, UnhurriedInv, InTheMap, IsOpen, GoingIsActive, Going, Open
<1>3. SessionInv => NoDeadController
  BY HeldAreOpen
<1>2. ReloadInit => SessionInv /\ UnhurriedInv
  BY InitSession, InitUnhurried DEF ReloadInit, FileInit
<1> QED BY <1>1, <1>2, <1>3, ReloadSessions, PTL DEF ReloadSpec

-----------------------------------------------------------------------------
(* No orphans.                                                             *)

\* Configuration objects are only ever appended; what is in them needs no type.
ObjectsKept ==
  /\ \E S : objects \in Seq(S)
  /\ hot \in DOMAIN objects /\ served \in DOMAIN objects
  /\ streamers = objects[hot]
  /\ reading \in Seq(DOMAIN objects)
  /\ notices \in Nat /\ changes \in Nat
  /\ saving \in {"none", "changed", "writing", "written", "typing"}

\* What the streamers are going to be once all is written and loaded
Wanted == IF saving = "changed" THEN objects[served]
          ELSE IF saving = "writing" THEN data ELSE file

\* What a goroutine of onStreamerChange is going to find listed is wanted.
ReadWanted == \A i \in DOMAIN reading : ToSet(objects[reading[i]]) \subseteq ToSet(Wanted)

\* While edits are made on the web, one after the other, and saved: what
\* hotCfg.Get() has lists only what is wanted, and it is the file once that has
\* been loaded.
FileFollows ==
  calm /\ ~byHand =>
    /\ saving # "typing"
    /\ saving = "changed" => served = hot /\ notices = 0
    /\ saving = "writing" => file = <<>>
    /\ saving \in {"none", "written"} /\ notices = 0 => streamers = file
    /\ ToSet(streamers) \subseteq ToSet(Wanted)
    /\ ReadWanted

\* A request or its onStreamerChange is still to come.
ToNotice == saving # "none" \/ changes # 0 \/ reading # <<>>

\* What goes on is wanted, or its removal is still to be noticed.
NoneLeft ==
  calm /\ ~byHand =>
    \A r \in Rooms \ hasty : Going(r) # {} /\ r \notin ToSet(Wanted) => ToNotice

ReloadInv == SessionInv /\ UnhurriedInv /\ ObjectsKept /\ FileFollows /\ NoneLeft

LEMMA EmptyList == ToSet(<<>>) = {}
BY DEF ToSet

\* What goes on after onStreamerChange was in its list.
LEMMA GoingListed ==
  ASSUME SessionInv, UnhurriedInv, NEW list, CancelUnlisted(list),
         UNCHANGED <<room, spc, started>>, NEW r \in Rooms \ hasty, Going(r)' # {}
  PROVE  r \in ToSet(list)
<1> DEFINE gone == {q \in Rooms : active[q] # None /\ q \notin ToSet(list)}
<1>1. cancelled' = cancelled \cup {active[q] : q \in gone}
  BY DEF CancelUnlisted
<1>2. PICK k \in 1 .. started : room[k] = r /\ IsOpen(k) /\ k \notin cancelled'
  BY <1>1 DEF Going, Open, SessionInv, Framed, IsOpen
<1>3. active[r] = k /\ k # None
  BY <1>1, <1>2 DEF UnhurriedInv, InTheMap, None
<1>4. r \notin gone
  BY <1>1, <1>2, <1>3
<1> QED BY <1>3, <1>4

\* A room's sessions go on unless they did not before, but for the start of one.
LEMMA GoingShrinks ==
  ASSUME SessionInv, UNCHANGED <<room, started>>, cancelled \subseteq cancelled',
         \A k \in 1 .. started : ~IsOpen(k) => ~IsOpen(k)'
  PROVE  \A r \in Rooms : Going(r)' \subseteq Going(r)
BY DEF SessionInv, Framed, Going, Open, IsOpen

LEMMA InitReload == ReloadInit => ReloadInv
<1> SUFFICES ASSUME ReloadInit PROVE ReloadInv
  OBVIOUS
<1>1. SessionInv /\ UnhurriedInv
  BY InitSession, InitUnhurried DEF ReloadInit, FileInit
<1>2. objects \in Seq({streamers}) /\ hot \in DOMAIN objects /\ served \in DOMAIN objects
      /\ streamers = objects[hot]
  BY DEF ReloadInit, FileInit
<1>3. ObjectsKept
  <2>1. <<>> \in Seq(DOMAIN objects)
    OBVIOUS
  <2> QED BY <1>2, <2>1 DEF ReloadInit, FileInit, Init, ObjectsKept
<1>4. Wanted = streamers /\ FileFollows
  BY DEF ReloadInit, FileInit, FileFollows, ReadWanted, Wanted
<1>5. \A r \in Rooms : Going(r) = {}
  BY DEF ReloadInit, FileInit, Init, Going, Open
<1>6. NoneLeft
  BY <1>5 DEF NoneLeft
<1> QED BY <1>1, <1>3, <1>4, <1>6 DEF ReloadInv

\* Sessions that a step of the file leaves alone
LEMMA FileGoing ==
  ASSUME ReloadInv, FileStep
  PROVE  SessionInv' /\ UnhurriedInv' /\ hasty' = hasty
         /\ \A r \in Rooms : Going(r)' = Going(r)
<1>1. UNCHANGED <<roomLive, hasty, events, started, room, spc, cancelled, active, cmdCtrl>>
  BY FileLeavesSessions
<1> QED BY <1>1, FileLeavesSessions, LosesControllers DEF ReloadInv, Going, Open

LEMMA EditStepInv ==
  ASSUME ReloadInv, NEW list, EditObject(list)
  PROVE  ReloadInv'
<1>1. SessionInv' /\ UnhurriedInv' /\ hasty' = hasty
      /\ \A r \in Rooms : Going(r)' = Going(r)
  BY FileGoing DEF FileStep
<1>2. /\ objects' = [objects EXCEPT ![served] = list] /\ saving = "none"
      /\ streamers' = IF served = hot THEN list ELSE streamers
      /\ saving' = "changed" /\ calm' = (calm /\ Settled)
      /\ UNCHANGED <<hot, served, file, data, notices, changes, reading, byHand>>
  BY DEF EditObject, HotSees
<1>3. ObjectsKept'
  <2>1. PICK S : objects \in Seq(S)
    BY DEF ReloadInv, ObjectsKept
  <2>2. objects' \in Seq(S \cup {list}) /\ DOMAIN objects' = DOMAIN objects
    BY <1>2, <2>1 DEF ReloadInv, ObjectsKept
  <2>3. streamers' = objects'[hot]
    BY <1>2 DEF ReloadInv, ObjectsKept
  <2>4. saving' \in {"none", "changed", "writing", "written", "typing"}
    BY <1>2
  <2> QED BY <1>2, <2>2, <2>3, <2>4 DEF ReloadInv, ObjectsKept
<1>4. ASSUME calm', ~byHand'
      PROVE  notices = 0 /\ served = hot /\ reading = <<>>
  BY <1>2, <1>4 DEF Settled, FileSettled
<1>5. Wanted' = list
  BY <1>2 DEF Wanted, ReloadInv, ObjectsKept
<1>6. FileFollows'
  BY <1>2, <1>4, <1>5 DEF FileFollows, ReadWanted
<1>7. NoneLeft'
  BY <1>2 DEF NoneLeft, ToNotice
<1> QED BY <1>1, <1>3, <1>6, <1>7 DEF ReloadInv

LEMMA ByHandStep ==
  ASSUME ReloadInv, NEW list, EditFile(list)
  PROVE  ReloadInv'
<1>1. SessionInv' /\ UnhurriedInv'
  BY FileGoing DEF FileStep
<1>2. ObjectsKept' /\ byHand' = TRUE
  BY DEF EditFile, ReloadInv, ObjectsKept, Noticed
<1> QED BY <1>1, <1>2 DEF ReloadInv, FileFollows, NoneLeft

LEMMA WriteStep ==
  ASSUME ReloadInv, Truncate \/ WriteFile \/ DropRuntime
  PROVE  ReloadInv'
<1>1. SessionInv' /\ UnhurriedInv' /\ hasty' = hasty
      /\ \A r \in Rooms : Going(r)' = Going(r)
  BY FileGoing DEF FileStep
<1>2. /\ UNCHANGED <<objects, hot, served, streamers, reading, byHand, calm>>
      /\ notices' \in Noticed \/ notices' = notices
      /\ changes' \in {changes, changes + 1}
      /\ saving' = "none" => saving = "typing" \/ changes' = changes + 1
  BY DEF Truncate, WriteFile, DropRuntime, lifeVars, config
<1>3. notices' \in Nat
  BY <1>2 DEF Noticed, ReloadInv, ObjectsKept
<1>4. ObjectsKept'
  BY <1>2, <1>3 DEF Truncate, WriteFile, DropRuntime, ReloadInv, ObjectsKept
<1>5. calm /\ ~byHand => Wanted' = Wanted
  BY <1>2 DEF Truncate, WriteFile, DropRuntime, Wanted, ReloadInv, FileFollows
<1>6. ASSUME WriteFile
      PROVE  notices' # 0
  BY <1>6 DEF WriteFile, Noticed, ReloadInv, ObjectsKept
<1>7. FileFollows'
  <2> SUFFICES ASSUME calm, ~byHand
               PROVE  /\ saving' # "typing" /\ saving' # "changed"
                      /\ saving' = "writing" => file' = <<>>
                      /\ saving' \in {"none", "written"} /\ notices' = 0 => streamers = file'
                      /\ ToSet(streamers) \subseteq ToSet(Wanted')
    BY <1>2, <1>5 DEF ReloadInv, FileFollows, ReadWanted
  <2>1. ToSet(streamers) \subseteq ToSet(Wanted')
    BY <1>5 DEF ReloadInv, FileFollows
  <2>2. CASE Truncate
    BY <2>1, <2>2 DEF Truncate
  <2>3. CASE WriteFile
    BY <1>6, <2>1, <2>3 DEF WriteFile, ReloadInv, FileFollows
  <2>4. CASE DropRuntime
    BY <2>1, <2>4 DEF DropRuntime, ReloadInv, FileFollows
  <2> QED BY <2>2, <2>3, <2>4
<1>8. NoneLeft'
  <2> SUFFICES ASSUME calm, ~byHand PROVE ToNotice'
    BY <1>2 DEF NoneLeft
  <2>1. changes \in Nat /\ saving # "typing"
    BY DEF ReloadInv, ObjectsKept, FileFollows
  <2> QED BY <1>2, <2>1 DEF ToNotice
<1> QED BY <1>1, <1>4, <1>7, <1>8 DEF ReloadInv

\* The removal that could not be saved is not noticed; the edits are not calm.
LEMMA FailStep ==
  ASSUME ReloadInv, SaveFails
  PROVE  ReloadInv'
<1>1. SessionInv' /\ UnhurriedInv'
  BY FileGoing DEF FileStep
<1>2. ObjectsKept' /\ calm' = FALSE
  BY DEF SaveFails, ReloadInv, ObjectsKept, lifeVars, config
<1> QED BY <1>1, <1>2 DEF ReloadInv, FileFollows, NoneLeft

\* The file is loaded, half written or not.
LEMMA LoadStep ==
  ASSUME ReloadInv, LoadFile
  PROVE  ReloadInv'
<1>1. SessionInv' /\ UnhurriedInv' /\ hasty' = hasty
      /\ \A r \in Rooms : Going(r)' = Going(r)
  BY FileGoing DEF FileStep
<1>2. /\ notices > 0 /\ notices' = notices - 1
      /\ objects' = Append(objects, file) /\ hot' = Len(objects') /\ streamers' = file
      /\ UNCHANGED <<changes, served, file, saving, data, reading, byHand, calm>>
  BY DEF LoadFile
<1>3. ObjectsKept'
  <2>1. PICK S : objects \in Seq(S)
    BY DEF ReloadInv, ObjectsKept
  <2>2. /\ objects' \in Seq(S \cup {file}) /\ DOMAIN objects' = 1 .. Len(objects) + 1
        /\ Len(objects') = Len(objects) + 1 /\ objects'[Len(objects) + 1] = file
        /\ DOMAIN objects = 1 .. Len(objects) /\ Len(objects) \in Nat
    BY <1>2, <2>1
  <2>3. hot' \in DOMAIN objects' /\ served' \in DOMAIN objects' /\ streamers' = objects'[hot']
    BY <1>2, <2>2 DEF ReloadInv, ObjectsKept
  <2>4. notices' \in Nat
    BY <1>2 DEF ReloadInv, ObjectsKept
  <2>5. DOMAIN objects \subseteq DOMAIN objects'
    BY <2>2
  <2>6. reading' \in Seq(DOMAIN objects')
    BY <1>2, <2>5 DEF ReloadInv, ObjectsKept
  <2> QED BY <1>2, <2>2, <2>3, <2>4, <2>6 DEF ReloadInv, ObjectsKept
<1>4. calm /\ ~byHand => saving \in {"none", "written", "writing"} /\ Wanted' = Wanted
  BY <1>2 DEF Wanted, ReloadInv, FileFollows, ObjectsKept
<1>5. FileFollows'
  <2> SUFFICES ASSUME calm, ~byHand
               PROVE  /\ saving # "typing" /\ saving # "changed"
                      /\ saving = "writing" => file = <<>>
                      /\ ToSet(file) \subseteq ToSet(Wanted)
                      /\ ReadWanted'
    BY <1>2, <1>4 DEF FileFollows
  <2>1. saving = "writing" => file = <<>>
    BY DEF ReloadInv, FileFollows
  <2>2. ToSet(file) \subseteq ToSet(Wanted)
    BY <1>4, <2>1, EmptyList DEF Wanted
  <2>3. ReadWanted'
    <3>1. PICK S : objects \in Seq(S)
      BY DEF ReloadInv, ObjectsKept
    <3>2. \A k \in DOMAIN objects : objects'[k] = objects[k]
      BY <1>2, <3>1
    <3>3. \A i \in DOMAIN reading : reading[i] \in DOMAIN objects
      BY DEF ReloadInv, ObjectsKept
    <3>4. ReadWanted /\ Wanted' = Wanted /\ reading' = reading
      BY <1>2, <1>4 DEF ReloadInv, FileFollows
    <3>5. \A i \in DOMAIN reading : objects'[reading[i]] = objects[reading[i]]
      BY <3>2, <3>3
    <3> HIDE DEF Wanted
    <3> QED BY <3>4, <3>5 DEF ReadWanted
  <2> QED BY <1>4, <2>1, <2>2, <2>3
<1>6. NoneLeft'
  BY <1>1, <1>2, <1>4 DEF NoneLeft, ToNotice, ReloadInv
<1> QED BY <1>1, <1>3, <1>5, <1>6 DEF ReloadInv

LEMMA InstallStep ==
  ASSUME ReloadInv, InstallConfig \/ \E i \in 1 .. MaxEdits : MarkFirstOf(i)
  PROVE  ReloadInv'
<1>1. SessionInv' /\ UnhurriedInv' /\ hasty' = hasty
      /\ \A r \in Rooms : Going(r)' = Going(r)
  BY FileGoing DEF FileStep
<1>2. /\ UNCHANGED <<objects, hot, streamers, changes, file, saving, data, notices,
                     reading, byHand, calm>>
      /\ served' = served \/ (served # hot /\ served' = hot)
  BY DEF InstallConfig, MarkFirstOf, lifeVars, config
<1>3. ObjectsKept'
  BY <1>2 DEF ReloadInv, ObjectsKept
<1>4. calm /\ ~byHand => Wanted' = Wanted
  BY <1>2 DEF Wanted, ReloadInv, FileFollows
<1>5. FileFollows'
  BY <1>2, <1>4 DEF ReloadInv, FileFollows, ReadWanted
<1>6. NoneLeft'
  BY <1>1, <1>2, <1>4 DEF NoneLeft, ToNotice, ReloadInv
<1> QED BY <1>1, <1>3, <1>5, <1>6 DEF ReloadInv

\* onStreamerChange keeps what hotCfg.Get() returns.
LEMMA GetStep ==
  ASSUME ReloadInv, GetConfig
  PROVE  ReloadInv'
<1>1. SessionInv' /\ UnhurriedInv' /\ hasty' = hasty
      /\ \A r \in Rooms : Going(r)' = Going(r)
  BY FileGoing DEF FileStep
<1>2. /\ UNCHANGED <<objects, hot, served, streamers, file, saving, data, notices,
                     byHand, calm>>
      /\ changes > 0 /\ changes' = changes - 1 /\ reading' = Append(reading, hot)
  BY DEF GetConfig
<1>3. /\ reading \in Seq(DOMAIN objects) /\ hot \in DOMAIN objects
      /\ streamers = objects[hot]
  BY DEF ReloadInv, ObjectsKept
<1>4. reading' \in Seq(DOMAIN objects) /\ reading' # <<>>
      /\ \A i \in DOMAIN reading' : \/ reading'[i] = hot
                                    \/ i \in DOMAIN reading /\ reading'[i] = reading[i]
  BY <1>2, <1>3
<1>5. ObjectsKept' /\ Wanted' = Wanted
  BY <1>2, <1>4 DEF ReloadInv, ObjectsKept, Wanted
<1>6. FileFollows'
  BY <1>2, <1>3, <1>4, <1>5 DEF ReloadInv, FileFollows, ReadWanted
<1>7. NoneLeft'
  BY <1>4 DEF NoneLeft, ToNotice
<1> QED BY <1>1, <1>5, <1>6, <1>7 DEF ReloadInv

\* Where what comes after i was, when i - 1 elements come before.
LEMMA Shifted ==
  ASSUME NEW i \in Int, NEW j \in Int, NEW m \in Int, NEW n \in Int,
         1 <= i, m = i - 1, i <= j, j <= n - 1
  PROVE  j - m \in 1 .. n - i /\ i + (j - m) \in 1 .. n
OBVIOUS

\* What is left of a sequence was in it.
LEMMA RemovedAt ==
  ASSUME NEW S, NEW s \in Seq(S), NEW i \in DOMAIN s
  PROVE  /\ RemoveAt(s, i) \in Seq(S)
         /\ \A j \in DOMAIN RemoveAt(s, i) : \E k \in DOMAIN s : RemoveAt(s, i)[j] = s[k]
<1>1. i \in 1 .. Len(s) /\ Len(s) \in Nat /\ DOMAIN s = 1 .. Len(s)
  OBVIOUS
<1> DEFINE a == SubSeq(s, 1, i - 1)
           b == SubSeq(s, i + 1, Len(s))
<1>2. a \in Seq(S) /\ Len(a) = i - 1 /\ \A j \in 1 .. i - 1 : a[j] = s[j]
  BY <1>1
<1>3. b \in Seq(S) /\ Len(b) = Len(s) - i /\ \A j \in 1 .. Len(s) - i : b[j] = s[i + j]
  BY <1>1
<1>4. RemoveAt(s, i) = a \o b
  BY DEF RemoveAt
<1> HIDE DEF a, b
<1>5. /\ a \o b \in Seq(S) /\ DOMAIN (a \o b) = 1 .. Len(a) + Len(b)
      /\ \A j \in 1 .. Len(a) + Len(b) :
           (a \o b)[j] = IF j <= Len(a) THEN a[j] ELSE b[j - Len(a)]
  <2>1. a \in Seq(S) /\ b \in Seq(S)
    BY <1>2, <1>3
  <2> QED BY <2>1
<1>6. ASSUME NEW j \in 1 .. Len(a) + Len(b)
      PROVE  \E k \in DOMAIN s : (a \o b)[j] = s[k]
  <2>1. CASE j <= Len(a)
    <3>1. j \in 1 .. i - 1 /\ j \in DOMAIN s
      BY <1>1, <1>2, <2>1
    <3> QED BY <1>2, <1>5, <2>1, <3>1
  <2>2. CASE ~(j <= Len(a))
    <3>1. /\ Len(a) = i - 1 /\ Len(b) = Len(s) - i /\ Len(s) \in Nat
          /\ i \in Int /\ j \in Int /\ i <= j /\ j <= Len(s) - 1
      BY <1>1, <1>2, <1>3, <2>2
    <3>2. j - Len(a) \in 1 .. Len(s) - i /\ i + (j - Len(a)) \in 1 .. Len(s)
      <4> DEFINE n == Len(s)
                 m == Len(a)
      <4>1. i \in Int /\ j \in Int /\ 1 <= i /\ i <= j
        BY <1>1, <3>1
      <4>2. m \in Int /\ n \in Int /\ m = i - 1 /\ j <= n - 1
        BY <3>1
      <4> HIDE DEF n, m
      <4>3. j - m \in 1 .. n - i /\ i + (j - m) \in 1 .. n
        BY ONLY <4>1, <4>2, Shifted, Zenon
      <4> QED BY <4>3 DEF n, m
    <3> QED BY <1>1, <1>3, <1>5, <2>2, <3>2
  <2> QED BY <2>1, <2>2
<1> QED BY <1>4, <1>5, <1>6

\* onStreamerChange: what goes on afterwards is configured.
LEMMA ChangeStep ==
  ASSUME ReloadInv, NEW i, ChangeSaved(i)
  PROVE  ReloadInv'
<1>1. SessionInv' /\ UnhurriedInv'
  BY UnlistedStep, UnhurriedUnlisted DEF ReloadInv, ChangeSaved, monitor, outside, web
<1>2. /\ UNCHANGED <<hasty, streamers, objects, hot, served, file, saving, data, notices,
                     changes, room, spc, started, byHand, calm>>
      /\ i \in DOMAIN reading /\ reading' = RemoveAt(reading, i)
      /\ CancelUnlisted(objects[reading[i]])
  BY DEF ChangeSaved, monitor, outside
<1>3. /\ reading' \in Seq(DOMAIN objects)
      /\ \A j \in DOMAIN reading' : \E k \in DOMAIN reading : reading'[j] = reading[k]
  BY <1>2, RemovedAt DEF ReloadInv, ObjectsKept
<1>4. ObjectsKept' /\ Wanted' = Wanted
  BY <1>2, <1>3 DEF ReloadInv, ObjectsKept, Wanted
<1>5. FileFollows'
  BY <1>2, <1>3, <1>4 DEF ReloadInv, FileFollows, ReadWanted
<1>6. NoneLeft'
  <2> SUFFICES ASSUME calm, ~byHand, NEW r \in Rooms \ hasty, Going(r)' # {}
               PROVE  r \in ToSet(Wanted)
    BY <1>2, <1>4 DEF NoneLeft
  <2>1. r \in ToSet(objects[reading[i]])
    BY <1>2, GoingListed DEF ReloadInv
  <2> QED BY <1>2, <2>1 DEF ReloadInv, FileFollows, ReadWanted
<1> QED BY <1>1, <1>4, <1>5, <1>6 DEF ReloadInv

\* Everything else: a session starts for a configured streamer only.
LEMMA ElsewhereStep ==
  ASSUME ReloadInv, UNCHANGED fileVars,
         \/ \E r \in Rooms : RoomFlips(r)
         \/ EventLoop
         \/ \E k \in SessionIds : SessionGoroutine(k)
         \/ UNCHANGED lifeVars
  PROVE  ReloadInv'
<1>1. SessionInv' /\ UnhurriedInv'
  BY NextSession, NextUnhurried DEF ReloadInv, Next
<1>2. UNCHANGED <<streamers, changes>>
  BY DEF RoomFlips, EventLoop, UnknownRoom, GoesLive, GoesOffline, SessionGoroutine,
     Register, LinkCommands, RunEnds, Unregister, UnlinkCommands, Leave, lifeVars, config
<1>3. UNCHANGED <<objects, hot, served, file, saving, data, notices, reading, byHand,
                  calm>>
  BY DEF fileVars
<1>4. ObjectsKept' /\ FileFollows' /\ Wanted' = Wanted
  BY <1>2, <1>3 DEF ReloadInv, ObjectsKept, FileFollows, ReadWanted, Wanted
<1>5. hasty \subseteq hasty'
  BY DEF RoomFlips, EventLoop, UnknownRoom, GoesLive, GoesOffline, SessionGoroutine,
     Register, LinkCommands, RunEnds, Unregister, UnlinkCommands, Leave, lifeVars,
     monitor, outside
<1>6. \A r \in Rooms : Configured(r) \/ Going(r)' \subseteq Going(r)
  <2>1. CASE GoesLive /\ active[Head(events).room] = None
    <3> DEFINE q == Head(events).room
    <3>1. /\ Configured(q) /\ started' = started + 1 /\ cancelled' = cancelled
          /\ room' = [k \in 1 .. started' |-> IF k = started' THEN q ELSE room[k]]
          /\ spc' = [k \in 1 .. started' |-> IF k = started' THEN "create" ELSE spc[k]]
          /\ started \in Nat /\ DOMAIN room = 1 .. started
      BY <2>1 DEF GoesLive, ReloadInv, SessionInv, Framed
    <3> SUFFICES ASSUME NEW r \in Rooms, r # q, NEW k \in Going(r)'
                 PROVE  k \in Going(r)
      BY <3>1
    <3>2. k \in 1 .. started' /\ room'[k] = r /\ spc'[k] # "ended" /\ k \notin cancelled
      BY <3>1 DEF Going, Open
    <3>3. k \in 1 .. started /\ room[k] = r /\ spc[k] # "ended"
      BY <3>1, <3>2
    <3> QED BY <3>1, <3>2, <3>3 DEF Going, Open
  <2>2. CASE \/ UNCHANGED lifeVars \/ \E r \in Rooms : RoomFlips(r)
             \/ UnknownRoom \/ GoesOffline
             \/ GoesLive /\ active[Head(events).room] # None
    <3>1. UNCHANGED <<room, spc, started>> /\ cancelled \subseteq cancelled'
      BY <2>2 DEF lifeVars, RoomFlips, UnknownRoom, GoesOffline, GoesLive, sessions,
         CancelActive
    <3> QED BY <3>1, GoingShrinks DEF ReloadInv, IsOpen
  <2>3. CASE \E k \in SessionIds : SessionGoroutine(k)
    <3>1. PICK k \in SessionIds : SessionGoroutine(k)
      BY <2>3
    <3>2. UNCHANGED <<room, started>> /\ cancelled \subseteq cancelled'
      BY <3>1 DEF SessionGoroutine, Register, LinkCommands, RunEnds, Unregister,
         UnlinkCommands, Leave
    <3>3. PICK p \in Steps, q \in Steps \ {"ended"} : At(k, q) /\ Goto(k, p)
      BY <3>1 DEF SessionGoroutine, Register, LinkCommands, RunEnds, Unregister,
         UnlinkCommands, Leave, Steps
    <3>4. \A j \in 1 .. started : ~IsOpen(j) => ~IsOpen(j)'
      BY <3>3, GotoStep DEF ReloadInv, SessionInv, IsOpen
    <3> QED BY <3>2, <3>4, GoingShrinks DEF ReloadInv
  <2> QED BY <2>1, <2>2, <2>3 DEF EventLoop
<1>7. NoneLeft'
  BY <1>2, <1>3, <1>4, <1>5, <1>6 DEF NoneLeft, ToNotice, FileFollows, ReloadInv, Configured
<1> QED BY <1>1, <1>4, <1>7 DEF ReloadInv

LEMMA NextReload == ReloadInv /\ [ReloadNext]_reloadVars => ReloadInv'
<1> SUFFICES ASSUME ReloadInv, [ReloadNext]_reloadVars PROVE ReloadInv'
  OBVIOUS
<1>1. CASE FileStep
  BY <1>1, EditStepInv, ByHandStep, WriteStep, FailStep, LoadStep, InstallStep, GetStep
  DEF FileStep
<1>2. CASE UNCHANGED reloadVars
  BY <1>2, ElsewhereStep DEF reloadVars
<1> QED BY <1>1, <1>2, ChangeStep, ElsewhereStep, ReloadCases

\* However many streamers are removed on the web, one after the other, and
\* however the truncated file, its loads and onStreamerChange interleave with
\* the sessions: none goes on that cannot be stopped.
THEOREM RemovalCorrect == ReloadSpec => []NoOrphan
<1>1. ASSUME ReloadInv
      PROVE  NoOrphan
  <2> SUFFICES ASSUME Settled, calm, ~byHand, NEW r \in Rooms \ hasty, ~Configured(r)
               PROVE  Going(r) = {}
    BY DEF NoOrphan, Orphan
  <2>1. saving = "none" /\ notices = 0 /\ changes = 0 /\ reading = <<>>
    BY DEF Settled, FileSettled
  <2>2. Wanted = file /\ streamers = file
    BY <1>1, <2>1 DEF Wanted, ReloadInv, FileFollows
  <2> QED BY <1>1, <2>1, <2>2 DEF ReloadInv, NoneLeft, ToNotice, Configured
<1> QED BY <1>1, InitReload, NextReload, PTL DEF ReloadSpec
=============================================================================
