-------------------------------- MODULE Reload ------------------------------
(***************************************************************************)
(* Lifecycle together with the configuration file.  Streamers are edited   *)
(* on the web, which changes the server's object in place and saves it, or *)
(* in the file by hand; the watcher loads the file into a new object and   *)
(* then gives it to the server.  onStreamerChange keeps the object that it *)
(* began with.                                                             *)
(*                                                                         *)
(* One save is under way at a time; HotConfig has them overlap.  In this   *)
(* module streamers is what hotCfg.Get() has: objects[hot].                *)
(***************************************************************************)
EXTENDS Lifecycle

VARIABLES
  objects,   \* every configuration object so far: its streamers
  hot,       \* hc.cfg
  served,    \* s.cfg of the web server
  file,      \* the streamers in the file; none while it is truncated
  saving,    \* "none"; "changed", "writing", "written"; "typing" by hand
  reading,   \* the objects of the goroutines that have not taken mu yet
  dropped,   \* the streamers whose runtime the request is going to delete
  data,      \* what is going to be written
  notices,   \* events of the watcher that have not been read
  pending,   \* the objects of the goroutines that marks counts
  byHand,    \* history: an edit was made by hand
  calm       \* history: each edit began when all earlier ones had settled,
             \* and was saved

fileVars == <<objects, hot, served, file, saving, dropped, data, notices,
              reading, pending, byHand, calm>>
reloadVars == <<lifeVars, fileVars>>

FileInit ==
  /\ objects = <<streamers>> /\ hot = 1 /\ served = 1
  /\ file = streamers /\ saving = "none" /\ dropped = {} /\ data = <<>>
  /\ notices = 0 /\ reading = <<>> /\ pending = <<>> /\ byHand = FALSE

ReloadInit == Init /\ FileInit /\ calm = TRUE

FileSettled == saving = "none" /\ notices = 0 /\ served = hot
Settled == FileSettled /\ changes = 0 /\ reading = <<>> /\ marks = 0

-----------------------------------------------------------------------------
(* Edits.                                                                  *)

Without(list, r) == SelectSeq(list, LAMBDA x : x # r)
With(list, r) == IF r \in ToSet(list) THEN list ELSE Append(list, r)

HotUnaware(list) == streamers                                    \* mutant
\* hotCfg.Get() is the server's object unless the watcher has just replaced it.
HotSees(list) == IF served = hot THEN list ELSE streamers

\* A handler changes the server's object.
EditObject(list) ==
  /\ ~crashed /\ edits < MaxEdits /\ saving = "none"
  /\ objects' = [objects EXCEPT ![served] = list]
  /\ streamers' = HotSees(list)
  /\ saving' = "changed" /\ edits' = edits + 1
  /\ calm' = (calm /\ Settled)
  /\ UNCHANGED <<monitor, changes, marks, active, sessions, web, cmdCtrl, crashed,
                 hot, served, file, data, notices, reading, pending, byHand>>

AddStreamer(r) ==
  EditObject(With(objects[served], r)) /\ UNCHANGED dropped

DropStreamer(r) ==
  /\ r \in ToSet(objects[served]) /\ dropped' = {r}
  /\ EditObject(Without(objects[served], r))

Noticed == {notices + 1} \cup IF notices > 0 THEN {notices} ELSE {}

\* Save marshals the object and truncates the file,
Truncate ==
  /\ ~crashed /\ saving = "changed" /\ saving' = "writing"
  /\ data' = objects[served] /\ file' = <<>> /\ notices' \in Noticed
  /\ UNCHANGED <<lifeVars, objects, hot, served, dropped, reading, pending, byHand, calm>>

\* an editor truncates it as well,
EditFile(list) ==
  /\ ~crashed /\ edits < MaxEdits /\ saving = "none" /\ file # list
  /\ saving' = "typing" /\ data' = list /\ file' = <<>> /\ notices' \in Noticed
  /\ edits' = edits + 1 /\ byHand' = TRUE /\ calm' = (calm /\ Settled)
  /\ UNCHANGED <<monitor, streamers, changes, marks, active, sessions, web, cmdCtrl,
                 crashed, objects, hot, served, dropped, reading, pending>>

\* and what was to be written is written.
WriteFile ==
  /\ ~crashed /\ saving \in {"writing", "typing"}
  /\ saving' = IF saving = "writing" THEN "written" ELSE "none"
  /\ file' = data /\ notices' \in Noticed
  /\ UNCHANGED <<lifeVars, objects, hot, served, dropped, data, reading, pending,
                 byHand, calm>>

\* Save fails, before it has opened the file or after: the handler answers 500,
\* deletes no runtime and starts no onStreamerChange.  (What a write leaves that
\* fails in the middle is in HotConfig.)
SaveFails ==
  /\ ~crashed /\ saving \in {"changed", "writing"} /\ saving' = "none" /\ dropped' = {}
  /\ calm' = FALSE
  /\ UNCHANGED <<lifeVars, objects, hot, served, file, data, notices, reading, pending,
                 byHand>>

\* Then the handler deletes the runtime of a streamer that it has removed, and
\* starts onStreamerChange.
DropRuntime ==
  /\ ~crashed /\ saving = "written" /\ saving' = "none" /\ dropped' = {}
  /\ changes' = changes + 1
  /\ webLive' = [r \in Rooms |-> webLive[r] /\ r \notin dropped]
  /\ webCtrl' = [r \in Rooms |-> IF r \in dropped THEN None ELSE webCtrl[r]]
  /\ UNCHANGED <<monitor, streamers, edits, marks, active, sessions, cmdCtrl,
                 crashed, objects, hot, served, file, data, notices, reading, pending,
                 byHand, calm>>

-----------------------------------------------------------------------------
(* The watcher, and onStreamerChange.                                      *)

\* reload: a truncated file is a configuration without streamers.
LoadFile ==
  /\ ~crashed /\ notices > 0 /\ served = hot
  /\ notices' = notices - 1
  /\ objects' = Append(objects, file) /\ hot' = Len(objects') /\ streamers' = file
  /\ UNCHANGED <<monitor, edits, changes, marks, active, sessions, web, cmdCtrl,
                 crashed, served, file, saving, dropped, data, reading, pending,
                 byHand, calm>>

\* The callback: UpdateConfig.  Sessions are left alone.
InstallConfig ==
  /\ ~crashed /\ served # hot /\ served' = hot
  /\ UNCHANGED <<lifeVars, objects, hot, file, saving, dropped, data, notices, reading,
                 pending, byHand, calm>>

\* onStreamerChange: the goroutine keeps what hotCfg.Get() returns,
GetConfig ==
  /\ ~crashed /\ changes > 0 /\ changes' = changes - 1
  /\ reading' = Append(reading, hot)
  /\ UNCHANGED <<monitor, streamers, edits, marks, active, sessions, web, cmdCtrl, crashed,
                 objects, hot, served, file, saving, dropped, data, notices, pending,
                 byHand, calm>>

\* and takes mu.
ChangeSaved(i) ==
  /\ ~crashed /\ i \in DOMAIN reading
  /\ CancelUnlisted(objects[reading[i]])
  /\ reading' = RemoveAt(reading, i)
  /\ pending' = Append(pending, reading[i]) /\ marks' = marks + 1
  /\ UNCHANGED <<monitor, streamers, edits, changes, started, room, spc, web, cmdCtrl,
                 crashed, objects, hot, served, file, saving, dropped, data, notices,
                 byHand, calm>>

\* SetLive(newCfg.Streamers[0].Name, false)
MarkFirstOf(i) ==
  /\ ~crashed /\ i \in DOMAIN pending
  /\ pending' = RemoveAt(pending, i) /\ marks' = marks - 1
  /\ LET list == objects[pending[i]] IN
       IF list = <<>>
       THEN crashed' = TRUE /\ UNCHANGED webLive
       ELSE webLive' = [webLive EXCEPT ![Head(list)] = FALSE] /\ UNCHANGED crashed
  /\ UNCHANGED <<monitor, streamers, edits, changes, active, sessions, webCtrl, cmdCtrl,
                 objects, hot, served, file, saving, dropped, data, notices, reading,
                 byHand, calm>>

Elsewhere ==
  /\ \/ \E r \in Rooms : RoomFlips(r)
     \/ EventLoop
     \/ \E k \in SessionIds : SessionGoroutine(k)
  /\ UNCHANGED fileVars

ReloadNext ==
  \/ \E r \in Rooms : \/ AddStreamer(r) \/ DropStreamer(r)
                      \/ EditFile(With(file, r)) \/ EditFile(Without(file, r))
  \/ Truncate \/ WriteFile \/ SaveFails \/ DropRuntime \/ LoadFile \/ InstallConfig
  \/ GetConfig \/ \E i \in 1 .. MaxEdits : ChangeSaved(i) \/ MarkFirstOf(i)
  \/ Elsewhere

ReloadSpec == ReloadInit /\ [][ReloadNext]_reloadVars

-----------------------------------------------------------------------------

Orphan(r) == r \notin hasty /\ ~Configured(r) /\ Going(r) # {}

\* Removing a streamer on the web stops its session, although the file is
\* truncated, loaded and installed between the change and onStreamerChange.
\* A session whose streamer is gone could not be stopped at all: the event that
\* its room is offline is one of an unknown room.  Of an edit whose Save
\* failed nobody is told, so calm excepts it.
NoOrphan == Settled /\ calm /\ ~byHand => \A r \in Rooms : ~Orphan(r)

\* "Hot reload -- Config changes apply without restart" (README): so does the
\* removal of a streamer from the file by hand, once the file has been loaded.
RemovedStops == Settled /\ calm => \A r \in Rooms : ~Orphan(r)

=============================================================================
