------------------------------ MODULE HotConfig -----------------------------
(***************************************************************************)
(* The configuration: the file, the object that the web server works on,   *)
(* and the watcher that loads the file again whenever it was written.      *)
(* Handlers of the web server change the object in place and then save it; *)
(* an operator edits the file.  A save truncates the file and fills it,    *)
(* and the watcher hears of both.  It may fail at either, and the handler  *)
(* then answers 500 and leaves the object as it has changed it.            *)
(*                                                                         *)
(* A configuration is the set of changes it has in it.  Base stands for    *)
(* what it was at the start; a truncated file has nothing in it.           *)
(***************************************************************************)
EXTENDS Integers, FiniteSets

CONSTANTS Base,      \* the configuration at the start
          Changes,   \* changes that are made, each once
          ByHand     \* those that an operator makes in the file

ASSUME ChangesAssumption == ByHand \subseteq Changes /\ Base \notin Changes

VARIABLES
  file,     \* what is in the file
  parses,   \* whether it is valid YAML
  cfg,      \* s.cfg, the object of the web server
  events,   \* the watcher's events that have not been read
  loaded,   \* what reload has loaded and not installed, or {}
  stage,    \* where the request that makes a change stands
  data,     \* what the request is going to write
  calm,     \* history: every request began when all earlier ones had settled
  unsaved   \* history: a save has failed since a file was last installed

configVars == <<file, parses, cfg, events, loaded, stage, data, calm, unsaved>>

ConfigInit ==
  /\ file = {Base} /\ parses = TRUE /\ cfg = {Base}
  /\ events = 0 /\ loaded = {}
  /\ stage = [c \in Changes |-> "none"] /\ data = [c \in Changes |-> {}]
  /\ calm = TRUE /\ unsaved = FALSE

\* Stages in which no request is under way: "failed" has left the file as it
\* was, "torn" has truncated it.
AtRest == {"none", "saved", "failed", "torn"}
Idle == \A c \in Changes : stage[c] \in AtRest
Settled == Idle /\ events = 0 /\ loaded = {}

Advance(c, from, to) == stage[c] = from /\ stage' = [stage EXCEPT ![c] = to]

-----------------------------------------------------------------------------
(* Requests of the web server, and the operator.                           *)

\* A handler changes the object, in place.
ChangeObject(c) ==
  /\ c \notin ByHand /\ Advance(c, "none", "changed")
  /\ cfg' = cfg \cup {c}
  /\ calm' = (calm /\ Settled)
  /\ UNCHANGED <<file, parses, events, loaded, data, unsaved>>

Unchanged(c) == cfg \ {c}                                        \* mutant
\* yaml.Marshal of the object the server has by then
Marshalled(c) == cfg

Marshal(c) ==
  /\ Advance(c, "changed", "ready")
  /\ data' = [data EXCEPT ![c] = Marshalled(c)]
  /\ UNCHANGED <<file, parses, cfg, events, loaded, calm, unsaved>>

\* The operator starts from what the file holds.
OpenEditor(c) ==
  /\ c \in ByHand /\ Advance(c, "none", "ready")
  /\ parses /\ file # {}
  /\ data' = [data EXCEPT ![c] = file \cup {c}]
  /\ calm' = (calm /\ Settled)
  /\ UNCHANGED <<file, parses, cfg, events, loaded, unsaved>>

\* Save returns an error before it has touched the file: yaml.Marshal fails, or
\* os.WriteFile cannot open it.
SaveFails(c) ==
  /\ c \notin ByHand /\ \E from \in {"changed", "ready"} : Advance(c, from, "failed")
  /\ unsaved' = TRUE
  /\ UNCHANGED <<file, parses, cfg, events, loaded, data, calm>>

\* One more event, unless it is merged with one that waits
Noticed == {events + 1} \cup IF events > 0 THEN {events} ELSE {}

\* os.WriteFile: the file is truncated,
Truncate(c) ==
  /\ Advance(c, "ready", "writing")
  /\ file' = {} /\ parses' = TRUE
  /\ events' \in Noticed
  /\ UNCHANGED <<cfg, loaded, data, calm, unsaved>>

\* and written from its start.  What another one has written meanwhile is
\* written over; if it was longer, its end stays.
Write(c) ==
  /\ Advance(c, "writing", "saved")
  /\ file' = data[c]
  /\ parses' \in IF file = {} /\ parses THEN {TRUE} ELSE BOOLEAN
  /\ events' \in Noticed
  /\ UNCHANGED <<cfg, loaded, data, calm, unsaved>>

\* The write fails when nothing or a part has been written.
WriteFails(c) ==
  /\ c \notin ByHand /\ Advance(c, "writing", "torn")
  /\ \/ UNCHANGED <<file, parses, events>>
     \/ /\ file' \in SUBSET data[c] /\ parses' \in BOOLEAN
        /\ events' \in Noticed
  /\ unsaved' = TRUE
  /\ UNCHANGED <<cfg, loaded, data, calm>>

-----------------------------------------------------------------------------
(* The watcher.                                                            *)

\* reload: Load fails on a file that does not parse, not on an empty one.
Read ==
  /\ events > 0 /\ loaded = {}
  /\ events' = events - 1
  /\ loaded' = IF parses THEN {file} ELSE {}
  /\ UNCHANGED <<file, parses, cfg, stage, data, calm, unsaved>>

KeptObject(x) == cfg                                             \* mutant
\* UpdateConfig replaces the server's object.
Installed(x) == x

Install ==
  /\ \E x \in loaded : cfg' = Installed(x)
  /\ loaded' = {} /\ unsaved' = FALSE
  /\ UNCHANGED <<file, parses, events, stage, data, calm>>

ConfigNext ==
  \/ \E c \in Changes : \/ ChangeObject(c) \/ Marshal(c) \/ OpenEditor(c)
                        \/ Truncate(c) \/ Write(c) \/ SaveFails(c) \/ WriteFails(c)
  \/ Read \/ Install

ConfigSpec == ConfigInit /\ [][ConfigNext]_configVars

-----------------------------------------------------------------------------

\* "Config changes apply without restart" (README): once every request has
\* ended and the watcher has nothing left to do, the server works with what the
\* file says, whoever wrote it and whatever was read half written.  The exception
\* is a save that failed: its change is in the object and not in the file, until
\* a later write has the file loaded again.
ServerFollowsFile == Settled /\ parses /\ ~unsaved => cfg = file

\* Changes that are made one at a time, each after the last one has settled,
\* are all in the file in the end, although the watcher may take the truncated
\* file for the configuration in between, and although others could not be saved.
\* (Of those that overlap one may undo the other, or save the empty
\* configuration; and a write that fails leaves the truncated file.)
CalmChangesKept ==
  calm /\ Settled /\ (\A c \in Changes : stage[c] # "torn") =>
    /\ parses /\ Base \in file
    /\ \A c \in Changes : stage[c] = "saved" => c \in file

=============================================================================
