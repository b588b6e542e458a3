------------------------------ MODULE Credentials ---------------------------
(***************************************************************************)
(* The path of the speech credentials on its way between the file, the     *)
(* configuration in memory and the environment of the process.  Load joins *)
(* the directory of the file to a relative path, and Save writes what the  *)
(* memory holds.                                                           *)
(*                                                                         *)
(* A path is the number of times that directory has been joined to it; it  *)
(* names the credentials when that is once.                                *)
(***************************************************************************)
EXTENDS Integers

CONSTANTS Absolute,  \* whether the program is given an absolute path
          MaxSaves   \* bound: saves

VARIABLES
  up,      \* the process runs
  inFile,  \* stt.credentials in the file
  inCfg,   \* cfg.STT.Credentials of the server's configuration
  env,     \* GOOGLE_APPLICATION_CREDENTIALS of the process, or {}
  unread,  \* the watcher has yet to load the file again
  saves    \* saves so far

credentialsVars == <<up, inFile, inCfg, env, unread, saves>>

CredentialsInit ==
  /\ up = FALSE /\ inFile = 0 /\ inCfg = 0 /\ env = {}
  /\ unread = FALSE /\ saves = 0

\* filepath.IsAbs of a joined path is that of the directory.
Joined(path) == IF Absolute /\ path > 0 THEN path ELSE path + 1

Load == inCfg' = Joined(inFile) /\ env' = IF env = {} THEN {inCfg'} ELSE env

Start ==
  /\ ~up /\ up' = TRUE
  /\ Load
  /\ UNCHANGED <<inFile, unread, saves>>

\* Any request that changes the configuration
SaveConfig ==
  /\ up /\ saves < MaxSaves /\ saves' = saves + 1
  /\ inFile' = inCfg /\ unread' = TRUE
  /\ UNCHANGED <<up, inCfg, env>>

ReloadConfig ==
  /\ up /\ unread /\ unread' = FALSE
  /\ Load
  /\ UNCHANGED <<up, inFile, saves>>

Stop ==
  /\ up /\ up' = FALSE
  /\ env' = {} /\ unread' = FALSE
  /\ UNCHANGED <<inFile, inCfg, saves>>

CredentialsNext == Start \/ SaveConfig \/ ReloadConfig \/ Stop

CredentialsSpec == CredentialsInit /\ [][CredentialsNext]_credentialsVars

-----------------------------------------------------------------------------

\* "credentials: ... # relative to config dir" (README): speech recognition is
\* told that file, whenever the program was started and whatever was saved.
CredentialsFound == up => env = {1}

=============================================================================
