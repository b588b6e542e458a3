------------------------------- MODULE BotPool ------------------------------
(***************************************************************************)
(* The bots that send danmaku, and the accounts of the database they are   *)
(* made from.  Every request that changes an account runs syncDBBots in    *)
(* its goroutine, and so does the watcher after every reload of the        *)
(* configuration: it lists the accounts and then goes through them, and    *)
(* two of them may do so at once.                                          *)
(*                                                                         *)
(* A row of the table has the number of the last time it was saved.  The   *)
(* table has no key on names, so an account may have several rows, here    *)
(* in the order of their ids.  A bot is an object: a sync that has found   *)
(* one updates that object even if the pool has another one by then.       *)
(* Accounts are valid and their limits positive, as those of a login are.  *)
(* Any statement of the database may fail; one that changes nothing then,  *)
(* and ends its request, is no step.                                       *)
(***************************************************************************)
EXTENDS Integers, SequencesExt

CONSTANTS Accounts,   \* names of accounts
          Syncs,      \* runs of syncDBBots, each with what it follows
          MaxSaves    \* bound: times an account is saved

ASSUME SavesAssumption == MaxSaves \in Nat

VARIABLES
  db,       \* the rows of an account
  saves,    \* times an account was saved
  pool,     \* the bot of an account in the pool, or 0
  bots,     \* what every bot has of its account
  step,     \* where a sync stands
  rows,     \* rows that a sync has listed and not yet dealt with
  found,    \* the row that a request inserts, or that its sync looks at
  reloads,  \* syncs that the watcher has run
  crowded,  \* history: two of them ran at once
  missed    \* history: no sync has read the accounts since one ended with an error

botVars == <<db, saves, pool, bots, step, rows, found, reloads, crowded, missed>>

BotInit ==
  /\ db = [a \in Accounts |-> <<>>] /\ saves = 0
  /\ pool = [a \in Accounts |-> 0] /\ bots = <<>>
  /\ step = [s \in Syncs |-> "none"]
  /\ rows = [s \in Syncs |-> [a \in Accounts |-> <<>>]] /\ found = [s \in Syncs |-> <<>>]
  /\ reloads = {} /\ crowded = FALSE /\ missed = FALSE

Running(s) == step[s] \notin {"none", "done"}
Quiet == \A s \in Syncs : ~Running(s)

Begin(s, next) ==
  /\ step[s] = "none" /\ step' = [step EXCEPT ![s] = next]
  /\ crowded' = (crowded \/ ~Quiet)
  /\ UNCHANGED <<pool, bots, rows>>

\* RowsAffected of UPDATE ... WHERE name
Updated(a) == Len(db[a])

\* A login by QR code: every row of that name is updated; if the account cannot
\* be read back the request ends there, without a sync.
SaveAccount(s, a) ==
  /\ IF Updated(a) > 0
     THEN \/ Begin(s, "list") /\ UNCHANGED missed
          \/ Begin(s, "done") /\ missed' = TRUE
     ELSE Begin(s, "insert") /\ UNCHANGED missed
  /\ saves < MaxSaves /\ saves' = saves + 1
  /\ db' = [db EXCEPT ![a] = [i \in DOMAIN @ |-> saves']]
  /\ found' = [found EXCEPT ![s] = <<a, saves'>>]
  /\ UNCHANGED reloads

\* If there was none one is inserted, or the request ends with the error.
InsertAccount(s) ==
  /\ step[s] = "insert" /\ step' = [step EXCEPT ![s] = "list"]
  /\ db' = [db EXCEPT ![found[s][1]] = Append(@, found[s][2])]
  /\ UNCHANGED <<saves, pool, bots, rows, found, reloads, crowded, missed>>

InsertFails(s) ==
  /\ step[s] = "insert" /\ step' = [step EXCEPT ![s] = "done"]
  /\ UNCHANGED <<db, saves, pool, bots, rows, found, reloads, crowded, missed>>

\* The settings of one row are saved.
SaveSettings(s, a, i) ==
  /\ Begin(s, "list")
  /\ saves < MaxSaves /\ saves' = saves + 1
  /\ db' = [db EXCEPT ![a][i] = saves']
  /\ UNCHANGED <<found, reloads, missed>>

DeleteAccount(s, a, i) ==
  /\ Begin(s, "list")
  /\ db' = [db EXCEPT ![a] = RemoveAt(@, i)]
  /\ UNCHANGED <<saves, found, reloads, missed>>

\* The configuration was loaded again, by the watcher's one goroutine.
ConfigReloaded(s) ==
  /\ Begin(s, "list")
  /\ \A r \in reloads : ~Running(r)
  /\ reloads' = reloads \cup {s}
  /\ UNCHANGED <<db, saves, found, missed>>

-----------------------------------------------------------------------------
(* syncDBBots.                                                             *)

ListAccounts(s) ==
  /\ step[s] = "list" /\ step' = [step EXCEPT ![s] = "next"]
  /\ rows' = [rows EXCEPT ![s] = db] /\ missed' = FALSE
  /\ UNCHANGED <<db, saves, pool, bots, found, reloads, crowded>>

\* The error is logged, and the pool stays as it is until the next sync.
ListFails(s) ==
  /\ step[s] = "list" /\ step' = [step EXCEPT ![s] = "done"]
  /\ missed' = TRUE
  /\ UNCHANGED <<db, saves, pool, bots, rows, found, reloads, crowded>>

\* pool.Get for the next row; rows of other accounts may come in any order.
LookUp(s) ==
  /\ step[s] = "next" /\ step' = [step EXCEPT ![s] = "put"]
  /\ \E a \in Accounts :
       /\ rows[s][a] # <<>>
       /\ rows' = [rows EXCEPT ![s][a] = Tail(@)]
       /\ found' = [found EXCEPT ![s] = <<a, Head(rows[s][a]), pool[a]>>]
  /\ UNCHANGED <<db, saves, pool, bots, reloads, crowded, missed>>

NotRefreshed(b, x) == bots                                       \* mutant
\* UpdateCredentials
Refreshed(b, x) == [bots EXCEPT ![b] = x]

\* A bot that was found gets the credentials; otherwise one is added.
PutBot(s) ==
  /\ step[s] = "put" /\ step' = [step EXCEPT ![s] = "next"]
  /\ LET a == found[s][1]  x == found[s][2]  b == found[s][3] IN
       IF b # 0
       THEN bots' = Refreshed(b, x) /\ UNCHANGED pool
       ELSE bots' = Append(bots, x) /\ pool' = [pool EXCEPT ![a] = Len(bots')]
  /\ found' = [found EXCEPT ![s] = <<>>]
  /\ UNCHANGED <<db, saves, rows, reloads, crowded, missed>>

SyncDone(s) ==
  /\ step[s] = "next" /\ \A a \in Accounts : rows[s][a] = <<>>
  /\ step' = [step EXCEPT ![s] = "done"]
  /\ UNCHANGED <<db, saves, pool, bots, rows, found, reloads, crowded, missed>>

BotNext ==
  \E s \in Syncs :
    \/ \E a \in Accounts :
         \/ SaveAccount(s, a)
         \/ \E i \in DOMAIN db[a] : SaveSettings(s, a, i) \/ DeleteAccount(s, a, i)
    \/ InsertAccount(s) \/ InsertFails(s) \/ ConfigReloaded(s)
    \/ ListAccounts(s) \/ ListFails(s) \/ LookUp(s) \/ PutBot(s) \/ SyncDone(s)

BotSpec == BotInit /\ [][BotNext]_botVars

-----------------------------------------------------------------------------

\* Accounts that are saved are ready to send with when the requests that saved
\* them have ended, without a restart: each has a bot, and unless two syncs ran
\* at once (the older list may be put last, and two first logins make two rows)
\* one with the stored credentials, which are stored once.  After a request or a
\* listing that failed this waits for the next sync that can read the accounts.
AccountsReady ==
  Quiet /\ ~missed => \A a \in Accounts :
             db[a] # <<>> =>
               /\ pool[a] # 0
               /\ crowded \/ db[a] = <<bots[pool[a]]>>

=============================================================================
