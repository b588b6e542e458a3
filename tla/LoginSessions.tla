---------------------------- MODULE LoginSessions ---------------------------
(***************************************************************************)
(* Who is signed in, and what is stored for whom.  The web server keeps    *)
(* the tokens of its users in memory and in a table, and restores them     *)
(* from the table when it starts; the tables of users and of their rooms   *)
(* are changed by administrators.  Every statement of a request is a step  *)
(* of its own, may fail (the handlers go on), and the process may stop     *)
(* between any two.                                                        *)
(*                                                                         *)
(* Time is in hours.  A token's user and expiry never change, and both     *)
(* copies of a session hold the same, to the second.                       *)
(***************************************************************************)
EXTENDS Integers, Sequences, FiniteSets

CONSTANTS Names,      \* user names
          AdminName,  \* web.auth.username of the configuration
          Lifetime,   \* how long a login lasts (7 days)
          DayLength,  \* hours of a day
          MaxUsers,   \* bound: rows ever inserted into users
          MaxPending, \* bound: requests at once that write a user's rooms
          MaxLogins,  \* bound: logins
          MaxTime     \* bound: hours

ASSUME LoginAssumption ==
  /\ AdminName \in Names
  /\ Lifetime \in Nat /\ DayLength \in Nat \ {0}
  /\ MaxUsers \in Nat /\ MaxPending \in Nat
  /\ MaxLogins \in Nat /\ MaxTime \in Nat

VARIABLES
  now,
  up,         \* the process runs
  accounts,   \* the table users: for every id its name, role and person
  lastId,     \* the last id that was given (sqlite_sequence)
  persons,    \* history: users created so far, each another person
  known,      \* history: which persons each id was given to
  roomRows,   \* the table user_rooms: whom the rows of an id are meant for
  assigning,  \* requests that have yet to write a user's rooms
  logins,     \* the tokens: id and person who logged in, and expiry
  signedIn,   \* s.sessions, the tokens in memory
  tokenRows,  \* the table sessions
  progress,   \* where the request that a token is in stands
  unwritten,  \* history: tokens with a statement that failed
  unread      \* history: tokens whose row could not be read at the last start

userVars == <<accounts, lastId, persons, known, roomRows, assigning>>
tokenVars == <<logins, signedIn, tokenRows, progress, unwritten, unread>>
loginVars == <<now, up, userVars, tokenVars>>

LoginInit ==
  /\ now = 0 /\ up = FALSE
  /\ accounts = [i \in {} |-> {}] /\ lastId = 0 /\ persons = 0
  /\ known = {} /\ roomRows = [i \in {} |-> {}] /\ assigning = {}
  /\ logins = <<>> /\ signedIn = {} /\ tokenRows = {}
  /\ progress = <<>> /\ unwritten = {} /\ unread = {}

Tokens == DOMAIN logins
With(f, x, v) == [y \in DOMAIN f \cup {x} |-> IF y = x THEN v ELSE f[y]]

-----------------------------------------------------------------------------
(* Users.                                                                  *)

Taken(n) == \E i \in DOMAIN accounts : accounts[i].name = n

AfterTheLast == IF DOMAIN accounts = {} THEN 1                   \* mutant
                ELSE 1 + CHOOSE i \in DOMAIN accounts :
                           \A j \in DOMAIN accounts : j <= i
\* AUTOINCREMENT: an id is never given again, whatever was deleted.
NextId == lastId + 1

InsertUser(n, admin) ==
  /\ persons < MaxUsers /\ ~Taken(n)
  /\ persons' = persons + 1
  /\ accounts' = With(accounts, NextId, [name |-> n, admin |-> admin, who |-> persons'])
  /\ lastId' = NextId
  /\ known' = known \cup {<<NextId, persons'>>}

\* The config's user is there and is an administrator.
EnsureAdmin ==
  /\ IF Taken(AdminName)
     THEN /\ accounts' = [i \in DOMAIN accounts |->
                            IF accounts[i].name = AdminName
                            THEN [accounts[i] EXCEPT !.admin = TRUE] ELSE accounts[i]]
          /\ UNCHANGED <<lastId, persons, known>>
     ELSE InsertUser(AdminName, TRUE)
  /\ UNCHANGED roomRows

\* The configuration was loaded again; an error is logged only.
AdminEnsured == up /\ EnsureAdmin /\ UNCHANGED <<now, up, assigning, tokenVars>>

\* The row, and then the rooms if the request has any.  Nobody can delete an
\* administrator, so those that others create are left out.
CreateUser(n) ==
  /\ up /\ InsertUser(n, FALSE)
  /\ Cardinality(assigning) < MaxPending
  /\ assigning' = assigning \cup {<<NextId, persons'>>}
  /\ UNCHANGED <<now, up, roomRows, tokenVars>>

\* An administrator saves a user that the page lists, who may be gone by now.
EditUser(id, who) ==
  /\ up /\ <<id, who>> \in known
  /\ Cardinality(assigning) < MaxPending
  /\ assigning' = assigning \cup {<<id, who>>}
  /\ UNCHANGED <<now, up, accounts, lastId, persons, known, roomRows, tokenVars>>

\* One transaction, which is rolled back if one of its statements fails.
SetUserRooms(a) ==
  /\ up /\ a \in assigning
  /\ assigning' = assigning \ {a}
  /\ roomRows' \in {roomRows, With(roomRows, a[1], a[2])}
  /\ UNCHANGED <<now, up, accounts, lastId, persons, known, tokenVars>>

\* Rooms and tokens of the user stay in their tables: foreign keys are not
\* enabled, so nothing cascades.
DeleteUser(id) ==
  /\ up /\ id \in DOMAIN accounts /\ ~accounts[id].admin
  /\ accounts' = [i \in DOMAIN accounts \ {id} |-> accounts[i]]
  /\ UNCHANGED <<now, up, lastId, persons, known, roomRows, assigning, tokenVars>>

-----------------------------------------------------------------------------
(* Tokens.                                                                 *)

Step(t, from, to) ==
  /\ up /\ t \in Tokens /\ progress[t] = from
  /\ progress' = [progress EXCEPT ![t] = to]
  /\ UNCHANGED <<now, up, userVars, logins, unread>>

\* handleLogin: the password is right, and a token is made.
Authenticate(id) ==
  /\ up /\ id \in DOMAIN accounts /\ Len(logins) < MaxLogins
  /\ logins' = Append(logins, [user |-> id, who |-> accounts[id].who,
                               expiry |-> now + Lifetime])
  /\ progress' = Append(progress, "remember")
  /\ UNCHANGED <<now, up, userVars, signedIn, tokenRows, unwritten, unread>>

Remember(t) ==
  /\ Step(t, "remember", "save")
  /\ signedIn' = signedIn \cup {t}
  /\ UNCHANGED <<tokenRows, unwritten>>

MemoryOnly(t) == tokenRows                                      \* mutant
Saved(t) == tokenRows \cup {t}

\* SaveSession; then the browser gets its cookie.
SaveSession(t) ==
  /\ Step(t, "save", "in")
  /\ \/ tokenRows' = Saved(t) /\ UNCHANGED unwritten
     \/ UNCHANGED tokenRows /\ unwritten' = unwritten \cup {t}
  /\ UNCHANGED signedIn

\* time.Now().After(sess.Expiry)
Expired(t) == now > logins[t].expiry

\* handleLogout; or getSession meets a token that has expired.
Forget(t) ==
  /\ Step(t, "in", IF Expired(t) THEN "expire" ELSE "erase")
  /\ signedIn' = signedIn \ {t}
  /\ UNCHANGED <<tokenRows, unwritten>>

RowLeft(t) == tokenRows                                         \* mutant
Erased(t) == tokenRows \ {t}

\* DeleteSession; then the browser loses its cookie.
DeleteSession(t) ==
  /\ \/ Step(t, "erase", "out")
     \/ Step(t, "expire", "over")
  /\ \/ tokenRows' = Erased(t) /\ UNCHANGED unwritten
     \/ UNCHANGED tokenRows /\ unwritten' = unwritten \cup {t}
  /\ UNCHANGED signedIn

-----------------------------------------------------------------------------
(* The process and the clock.                                              *)

\* What has not been answered never will be: a login is lost and a logout has
\* not happened, for the browser keeps its cookie.
Crash ==
  /\ up /\ up' = FALSE
  /\ signedIn' = {} /\ assigning' = {}
  /\ progress' = [t \in Tokens |->
                    CASE progress[t] \in {"remember", "save"} -> "lost"
                      [] progress[t] \in {"erase", "expire"} -> "in"
                      [] OTHER -> progress[t]]
  /\ UNCHANGED <<now, accounts, lastId, persons, known, roomRows, logins,
                 tokenRows, unwritten, unread>>

Day(time) == time \div DayLength

\* expiry > datetime('now', 'localtime'), as texts: "2026-02-19T14:30:00+08:00"
\* is after "2026-02-19 23:00:00", so the days are compared and a day equals.
TextAfterNow(t) == Day(logins[t].expiry) >= Day(now)

\* WHERE expiry > ... of LoadSessions
Readable(rows) == {t \in rows : TextAfterNow(t)}

\* EnsureAdmin, CleanExpiredSessions, LoadSessions.  Any of them may fail, and
\* the server starts all the same; rows that cannot be read are passed over.
Start ==
  /\ ~up /\ up' = TRUE
  /\ EnsureAdmin \/ UNCHANGED <<accounts, lastId, persons, known, roomRows>>
  /\ tokenRows' \in {tokenRows, {t \in tokenRows : TextAfterNow(t)}}
  /\ signedIn' \in SUBSET Readable(tokenRows')
  /\ unread' = Readable(tokenRows') \ signedIn'
  /\ UNCHANGED <<now, assigning, logins, progress, unwritten>>

ClockHour ==
  /\ now < MaxTime /\ now' = now + 1
  /\ UNCHANGED <<up, userVars, tokenVars>>

LoginNext ==
  \/ AdminEnsured
  \/ \E n \in Names : CreateUser(n)
  \/ \E k \in known : EditUser(k[1], k[2])
  \/ \E a \in assigning : SetUserRooms(a)
  \/ \E id \in DOMAIN accounts : DeleteUser(id) \/ Authenticate(id)
  \/ \E t \in Tokens : Remember(t) \/ SaveSession(t) \/ Forget(t) \/ DeleteSession(t)
  \/ Crash \/ Start \/ ClockHour

LoginSpec == LoginInit /\ [][LoginNext]_loginVars

-----------------------------------------------------------------------------
(* Properties.                                                             *)

\* "Once logged in, you'll stay signed in for 7 days -- even if the service
\* restarts" (MANUAL): a browser that has its cookie is signed in whenever the
\* server is up, until it logs out or its time is over, however often and at
\* whatever moment the process was stopped.  Excepted are tokens whose row could
\* not be written, and until the next start those whose row could not be read.
SessionsSurvive ==
  up => \A t \in Tokens :
          progress[t] = "in" /\ ~Expired(t) /\ t \notin unwritten \cup unread
            => t \in signedIn

\* A logout whose row was deleted is for good: no restart brings the token back.
\* One whose DELETE failed is answered all the same and excepted: its row is
\* still there for the next start.
LogoutIsFinal ==
  \A t \in Tokens : progress[t] = "out" /\ t \notin unwritten => t \notin signedIn

\* Nobody inherits: what is stored under the id of a user, assigned rooms and
\* sessions, was meant for that user, although users are deleted without what
\* belongs to them and requests about deleted ones still write.
NothingInherited ==
  \A id \in DOMAIN accounts :
    /\ id \in DOMAIN roomRows => roomRows[id] = accounts[id].who
    /\ \A t \in signedIn \cup tokenRows :
         logins[t].user = id => logins[t].who = accounts[id].who

=============================================================================
