------------------------- MODULE LoginSessionsProofs ------------------------
(***************************************************************************)
(* What holds of logins and users for every set of names, any number of    *)
(* users, requests, logins and hours, and any crashes and restarts.        *)
(***************************************************************************)
EXTENDS LoginSessions, TLAPS

Stages == {"remember", "save", "in", "erase", "expire", "out", "over", "lost"}
Login == [user : Nat, who : Nat, expiry : Nat]
Account == [name : Names, admin : BOOLEAN, who : Nat]

-----------------------------------------------------------------------------
(* Users.                                                                  *)

UsersTyped ==
  /\ DOMAIN accounts \subseteq Nat
  /\ \A i \in DOMAIN accounts : accounts[i] \in Account
  /\ lastId \in Nat /\ persons \in Nat
  /\ known \subseteq Nat \X Nat
  /\ DOMAIN roomRows \subseteq Nat
  /\ logins \in Seq(Login)

\* An id was given to one person only, and none beyond the last was given.
OnePerson ==
  /\ \A k \in known : k[1] <= lastId
  /\ \A k, l \in known : k[1] = l[1] => k[2] = l[2]

\* Whatever carries the id of a user was made for a person who had that id.
MadeForKnown ==
  /\ \A i \in DOMAIN accounts : <<i, accounts[i].who>> \in known
  /\ \A i \in DOMAIN roomRows : <<i, roomRows[i]>> \in known
  /\ assigning \subseteq known
  /\ \A t \in DOMAIN logins : <<logins[t].user, logins[t].who>> \in known

\* There are tokens of logins only.
TokensOfLogins == signedIn \cup tokenRows \subseteq DOMAIN logins

UserInv == UsersTyped /\ OnePerson /\ MadeForKnown /\ TokensOfLogins

\* The row of a new user is a new id's, and the id is that person's.
LEMMA InsertStep ==
  ASSUME UserInv, NEW n \in Names, NEW admin \in BOOLEAN, InsertUser(n, admin),
         UNCHANGED roomRows
  PROVE  /\ DOMAIN accounts' \subseteq Nat
         /\ \A i \in DOMAIN accounts' : accounts'[i] \in Account
         /\ lastId' \in Nat /\ persons' \in Nat
         /\ known' \subseteq Nat \X Nat /\ known \subseteq known'
         /\ OnePerson'
         /\ \A i \in DOMAIN accounts' : <<i, accounts'[i].who>> \in known'
         /\ <<NextId, persons'>> \in known'
<1>1. lastId \in Nat /\ persons \in Nat /\ NextId = lastId + 1
  BY DEF UserInv, UsersTyped, NextId
<1>2. /\ accounts' = With(accounts, NextId, [name |-> n, admin |-> admin, who |-> persons'])
      /\ lastId' = NextId /\ persons' = persons + 1
      /\ known' = known \cup {<<NextId, persons'>>}
  BY DEF InsertUser
<1>3. [name |-> n, admin |-> admin, who |-> persons'] \in Account
  BY <1>1, <1>2 DEF Account
<1>4. /\ DOMAIN accounts' = DOMAIN accounts \cup {NextId}
      /\ accounts'[NextId] = [name |-> n, admin |-> admin, who |-> persons']
      /\ \A i \in DOMAIN accounts : i # NextId => accounts'[i] = accounts[i]
  BY <1>2 DEF With
<1>5. \A k \in known : k[1] <= lastId /\ k[1] \in Nat
  BY DEF UserInv, UsersTyped, OnePerson
<1>6. \A i \in DOMAIN accounts' : <<i, accounts'[i].who>> \in known'
  BY <1>2, <1>4 DEF UserInv, MadeForKnown
<1>7. OnePerson'
  BY <1>1, <1>2, <1>5 DEF UserInv, OnePerson
<1> QED BY <1>1, <1>2, <1>3, <1>4, <1>6, <1>7 DEF UserInv, UsersTyped

LEMMA EnsureAdminStep ==
  ASSUME UserInv, EnsureAdmin, UNCHANGED logins,
         assigning' \in {assigning, {}},
         signedIn' \cup tokenRows' \subseteq signedIn \cup tokenRows
  PROVE  UserInv'
<1>1. CASE Taken(AdminName)
  <2>1. /\ accounts' = [i \in DOMAIN accounts |->
                          IF accounts[i].name = AdminName
                          THEN [accounts[i] EXCEPT !.admin = TRUE] ELSE accounts[i]]
        /\ UNCHANGED <<lastId, persons, known, roomRows>>
    BY <1>1 DEF EnsureAdmin
  <2>2. \A i \in DOMAIN accounts : accounts'[i] \in Account /\ accounts'[i].who = accounts[i].who
    BY <2>1 DEF UserInv, UsersTyped, Account
  <2>3. DOMAIN accounts' = DOMAIN accounts
    BY <2>1
  <2> QED
    BY <2>1, <2>2, <2>3 DEF UserInv, UsersTyped, OnePerson, MadeForKnown, TokensOfLogins
<1>2. CASE ~Taken(AdminName)
  <2>1. InsertUser(AdminName, TRUE) /\ UNCHANGED roomRows
    BY <1>2 DEF EnsureAdmin
  <2> QED
    BY <2>1, InsertStep, LoginAssumption
    DEF UserInv, UsersTyped, MadeForKnown, TokensOfLogins
<1> QED BY <1>1, <1>2

\* Steps that write nothing about users but the rooms of one
LEMMA AssignStep ==
  ASSUME UserInv, up, UNCHANGED <<accounts, lastId, persons, known, tokenVars>>,
         \/ \E id, who : EditUser(id, who)
         \/ \E a \in assigning : SetUserRooms(a)
  PROVE  UserInv'
<1>1. CASE \E id, who : EditUser(id, who)
  BY <1>1 DEF UserInv, UsersTyped, OnePerson, MadeForKnown, TokensOfLogins, EditUser, tokenVars
<1>2. ASSUME NEW a \in assigning, SetUserRooms(a)
      PROVE  UserInv'
  <2>1. a \in known /\ a[1] \in Nat /\ a = <<a[1], a[2]>>
    BY DEF UserInv, UsersTyped, MadeForKnown
  <2>2. /\ DOMAIN roomRows' \subseteq Nat
        /\ \A i \in DOMAIN roomRows' : <<i, roomRows'[i]>> \in known
    <3>1. CASE roomRows' = roomRows
      BY <3>1 DEF UserInv, UsersTyped, MadeForKnown
    <3>2. CASE roomRows' = With(roomRows, a[1], a[2])
      BY <2>1, <3>2 DEF With, UserInv, UsersTyped, MadeForKnown
    <3> QED BY <1>2, <3>1, <3>2 DEF SetUserRooms
  <2>3. assigning' \subseteq known
    BY <1>2 DEF SetUserRooms, UserInv, MadeForKnown
  <2> QED
    BY <2>2, <2>3 DEF UserInv, UsersTyped, OnePerson, MadeForKnown, TokensOfLogins, tokenVars
<1> QED BY <1>1, <1>2

LEMMA CreateUserStep ==
  ASSUME UserInv, NEW n \in Names, CreateUser(n)
  PROVE  UserInv'
<1>1. /\ InsertUser(n, FALSE) /\ UNCHANGED <<roomRows, logins, signedIn, tokenRows>>
      /\ assigning' = assigning \cup {<<NextId, persons'>>}
  BY DEF CreateUser, tokenVars
<1> QED
  BY <1>1, InsertStep DEF UserInv, UsersTyped, MadeForKnown, TokensOfLogins

LEMMA DeleteUserStep ==
  ASSUME UserInv, NEW id \in DOMAIN accounts, DeleteUser(id)
  PROVE  UserInv'
BY DEF DeleteUser, tokenVars, UserInv, UsersTyped, OnePerson, MadeForKnown, TokensOfLogins

LEMMA AuthenticateStep ==
  ASSUME UserInv, now \in Nat, NEW id \in DOMAIN accounts, Authenticate(id)
  PROVE  UserInv'
<1> DEFINE new == [user |-> id, who |-> accounts[id].who, expiry |-> now + Lifetime]
<1>1. new \in Login /\ <<new.user, new.who>> \in known
  BY LoginAssumption DEF Login, Account, UserInv, UsersTyped, MadeForKnown
<1>2. logins \in Seq(Login) /\ logins' = Append(logins, new)
  BY DEF Authenticate, UserInv, UsersTyped
<1> HIDE DEF new
<1>3. /\ logins' \in Seq(Login) /\ DOMAIN logins' = DOMAIN logins \cup {Len(logins) + 1}
      /\ logins'[Len(logins) + 1] = new
      /\ \A t \in DOMAIN logins : logins'[t] = logins[t]
  BY <1>1, <1>2
<1> QED
  BY <1>1, <1>3 DEF Authenticate, userVars, UserInv, UsersTyped, OnePerson, MadeForKnown,
     TokensOfLogins

LEMMA TokenStep ==
  ASSUME UserInv, NEW t \in Tokens,
         Remember(t) \/ SaveSession(t) \/ Forget(t) \/ DeleteSession(t)
  PROVE  UserInv'
<1>1. /\ UNCHANGED <<userVars, logins>>
      /\ signedIn' \cup tokenRows' \subseteq signedIn \cup tokenRows \cup {t}
  BY DEF Remember, SaveSession, Forget, DeleteSession, Step, Saved, Erased
<1> QED
  BY <1>1 DEF userVars, Tokens, UserInv, UsersTyped, OnePerson, MadeForKnown, TokensOfLogins

LEMMA NextUser ==
  ASSUME UserInv, now \in Nat, [LoginNext]_loginVars
  PROVE  UserInv'
<1>1. CASE AdminEnsured
  BY <1>1, EnsureAdminStep DEF AdminEnsured, tokenVars
<1>2. ASSUME NEW n \in Names, CreateUser(n)
      PROVE  UserInv'
  BY <1>2, CreateUserStep
<1>3. ASSUME NEW k \in known, EditUser(k[1], k[2])
      PROVE  UserInv'
  BY <1>3, AssignStep DEF EditUser
<1>4. ASSUME NEW a \in assigning, SetUserRooms(a)
      PROVE  UserInv'
  BY <1>4, AssignStep DEF SetUserRooms
<1>5. ASSUME NEW id \in DOMAIN accounts, DeleteUser(id) \/ Authenticate(id)
      PROVE  UserInv'
  BY <1>5, DeleteUserStep, AuthenticateStep
<1>6. ASSUME NEW t \in Tokens,
             Remember(t) \/ SaveSession(t) \/ Forget(t) \/ DeleteSession(t)
      PROVE  UserInv'
  BY <1>6, TokenStep
<1>7. CASE Crash
  BY <1>7 DEF Crash, UserInv, UsersTyped, OnePerson, MadeForKnown, TokensOfLogins
<1>8. CASE Start
  <2>1. /\ UNCHANGED <<assigning, logins>>
        /\ signedIn' \cup tokenRows' \subseteq signedIn \cup tokenRows
    BY <1>8 DEF Start, Readable
  <2>2. CASE EnsureAdmin
    BY <2>1, <2>2, EnsureAdminStep
  <2>3. CASE UNCHANGED <<accounts, lastId, persons, known, roomRows>>
    BY <2>1, <2>3 DEF UserInv, UsersTyped, OnePerson, MadeForKnown, TokensOfLogins
  <2> QED BY <1>8, <2>2, <2>3 DEF Start
<1>9. CASE ClockHour \/ UNCHANGED loginVars
  BY <1>9 DEF ClockHour, loginVars, userVars, tokenVars,
     UserInv, UsersTyped, OnePerson, MadeForKnown, TokensOfLogins
<1> QED BY <1>1, <1>2, <1>3, <1>4, <1>5, <1>6, <1>7, <1>8, <1>9 DEF LoginNext

-----------------------------------------------------------------------------
(* Tokens.                                                                 *)

TokensTyped ==
  /\ now \in Nat /\ up \in BOOLEAN
  /\ logins \in Seq(Login) /\ progress \in Seq(Stages)
  /\ DOMAIN progress = DOMAIN logins

\* No request survives the process.
NothingUnderWay ==
  ~up => \A t \in Tokens : progress[t] \notin {"remember", "save", "erase", "expire"}

\* A token that was given back is nowhere, unless the row could not be deleted.
GoneIsGone ==
  \A t \in Tokens :
    /\ progress[t] \in {"erase", "expire"} => t \notin signedIn
    /\ progress[t] \in {"out", "over"} /\ t \notin unwritten
         => t \notin signedIn \cup tokenRows

\* A token that a browser has is stored until its time is over, also while the
\* request that gives it back may still be cut.
Stored ==
  \A t \in Tokens :
    progress[t] \in {"in", "erase", "expire"} /\ ~Expired(t) /\ t \notin unwritten
      => t \in tokenRows

\* The server has it in memory, from before it is stored.
Remembered ==
  up => \A t \in Tokens :
          /\ progress[t] = "save" => t \in signedIn
          /\ progress[t] = "in" /\ ~Expired(t) /\ t \notin unwritten \cup unread
               => t \in signedIn

TokenInv == TokensTyped /\ NothingUnderWay /\ GoneIsGone /\ Stored /\ Remembered

\* The clock does not go back.
LEMMA ExpiredStays ==
  ASSUME TokensTyped, NEW t \in Tokens, now' \in Nat, now <= now', logins'[t] = logins[t]
  PROVE  ~Expired(t)' => ~Expired(t)
<1>1. logins[t] \in Login /\ now \in Nat
  BY DEF TokensTyped, Tokens
<1>2. logins[t].expiry \in Nat
  BY <1>1 DEF Login
<1> QED BY <1>1, <1>2 DEF Expired

\* A token that has not expired survives the cleaning at the start.
LEMMA UnexpiredIsKept ==
  ASSUME TokensTyped, NEW t \in Tokens, ~Expired(t)
  PROVE  TextAfterNow(t)
<1>0. logins[t] \in Login /\ now \in Nat
  BY DEF TokensTyped, Tokens
<1>1. now \in Nat /\ logins[t].expiry \in Nat /\ now <= logins[t].expiry
  BY <1>0 DEF Expired, Login
<1>2. ASSUME NEW x \in Nat, NEW y \in Nat, x <= y, NEW d \in Nat \ {0}
      PROVE  x \div d <= y \div d
  BY <1>2
<1> QED BY <1>1, <1>2, LoginAssumption DEF TextAfterNow, Day

\* A request of one token goes from one stage to the next.
LEMMA StageStep ==
  ASSUME TokenInv, NEW t, NEW p, NEW q \in Stages, Step(t, p, q)
  PROVE  /\ t \in Tokens /\ progress[t] = p /\ up
         /\ progress'[t] = q
         /\ \A x \in Tokens : x # t => progress'[x] = progress[x]
         /\ Tokens' = Tokens /\ UNCHANGED <<now, up, logins, unread>>
         /\ \A x \in Tokens : Expired(x)' = Expired(x)
         /\ TokensTyped'
BY DEF Step, TokenInv, TokensTyped, Tokens, Expired, userVars

LEMMA TokenRequest ==
  ASSUME TokenInv, NEW t \in Tokens,
         Remember(t) \/ SaveSession(t) \/ Forget(t) \/ DeleteSession(t)
  PROVE  TokenInv'
<1>1. CASE Remember(t)
  <2>1. Step(t, "remember", "save")
    BY <1>1 DEF Remember
  <2> QED
    BY <1>1, <2>1, StageStep
    DEF Remember, Stages, TokenInv, NothingUnderWay, GoneIsGone, Stored, Remembered
<1>2. CASE SaveSession(t)
  <2>1. Step(t, "save", "in")
    BY <1>2 DEF SaveSession
  <2> QED
    BY <1>2, <2>1, StageStep
    DEF SaveSession, Saved, Stages, TokenInv, NothingUnderWay, GoneIsGone, Stored, Remembered
<1>3. CASE Forget(t)
  <2>1. \/ Step(t, "in", "expire") /\ Expired(t)
        \/ Step(t, "in", "erase") /\ ~Expired(t)
    BY <1>3 DEF Forget
  <2> QED
    BY <1>3, <2>1, StageStep
    DEF Forget, Stages, TokenInv, NothingUnderWay, GoneIsGone, Stored, Remembered
<1>4. CASE DeleteSession(t)
  <2>1. Step(t, "erase", "out") \/ Step(t, "expire", "over")
    BY <1>4 DEF DeleteSession
  <2> QED
    BY <1>4, <2>1, StageStep
    DEF DeleteSession, Erased, Stages, TokenInv, NothingUnderWay, GoneIsGone, Stored, Remembered
<1> QED BY <1>1, <1>2, <1>3, <1>4

LEMMA NewToken ==
  ASSUME TokenInv, UserInv, NEW id \in DOMAIN accounts, Authenticate(id)
  PROVE  TokenInv'
<1> DEFINE new == [user |-> id, who |-> accounts[id].who, expiry |-> now + Lifetime]
           n == Len(logins) + 1
<1>1. new \in Login
  BY LoginAssumption DEF Login, Account, TokenInv, TokensTyped, UserInv, UsersTyped
<1>2. /\ logins \in Seq(Login) /\ logins' = Append(logins, new)
      /\ progress \in Seq(Stages) /\ progress' = Append(progress, "remember")
      /\ Len(progress) = Len(logins) /\ "remember" \in Stages
  BY DEF Authenticate, TokenInv, TokensTyped, Stages
<1> HIDE DEF new
<1>3. /\ Tokens' = Tokens \cup {n} /\ logins' \in Seq(Login) /\ progress' \in Seq(Stages)
      /\ DOMAIN progress' = DOMAIN logins'
      /\ \A t \in Tokens : logins'[t] = logins[t] /\ progress'[t] = progress[t]
      /\ progress'[n] = "remember"
  BY <1>1, <1>2 DEF Tokens
<1>4. \A t \in Tokens : Expired(t)' = Expired(t)
  BY <1>3 DEF Authenticate, Expired
<1>5. UNCHANGED <<now, up, signedIn, tokenRows, unwritten, unread>> /\ up
  BY DEF Authenticate
<1> QED
  BY <1>3, <1>4, <1>5
  DEF TokenInv, TokensTyped, NothingUnderWay, GoneIsGone, Stored, Remembered

LEMMA CrashStep ==
  ASSUME TokenInv, Crash
  PROVE  TokenInv'
<1>1. /\ Tokens' = Tokens /\ UNCHANGED <<now, logins, tokenRows, unwritten>>
      /\ up' = FALSE /\ signedIn' = {}
      /\ \A t \in Tokens : Expired(t)' = Expired(t)
  BY DEF Crash, Tokens, Expired
<1>2. /\ DOMAIN progress' = Tokens
      /\ \A t \in Tokens :
           /\ progress[t] \in {"remember", "save"} => progress'[t] = "lost"
           /\ progress[t] \in {"erase", "expire"} => progress'[t] = "in"
           /\ progress[t] \notin {"remember", "save", "erase", "expire"}
                => progress'[t] = progress[t]
  BY DEF Crash
<1>3. \A t \in Tokens : progress[t] \in Stages /\ progress'[t] \in Stages
  BY <1>2 DEF TokenInv, TokensTyped, Tokens, Stages
<1>4. progress' \in Seq(Stages)
  <2>1. Tokens = 1 .. Len(logins) /\ Len(logins) \in Nat
    BY DEF Tokens, TokenInv, TokensTyped
  <2>2. progress' = [t \in 1 .. Len(logins) |-> progress'[t]]
    BY <2>1 DEF Crash
  <2> QED BY <1>3, <2>1, <2>2
<1>5. TokensTyped'
  BY <1>1, <1>2, <1>4 DEF TokenInv, TokensTyped, Tokens
<1> QED
  BY <1>1, <1>2, <1>5
  DEF TokenInv, NothingUnderWay, GoneIsGone, Stored, Remembered

LEMMA StartStep ==
  ASSUME TokenInv, Start
  PROVE  TokenInv'
<1>1. /\ up = FALSE /\ up' = TRUE /\ UNCHANGED <<now, logins, progress, unwritten>>
      /\ tokenRows' \in {tokenRows, {t \in tokenRows : TextAfterNow(t)}}
      /\ signedIn' \subseteq Readable(tokenRows') /\ unread' = Readable(tokenRows') \ signedIn'
      /\ \A t : t \in Readable(tokenRows') <=> t \in tokenRows /\ TextAfterNow(t)
  BY DEF Start, Readable, TokenInv, TokensTyped
<1>2. up' \in BOOLEAN /\ Tokens' = Tokens /\ \A t \in Tokens : Expired(t)' = Expired(t)
  BY <1>1 DEF Tokens, Expired, Start
<1>3. \A t \in Tokens : ~Expired(t) => TextAfterNow(t)
  BY UnexpiredIsKept DEF TokenInv
<1>4. TokensTyped'
  BY <1>1, <1>2 DEF TokenInv, TokensTyped
<1>5. NothingUnderWay' /\ GoneIsGone' /\ Stored'
  BY <1>1, <1>2, <1>3 DEF TokenInv, NothingUnderWay, GoneIsGone, Stored
<1>6. Remembered'
  BY <1>1, <1>2, <1>3 DEF TokenInv, NothingUnderWay, Stored, Remembered
<1> QED BY <1>4, <1>5, <1>6 DEF TokenInv

LEMMA NextToken ==
  ASSUME UserInv, TokenInv, [LoginNext]_loginVars
  PROVE  TokenInv'
<1>1. CASE UNCHANGED <<now, up, tokenVars>>
  BY <1>1 DEF tokenVars, TokenInv, TokensTyped, NothingUnderWay, GoneIsGone, Stored,
     Remembered, Tokens, Expired
<1>2. CASE \/ AdminEnsured
           \/ \E n \in Names : CreateUser(n)
           \/ \E k \in known : EditUser(k[1], k[2])
           \/ \E a \in assigning : SetUserRooms(a)
           \/ \E id \in DOMAIN accounts : DeleteUser(id)
  BY <1>1, <1>2 DEF AdminEnsured, CreateUser, EditUser, SetUserRooms, DeleteUser
<1>3. ASSUME NEW id \in DOMAIN accounts, Authenticate(id)
      PROVE  TokenInv'
  BY <1>3, NewToken
<1>4. ASSUME NEW t \in Tokens,
             Remember(t) \/ SaveSession(t) \/ Forget(t) \/ DeleteSession(t)
      PROVE  TokenInv'
  BY <1>4, TokenRequest
<1>5. CASE Crash
  BY <1>5, CrashStep
<1>6. CASE Start
  BY <1>6, StartStep
<1>7. CASE ClockHour
  <2>1. /\ now' = now + 1 /\ now \in Nat /\ UNCHANGED <<up, tokenVars>>
    BY <1>7 DEF ClockHour, TokenInv, TokensTyped
  <2>2. \A t \in Tokens : ~Expired(t)' => ~Expired(t)
    BY <2>1, ExpiredStays DEF tokenVars, TokenInv
  <2> QED
    BY <2>1, <2>2 DEF tokenVars, Tokens, TokenInv, TokensTyped, NothingUnderWay,
       GoneIsGone, Stored, Remembered
<1>8. CASE UNCHANGED loginVars
  BY <1>1, <1>8 DEF loginVars
<1> QED BY <1>2, <1>3, <1>4, <1>5, <1>6, <1>7, <1>8 DEF LoginNext

-----------------------------------------------------------------------------

LEMMA InitLogin == LoginInit => UserInv /\ TokenInv
<1> SUFFICES ASSUME LoginInit PROVE UserInv /\ TokenInv
  OBVIOUS
<1>1. /\ DOMAIN accounts = {} /\ DOMAIN roomRows = {} /\ DOMAIN logins = {}
      /\ DOMAIN progress = {} /\ logins \in Seq(Login) /\ progress \in Seq(Stages)
  BY DEF LoginInit
<1> QED
  BY <1>1 DEF LoginInit, UserInv, UsersTyped, OnePerson, MadeForKnown, TokensOfLogins,
     TokenInv, TokensTyped, NothingUnderWay, GoneIsGone, Stored, Remembered, Tokens

LEMMA LoginInvariant == LoginSpec => [](UserInv /\ TokenInv)
<1>1. UserInv /\ TokenInv /\ [LoginNext]_loginVars => (UserInv /\ TokenInv)'
  BY NextUser, NextToken DEF TokenInv, TokensTyped
<1> QED BY <1>1, InitLogin, PTL DEF LoginSpec

\* Whoever logged in stays signed in until the login's time is over or a logout,
\* through any crashes and restarts (LoadSessions, CleanExpiredSessions), except
\* for rows that could not be written or, at the last start, read.
THEOREM SurviveCorrect == LoginSpec => []SessionsSurvive
<1>1. TokenInv => SessionsSurvive
  BY DEF TokenInv, Remembered, SessionsSurvive
<1> QED BY <1>1, LoginInvariant, PTL

\* A logout whose row was deleted is final (handleLogout, DeleteSession).
THEOREM LogoutCorrect == LoginSpec => []LogoutIsFinal
<1>1. TokenInv => LogoutIsFinal
  BY DEF TokenInv, GoneIsGone, LogoutIsFinal
<1> QED BY <1>1, LoginInvariant, PTL

\* Ids are never given again, so what a deleted user leaves behind is nobody's
\* (DeleteUser, SetUserRooms).
THEOREM InheritCorrect == LoginSpec => []NothingInherited
<1>1. UserInv => NothingInherited
  BY DEF UserInv, UsersTyped, OnePerson, MadeForKnown, TokensOfLogins, NothingInherited
<1> QED BY <1>1, LoginInvariant, PTL

=============================================================================
