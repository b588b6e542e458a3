-------------------------------- MODULE Page --------------------------------
(***************************************************************************)
(* The control panel in a browser.  It shows the last answer or push that  *)
(* came, whichever state that is of: answers to its requests overtake each *)
(* other and the pushes.  Pushes follow the changes of controllers only,   *)
(* lack some of what an answer has (the auto-start boxes of idle rooms),   *)
(* and may stop altogether, for one goroutine writes them to all browsers  *)
(* without a deadline.                                                     *)
(*                                                                         *)
(* A state of the panel is the number of changes made to it.               *)
(***************************************************************************)
EXTENDS Integers, Bags

CONSTANTS MaxChanges,  \* bound: changes of the state
          MaxAsked,    \* bound: requests on their way at once
          MaxFailures  \* bound: requests that fail

ASSUME PageAssumption ==
  MaxChanges \in Nat /\ MaxAsked \in Nat \ {0} /\ MaxFailures \in Nat

VARIABLES
  state,     \* what the panel should show
  due,       \* whether a push is due
  open,      \* the page is open
  socket,    \* its WebSocket is
  asked,     \* requests the server has not answered
  answers,   \* answers on their way: a bag of states
  inbox,     \* the push on its way, if any
  page,      \* the state the page shows, and whether it is the whole of it
  failures   \* requests that have failed so far

server == <<state, due>>
browser == <<open, socket, page>>
pageVars == <<server, browser, asked, answers, inbox, failures>>

Blank == [state |-> -1, whole |-> FALSE]

PageInit ==
  /\ state = 0 /\ due = FALSE
  /\ open = FALSE /\ socket = FALSE /\ page = Blank
  /\ asked = 0 /\ answers = EmptyBag /\ inbox = {} /\ failures = 0

\* Only controllers call BroadcastStatus.
StateChanges ==
  /\ state < MaxChanges /\ state' = state + 1
  /\ due' \in {due, TRUE}
  /\ UNCHANGED <<browser, asked, answers, inbox, failures>>

init ==
  /\ ~open /\ open' = TRUE
  /\ asked' = 1 /\ socket' = TRUE
  /\ UNCHANGED <<server, page, answers, inbox, failures>>

fetchStatus ==
  /\ open
  /\ asked + BagCardinality(answers) < MaxAsked /\ asked' = asked + 1
  /\ UNCHANGED <<server, browser, answers, inbox, failures>>

OnlyWithoutSocket == ~socket                                     \* mutant
\* setInterval is called once and never cleared.
TimerRuns == TRUE

Poll == TimerRuns /\ fetchStatus
\* After a click, which has changed the state, or for another language
AskNow == fetchStatus

handleStatus ==
  /\ asked > 0 /\ asked' = asked - 1
  /\ answers' = answers (+) SetToBag({state})
  /\ UNCHANGED <<server, browser, inbox, failures>>

\* Nobody catches it.
RequestFails ==
  /\ asked > 0 /\ asked' = asked - 1
  /\ failures < MaxFailures /\ failures' = failures + 1
  /\ UNCHANGED <<server, browser, answers, inbox>>

\* renderStatus throws the cards away and builds them anew.
renderStatus(s, whole) == page' = [state |-> s, whole |-> whole]

ShowAnswer ==
  /\ \E s \in BagToSet(answers) :
       renderStatus(s, TRUE) /\ answers' = answers (-) SetToBag({s})
  /\ UNCHANGED <<server, open, socket, asked, inbox, failures>>

\* A token that finds no connection is spent.
doBroadcast ==
  /\ due /\ due' = FALSE
  /\ inbox = {} /\ inbox' = IF socket THEN {state} ELSE {}
  /\ UNCHANGED <<state, browser, asked, answers, failures>>

ShowPush ==
  /\ \E s \in inbox : renderStatus(s, FALSE)
  /\ inbox' = {}
  /\ UNCHANGED <<server, open, socket, asked, answers, failures>>

\* onclose starts one more timer.  What was on its way is lost or comes.
SocketCloses ==
  /\ socket /\ socket' = FALSE
  /\ inbox' \in {inbox, {}}
  /\ UNCHANGED <<server, open, page, asked, answers, failures>>

PageNext ==
  \/ StateChanges
  \/ init \/ Poll \/ AskNow \/ handleStatus \/ RequestFails \/ ShowAnswer
  \/ doBroadcast \/ ShowPush \/ SocketCloses

\* The timer fires, requests are answered, answers shown.  That a
\* push is ever sent is not assumed.
PageFairness ==
  WF_pageVars(Poll) /\ WF_pageVars(handleStatus) /\ WF_pageVars(ShowAnswer)

PageSpec == PageInit /\ [][PageNext]_pageVars /\ PageFairness

-----------------------------------------------------------------------------

\* A page that is open ends up showing the whole of the state and stays
\* there, whatever was overtaken on the way, whether the last push came, came
\* late, or never.
PageCatchesUp == <>[](open => page = [state |-> state, whole |-> TRUE])

=============================================================================
