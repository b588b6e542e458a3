----------------------------- MODULE StatusPush -----------------------------
(***************************************************************************)
(* How a change of the panel's state reaches the browsers.  Whoever makes  *)
(* a change calls BroadcastStatus afterwards, which puts a token into a    *)
(* channel of capacity one unless there is one; a single goroutine takes   *)
(* the token, copies the set of connections, then the state, and writes it *)
(* to each.                                                                *)
(*                                                                         *)
(* The state of the panel is the number of changes made to it.             *)
(***************************************************************************)
EXTENDS Integers

CONSTANTS Conns,       \* WebSocket connections, each opened at most once
          MaxVersion   \* bound: changes of the state

ASSUME VersionAssumption == MaxVersion \in Nat

VARIABLES
  version,    \* changes made so far
  unsignaled, \* changes whose BroadcastStatus is still to be called
  token,      \* whether wsBroadch holds a token
  loop,       \* where runWSBroadcast stands
  targets,    \* connections it still writes to
  status,     \* the state it writes
  conns,      \* wsConns
  closed,     \* connections that have been closed
  seen        \* the last state written to a connection, 0 before

pushVars == <<version, unsignaled, token, loop, targets, status, conns, closed, seen>>
panelState == <<version, unsignaled>>
clients == <<conns, closed, seen>>

PushInit ==
  /\ version = 0 /\ unsignaled = {} /\ token = FALSE
  /\ loop = "wait" /\ targets = {} /\ status = 0
  /\ conns = {} /\ closed = {} /\ seen = [c \in Conns |-> 0]

\* notifyChange comes after the change, in another critical section.
Change ==
  /\ version < MaxVersion
  /\ version' = version + 1
  /\ unsignaled' = unsignaled \cup {version'}
  /\ UNCHANGED <<token, loop, targets, status, clients>>

OnlyToWaiting == loop = "wait"                                   \* mutant
\* Whether the channel holds a token after BroadcastStatus: it was put there
\* or there was one.
TokenKept == TRUE

BroadcastStatus(v) ==
  /\ v \in unsignaled /\ unsignaled' = unsignaled \ {v}
  /\ token' = TokenKept
  /\ UNCHANGED <<version, loop, targets, status, clients>>

Connect(c) ==
  /\ c \notin conns \cup closed
  /\ conns' = conns \cup {c}
  /\ UNCHANGED <<panelState, token, loop, targets, status, closed, seen>>

\* handleWS: ReadMessage fails.
Disconnect(c) ==
  /\ c \in conns
  /\ conns' = conns \ {c} /\ closed' = closed \cup {c}
  /\ UNCHANGED <<panelState, token, loop, targets, status, seen>>

TakeToken ==
  /\ loop = "wait" /\ token
  /\ token' = FALSE /\ loop' = "collect"
  /\ UNCHANGED <<panelState, targets, status, clients>>

\* Under wsMu
CopyConns ==
  /\ loop = "collect"
  /\ targets' = conns
  /\ loop' = IF conns = {} THEN "wait" ELSE "read"
  /\ UNCHANGED <<panelState, token, status, clients>>

\* Under s.mu
ReadStatus ==
  /\ loop = "read" /\ loop' = "write"
  /\ status' = version
  /\ UNCHANGED <<panelState, token, targets, clients>>

\* The write succeeds, or the connection is given up.
WriteTo(c) ==
  /\ loop = "write" /\ c \in targets
  /\ targets' = targets \ {c}
  /\ \/ c \notin closed /\ seen' = [seen EXCEPT ![c] = status]
        /\ UNCHANGED <<conns, closed>>
     \/ conns' = conns \ {c} /\ closed' = closed \cup {c} /\ UNCHANGED seen
  /\ UNCHANGED <<panelState, token, loop, status>>

AllWritten ==
  /\ loop = "write" /\ targets = {}
  /\ loop' = "wait"
  /\ UNCHANGED <<panelState, token, targets, status, clients>>

PushLoop == \/ TakeToken \/ CopyConns \/ ReadStatus
            \/ \E c \in Conns : WriteTo(c)
            \/ AllWritten

PushNext ==
  \/ Change \/ \E v \in 1 .. MaxVersion : BroadcastStatus(v)
  \/ \E c \in Conns : Connect(c) \/ Disconnect(c)
  \/ PushLoop

\* Callers return, and a write returns.  (The code sets no deadline for it.)
PushFairness ==
  /\ \A v \in 1 .. MaxVersion : WF_pushVars(BroadcastStatus(v))
  /\ WF_pushVars(PushLoop)

PushSpec == PushInit /\ [][PushNext]_pushVars /\ PushFairness

-----------------------------------------------------------------------------

\* No change is lost in the channel of capacity one: a browser that is
\* connected when a change is announced is sent a state that has it.
ChangeReachesBrowser ==
  \A c \in Conns, v \in 1 .. MaxVersion :
    c \in conns /\ v \in unsignaled ~> seen[c] >= v \/ c \notin conns

=============================================================================
