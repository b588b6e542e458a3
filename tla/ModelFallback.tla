---------------------------- MODULE ModelFallback ---------------------------
(***************************************************************************)
(* The choice between Gemini's primary and its fallback model.  Requests   *)
(* run concurrently on two atomics: degraded, and the time at which to     *)
(* recover.  A request that is turned away by a rate limit sets both, one  *)
(* after the other, and is repeated with the fallback.                     *)
(*                                                                         *)
(* A request is a worker's current one; left is the time until recoverAt.  *)
(***************************************************************************)
EXTENDS Integers

CONSTANTS Callers,   \* workers that translate
          Window     \* 30 seconds, in ticks

ASSUME WindowAssumption == Window \in Nat

Models == {"primary", "fallback"}

VARIABLES
  degraded,   \* t.degraded
  left,       \* time until t.recoverAt; 0 once it is over
  limited,    \* models that answer with a rate limit (outside the program)
  at,         \* where the request of a worker stands
  model       \* the model of its first call

fallbackVars == <<degraded, left, limited, at, model>>

FallbackInit ==
  /\ degraded = FALSE /\ left = 0 /\ limited = {}
  /\ at = [w \in Callers |-> "idle"] /\ model = [w \in Callers |-> "primary"]

Move(w, from, to) == at[w] = from /\ at' = [at EXCEPT ![w] = to]
Choose(w, m) == model' = [model EXCEPT ![w] = m]

\* activeModel: degraded is loaded,
Request(w) ==
  /\ Move(w, "idle", IF degraded THEN "degraded" ELSE "call")
  /\ Choose(w, "primary")
  /\ UNCHANGED <<degraded, left, limited>>

NeverOver == FALSE                                               \* mutant
\* then the clock and recoverAt.
WindowOver == left = 0

UseFallback(w) ==
  /\ Move(w, "degraded", "call") /\ ~WindowOver
  /\ Choose(w, "fallback")
  /\ UNCHANGED <<degraded, left, limited>>

SeeWindowOver(w) ==
  /\ Move(w, "degraded", "recover") /\ WindowOver
  /\ UNCHANGED <<degraded, left, limited, model>>

\* The flag is cleared, whoever has set it in the meantime.
Recover(w) ==
  /\ Move(w, "recover", "call")
  /\ degraded' = FALSE
  /\ UNCHANGED <<left, limited, model>>

\* A translation, another error, or a second call that changes nothing
Answered(w) ==
  /\ Move(w, "call", "idle")
  /\ UNCHANGED <<degraded, left, limited, model>>

TurnedAway(w) ==
  /\ Move(w, "call", "limited") /\ model[w] \in limited
  /\ UNCHANGED <<degraded, left, limited, model>>

SetDegraded(w) ==
  /\ Move(w, "limited", "deadline")
  /\ degraded' = TRUE
  /\ UNCHANGED <<left, limited, model>>

\* recoverAt is set, and the fallback is called.
SetRecoverAt(w) ==
  /\ Move(w, "deadline", "retry")
  /\ left' = Window
  /\ UNCHANGED <<degraded, limited, model>>

Retried(w) ==
  /\ Move(w, "retry", "idle")
  /\ UNCHANGED <<degraded, left, limited, model>>

LimitsChange(m) ==
  /\ limited' = IF m \in limited THEN limited \ {m} ELSE limited \cup {m}
  /\ UNCHANGED <<degraded, left, at, model>>

ClockTicks ==
  /\ left > 0 /\ left' = left - 1
  /\ UNCHANGED <<degraded, limited, at, model>>

\* What follows a request that has begun
Continue(w) ==
  \/ UseFallback(w) \/ SeeWindowOver(w) \/ Recover(w)
  \/ Answered(w) \/ TurnedAway(w)
  \/ SetDegraded(w) \/ SetRecoverAt(w) \/ Retried(w)

FallbackNext ==
  \/ \E w \in Callers : Request(w) \/ Continue(w)
  \/ \E m \in Models : LimitsChange(m)
  \/ ClockTicks

\* Every call is answered, and time passes.
FallbackFairness ==
  /\ \A w \in Callers : WF_fallbackVars(Continue(w))
  /\ WF_fallbackVars(ClockTicks)

FallbackSpec == FallbackInit /\ [][FallbackNext]_fallbackVars /\ FallbackFairness

-----------------------------------------------------------------------------

\* "Falls back to fallbackModel on 429/503, auto-recovers" (gemini.go): once no
\* model is limited any longer and requests go on, the primary one is in use
\* again and stays so, however the stores of concurrent requests interleave.
AutoRecovers ==
  <>[](limited = {}) /\ (\E w \in Callers : []<>(at[w] # "idle"))
    => <>[](~degraded)

=============================================================================
