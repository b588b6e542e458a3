------------------------------- MODULE Sending ------------------------------
(***************************************************************************)
(* sendMessage: how a controller sends the chunks of its messages for one  *)
(* output through the bots of that output's accounts, one after the other. *)
(* Only the run goroutine sends; meanwhile the output's accounts are       *)
(* edited, and syncs put bots into the pool or give them other limits.     *)
(*                                                                         *)
(* Chunks are the numbers 1 .. total of the current message; that each is  *)
(* no longer than minMax is SplitWrap's.                                   *)
(***************************************************************************)
EXTENDS Integers, SequencesExt, FiniteSetsExt

CONSTANTS Lists,       \* lists of accounts that the output may have
          Limits,      \* longest messages of a bot
          MaxMessages, \* bound: messages
          MaxChunks,   \* bound: chunks of a message
          MaxSettings  \* bound: changes of lists and bots

ASSUME SendingAssumption ==
  /\ \A l \in Lists : l \in Seq(ToSet(l)) /\ IsInjective(l)
  /\ Limits \subseteq Nat \ {0}
  /\ MaxMessages \in Nat /\ MaxChunks \in Nat \ {0} /\ MaxSettings \in Nat

Bots == UNION {ToSet(l) : l \in Lists}

VARIABLES
  list,      \* the accounts of the output (AccountPool)
  limit,     \* MaxMessageLen of the bot in the pool, 0 without a bot
  turn,      \* rrIndex of the output
  accts,     \* the accounts that the current message is sent with
  minMax,    \* the limit it was cut by, 0 for none
  total,     \* its chunks
  next,      \* the next of them
  shown,     \* history: those the room has seen
  messages,  \* messages so far
  settings,  \* changes of lists and bots so far
  skipped,   \* history: an account of this message had no bot in its turn
  renewed,   \* history: bots have changed since this message was cut
  tooLong,   \* history: a bot was given a chunk that may be too long for it
  tries      \* history: turns of each account since accts is what it is

sendingVars == <<list, limit, turn, accts, minMax, total, next, shown, messages,
                 settings, skipped, renewed, tooLong, tries>>

SendingInit ==
  /\ list \in Lists /\ limit \in [Bots -> {0} \cup Limits]
  /\ turn = 0 /\ accts = <<>> /\ minMax = 0 /\ total = 0 /\ next = 1
  /\ shown = <<>> /\ messages = 0 /\ settings = 0
  /\ skipped = FALSE /\ renewed = FALSE /\ tooLong = FALSE
  /\ tries = [a \in Bots |-> 0]

LimitsOf(l) == {limit[a] : a \in ToSet(l)} \ {0}
GreatestLimit(l) == IF LimitsOf(l) = {} THEN 0 ELSE Max(LimitsOf(l))   \* mutant
LeastLimit(l) == IF LimitsOf(l) = {} THEN 0 ELSE Min(LimitsOf(l))

TurnReset == 0                                                   \* mutant
\* The index outlives the message.
TurnKept == turn

\* Nothing is sent without accounts; otherwise the text is cut, by the least
\* limit of the bots that are there, into any number of chunks.
BeginMessage ==
  /\ next > total /\ messages < MaxMessages /\ list # <<>>
  /\ messages' = messages + 1
  /\ accts' = list /\ minMax' = LeastLimit(list)
  /\ total' \in (IF minMax' = 0 THEN {1} ELSE 1 .. MaxChunks) /\ next' = 1 /\ shown' = <<>>
  /\ turn' = TurnKept
  /\ skipped' = FALSE /\ renewed' = FALSE
  /\ tries' = IF list = accts THEN tries ELSE [a \in Bots |-> 0]
  /\ UNCHANGED <<list, limit, settings, tooLong>>

\* The bot whose turn it is, and on to the next
TakeTurn(a) ==
  /\ next <= total
  /\ LET i == turn % Len(accts) IN
       a = accts[i + 1] /\ turn' = (i + 1) % Len(accts)
  /\ tries' = [tries EXCEPT ![a] = @ + 1]
  /\ UNCHANGED <<list, limit, accts, minMax, total, messages, settings, renewed>>

\* continue: the chunk is left out.
BotMissing(a) ==
  /\ TakeTurn(a) /\ limit[a] = 0
  /\ next' = next + 1 /\ skipped' = TRUE
  /\ UNCHANGED <<shown, tooLong>>

GoesOn == next + 1                                               \* mutant
\* break: the rest of the message is left out.
AfterError == total + 1

SendChunk(a) ==
  /\ TakeTurn(a) /\ limit[a] # 0
  /\ \/ shown' = Append(shown, next) /\ next' = next + 1
     \/ shown' = shown /\ next' = AfterError
  /\ tooLong' = (tooLong \/ (~renewed /\ minMax \notin 1 .. limit[a]))
  /\ UNCHANGED skipped

Setting == settings < MaxSettings /\ settings' = settings + 1

EditAccounts(l) ==
  /\ Setting /\ list' = l
  /\ UNCHANGED <<limit, turn, accts, minMax, total, next, shown, messages,
                 skipped, renewed, tooLong, tries>>

\* Add or UpdateCredentials; nothing takes a bot out of the pool.
SyncBot(a, n) ==
  /\ Setting /\ limit' = [limit EXCEPT ![a] = n] /\ renewed' = TRUE
  /\ UNCHANGED <<list, turn, accts, minMax, total, next, shown, messages,
                 skipped, tooLong, tries>>

SendingNext ==
  \/ BeginMessage
  \/ \E a \in Bots : BotMissing(a) \/ SendChunk(a)
  \/ \E l \in Lists : EditAccounts(l)
  \/ \E a \in Bots, n \in Limits : SyncBot(a, n)

SendingSpec == SendingInit /\ [][SendingNext]_sendingVars

-----------------------------------------------------------------------------

\* The room sees the beginning of a message and never its parts with a gap,
\* although every chunk may go through another bot and any of them may fail,
\* as long as all accounts of the output have bots.
PrefixShown == skipped \/ shown = [i \in 1 .. Len(shown) |-> i]

\* "Use minimum maxLen across all pool bots so chunks fit any bot"
\* (controller.go:543): whichever bot a chunk falls to can take it, also after
\* the accounts were edited; a sync in the middle of the message may change it.
FitsAnyBot == ~tooLong

\* "round-robin delivery" (README): over all messages sent with the same
\* accounts no bot gets more than one turn more than another, however long
\* the messages are and whatever fails.
EvenRotation ==
  \A a, b \in ToSet(accts) : tries[a] <= tries[b] + 1

=============================================================================
