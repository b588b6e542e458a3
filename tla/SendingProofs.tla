---------------------------- MODULE SendingProofs ---------------------------
(***************************************************************************)
(* What holds of every message that is cut and sent: for any accounts,     *)
(* limits, lengths and numbers of chunks, and any changes of bots and of   *)
(* lists of accounts meanwhile; and of the bots under any syncs.           *)
(***************************************************************************)
EXTENDS Sending, SplitWrap, BotPool, TLAPS, WellFoundedInduction, NaturalsInduction,
        SequenceTheorems

-----------------------------------------------------------------------------
(* Least and greatest numbers.                                             *)

LEMMA LeastNatural ==
  ASSUME NEW S \in SUBSET Nat, S # {}
  PROVE  \E x \in S : \A y \in S : x <= y
<1> DEFINE R == OpToRel(<, Nat)
<1>1. IsWellFoundedOn(R, Nat)
  BY NatLessThanWellFounded
<1>2. \A x, y \in Nat : <<y, x>> \in R <=> y < x
  BY DEF OpToRel
<1> HIDE DEF R
<1>3. PICK x \in S : \A y \in S : ~ (<<y, x>> \in R)
  BY <1>1, WFMin
<1>4. \A y \in S : x \in Nat /\ y \in Nat /\ ~ (y < x)
  BY <1>2, <1>3
<1> QED BY <1>4

LEMMA MinIs ==
  ASSUME NEW S \in SUBSET Nat, S # {}
  PROVE  Min(S) \in S /\ \A y \in S : Min(S) <= y
BY LeastNatural DEF Min

LEMMA MaxIs ==
  ASSUME NEW a \in Int, NEW b \in Int, NEW S \in SUBSET (a .. b), S # {}
  PROVE  Max(S) \in S /\ \A y \in S : y <= Max(S)
<1> DEFINE T == {b - x : x \in S}
<1>0. \A x \in S : x \in Int /\ x <= b
  OBVIOUS
<1>1. T \in SUBSET Nat /\ T # {}
  BY <1>0
<1>2. PICK t \in T : \A u \in T : t <= u
  BY <1>1, LeastNatural
<1>3. PICK x \in S : t = b - x
  BY <1>2
<1>4. \A y \in S : y <= x
  <2> TAKE y \in S
  <2>1. b - y \in T
    OBVIOUS
  <2>2. b - x <= b - y
    BY <1>2, <1>3, <2>1
  <2> HIDE DEF T
  <2>3. x \in Int /\ y \in Int
    BY <1>0
  <2> QED BY <2>2, <2>3
<1> QED BY <1>0, <1>4 DEF Max

-----------------------------------------------------------------------------
(* sendMessage.                                                            *)

SendingTyped ==
  /\ list \in Lists /\ accts \in Lists \cup {<<>>}
  /\ limit \in [Bots -> {0} \cup Limits]
  /\ turn \in Nat /\ total \in Nat /\ next \in Nat
  /\ shown \in Seq(Nat) /\ tries \in [Bots -> Nat]
  /\ skipped \in BOOLEAN /\ renewed \in BOOLEAN /\ tooLong \in BOOLEAN
  /\ next <= total => accts # <<>>

\* As long as no bot was missing, what was shown is all that was tried.
ShownIsPrefix ==
  skipped \/ /\ shown = [i \in 1 .. Len(shown) |-> i]
             /\ next <= total => next = Len(shown) + 1

\* The message was cut by the least limit of the bots as they still are.
CutByLeast == tooLong = FALSE /\ (renewed \/ minMax = LeastLimit(accts))

\* Places from s on, in turn, up to and without t have had one turn more.
RoundFrom(s, t, q) ==
  \A i \in 0 .. Len(accts) - 1 :
    tries[accts[i + 1]] =
      IF (IF s <= t THEN s <= i /\ i < t ELSE s <= i \/ i < t) THEN q + 1 ELSE q

InRotation ==
  accts # <<>> =>
    \E s \in 0 .. Len(accts) - 1, q \in Nat : RoundFrom(s, turn % Len(accts), q)

SendingInv == SendingTyped /\ ShownIsPrefix /\ CutByLeast /\ InRotation

LEMMA ListTypes ==
  ASSUME NEW l \in Lists \cup {<<>>}
  PROVE  /\ l \in Seq(Bots)
         /\ \A i, j \in DOMAIN l : l[i] = l[j] => i = j
         /\ \A x \in ToSet(l) : \E i \in DOMAIN l : l[i] = x
<1>1. CASE l \in Lists
  <2>1. l \in Seq(ToSet(l)) /\ IsInjective(l)
    BY <1>1, SendingAssumption
  <2>2. ToSet(l) \subseteq Bots
    BY <1>1 DEF Bots
  <2> QED BY <2>1, <2>2 DEF IsInjective, ToSet
<1>2. CASE l = <<>>
  BY <1>2 DEF ToSet
<1> QED BY <1>1, <1>2

LEMMA LeastLimitIs ==
  ASSUME limit \in [Bots -> {0} \cup Limits], NEW l \in Lists, NEW a \in ToSet(l), limit[a] # 0
  PROVE  LeastLimit(l) \in 1 .. limit[a]
<1>1. l \in Seq(Bots) /\ a \in Bots
  BY ListTypes DEF Bots
<1>2. LimitsOf(l) \subseteq Nat \ {0} /\ limit[a] \in LimitsOf(l)
  BY <1>1, SendingAssumption DEF LimitsOf, Bots
<1>3. Min(LimitsOf(l)) \in LimitsOf(l) /\ Min(LimitsOf(l)) <= limit[a]
  BY <1>2, MinIs
<1> QED BY <1>2, <1>3 DEF LeastLimit

\* The index within the list, and the next one
LEMMA TurnInList ==
  ASSUME NEW n \in Nat \ {0}, NEW t \in Nat
  PROVE  /\ t % n \in 0 .. n - 1
         /\ \A i \in 0 .. n - 1 : i % n = i
         /\ \A i \in 0 .. n - 1 : (i + 1) % n = IF i + 1 = n THEN 0 ELSE i + 1
OBVIOUS

\* Whose turn it is, and what the turn changes
LEMMA TurnTaken ==
  ASSUME SendingInv, NEW a \in Bots, TakeTurn(a)
  PROVE  /\ accts \in Lists /\ a \in ToSet(accts) /\ next <= total
         /\ turn' \in Nat /\ tries' \in [Bots -> Nat]
         /\ UNCHANGED <<list, limit, accts, minMax, total, renewed>>
         /\ InRotation'
<1> DEFINE n == Len(accts)
           t == turn % n
<1>1. /\ next <= total /\ a = accts[t + 1] /\ turn' = (t + 1) % n
      /\ tries' = [tries EXCEPT ![a] = @ + 1]
      /\ UNCHANGED <<list, limit, accts, minMax, total, renewed>>
  BY DEF TakeTurn
<1>2. accts # <<>> /\ accts \in Lists
  BY <1>1 DEF SendingInv, SendingTyped
<1>3. accts \in Seq(Bots) /\ n \in Nat \ {0} /\ DOMAIN accts = 1 .. n
  BY <1>2, ListTypes
<1>4. turn \in Nat /\ tries \in [Bots -> Nat]
  BY DEF SendingInv, SendingTyped
<1> HIDE DEF n
<1>5. /\ t \in 0 .. n - 1 /\ turn' = (IF t + 1 = n THEN 0 ELSE t + 1)
      /\ turn' % n = turn'
  <2>1. t \in 0 .. n - 1
    BY <1>3, <1>4, TurnInList
  <2>2. turn' = IF t + 1 = n THEN 0 ELSE t + 1
    BY <1>1, <1>3, <2>1, TurnInList
  <2>3. turn' \in 0 .. n - 1
    BY <1>3, <2>1, <2>2
  <2> QED BY <1>3, <2>1, <2>2, <2>3, TurnInList
<1> HIDE DEF t
<1>6. /\ a \in ToSet(accts) /\ turn' \in Nat /\ tries' \in [Bots -> Nat]
      /\ tries'[a] = tries[a] + 1
      /\ \A b \in Bots : b # a => tries'[b] = tries[b]
  <2>1. t + 1 \in DOMAIN accts /\ turn' \in Nat
    BY <1>3, <1>5
  <2>2. a \in ToSet(accts)
    BY <1>1, <2>1 DEF ToSet
  <2>3. tries[a] + 1 \in Nat
    BY <1>4
  <2> QED BY <1>1, <1>4, <2>1, <2>2, <2>3
<1>7. \A i \in 0 .. n - 1 :
        /\ accts[i + 1] \in Bots
        /\ tries'[accts[i + 1]] = IF i = t THEN tries[accts[i + 1]] + 1 ELSE tries[accts[i + 1]]
  <2> TAKE i \in 0 .. n - 1
  <2>1. i + 1 \in DOMAIN accts /\ t + 1 \in DOMAIN accts /\ accts[i + 1] \in Bots
    BY <1>3, <1>5
  <2>2. accts[i + 1] = accts[t + 1] => i = t
    BY <1>2, <1>5, <2>1, ListTypes
  <2> QED BY <1>1, <1>6, <2>1, <2>2
<1>8. PICK s \in 0 .. n - 1, q \in Nat : RoundFrom(s, t, q)
  BY <1>2 DEF SendingInv, InRotation, n, t
<1>9. \A i \in 0 .. n - 1 :
        tries[accts[i + 1]] =
          IF (IF s <= t THEN s <= i /\ i < t ELSE s <= i \/ i < t) THEN q + 1 ELSE q
  BY <1>8 DEF RoundFrom, n
<1>10. PICK p \in Nat : \A i \in 0 .. n - 1 :
         tries'[accts[i + 1]] =
           IF (IF s <= turn' THEN s <= i /\ i < turn' ELSE s <= i \/ i < turn') THEN p + 1 ELSE p
  <2>1. CASE turn' = s
    <3>1. \A i \in 0 .. n - 1 : tries'[accts[i + 1]] = q + 1
      BY <1>3, <1>5, <1>7, <1>9, <2>1
    <3> QED BY <2>1, <3>1
  <2>2. CASE turn' # s
    <3>1. \A i \in 0 .. n - 1 :
            tries'[accts[i + 1]] =
              IF (IF s <= turn' THEN s <= i /\ i < turn' ELSE s <= i \/ i < turn')
              THEN q + 1 ELSE q
      BY <1>3, <1>5, <1>7, <1>9, <2>2
    <3> QED BY <3>1
  <2> QED BY <2>1, <2>2
<1>11. RoundFrom(s, turn % Len(accts), p)'
  BY <1>1, <1>5, <1>10 DEF RoundFrom, n
<1>12. InRotation'
  BY <1>1, <1>8, <1>10, <1>11 DEF InRotation, n
<1> QED BY <1>1, <1>2, <1>6, <1>12

LEMMA BeginMessageStep ==
  ASSUME SendingInv, BeginMessage
  PROVE  SendingInv'
<1>1. /\ list # <<>> /\ list \in Lists /\ accts' = list /\ minMax' = LeastLimit(list)
      /\ total' \in Nat /\ next' = 1 /\ shown' = <<>> /\ turn' = turn
      /\ skipped' = FALSE /\ renewed' = FALSE
      /\ tries' = (IF list = accts THEN tries ELSE [a \in Bots |-> 0])
      /\ UNCHANGED <<list, limit, tooLong>>
  BY SendingAssumption DEF BeginMessage, TurnKept, SendingInv, SendingTyped
<1>2. SendingTyped'
  <2>1. shown' \in Seq(Nat) /\ next' \in Nat /\ turn' \in Nat
    BY <1>1 DEF SendingInv, SendingTyped
  <2>2. tries' \in [Bots -> Nat]
    BY <1>1 DEF SendingInv, SendingTyped
  <2>3. skipped' \in BOOLEAN /\ renewed' \in BOOLEAN /\ tooLong' \in BOOLEAN
    BY <1>1 DEF SendingInv, SendingTyped
  <2> QED BY <1>1, <2>1, <2>2, <2>3 DEF SendingInv, SendingTyped
<1>3. ShownIsPrefix'
  BY <1>1 DEF ShownIsPrefix
<1>4. CutByLeast'
  BY <1>1 DEF SendingInv, CutByLeast, LeastLimit, LimitsOf
<1>5. InRotation'
  <2>1. CASE list = accts
    BY <1>1, <2>1 DEF SendingInv, InRotation, RoundFrom
  <2>2. CASE list # accts
    <3> DEFINE n == Len(list)
               t == turn % n
    <3>1. list \in Seq(Bots) /\ n \in Nat \ {0}
      BY <1>1, ListTypes
    <3>2. t \in 0 .. n - 1
      BY <3>1, TurnInList DEF SendingInv, SendingTyped
    <3>3. \A i \in 0 .. n - 1 : tries'[list[i + 1]] = 0
      BY <1>1, <2>2, <3>1
    <3>4. \A i \in 0 .. n - 1 : ~ (t <= i /\ i < t)
      BY <3>2
    <3>5. RoundFrom(t, turn % Len(accts), 0)'
      BY <1>1, <3>2, <3>3, <3>4 DEF RoundFrom
    <3> QED BY <1>1, <3>2, <3>5 DEF InRotation
  <2> QED BY <2>1, <2>2
<1> QED BY <1>2, <1>3, <1>4, <1>5 DEF SendingInv

LEMMA BotMissingStep ==
  ASSUME SendingInv, NEW a \in Bots, BotMissing(a)
  PROVE  SendingInv'
<1>1. /\ TakeTurn(a) /\ next' = next + 1 /\ skipped' = TRUE /\ UNCHANGED <<shown, tooLong>>
  BY DEF BotMissing
<1>2. SendingTyped' /\ InRotation'
  BY <1>1, TurnTaken DEF SendingInv, SendingTyped
<1>3. ShownIsPrefix'
  BY <1>1 DEF ShownIsPrefix
<1>4. CutByLeast'
  BY <1>1, TurnTaken DEF SendingInv, CutByLeast, LeastLimit, LimitsOf
<1> QED BY <1>2, <1>3, <1>4 DEF SendingInv

LEMMA SendChunkStep ==
  ASSUME SendingInv, NEW a \in Bots, SendChunk(a)
  PROVE  SendingInv'
<1>1. /\ TakeTurn(a) /\ limit[a] # 0 /\ skipped' = skipped
      /\ \/ shown' = Append(shown, next) /\ next' = next + 1
         \/ shown' = shown /\ next' = total + 1
      /\ tooLong' = (tooLong \/ (~renewed /\ minMax \notin 1 .. limit[a]))
  BY DEF SendChunk, AfterError
<1>2. /\ next \in Nat /\ total \in Nat /\ shown \in Seq(Nat) /\ next <= total
      /\ limit \in [Bots -> {0} \cup Limits]
      /\ accts \in Lists /\ a \in ToSet(accts)
      /\ UNCHANGED <<list, limit, accts, minMax, total, renewed>>
  BY <1>1, TurnTaken DEF SendingInv, SendingTyped
<1>3. SendingTyped' /\ InRotation'
  <2>0. Append(shown, next) \in Seq(Nat) /\ total + 1 \in Nat /\ next + 1 \in Nat
    BY <1>2
  <2>1. shown' \in Seq(Nat) /\ next' \in Nat /\ accts # <<>>
    BY <1>1, <1>2, <2>0 DEF SendingInv, SendingTyped
  <2>2. tooLong' \in BOOLEAN
    BY <1>1, Zenon
  <2> QED BY <1>1, <1>2, <2>1, <2>2, TurnTaken DEF SendingInv, SendingTyped
<1>4. ShownIsPrefix'
  <2>1. CASE skipped
    BY <1>1, <2>1 DEF ShownIsPrefix
  <2>2. CASE ~skipped
    <3>1. shown = [i \in 1 .. Len(shown) |-> i] /\ next = Len(shown) + 1
      BY <1>2, <2>2 DEF SendingInv, ShownIsPrefix
    <3>2. CASE shown' = Append(shown, next) /\ next' = next + 1
      <4>1. Append(shown, next) = [i \in 1 .. Len(shown) + 1 |-> i]
        BY <1>2, <3>1
      <4> QED BY <1>2, <3>1, <3>2, <4>1 DEF ShownIsPrefix
    <3>3. CASE shown' = shown /\ next' = total + 1
      BY <1>2, <3>1, <3>3 DEF ShownIsPrefix
    <3> QED BY <1>1, <3>2, <3>3
  <2> QED BY <2>1, <2>2
<1>5. CutByLeast'
  <2>1. tooLong = FALSE /\ (renewed \/ minMax = LeastLimit(accts))
    BY DEF SendingInv, CutByLeast
  <2>2. LeastLimit(accts) \in 1 .. limit[a]
    BY <1>1, <1>2, LeastLimitIs
  <2>3. tooLong' = FALSE
    BY <1>1, <2>1, <2>2
  <2>4. LeastLimit(accts)' = LeastLimit(accts)
    BY <1>2 DEF LeastLimit, LimitsOf
  <2> QED BY <1>2, <2>1, <2>3, <2>4 DEF CutByLeast
<1> QED BY <1>3, <1>4, <1>5 DEF SendingInv

LEMMA NextSending == SendingInv /\ [SendingNext]_sendingVars => SendingInv'
<1> SUFFICES ASSUME SendingInv, [SendingNext]_sendingVars PROVE SendingInv'
  OBVIOUS
<1>1. CASE BeginMessage
  BY <1>1, BeginMessageStep
<1>2. ASSUME NEW a \in Bots, BotMissing(a) \/ SendChunk(a)
      PROVE  SendingInv'
  BY <1>2, BotMissingStep, SendChunkStep
<1>3. ASSUME NEW l \in Lists, EditAccounts(l)
      PROVE  SendingInv'
  <2>1. /\ list' = l
        /\ UNCHANGED <<limit, turn, accts, minMax, total, next, shown, skipped, renewed,
                       tooLong, tries>>
    BY <1>3 DEF EditAccounts
  <2>2. SendingTyped' /\ ShownIsPrefix' /\ InRotation'
    BY <2>1 DEF SendingInv, SendingTyped, ShownIsPrefix, InRotation, RoundFrom
  <2>3. CutByLeast'
    BY <2>1 DEF SendingInv, CutByLeast, LeastLimit, LimitsOf
  <2> QED BY <2>2, <2>3 DEF SendingInv
<1>4. ASSUME NEW a \in Bots, NEW n \in Limits, SyncBot(a, n)
      PROVE  SendingInv'
  <2>1. /\ limit' = [limit EXCEPT ![a] = n] /\ renewed' = TRUE
        /\ UNCHANGED <<list, turn, accts, minMax, total, next, shown, skipped, tooLong,
                       tries>>
    BY <1>4 DEF SyncBot
  <2>2. limit' \in [Bots -> {0} \cup Limits]
    BY <2>1 DEF SendingInv, SendingTyped
  <2>3. SendingTyped' /\ ShownIsPrefix' /\ InRotation'
    BY <2>1, <2>2 DEF SendingInv, SendingTyped, ShownIsPrefix, InRotation, RoundFrom
  <2>4. CutByLeast'
    BY <2>1 DEF SendingInv, CutByLeast
  <2> QED BY <2>3, <2>4 DEF SendingInv
<1>5. CASE UNCHANGED sendingVars
  <2>1. UNCHANGED <<list, limit, turn, accts, minMax, total, next, shown, skipped, renewed,
                    tooLong, tries>>
    BY <1>5 DEF sendingVars
  <2>2. SendingTyped' /\ ShownIsPrefix' /\ InRotation'
    BY <2>1 DEF SendingInv, SendingTyped, ShownIsPrefix, InRotation, RoundFrom
  <2>3. CutByLeast'
    BY <2>1 DEF SendingInv, CutByLeast, LeastLimit, LimitsOf
  <2> QED BY <2>2, <2>3 DEF SendingInv
<1> QED BY <1>1, <1>2, <1>3, <1>4, <1>5 DEF SendingNext

LEMMA InitSending == SendingInit => SendingInv
<1> SUFFICES ASSUME SendingInit PROVE SendingInv
  OBVIOUS
<1>1. list \in Lists /\ accts \in Lists \cup {<<>>} /\ limit \in [Bots -> {0} \cup Limits]
  BY DEF SendingInit
<1>2. turn \in Nat /\ total \in Nat /\ next \in Nat /\ ~(next <= total)
  BY DEF SendingInit
<1>3. shown \in Seq(Nat) /\ tries \in [Bots -> Nat]
  BY DEF SendingInit
<1>4. skipped \in BOOLEAN /\ renewed \in BOOLEAN /\ tooLong \in BOOLEAN
  BY DEF SendingInit
<1>5. SendingTyped
  BY <1>1, <1>2, <1>3, <1>4 DEF SendingTyped
<1>6. ShownIsPrefix /\ InRotation
  BY DEF SendingInit, ShownIsPrefix, InRotation
<1>7. LimitsOf(<<>>) = {}
  BY DEF LimitsOf, ToSet
<1>8. CutByLeast
  BY <1>7 DEF SendingInit, CutByLeast, LeastLimit
<1> QED BY <1>5, <1>6, <1>8 DEF SendingInv

LEMMA SendingInvariant == SendingSpec => []SendingInv
BY InitSending, NextSending, PTL DEF SendingSpec

\* The room sees a prefix of every message, through whichever bots and however
\* long it is (sendMessage).
THEOREM PrefixCorrect == SendingSpec => []PrefixShown
<1>1. SendingInv => PrefixShown
  BY DEF SendingInv, ShownIsPrefix, PrefixShown
<1> QED BY <1>1, SendingInvariant, PTL

\* No bot is given a chunk that is too long for it (minMax of sendMessage).
THEOREM FitsCorrect == SendingSpec => []FitsAnyBot
<1>1. SendingInv => FitsAnyBot
  BY DEF SendingInv, CutByLeast, FitsAnyBot
<1> QED BY <1>1, SendingInvariant, PTL

\* Turns are even among any number of accounts, over any number of messages
\* (rrIndex).
THEOREM RotationCorrect == SendingSpec => []EvenRotation
<1>1. ASSUME SendingInv
      PROVE  EvenRotation
  <2> SUFFICES ASSUME NEW a \in ToSet(accts), NEW b \in ToSet(accts)
               PROVE  tries[a] <= tries[b] + 1
    BY DEF EvenRotation
  <2>1. accts \in Seq(Bots) /\ tries \in [Bots -> Nat]
    BY <1>1, ListTypes DEF SendingInv, SendingTyped
  <2>2. PICK i \in DOMAIN accts, j \in DOMAIN accts : accts[i] = a /\ accts[j] = b
    BY <1>1, ListTypes DEF SendingInv, SendingTyped
  <2>3. i - 1 \in 0 .. Len(accts) - 1 /\ j - 1 \in 0 .. Len(accts) - 1
        /\ (i - 1) + 1 = i /\ (j - 1) + 1 = j /\ accts # <<>>
    BY <2>1, <2>2
  <2>4. PICK s \in 0 .. Len(accts) - 1, q \in Nat : RoundFrom(s, turn % Len(accts), q)
    BY <1>1, <2>3 DEF SendingInv, InRotation
  <2>5. tries[a] \in {q, q + 1} /\ tries[b] \in {q, q + 1}
    BY <2>2, <2>3, <2>4 DEF RoundFrom
  <2> QED BY <2>4, <2>5
<1> QED BY <1>1, SendingInvariant, PTL

-----------------------------------------------------------------------------
(* splitWithWrap.                                                          *)

SplitTyped ==
  /\ text \in Seq(BOOLEAN) /\ wrap \in Nat /\ maxLen \in Nat
  /\ pos \in 0 .. Len(text) /\ chunks \in Seq(Nat \X Nat) /\ split \in BOOLEAN

\* The chunks so far are the text up to pos, or up to its end.
CutSoFar ==
  /\ chunks = <<>> => pos = 0 /\ ~split
  /\ chunks # <<>> =>
       /\ chunks[1][1] = 0
       /\ chunks[Len(chunks)][2] = IF split THEN Len(text) ELSE pos
       /\ split \/ (0 < pos /\ pos < Len(text))
  /\ \A i \in 1 .. Len(chunks) - 1 : chunks[i][2] = chunks[i + 1][1]

GoodSize(c) ==
  /\ c[2] - c[1] > 0 \/ text = <<>>
  /\ maxLen > wrap => c[2] - c[1] + wrap <= maxLen

SplitInv == SplitTyped /\ CutSoFar /\ \A i \in DOMAIN chunks : GoodSize(chunks[i])

\* The break is in the chunk, behind its first character.
LEMMA BreakInChunk ==
  ASSUME SplitTyped, ContentMax > 0
  PROVE  BreakAt \in pos + 1 .. pos + ContentMax
<1> DEFINE half == ContentMax \div 2
           end == pos + ContentMax
           breaks == {j \in pos + half + 1 .. end - 1 : text[j + 1]}
<1>1. pos \in Nat /\ ContentMax \in Nat \ {0} /\ half \in Nat
  BY DEF SplitTyped, ContentMax
<1>2. BreakAt = IF breaks = {} THEN end ELSE Max(breaks) + 1
  BY DEF BreakAt
<1>3. CASE breaks = {}
  BY <1>1, <1>2, <1>3
<1>4. CASE breaks # {}
  <2>1. pos + half + 1 \in Int /\ end - 1 \in Int
        /\ breaks \in SUBSET (pos + half + 1 .. end - 1)
    BY <1>1
  <2>2. Max(breaks) \in pos + half + 1 .. end - 1
    BY <1>4, <2>1, MaxIs
  <2> QED BY <1>1, <1>2, <1>4, <2>2
<1> QED BY <1>3, <1>4

\* One more chunk, from pos on
LEMMA ChunkStep ==
  ASSUME SplitInv, ~split, NEW to \in pos .. Len(text), Chunk(to), GoodSize(<<pos, to>>),
         UNCHANGED <<text, wrap, maxLen>>,
         \/ split' = TRUE /\ pos' = pos /\ to = Len(text)
         \/ split' = FALSE /\ pos' = to /\ pos < to /\ to < Len(text)
  PROVE  SplitInv'
<1>1. /\ chunks \in Seq(Nat \X Nat) /\ pos \in Nat /\ to \in Nat /\ Len(text) \in Nat
      /\ <<pos, to>> \in Nat \X Nat /\ chunks' = Append(chunks, <<pos, to>>)
  BY DEF SplitInv, SplitTyped, Chunk
<1>2. /\ chunks' \in Seq(Nat \X Nat) /\ Len(chunks') = Len(chunks) + 1
      /\ DOMAIN chunks' = 1 .. Len(chunks) + 1 /\ DOMAIN chunks = 1 .. Len(chunks)
      /\ Len(chunks) \in Nat /\ (chunks = <<>> <=> Len(chunks) = 0)
      /\ chunks'[Len(chunks) + 1] = <<pos, to>>
      /\ \A i \in 1 .. Len(chunks) : chunks'[i] = chunks[i]
  BY <1>1
<1>3. SplitTyped'
  <2>1. text' \in Seq(BOOLEAN) /\ wrap' \in Nat /\ maxLen' \in Nat
    BY DEF SplitInv, SplitTyped
  <2>2. pos' \in 0 .. Len(text')
    BY <1>1 DEF SplitInv, SplitTyped
  <2>3. split' \in BOOLEAN
    OBVIOUS
  <2> QED BY <1>2, <2>1, <2>2, <2>3 DEF SplitTyped
<1>4. \A i \in 1 .. Len(chunks')  - 1 : chunks'[i][2] = chunks'[i + 1][1]
  <2>0. Len(chunks') - 1 = Len(chunks) /\ Len(chunks) \in Nat
    BY <1>2
  <2> TAKE i \in 1 .. Len(chunks') - 1
  <2>1. CASE i < Len(chunks)
    <3>1. i \in 1 .. Len(chunks) - 1 /\ i \in 1 .. Len(chunks) /\ i + 1 \in 1 .. Len(chunks)
      BY <1>2, <2>1
    <3>2. chunks'[i] = chunks[i] /\ chunks'[i + 1] = chunks[i + 1]
      BY <1>2, <3>1
    <3>3. chunks[i][2] = chunks[i + 1][1]
      BY <3>1 DEF SplitInv, CutSoFar
    <3> QED BY <3>2, <3>3
  <2>2. CASE i = Len(chunks)
    <3>1. i \in 1 .. Len(chunks) /\ chunks # <<>>
      BY <1>2, <2>2
    <3>2. chunks'[i] = chunks[Len(chunks)] /\ chunks'[i + 1] = <<pos, to>>
      BY <1>2, <2>2, <3>1
    <3>3. chunks[Len(chunks)][2] = pos
      BY <3>1 DEF SplitInv, CutSoFar
    <3>4. chunks'[i + 1][1] = pos
      BY <3>2, <1>1
    <3>5. chunks'[i][2] = pos
      BY <3>2, <3>3
    <3> QED BY <3>4, <3>5
  <2>3. i < Len(chunks) \/ i = Len(chunks)
    BY <2>0
  <2> QED BY <2>1, <2>2, <2>3
<1>5. /\ chunks' # <<>> /\ chunks'[1][1] = 0
      /\ chunks'[Len(chunks')][2] = to
  <2>1. chunks' # <<>> /\ chunks'[Len(chunks')] = <<pos, to>>
    BY <1>2
  <2>2. CASE chunks = <<>>
    BY <1>2, <2>1, <2>2 DEF SplitInv, CutSoFar
  <2>3. CASE chunks # <<>>
    <3>1. 1 \in 1 .. Len(chunks)
      BY <1>2, <2>3
    <3>2. chunks'[1] = chunks[1]
      BY <1>2, <3>1
    <3> QED BY <2>1, <2>3, <3>2 DEF SplitInv, CutSoFar
  <2> QED BY <2>2, <2>3
<1>6. CutSoFar'
  <2>1. (IF split' THEN Len(text') ELSE pos') = to
    BY <1>1
  <2>2. split' \/ (0 < pos' /\ pos' < Len(text'))
    BY <1>1
  <2> QED BY <1>4, <1>5, <2>1, <2>2 DEF CutSoFar
<1>7. \A i \in DOMAIN chunks' : GoodSize(chunks'[i])
  <2> TAKE i \in DOMAIN chunks'
  <2>1. CASE i \in DOMAIN chunks
    <3>1. chunks'[i] = chunks[i] /\ GoodSize(chunks[i])
      BY <1>2, <2>1 DEF SplitInv
    <3> QED BY <3>1
  <2>2. CASE i = Len(chunks) + 1
    <3>1. chunks'[i] = <<pos, to>>
      BY <1>2, <2>2
    <3> QED BY <3>1
  <2> QED BY <1>2, <2>1, <2>2
<1> QED BY <1>3, <1>6, <1>7 DEF SplitInv, GoodSize

LEMMA NextSplit == SplitInv /\ [SplitNext]_splitVars => SplitInv'
<1> SUFFICES ASSUME SplitInv, [SplitNext]_splitVars PROVE SplitInv'
  OBVIOUS
<1>0. /\ text \in Seq(BOOLEAN) /\ wrap \in Nat /\ maxLen \in Nat
      /\ Len(text) \in Nat /\ pos \in 0 .. Len(text)
      /\ ContentMax \in Int /\ ContentMax = maxLen - wrap
  BY DEF SplitInv, SplitTyped, ContentMax
<1>1. CASE Whole
  <2>1. /\ ~split /\ pos = 0 /\ (Fits \/ ContentMax <= 0) /\ Chunk(Len(text))
        /\ split' = TRUE /\ UNCHANGED <<text, wrap, maxLen, pos>>
    BY <1>1 DEF Whole
  <2>2. GoodSize(<<pos, Len(text)>>)
    BY <1>0, <2>1 DEF GoodSize, Fits
  <2> QED BY <1>0, <2>1, <2>2, ChunkStep
<1>2. CASE Rest
  <2>1. /\ ~split /\ pos < Len(text) /\ pos + ContentMax >= Len(text)
        /\ Chunk(Len(text)) /\ split' = TRUE /\ UNCHANGED <<text, wrap, maxLen, pos>>
    BY <1>2 DEF Rest, Cutting
  <2>2. GoodSize(<<pos, Len(text)>>)
    BY <1>0, <2>1 DEF GoodSize
  <2> QED BY <1>0, <2>1, <2>2, ChunkStep
<1>3. CASE Cut
  <2>1. /\ ~split /\ ContentMax > 0 /\ pos + ContentMax < Len(text)
        /\ Chunk(BreakAt) /\ pos' = BreakAt /\ UNCHANGED <<text, wrap, maxLen, split>>
    BY <1>3 DEF Cut, Cutting
  <2>2. BreakAt \in pos + 1 .. pos + ContentMax
    BY <2>1, BreakInChunk DEF SplitInv
  <2>3. /\ BreakAt \in pos .. Len(text) /\ pos < BreakAt /\ BreakAt < Len(text)
        /\ BreakAt - pos <= ContentMax
    BY <1>0, <2>1, <2>2
  <2>4. GoodSize(<<pos, BreakAt>>)
    BY <1>0, <2>2, <2>3 DEF GoodSize
  <2>5. split' = FALSE
    BY <2>1 DEF SplitInv, SplitTyped
  <2> QED BY <2>1, <2>3, <2>4, <2>5, ChunkStep
<1>4. CASE UNCHANGED splitVars
  BY <1>4 DEF splitVars, SplitInv, SplitTyped, CutSoFar, GoodSize
<1> QED BY <1>1, <1>2, <1>3, <1>4 DEF SplitNext

LEMMA InitSplit == SplitInit => SplitInv
<1> SUFFICES ASSUME SplitInit PROVE SplitInv
  OBVIOUS
<1>1. PICK n \in 0 .. MaxText : text \in [1 .. n -> BOOLEAN]
  BY DEF SplitInit, Texts
<1>2. n \in Nat /\ text \in Seq(BOOLEAN) /\ Len(text) = n
  BY <1>1, SplitAssumption
<1>3. SplitTyped
  <2>1. wrap \in Nat /\ maxLen \in Nat /\ pos \in 0 .. Len(text)
    BY <1>2, SplitAssumption DEF SplitInit
  <2>2. chunks \in Seq(Nat \X Nat)
    BY DEF SplitInit
  <2>3. split \in BOOLEAN
    BY DEF SplitInit
  <2> QED BY <1>2, <2>1, <2>2, <2>3 DEF SplitTyped
<1> QED
  BY <1>3 DEF SplitInit, SplitInv, CutSoFar

\* However long the text, its prefix and suffix and the limit, and wherever its
\* breaks are, the chunks are the text and fit (splitWithWrap).
THEOREM ChunksCorrect == SplitSpec => []ChunksFit
<1>1. SplitInv => ChunksFit
  BY DEF SplitInv, SplitTyped, CutSoFar, GoodSize, ChunksFit
<1> QED BY <1>1, InitSplit, NextSplit, PTL DEF SplitSpec

-----------------------------------------------------------------------------
(* The bots, and the accounts they are made from.                          *)

BotTypes ==
  /\ db \in [Accounts -> Seq(Nat)] /\ saves \in Nat
  /\ bots \in Seq(Nat) /\ pool \in [Accounts -> 0 .. Len(bots)]
  /\ step \in [Syncs -> {"none", "insert", "list", "next", "put", "done"}]
  /\ rows \in [Syncs -> [Accounts -> Seq(Nat)]]
  /\ found = [s \in Syncs |-> found[s]]
  /\ \A s \in Syncs : step[s] \in {"insert", "put"} =>
       found[s][1] \in Accounts /\ found[s][2] \in Nat
  /\ \A s \in Syncs : step[s] = "put" =>
       /\ found[s][3] \in 0 .. Len(bots)
       /\ found[s][3] # 0 => pool[found[s][1]] # 0

\* A sync on its way to a bot for the account
Comes(s, a) ==
  \/ step[s] = "list"
  \/ step[s] \in {"next", "put"} /\ rows[s][a] # <<>>
  \/ step[s] = "put" /\ found[s][1] = a

\* Every account that is stored has a bot, or a sync will give it one, unless a
\* request or a listing failed and no sync came after it.
Served == missed \/ \A a \in Accounts : db[a] # <<>> => pool[a] # 0 \/ \E s \in Syncs : Comes(s, a)

\* The bot of the account has what is stored.
UpToDate(a) == db[a] # <<>> => pool[a] # 0 /\ db[a] = <<bots[pool[a]]>>

\* A sync that is alone has the account before it, unchanged, or has dealt with it.
Listed(s, a) == rows[s][a] = db[a] \/ (rows[s][a] = <<>> /\ UpToDate(a))

\* As long as there is one sync at a time, an account has one row, bots are not
\* shared, and between two syncs all of them are up to date unless one failed.
OneByOne ==
  /\ \A s, t \in Syncs : Running(s) /\ Running(t) => s = t
  /\ \A a \in Accounts : db[a] = <<>> \/ \E x \in Nat : db[a] = <<x>>
  /\ \A a, b \in Accounts : pool[a] = pool[b] /\ pool[a] # 0 => a = b
  /\ Quiet /\ ~missed => \A a \in Accounts : UpToDate(a)
  /\ \A s \in Syncs :
       /\ step[s] = "insert" =>
            /\ db[found[s][1]] = <<>>
            /\ missed \/ \A a \in Accounts : UpToDate(a)
       /\ step[s] = "next" => \A a \in Accounts : Listed(s, a)
       /\ step[s] = "put" =>
            /\ db[found[s][1]] = <<found[s][2]>> /\ rows[s][found[s][1]] = <<>>
            /\ found[s][3] = pool[found[s][1]]
            /\ \A a \in Accounts : a # found[s][1] => Listed(s, a)

BotInv == BotTypes /\ Served /\ (~crowded => OneByOne)

-----------------------------------------------------------------------------

LEMMA OneRemoved ==
  ASSUME NEW S, NEW s \in Seq(S), NEW i \in DOMAIN s
  PROVE  /\ RemoveAt(s, i) \in Seq(S)
         /\ \A x : s = <<x>> => RemoveAt(s, i) = <<>>
<1>1. i \in 1 .. Len(s) /\ Len(s) \in Nat
  BY LenProperties
<1>2. SubSeq(s, 1, i - 1) \in Seq(S) /\ SubSeq(s, i + 1, Len(s)) \in Seq(S)
  <2>1. /\ \A j \in 1 .. i - 1 : s[j] \in S
        /\ \A j \in i + 1 .. Len(s) : s[j] \in S
    BY <1>1, ElementOfSeq
  <2> QED BY <1>1, <2>1, SubSeqProperties
<1>3. RemoveAt(s, i) \in Seq(S)
  BY <1>2, ConcatProperties DEF RemoveAt
<1>4. ASSUME NEW x, s = <<x>> PROVE RemoveAt(s, i) = <<>>
  <2>1. Len(s) = 1 /\ i = 1
    BY <1>1, <1>4
  <2>2. SubSeq(s, 1, i - 1) = <<>> /\ SubSeq(s, i + 1, Len(s)) = <<>>
    BY <2>1, SubSeqEmpty
  <2> QED BY <1>2, <2>2, ConcatEmptySeq DEF RemoveAt
<1> QED BY <1>3, <1>4

LEMMA BotInitial == BotInit => BotInv
<1> SUFFICES ASSUME BotInit PROVE BotInv
  OBVIOUS
<1>1. BotTypes
  BY SavesAssumption DEF BotInit, BotTypes
<1>2. Served /\ OneByOne
  BY DEF BotInit, Served, OneByOne, UpToDate, Running
<1> QED BY <1>1, <1>2 DEF BotInv

\* A request begins with a change of the accounts that makes no rows: its sync
\* will list what there is, or it is noted that there was none.
LEMMA BeginStep ==
  ASSUME BotInv, NEW s \in Syncs, NEW begun \in {"insert", "list", "done"}, Begin(s, begun),
         IF begun = "done" THEN missed' ELSE UNCHANGED missed,
         db' \in [Accounts -> Seq(Nat)], saves' \in Nat,
         \A t \in Syncs \ {s} : found'[t] = found[t],
         found' = [t \in Syncs |-> found'[t]],
         begun = "insert" => found'[s][1] \in Accounts /\ found'[s][2] \in Nat,
         \A a \in Accounts :
            (\E x \in Nat : db[a] = <<x>>) => db'[a] = <<>> \/ \E x \in Nat : db'[a] = <<x>>,
         \A a \in Accounts : db[a] = <<>> => db'[a] = <<>>,
         begun = "insert" => db' = db /\ db'[found'[s][1]] = <<>>
  PROVE  BotInv'
<1> USE DEF BotInv
<1>1. /\ step[s] = "none" /\ step' = [step EXCEPT ![s] = begun]
      /\ crowded' = (crowded \/ ~Quiet) /\ UNCHANGED <<pool, bots, rows>>
  BY DEF Begin
<1>2. step'[s] = begun /\ \A t \in Syncs \ {s} : step'[t] = step[t]
  BY <1>1 DEF BotTypes
<1>3. BotTypes'
  <2>1. step' \in [Syncs -> {"none", "insert", "list", "next", "put", "done"}]
    BY <1>1 DEF BotTypes
  <2>2. ASSUME NEW t \in Syncs, step'[t] \in {"insert", "put"}
        PROVE  found'[t][1] \in Accounts /\ found'[t][2] \in Nat
    BY <1>2, <2>2 DEF BotTypes
  <2>3. ASSUME NEW t \in Syncs, step'[t] = "put"
        PROVE  found'[t][3] \in 0 .. Len(bots) /\ (found'[t][3] # 0 => pool[found'[t][1]] # 0)
    BY <1>2, <2>3 DEF BotTypes
  <2> QED BY <1>1, <2>1, <2>2, <2>3 DEF BotTypes
<1>4. Served'
  <2>1. CASE begun = "list"
    <3>1. \A a : Comes(s, a)'
      BY <1>2, <2>1 DEF Comes
    <3> QED BY <3>1 DEF Served
  <2>2. CASE begun = "insert"
    <3>1. \A t \in Syncs, a \in Accounts : Comes(t, a) => Comes(t, a)'
      BY <1>1, <1>2 DEF Comes
    <3> QED BY <1>1, <2>2, <3>1 DEF Served
  <2>3. CASE begun = "done"
    BY <2>3 DEF Served
  <2> QED BY <2>1, <2>2, <2>3
<1>5. ASSUME ~crowded' PROVE OneByOne'
  <2>1. OneByOne /\ \A t \in Syncs : ~Running(t)
    BY <1>1, <1>5 DEF Quiet
  <2>2. \A t \in Syncs \ {s} : ~Running(t)' /\ step'[t] \in {"none", "done"}
    BY <1>2, <2>1 DEF Running
  <2>3. ~Quiet' \/ missed'
    BY <1>2 DEF Quiet, Running
  <2>4. begun = "insert" => missed' \/ \A a \in Accounts : UpToDate(a)'
    <3>1. missed \/ \A a \in Accounts : UpToDate(a)
      BY <2>1 DEF OneByOne, Quiet
    <3>2. begun = "insert" => \A a \in Accounts : UpToDate(a) => UpToDate(a)'
      BY <1>1 DEF UpToDate
    <3> QED BY <3>1, <3>2
  <2> QED BY <1>1, <1>2, <2>1, <2>2, <2>3, <2>4 DEF OneByOne
<1> QED BY <1>3, <1>4, <1>5

LEMMA SaveAccountStep ==
  ASSUME BotInv, NEW s \in Syncs, NEW a \in Accounts, SaveAccount(s, a)
  PROVE  BotInv'
<1> DEFINE all == [i \in DOMAIN db[a] |-> saves']
<1>0. PICK begun \in {"insert", "list", "done"} :
        /\ Begin(s, begun) /\ (begun = "insert" => ~(Updated(a) > 0))
        /\ IF begun = "done" THEN missed' ELSE UNCHANGED missed
  BY DEF SaveAccount
<1>1. /\ Begin(s, begun) /\ begun \in {"insert", "list", "done"}
      /\ saves' = saves + 1 /\ db' = [db EXCEPT ![a] = all]
      /\ found' = [found EXCEPT ![s] = <<a, saves'>>]
  BY <1>0 DEF SaveAccount
<1>2. saves' \in Nat /\ db[a] \in Seq(Nat)
  BY <1>1 DEF BotInv, BotTypes
<1>3. all \in Seq(Nat) /\ Len(all) = Len(db[a])
  <2>1. DOMAIN db[a] = 1 .. Len(db[a]) /\ Len(db[a]) \in Nat
    BY <1>2, LenProperties
  <2> QED BY <1>2, <2>1
<1>4. /\ \A x : db[a] = <<x>> => all = <<saves'>>
      /\ db[a] = <<>> => all = <<>>
  OBVIOUS
<1>5. begun = "insert" => all = <<>> /\ db[a] = <<>>
  <2>1. begun = "insert" => Len(db[a]) = 0
    BY <1>0, <1>2, LenProperties DEF Updated
  <2> QED BY <1>2, <1>3, <2>1
<1>6. found'[s] = <<a, saves'>> /\ \A t \in Syncs \ {s} : found'[t] = found[t]
  BY <1>1 DEF BotInv, BotTypes
<1>7. found' = [t \in Syncs |-> found'[t]]
  BY <1>1 DEF BotInv, BotTypes
<1>8. db'[a] = all /\ \A b \in Accounts \ {a} : db'[b] = db[b]
  BY <1>1 DEF BotInv, BotTypes
<1>9. db' \in [Accounts -> Seq(Nat)]
  BY <1>1, <1>3 DEF BotInv, BotTypes
<1>10. found'[s][1] = a /\ found'[s][2] = saves'
  BY <1>6
<1> HIDE DEF all
<1>11. begun = "insert" => db' = db /\ db'[found'[s][1]] = <<>>
  <2>1. begun = "insert" => db' = db
    BY <1>1, <1>5 DEF BotInv, BotTypes
  <2> QED BY <1>5, <1>8, <1>10, <2>1
<1>12. \A b \in Accounts : (\E x \in Nat : db[b] = <<x>>) => db'[b] = <<>> \/ \E x \in Nat : db'[b] = <<x>>
  BY <1>2, <1>4, <1>8
<1>13. \A b \in Accounts : db[b] = <<>> => db'[b] = <<>>
  BY <1>4, <1>8
<1>14. begun = "insert" => found'[s][1] \in Accounts /\ found'[s][2] \in Nat
  BY <1>2, <1>10
<1>15. /\ Begin(s, begun) /\ begun \in {"insert", "list", "done"} /\ saves' \in Nat
       /\ \A t \in Syncs \ {s} : found'[t] = found[t]
       /\ IF begun = "done" THEN missed' ELSE UNCHANGED missed
  BY <1>0, <1>1, <1>2, <1>6
<1> QED
  BY <1>7, <1>9, <1>11, <1>12, <1>13, <1>14, <1>15, BeginStep

LEMMA SaveSettingsStep ==
  ASSUME BotInv, NEW s \in Syncs, NEW a \in Accounts, NEW i \in DOMAIN db[a],
         SaveSettings(s, a, i)
  PROVE  BotInv'
<1> DEFINE one == [db[a] EXCEPT ![i] = saves']
<1>1. /\ Begin(s, "list") /\ saves' = saves + 1 /\ found' = found /\ db' = [db EXCEPT ![a] = one]
      /\ UNCHANGED missed
  BY DEF SaveSettings, BotInv, BotTypes
<1>2. saves' \in Nat /\ db[a] \in Seq(Nat) /\ i \in 1 .. Len(db[a])
  BY <1>1, LenProperties DEF BotInv, BotTypes
<1>3. one \in Seq(Nat)
  BY <1>2, ExceptSeq
<1>4. /\ \A x : db[a] = <<x>> => one = <<saves'>>
      /\ db[a] # <<>>
  BY <1>2
<1>5. db'[a] = one /\ \A b \in Accounts \ {a} : db'[b] = db[b]
  BY <1>1 DEF BotInv, BotTypes
<1>6. db' \in [Accounts -> Seq(Nat)]
  BY <1>1, <1>3 DEF BotInv, BotTypes
<1>7. found' = [t \in Syncs |-> found'[t]]
  BY <1>1 DEF BotInv, BotTypes
<1> HIDE DEF one
<1> QED BY <1>1, <1>2, <1>4, <1>5, <1>6, <1>7, BeginStep

LEMMA DeleteAccountStep ==
  ASSUME BotInv, NEW s \in Syncs, NEW a \in Accounts, NEW i \in DOMAIN db[a],
         DeleteAccount(s, a, i)
  PROVE  BotInv'
<1> DEFINE less == RemoveAt(db[a], i)
<1>1. /\ Begin(s, "list") /\ UNCHANGED <<saves, found, missed>> /\ db' = [db EXCEPT ![a] = less]
      /\ saves \in Nat
  BY DEF DeleteAccount, BotInv, BotTypes
<1>2. db[a] \in Seq(Nat) /\ db[a] # <<>>
  BY DEF BotInv, BotTypes
<1>3. less \in Seq(Nat) /\ \A x : db[a] = <<x>> => less = <<>>
  BY <1>2, OneRemoved
<1> HIDE DEF less
<1>5. db'[a] = less /\ \A b \in Accounts \ {a} : db'[b] = db[b]
  BY <1>1 DEF BotInv, BotTypes
<1>6. db' \in [Accounts -> Seq(Nat)]
  BY <1>1, <1>3 DEF BotInv, BotTypes
<1>7. found' = [t \in Syncs |-> found'[t]]
  BY <1>1 DEF BotInv, BotTypes
<1> QED BY <1>1, <1>2, <1>3, <1>5, <1>6, <1>7, BeginStep

LEMMA ReloadedStep ==
  ASSUME BotInv, NEW s \in Syncs, ConfigReloaded(s)
  PROVE  BotInv'
<1>1. Begin(s, "list") /\ UNCHANGED <<db, saves, found, missed>>
  BY DEF ConfigReloaded
<1>2. /\ db \in [Accounts -> Seq(Nat)] /\ saves \in Nat
      /\ found = [t \in Syncs |-> found[t]]
  BY DEF BotInv, BotTypes
<1>3. found' = [t \in Syncs |-> found'[t]]
  BY <1>1, <1>2
<1> QED BY <1>1, <1>2, <1>3, BeginStep

\* What one step of a sync changes
LEMMA InsertStep ==
  ASSUME BotInv, NEW s \in Syncs, InsertAccount(s)
  PROVE  BotInv'
<1> USE DEF BotInv
<1> DEFINE a == found[s][1]
           x == found[s][2]
<1>1. /\ step[s] = "insert" /\ step' = [step EXCEPT ![s] = "list"]
      /\ db' = [db EXCEPT ![a] = Append(db[a], x)]
      /\ UNCHANGED <<saves, pool, bots, rows, found, crowded, missed>>
      /\ a \in Accounts /\ x \in Nat
  BY DEF InsertAccount, BotTypes
<1>2. db[a] \in Seq(Nat) /\ Append(db[a], x) \in Seq(Nat)
  BY <1>1 DEF BotTypes
<1> HIDE DEF a, x
<1>3. db'[a] = Append(db[a], x) /\ \A b \in Accounts \ {a} : db'[b] = db[b]
  BY <1>1 DEF BotTypes
<1>4. step'[s] = "list" /\ \A t \in Syncs \ {s} : step'[t] = step[t]
  BY <1>1 DEF BotTypes
<1>5. BotTypes'
  BY <1>1, <1>2 DEF BotTypes
<1>6. Served'
  BY <1>4 DEF Served, Comes
<1>7. ASSUME ~crowded PROVE OneByOne'
  <2>1. db[a] = <<>>
    BY <1>1, <1>7 DEF OneByOne, a
  <2>2. db'[a] = <<x>>
    BY <1>3, <2>1
  <2>3. \A t \in Syncs \ {s} : ~Running(t)
    BY <1>1, <1>7 DEF OneByOne, Running
  <2>4. \A t \in Syncs \ {s} : ~Running(t)' /\ step'[t] \notin {"insert", "next", "put"}
    BY <1>4, <2>3 DEF Running
  <2>5. ~Quiet'
    BY <1>4 DEF Quiet, Running
  <2>6. \A b \in Accounts : db'[b] = <<>> \/ \E y \in Nat : db'[b] = <<y>>
    BY <1>1, <1>3, <1>7, <2>2 DEF OneByOne
  <2> QED BY <1>1, <1>4, <1>7, <2>4, <2>5, <2>6 DEF OneByOne
<1> QED BY <1>1, <1>5, <1>6, <1>7

LEMMA InsertFailsStep ==
  ASSUME BotInv, NEW s \in Syncs, InsertFails(s)
  PROVE  BotInv'
<1> USE DEF BotInv
<1>1. /\ step[s] = "insert" /\ step' = [step EXCEPT ![s] = "done"]
      /\ UNCHANGED <<db, saves, pool, bots, rows, found, crowded, missed>>
  BY DEF InsertFails
<1>2. step'[s] = "done" /\ \A t \in Syncs \ {s} : step'[t] = step[t]
  BY <1>1 DEF BotTypes
<1>3. BotTypes'
  BY <1>1, <1>2 DEF BotTypes
<1>4. Served'
  <2>1. \A t \in Syncs, a \in Accounts : Comes(t, a) => Comes(t, a)'
    BY <1>1, <1>2 DEF Comes
  <2> QED BY <1>1, <2>1 DEF Served
<1>5. ASSUME ~crowded PROVE OneByOne'
  <2>1. \A t \in Syncs \ {s} : ~Running(t)
    BY <1>1, <1>5 DEF OneByOne, Running
  <2>2. \A t \in Syncs : ~Running(t)' /\ step'[t] \notin {"insert", "next", "put"}
    BY <1>2, <2>1 DEF Running
  <2>3. missed \/ \A a \in Accounts : UpToDate(a)
    BY <1>1, <1>5 DEF OneByOne
  <2> QED BY <1>1, <1>5, <2>2, <2>3 DEF OneByOne, UpToDate
<1> QED BY <1>1, <1>3, <1>4, <1>5

LEMMA ListFailsStep ==
  ASSUME BotInv, NEW s \in Syncs, ListFails(s)
  PROVE  BotInv'
<1> USE DEF BotInv
<1>1. /\ step[s] = "list" /\ step' = [step EXCEPT ![s] = "done"] /\ missed'
      /\ UNCHANGED <<db, saves, pool, bots, rows, found, crowded>>
  BY DEF ListFails
<1>2. step'[s] = "done" /\ \A t \in Syncs \ {s} : step'[t] = step[t]
  BY <1>1 DEF BotTypes
<1>3. BotTypes' /\ Served'
  BY <1>1, <1>2 DEF BotTypes, Served
<1>4. ASSUME ~crowded PROVE OneByOne'
  <2>1. \A t \in Syncs \ {s} : ~Running(t)
    BY <1>1, <1>4 DEF OneByOne, Running
  <2>2. \A t \in Syncs : ~Running(t)' /\ step'[t] \notin {"insert", "next", "put"}
    BY <1>2, <2>1 DEF Running
  <2> QED BY <1>1, <1>4, <2>2 DEF OneByOne
<1> QED BY <1>1, <1>3, <1>4

LEMMA ListStep ==
  ASSUME BotInv, NEW s \in Syncs, ListAccounts(s)
  PROVE  BotInv'
<1> USE DEF BotInv
<1>1. /\ step[s] = "list" /\ step' = [step EXCEPT ![s] = "next"]
      /\ rows' = [rows EXCEPT ![s] = db]
      /\ UNCHANGED <<db, saves, pool, bots, found, crowded>> /\ ~missed'
  BY DEF ListAccounts
<1>2. /\ step'[s] = "next" /\ \A t \in Syncs \ {s} : step'[t] = step[t]
      /\ rows'[s] = db /\ \A t \in Syncs \ {s} : rows'[t] = rows[t]
  BY <1>1 DEF BotTypes
<1>3. BotTypes'
  BY <1>1, <1>2 DEF BotTypes
<1>4. Served'
  BY <1>1, <1>2 DEF Served, Comes
<1>5. ASSUME ~crowded PROVE OneByOne'
  <2>1. \A t \in Syncs \ {s} : ~Running(t)
    BY <1>1, <1>5 DEF OneByOne, Running
  <2>2. \A t \in Syncs \ {s} : ~Running(t)' /\ step'[t] \notin {"insert", "next", "put"}
    BY <1>2, <2>1 DEF Running
  <2>3. ~Quiet'
    BY <1>2 DEF Quiet, Running
  <2>4. \A b \in Accounts : Listed(s, b)'
    BY <1>1, <1>2 DEF Listed
  <2> QED BY <1>1, <1>2, <1>5, <2>2, <2>3, <2>4 DEF OneByOne
<1> QED BY <1>1, <1>3, <1>4, <1>5

LEMMA LookUpStep ==
  ASSUME BotInv, NEW s \in Syncs, LookUp(s)
  PROVE  BotInv'
<1> USE DEF BotInv
<1>1. PICK a \in Accounts :
        /\ step[s] = "next" /\ step' = [step EXCEPT ![s] = "put"]
        /\ rows[s][a] # <<>> /\ rows' = [rows EXCEPT ![s][a] = Tail(@)]
        /\ found' = [found EXCEPT ![s] = <<a, Head(rows[s][a]), pool[a]>>]
        /\ UNCHANGED <<db, saves, pool, bots, crowded, missed>>
  BY DEF LookUp
<1>2. /\ rows[s] \in [Accounts -> Seq(Nat)] /\ rows[s][a] \in Seq(Nat)
      /\ pool[a] \in 0 .. Len(bots)
  BY DEF BotTypes
<1>3. Head(rows[s][a]) \in Nat /\ Tail(rows[s][a]) \in Seq(Nat)
  BY <1>1, <1>2
<1>4. /\ step'[s] = "put" /\ \A t \in Syncs \ {s} : step'[t] = step[t]
      /\ rows'[s] = [rows[s] EXCEPT ![a] = Tail(@)] /\ \A t \in Syncs \ {s} : rows'[t] = rows[t]
      /\ found'[s] = <<a, Head(rows[s][a]), pool[a]>>
      /\ \A t \in Syncs \ {s} : found'[t] = found[t]
  BY <1>1 DEF BotTypes
<1>5. found'[s][1] = a /\ found'[s][2] = Head(rows[s][a]) /\ found'[s][3] = pool[a]
  BY <1>4
<1>6. rows'[s][a] = Tail(rows[s][a]) /\ \A b \in Accounts \ {a} : rows'[s][b] = rows[s][b]
  BY <1>2, <1>4
<1>7. BotTypes'
  <2>1. rows' \in [Syncs -> [Accounts -> Seq(Nat)]]
    <3>1. rows'[s] \in [Accounts -> Seq(Nat)]
      BY <1>2, <1>3, <1>4
    <3> QED BY <1>1, <1>4, <3>1 DEF BotTypes
  <2>2. step' \in [Syncs -> {"none", "insert", "list", "next", "put", "done"}]
    BY <1>1 DEF BotTypes
  <2>3. found' = [t \in Syncs |-> found'[t]]
    BY <1>1 DEF BotTypes
  <2>4. ASSUME NEW t \in Syncs, step'[t] \in {"insert", "put"}
        PROVE  found'[t][1] \in Accounts /\ found'[t][2] \in Nat
    <3>1. CASE t = s
      BY <1>2, <1>3, <1>5, <3>1
    <3>2. CASE t # s
      <4>1. step[t] \in {"insert", "put"} /\ found'[t] = found[t]
        BY <1>3, <1>4, <2>4, <3>2
      <4> QED BY <4>1 DEF BotTypes
    <3> QED BY <3>1, <3>2
  <2>5. ASSUME NEW t \in Syncs, step'[t] = "put"
        PROVE  found'[t][3] \in 0 .. Len(bots) /\ (found'[t][3] # 0 => pool[found'[t][1]] # 0)
    <3>1. pool[a] \in 0 .. Len(bots)
      BY <1>2 DEF BotTypes
    <3>2. CASE t = s
      BY <1>5, <3>1, <3>2
    <3>3. CASE t # s
      <4>1. step[t] = "put" /\ found'[t] = found[t]
        BY <1>3, <1>4, <2>5, <3>3
      <4> QED BY <4>1 DEF BotTypes
    <3> QED BY <3>2, <3>3
  <2> QED BY <1>1, <2>1, <2>2, <2>3, <2>4, <2>5 DEF BotTypes
<1>8. Served'
  <2> SUFFICES ASSUME ~missed, NEW b \in Accounts, db[b] # <<>>, pool[b] = 0
               PROVE  \E t \in Syncs : Comes(t, b)'
    BY <1>1 DEF Served
  <2>1. PICK t \in Syncs : Comes(t, b)
    BY DEF Served
  <2>2. CASE t # s
    BY <1>4, <2>1, <2>2 DEF Comes
  <2>3. CASE t = s
    <3>1. Comes(s, b)'
      BY <1>1, <1>4, <1>5, <1>6, <2>1, <2>3 DEF Comes
    <3> QED BY <3>1
  <2> QED BY <2>2, <2>3
<1>9. ASSUME ~crowded PROVE OneByOne'
  <2>1. \A t \in Syncs \ {s} : ~Running(t)
    BY <1>1, <1>9 DEF OneByOne, Running
  <2>2. \A t \in Syncs \ {s} : ~Running(t)' /\ step'[t] \notin {"insert", "next", "put"}
    BY <1>4, <2>1 DEF Running
  <2>3. ~Quiet'
    BY <1>4 DEF Quiet, Running
  <2>4. Listed(s, a) /\ \A b \in Accounts \ {a} : Listed(s, b)'
    <3>1. \A b \in Accounts : Listed(s, b)
      BY <1>1, <1>9 DEF OneByOne
    <3> QED BY <1>1, <1>6, <3>1 DEF Listed, UpToDate
  <2>5. rows[s][a] = db[a] /\ \E x \in Nat : db[a] = <<x>>
    BY <1>1, <1>9, <2>4 DEF Listed, OneByOne
  <2>6. Tail(rows[s][a]) = <<>> /\ db[a] = <<Head(rows[s][a])>>
    BY <2>5
  <2>7. \A t, u \in Syncs : Running(t)' /\ Running(u)' => t = u
    BY <2>2
  <2>8. /\ \A c \in Accounts : db'[c] = <<>> \/ \E y \in Nat : db'[c] = <<y>>
        /\ \A c, d \in Accounts : pool'[c] = pool'[d] /\ pool'[c] # 0 => c = d
    BY <1>1, <1>9 DEF OneByOne
  <2>9. \A t \in Syncs :
          /\ step'[t] \notin {"insert", "next"}
          /\ step'[t] = "put" => t = s
    BY <1>4, <2>2
  <2>10. /\ db'[found'[s][1]] = <<found'[s][2]>> /\ rows'[s][found'[s][1]] = <<>>
         /\ found'[s][3] = pool'[found'[s][1]]
         /\ \A c \in Accounts : c # found'[s][1] => Listed(s, c)'
    BY <1>1, <1>5, <1>6, <2>4, <2>6
  <2> QED BY <2>3, <2>7, <2>8, <2>9, <2>10 DEF OneByOne
<1> QED BY <1>1, <1>7, <1>8, <1>9

\* The bot of the row gets its credentials, or there is one more bot.
LEMMA PutStep ==
  ASSUME BotInv, NEW s \in Syncs, PutBot(s)
  PROVE  BotInv'
<1> USE DEF BotInv
<1> SUFFICES ASSUME NEW a, NEW x, NEW b,
                    a = found[s][1], x = found[s][2], b = found[s][3]
             PROVE  BotInv'
  OBVIOUS
<1>1. /\ step[s] = "put" /\ step' = [step EXCEPT ![s] = "next"]
      /\ found' = [found EXCEPT ![s] = <<>>]
      /\ UNCHANGED <<db, saves, rows, crowded, missed>>
      /\ a \in Accounts /\ x \in Nat /\ b \in 0 .. Len(bots) /\ (b # 0 => pool[a] # 0)
      /\ bots \in Seq(Nat) /\ Len(bots) \in Nat
  BY DEF PutBot, BotTypes
<1>2. IF b # 0 THEN bots' = [bots EXCEPT ![b] = x] /\ pool' = pool
      ELSE bots' = Append(bots, x) /\ pool' = [pool EXCEPT ![a] = Len(bots')]
  BY DEF PutBot, Refreshed
<1>3. /\ step'[s] = "next" /\ \A t \in Syncs \ {s} : step'[t] = step[t] /\ found'[t] = found[t]
  BY <1>1 DEF BotTypes
<1>4. /\ bots' \in Seq(Nat) /\ Len(bots') >= Len(bots) /\ Len(bots') \in Nat
      /\ pool' \in [Accounts -> 0 .. Len(bots')] /\ pool'[a] # 0
      /\ \A c \in Accounts \ {a} : pool'[c] = pool[c]
      /\ b # 0 => pool'[a] = pool[a] /\ bots'[b] = x /\ \A i \in DOMAIN bots \ {b} : bots'[i] = bots[i]
      /\ b = 0 => /\ pool'[a] = Len(bots) + 1 /\ bots'[Len(bots) + 1] = x
                  /\ \A i \in DOMAIN bots : bots'[i] = bots[i]
  <2>1. CASE b # 0
    <3>1. b \in 1 .. Len(bots) /\ pool' = pool /\ bots' = [bots EXCEPT ![b] = x]
      BY <1>1, <1>2, <2>1
    <3>2. bots' \in Seq(Nat) /\ Len(bots') = Len(bots)
      BY <1>1, <3>1, ExceptSeq
    <3>3. bots'[b] = x /\ \A i \in DOMAIN bots \ {b} : bots'[i] = bots[i]
      BY <1>1, <3>1
    <3>4. pool \in [Accounts -> 0 .. Len(bots)]
      BY DEF BotTypes
    <3> QED BY <1>1, <2>1, <3>1, <3>2, <3>3, <3>4
  <2>2. CASE b = 0
    <3>1. bots' = Append(bots, x) /\ pool' = [pool EXCEPT ![a] = Len(bots')]
      BY <1>2, <2>2
    <3>2. /\ bots' \in Seq(Nat) /\ Len(bots') = Len(bots) + 1 /\ bots'[Len(bots) + 1] = x
          /\ \A i \in DOMAIN bots : bots'[i] = bots[i]
      BY <1>1, <3>1
    <3>3. pool \in [Accounts -> 0 .. Len(bots)]
      BY DEF BotTypes
    <3>4. pool' \in [Accounts -> 0 .. Len(bots')]
      BY <1>1, <3>1, <3>2, <3>3
    <3>5. pool'[a] = Len(bots) + 1 /\ \A c \in Accounts \ {a} : pool'[c] = pool[c]
      BY <1>1, <3>1, <3>2, <3>3
    <3> QED BY <1>1, <2>2, <3>2, <3>4, <3>5
  <2> QED BY <2>1, <2>2
<1>5. BotTypes'
  <2>1. step' \in [Syncs -> {"none", "insert", "list", "next", "put", "done"}]
    BY <1>1 DEF BotTypes
  <2>2. found' = [t \in Syncs |-> found'[t]]
    BY <1>1 DEF BotTypes
  <2>3. ASSUME NEW t \in Syncs, step'[t] \in {"insert", "put"}
        PROVE  found'[t][1] \in Accounts /\ found'[t][2] \in Nat
    BY <1>3, <2>3 DEF BotTypes
  <2>4. ASSUME NEW t \in Syncs, step'[t] = "put"
        PROVE  found'[t][3] \in 0 .. Len(bots') /\ (found'[t][3] # 0 => pool'[found'[t][1]] # 0)
    <3>1. /\ t # s /\ step[t] = "put" /\ found'[t] = found[t]
          /\ found[t][3] \in 0 .. Len(bots) /\ (found[t][3] # 0 => pool[found[t][1]] # 0)
          /\ found[t][1] \in Accounts
      BY <1>3, <2>4 DEF BotTypes
    <3>2. found[t][3] \in 0 .. Len(bots')
      BY <1>1, <1>4, <3>1
    <3>3. found[t][3] # 0 => pool'[found[t][1]] # 0
      BY <1>4, <3>1
    <3> QED BY <3>1, <3>2, <3>3
  <2> QED BY <1>1, <1>4, <2>1, <2>2, <2>3, <2>4 DEF BotTypes
<1>6. Served'
  <2> SUFFICES ASSUME ~missed, NEW c \in Accounts, db[c] # <<>>, pool'[c] = 0
               PROVE  \E t \in Syncs : Comes(t, c)'
    BY <1>1 DEF Served
  <2>1. c # a /\ pool[c] = 0
    BY <1>4
  <2>2. PICK t \in Syncs : Comes(t, c)
    BY <2>1 DEF Served
  <2>3. Comes(t, c)'
    <3>1. CASE t # s
      BY <1>1, <1>3, <2>2, <3>1 DEF Comes
    <3>2. CASE t = s
      <4>1. rows[s][c] # <<>>
        BY <1>1, <2>1, <2>2, <3>2 DEF Comes
      <4> QED BY <1>1, <1>3, <3>2, <4>1 DEF Comes
    <3> QED BY <3>1, <3>2
  <2> QED BY <2>3
<1>7. ASSUME ~crowded PROVE OneByOne'
  <2>1. /\ db[a] = <<x>> /\ rows[s][a] = <<>> /\ b = pool[a]
        /\ \A c \in Accounts \ {a} : Listed(s, c)
    BY <1>1, <1>7 DEF OneByOne
  <2>2. \A c \in Accounts : pool[c] \in 0 .. Len(bots) /\ (pool[c] = pool[a] /\ pool[c] # 0 => c = a)
    BY <1>1, <1>7 DEF BotTypes, OneByOne
  <2>3. \A t \in Syncs \ {s} : ~Running(t)
    BY <1>1, <1>7 DEF OneByOne, Running
  <2>4. \A t \in Syncs \ {s} : ~Running(t)' /\ step'[t] \notin {"insert", "next", "put"}
    BY <1>3, <2>3 DEF Running
  <2>5. ~Quiet'
    BY <1>3 DEF Quiet, Running
  <2>6. bots'[pool'[a]] = x
    <3>1. CASE b # 0
      BY <1>4, <2>1, <3>1
    <3>2. CASE b = 0
      BY <1>4, <3>2
    <3> QED BY <3>1, <3>2
  <2>7. \A c \in Accounts \ {a} : pool[c] # 0 => bots'[pool[c]] = bots[pool[c]]
    <3> SUFFICES ASSUME NEW c \in Accounts \ {a}, pool[c] # 0
                 PROVE  bots'[pool[c]] = bots[pool[c]]
      OBVIOUS
    <3>1. pool[c] \in DOMAIN bots
      BY <1>1, <2>2
    <3>2. CASE b # 0
      BY <1>4, <2>1, <2>2, <3>1, <3>2
    <3>3. CASE b = 0
      BY <1>4, <3>1, <3>3
    <3> QED BY <1>1, <3>2, <3>3
  <2>8. Listed(s, a)'
    <3>1. rows'[s][a] = <<>> /\ pool'[a] # 0 /\ db'[a] = <<bots'[pool'[a]]>>
      BY <1>1, <1>4, <2>1, <2>6
    <3> QED BY <3>1 DEF Listed, UpToDate
  <2>9. \A c \in Accounts \ {a} : Listed(s, c)'
    <3> SUFFICES ASSUME NEW c \in Accounts \ {a} PROVE Listed(s, c)'
      OBVIOUS
    <3>1. pool'[c] = pool[c] /\ db' = db /\ rows' = rows
      BY <1>1, <1>4
    <3>2. CASE rows[s][c] = db[c]
      BY <3>1, <3>2 DEF Listed
    <3>3. CASE rows[s][c] = <<>> /\ UpToDate(c)
      <4>1. pool[c] # 0 => bots'[pool[c]] = bots[pool[c]]
        BY <2>7
      <4>2. UpToDate(c)'
        BY <3>1, <3>3, <4>1 DEF UpToDate
      <4> QED BY <3>1, <3>3, <4>2 DEF Listed
    <3> QED BY <2>1, <3>2, <3>3 DEF Listed
  <2>10. \A c, d \in Accounts : pool'[c] = pool'[d] /\ pool'[c] # 0 => c = d
    <3> SUFFICES ASSUME NEW c \in Accounts, NEW d \in Accounts, pool'[c] = pool'[d],
                        pool'[c] # 0
                 PROVE  c = d
      OBVIOUS
    <3>1. \A e, f \in Accounts : pool[e] = pool[f] /\ pool[e] # 0 => e = f
      BY <1>7 DEF OneByOne
    <3>2. \A e \in Accounts \ {a} : pool'[e] = pool[e]
      BY <1>4
    <3>3. CASE b # 0
      <4>1. pool'[c] = pool[c] /\ pool'[d] = pool[d]
        BY <1>4, <3>2, <3>3
      <4> QED BY <3>1, <4>1
    <3>4. CASE b = 0
      <4>1. pool'[a] = Len(bots) + 1 /\ \A e \in Accounts \ {a} : pool'[e] # Len(bots) + 1
        <5>1. \A e \in Accounts : pool[e] # Len(bots) + 1
          BY <1>1, <2>2
        <5> QED BY <1>4, <3>2, <3>4, <5>1
      <4>2. CASE c = a \/ d = a
        BY <4>1, <4>2
      <4>3. CASE c # a /\ d # a
        BY <3>1, <3>2, <4>3
      <4> QED BY <4>2, <4>3
    <3> QED BY <3>3, <3>4
  <2>11. \A t, u \in Syncs : Running(t)' /\ Running(u)' => t = u
    BY <2>4
  <2>12. \A c \in Accounts : db'[c] = <<>> \/ \E y \in Nat : db'[c] = <<y>>
    BY <1>1, <1>7 DEF OneByOne
  <2>13. \A t \in Syncs :
            /\ step'[t] \notin {"insert", "put"}
            /\ step'[t] = "next" => \A c \in Accounts : Listed(t, c)'
    BY <1>3, <2>4, <2>8, <2>9
  <2> QED BY <2>5, <2>10, <2>11, <2>12, <2>13 DEF OneByOne
<1> QED BY <1>1, <1>5, <1>6, <1>7

LEMMA DoneStep ==
  ASSUME BotInv, NEW s \in Syncs, SyncDone(s)
  PROVE  BotInv'
<1> USE DEF BotInv
<1>1. /\ step[s] = "next" /\ step' = [step EXCEPT ![s] = "done"]
      /\ \A a \in Accounts : rows[s][a] = <<>>
      /\ UNCHANGED <<db, saves, pool, bots, rows, found, crowded, missed>>
  BY DEF SyncDone
<1>2. step'[s] = "done" /\ \A t \in Syncs \ {s} : step'[t] = step[t]
  BY <1>1 DEF BotTypes
<1>3. BotTypes'
  BY <1>1, <1>2 DEF BotTypes
<1>4. Served'
  BY <1>1, <1>2 DEF Served, Comes
<1>5. ASSUME ~crowded PROVE OneByOne'
  <2>1. \A t \in Syncs \ {s} : ~Running(t)
    BY <1>1, <1>5 DEF OneByOne, Running
  <2>2. \A t \in Syncs : ~Running(t)' /\ step'[t] \notin {"insert", "next", "put"}
    BY <1>2, <2>1 DEF Running
  <2>3. \A a \in Accounts : UpToDate(a)
    BY <1>1, <1>5 DEF OneByOne, Listed, UpToDate
  <2> QED BY <1>1, <1>5, <2>2, <2>3 DEF OneByOne, UpToDate
<1> QED BY <1>1, <1>3, <1>4, <1>5

LEMMA BotStep == BotInv /\ [BotNext]_botVars => BotInv'
<1> SUFFICES ASSUME BotInv, [BotNext]_botVars PROVE BotInv'
  OBVIOUS
<1>1. CASE UNCHANGED botVars
  BY <1>1 DEF botVars, BotInv, BotTypes, Served, Comes, OneByOne, Listed, UpToDate,
              Quiet, Running
<1>2. ASSUME NEW s \in Syncs, NEW a \in Accounts,
             \/ SaveAccount(s, a)
             \/ \E i \in DOMAIN db[a] : SaveSettings(s, a, i) \/ DeleteAccount(s, a, i)
      PROVE  BotInv'
  BY <1>2, SaveAccountStep, SaveSettingsStep, DeleteAccountStep
<1>3. ASSUME NEW s \in Syncs,
             \/ InsertAccount(s) \/ InsertFails(s) \/ ConfigReloaded(s)
             \/ ListAccounts(s) \/ ListFails(s) \/ LookUp(s) \/ PutBot(s) \/ SyncDone(s)
      PROVE  BotInv'
  BY <1>3, InsertStep, InsertFailsStep, ReloadedStep, ListStep, ListFailsStep, LookUpStep, PutStep, DoneStep
<1> QED BY <1>1, <1>2, <1>3 DEF BotNext

\* When no sync runs, every stored account has a bot, and if none ever ran
\* beside another, one with what is stored, for any accounts and requests; after
\* a failed request or listing, when a sync has read the accounts again.
THEOREM AccountsCorrect == BotSpec => []AccountsReady
<1>1. BotInv => AccountsReady
  <2> SUFFICES ASSUME BotInv, Quiet, ~missed, NEW a \in Accounts, db[a] # <<>>
               PROVE  pool[a] # 0 /\ (crowded \/ db[a] = <<bots[pool[a]]>>)
    BY DEF AccountsReady
  <2>1. \A s \in Syncs : ~Comes(s, a)
    BY DEF Quiet, Running, Comes
  <2> QED BY <2>1 DEF BotInv, Served, OneByOne, UpToDate
<1> QED BY <1>1, BotInitial, BotStep, PTL DEF BotSpec

=============================================================================
