------------------------------ MODULE SplitWrap -----------------------------
(***************************************************************************)
(* splitWithWrap: a translation is cut into chunks that fit a danmaku with *)
(* the output's prefix and suffix around each, at a break if there is one  *)
(* in the second half of the chunk.  Of a text only its length matters and *)
(* where its breaks (spaces, commas, full stops) are.                      *)
(***************************************************************************)
EXTENDS Integers, Sequences, FiniteSetsExt

CONSTANTS MaxText,   \* bound: length of a text
          MaxWrap,   \* bound: length of prefix and suffix together
          MaxMax     \* bound: the limit

ASSUME SplitAssumption == MaxText \in Nat /\ MaxWrap \in Nat /\ MaxMax \in Nat

Texts == UNION {[1 .. n -> BOOLEAN] : n \in 0 .. MaxText}

VARIABLES
  text,     \* for every rune whether it is a break
  wrap,     \* length of prefix and suffix
  maxLen,   \* the limit; 0 for none
  pos,      \* i
  chunks,   \* chunks so far, each as the half-open interval of its runes
  split     \* the loop has ended

splitVars == <<text, wrap, maxLen, pos, chunks, split>>

SplitInit ==
  /\ text \in Texts /\ wrap \in 0 .. MaxWrap /\ maxLen \in 0 .. MaxMax
  /\ pos = 0 /\ chunks = <<>> /\ split = FALSE

OneTooMany == maxLen - wrap + 1                                  \* mutant
ContentMax == maxLen - wrap

Fits == maxLen = 0 \/ Len(text) + wrap <= maxLen

Chunk(to) == chunks' = Append(chunks, <<pos, to>>)

\* It fits, or nothing would: one chunk.
Whole ==
  /\ ~split /\ pos = 0 /\ (Fits \/ ContentMax <= 0)
  /\ Chunk(Len(text)) /\ split' = TRUE
  /\ UNCHANGED <<text, wrap, maxLen, pos>>

Cutting == ~split /\ ~Fits /\ ContentMax > 0 /\ pos < Len(text)

Rest ==
  /\ Cutting /\ pos + ContentMax >= Len(text)
  /\ Chunk(Len(text)) /\ split' = TRUE
  /\ UNCHANGED <<text, wrap, maxLen, pos>>

\* After the last break in the second half, or else at the limit
BreakAt ==
  LET end == pos + ContentMax
      breaks == {j \in pos + (ContentMax \div 2) + 1 .. end - 1 : text[j + 1]}
  IN  IF breaks = {} THEN end ELSE Max(breaks) + 1

Cut ==
  /\ Cutting /\ pos + ContentMax < Len(text)
  /\ Chunk(BreakAt) /\ pos' = BreakAt
  /\ UNCHANGED <<text, wrap, maxLen, split>>

SplitNext == Whole \/ Rest \/ Cut

SplitSpec == SplitInit /\ [][SplitNext]_splitVars

-----------------------------------------------------------------------------

\* The chunks are the text, cut: none is empty unless the text is, each begins
\* where the last one ends, and with its prefix and suffix each fits the bot's
\* limit wherever these leave room for a character.
ChunksFit ==
  split =>
    /\ chunks[1][1] = 0 /\ chunks[Len(chunks)][2] = Len(text)
    /\ \A i \in 1 .. Len(chunks) - 1 : chunks[i][2] = chunks[i + 1][1]
    /\ \A i \in DOMAIN chunks :
         LET size == chunks[i][2] - chunks[i][1] IN
         /\ size > 0 \/ text = <<>>
         /\ maxLen > wrap => size + wrap <= maxLen

=============================================================================
