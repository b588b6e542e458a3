------------------------- MODULE ControllerInvariant ------------------------
(***************************************************************************)
(* The inductive invariant behind OrderedDelivery.  The order of a room's  *)
(* lines is kept by a chain of three facts: a sender takes utterances in   *)
(* the order of their numbers; the review queue is sorted, by id, by time  *)
(* left and, within an output, by utterance; and a tick takes a prefix of  *)
(* the queue, so that what it retains stays behind what it sends.          *)
(***************************************************************************)
EXTENDS Controller

-----------------------------------------------------------------------------
(* The steps of a controller, whatever numbers its translations have.  In  *)
(* Next they are Controller's own, in Session the agent's.                 *)

Accept == \E t \in Translation : Submit(t)

Steps == Accept \/ Cancel \/ Stop \/ Control \/ Work \/ Select \/ TimePasses

-----------------------------------------------------------------------------
(* The order of a room's lines.                                            *)

\* Within one pipeline run an utterance's number is its sequence number.
SameNumbers ==
  /\ \A i \in DOMAIN ch : ch[i].utt = ch[i].seq
  /\ cur.utt = cur.seq
  /\ \A o \in DOMAIN nextSeq : \A e \in buf[o] : e.utt = e.seq

\* Where the run goroutine stands it has what the next step takes.
Standing ==
  /\ pc \in {"flush", "enqueue"} => todo # <<>> /\ Head(todo) \in DOMAIN nextSeq
  /\ pc \in {"send", "recent"} => batch # <<>>

\* Which of its collections are empty there
AtHome ==
  /\ pc = "start" => delayQueue = <<>> /\ shown = <<>>
  /\ pc \in {"send", "recent"} /\ ~draining => Head(batch).id \in due
  /\ pc \notin {"process", "send", "recent", "drain"} => batch = <<>> /\ due = {}
  /\ draining => /\ pc \in {"drain", "send", "recent", "done"}
                 /\ delayQueue = <<>> /\ due = {}
  /\ pc = "drain" => draining
  /\ pc = "process" => ~draining

\* A message or a shown line of an output is one its sender has passed; the
\* line about to be enqueued is the last one passed.
PassedBy(m) ==
  /\ m.id < nextMsgID
  /\ m.out \in DOMAIN nextSeq
  /\ m.utt < nextSeq[m.out]
  /\ pc = "enqueue" /\ m.out = Head(todo) => m.utt < txt

Passed ==
  /\ \A i \in DOMAIN delayQueue : PassedBy(delayQueue[i])
  /\ \A i \in DOMAIN batch : PassedBy(batch[i])
  /\ \A i \in DOMAIN shown : PassedBy(shown[i])
  /\ pc = "enqueue" => nextSeq[Head(todo)] = txt + 1

\* m was enqueued before the line that is about to be.
BeforeNext(m) == /\ m.id < nextMsgID
                 /\ pc = "enqueue" /\ m.out = Head(todo) => m.utt < txt

NextIsLast ==
  /\ \A i \in DOMAIN delayQueue : BeforeNext(delayQueue[i])
  /\ \A i \in DOMAIN batch : BeforeNext(batch[i])
  /\ \A i \in DOMAIN shown : BeforeNext(shown[i])

\* m was enqueued before n
Before(m, n) == /\ m.id < n.id
                /\ m.left <= n.left
                /\ m.out = n.out => m.utt < n.utt

Sorted(s) == \A i, j \in DOMAIN s : i < j => Before(s[i], s[j])

QueueSorted == Sorted(delayQueue) /\ Sorted(batch)

\* What a tick has retained was enqueued before what it has not looked at,
\* and once it has retained something nothing further is due.
RetainedFirst ==
  \A i \in DOMAIN delayQueue, j \in DOMAIN batch :
    Before(delayQueue[i], batch[j]) /\ batch[j].id \notin due

\* The messages that are due form a prefix of the batch.
DuePrefix ==
  \A i, j \in DOMAIN batch : i < j /\ batch[j].id \in due => batch[i].id \in due

\* What has been shown precedes what may still be.
Precedes(s, m) == s.out = m.out => s.utt < m.utt

ShownFirst ==
  \A i \in DOMAIN shown :
    /\ \A j \in DOMAIN delayQueue : Precedes(shown[i], delayQueue[j])
    /\ \A j \in DOMAIN batch :
         (pc = "recent" => j > 1) => Precedes(shown[i], batch[j])

\* What holds of the queue whatever numbers the translations have
QueueInv ==
  /\ Standing /\ AtHome /\ NextIsLast
  /\ QueueSorted /\ RetainedFirst /\ DuePrefix /\ ShownFirst
  /\ OrderedDelivery

OrderInv ==
  /\ Standing /\ AtHome
  /\ SameNumbers /\ Passed
  /\ QueueSorted /\ RetainedFirst /\ DuePrefix
  /\ ShownFirst
  /\ OrderedDelivery

-----------------------------------------------------------------------------
(* The inductive invariant behind RevokedNeverShown: what the list of      *)
(* pending messages shows is still undecided, an undecided message that    *)
(* was skipped is marked, and a decision to send is taken after the mark   *)
(* was looked at and after the message has left the list.                  *)

\* Messages of the batch that the tick has not decided on, by position
Undecided == IF pc \in {"send", "recent"} THEN 2 .. Len(batch) ELSE DOMAIN batch

\* InReview, reduced to what a message keeps while it is there
Key(m) == <<m.id, m.out, m.utt>>
Reviewed ==
  {Key(delayQueue[i]) : i \in DOMAIN delayQueue}
    \cup {Key(batch[j]) : j \in Undecided}

\* Stop comes after the context is done.
StopAfterCancel == closed \/ draining => ctxDone

ListedIsReviewed ==
  ~draining => \A o \in DOMAIN uiPending : \A id \in uiPending[o] :
                   \E r \in Reviewed : r[1] = id /\ r[2] = o

ListedNotShown ==
  \A o \in DOMAIN uiPending : \A i \in DOMAIN shown : shown[i].id \notin uiPending[o]

\* What is listed was given out.
ListedNumbered == \A o \in DOMAIN uiPending : uiPending[o] \subseteq 0 .. nextMsgID - 1

RevokedIsMarked ==
  /\ revoked \subseteq 0 .. nextMsgID - 1
  /\ \A r \in Reviewed : r[1] \in revoked => r[1] \in skipSet
  /\ pc = "send" /\ ~draining => Head(batch).id \notin revoked

ReviewInv ==
  /\ StopAfterCancel
  /\ ListedIsReviewed /\ ListedNotShown /\ ListedNumbered
  /\ RevokedIsMarked
  /\ RevokedNeverShown

-----------------------------------------------------------------------------
(* The inductive invariant behind ReviewComplete: SyncOutputs carries over *)
(* what is listed for an output that lasts.                                *)

ListedOrSkipped ==
  /\ Lasting \subseteq DOMAIN uiPending
  /\ \A r \in Reviewed :
       r[2] \in Lasting => r[1] \in uiPending[r[2]] \/ r[1] \in skipSet

-----------------------------------------------------------------------------
(* The inductive invariant behind RecordedOnce: an utterance comes through *)
(* the channel once, gets its line before it is buffered anywhere, and a   *)
(* sender passes only what was buffered.                                   *)

HasLine(u) == \E l \in transcript : l[1] = u

\* Each utterance is submitted once, and has no line before it is routed.
ComesOnce ==
  /\ \A i \in DOMAIN ch : ch[i].utt \in submitted /\ ~HasLine(ch[i].utt)
  /\ \A i, j \in DOMAIN ch : i # j => ch[i].utt # ch[j].utt
  /\ pc = "log" => /\ cur.utt \in submitted /\ ~HasLine(cur.utt)
                   /\ \A i \in DOMAIN ch : ch[i].utt # cur.utt
  /\ \A l \in transcript : l[1] \in submitted

OneLine == \A k, l \in transcript : k[1] = l[1] => k = l

\* What is routed, buffered or passed has its line.
RoutedHasLine ==
  Logging =>
    /\ pc \in {"route", "flush", "enqueue"} => HasLine(cur.utt)
    /\ \A o \in DOMAIN nextSeq :
         /\ \A e \in buf[o] : HasLine(e.seq)
         /\ \A u \in 0 .. nextSeq[o] - 1 : HasLine(u)

RecordInv == ComesOnce /\ OneLine /\ RoutedHasLine

-----------------------------------------------------------------------------
(* What the refinement of Subtitles needs besides.                         *)

\* No sender has passed anything before the goroutine has made them.
Beginning == pc = "start" => DOMAIN nextSeq = {}

=============================================================================
