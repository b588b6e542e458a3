----------------------------- MODULE Transcripts ----------------------------
(***************************************************************************)
(* The transcript files of one streamer.  A session opens a logger when it *)
(* starts: it resumes the file written to last if that was within the      *)
(* hour, and creates one otherwise, or when it fails to resume.  Sessions  *)
(* of one room may overlap, so two loggers can have the same file open.    *)
(*                                                                         *)
(* A file is a sequence of lines, all of one length; a line is the session *)
(* that wrote it with a number.                                            *)
(***************************************************************************)
EXTENDS Integers, Sequences, SequencesExt

CONSTANTS Sessions,   \* sessions of the streamer
          MaxLines    \* bound: lines of a session

ASSUME LinesAssumption == MaxLines \in Nat

VARIABLES
  files,    \* the lines of every file
  fresh,    \* files modified within the hour
  newest,   \* the file modified last, or 0
  logger,   \* where the logger of a session stands: not open, open, closed
  target,   \* the file of a session's logger, or 0
  appends,  \* loggers whose file was opened with O_APPEND
  offset,   \* where the others write next
  lines,    \* lines a session has written
  doubled   \* history: files resumed while the one that created it wrote on

transcriptVars == <<files, fresh, newest, logger, target, appends, offset, lines, doubled>>

TranscriptsInit ==
  /\ files = <<>> /\ fresh = {} /\ newest = 0
  /\ logger = [k \in Sessions |-> "none"] /\ target = [k \in Sessions |-> 0]
  /\ appends = {} /\ offset = [k \in Sessions |-> 0]
  /\ lines = [k \in Sessions |-> 0] /\ doubled = {}

Opening(k) == logger[k] = "none" /\ logger' = [logger EXCEPT ![k] = "open"]

\* os.Create, when there is no fresh file; or when there is one and resumeRecent
\* fails (to read the directory, the time in the name, or to open the file).
CreateFile(k) ==
  /\ Opening(k)
  /\ files' = Append(files, <<>>)
  /\ newest' = Len(files') /\ fresh' = fresh \cup {newest'}
  /\ target' = [target EXCEPT ![k] = newest']
  /\ UNCHANGED <<appends, offset, lines, doubled>>

NotAppending(k) == appends                                       \* mutant
\* os.OpenFile with O_APPEND
Appending(k) == appends \cup {k}

Creators(f) == {j \in Sessions \ appends : target[j] = f /\ logger[j] = "open"}

\* resumeRecent: the most recent one of the fresh files
ResumeFile(k) ==
  /\ Opening(k) /\ newest \in fresh
  /\ target' = [target EXCEPT ![k] = newest]
  /\ appends' = Appending(k)
  /\ doubled' = IF Creators(newest) # {} THEN doubled \cup {newest} ELSE doubled
  /\ UNCHANGED <<files, fresh, newest, offset, lines>>

\* A line goes to the end of the file, or to the logger's own place in it.
Written(s, k, line) ==
  IF k \in appends \/ offset[k] = Len(s) THEN Append(s, line)
  ELSE [s EXCEPT ![offset[k] + 1] = line]

WriteLine(k) ==
  /\ logger[k] = "open" /\ lines[k] < MaxLines
  /\ lines' = [lines EXCEPT ![k] = @ + 1]
  /\ LET f == target[k] IN
       /\ files' = [files EXCEPT ![f] = Written(@, k, <<k, lines'[k]>>)]
       /\ newest' = f /\ fresh' = fresh \cup {f}
  /\ offset' = IF k \in appends THEN offset ELSE [offset EXCEPT ![k] = @ + 1]
  /\ UNCHANGED <<logger, target, appends, doubled>>

CloseFile(k) ==
  /\ logger[k] = "open" /\ logger' = [logger EXCEPT ![k] = "closed"]
  /\ UNCHANGED <<files, fresh, newest, target, appends, offset, lines, doubled>>

\* An hour without a line
HourPasses ==
  /\ fresh # {} /\ fresh' = {}
  /\ UNCHANGED <<files, newest, logger, target, appends, offset, lines, doubled>>

TranscriptsNext ==
  \/ \E k \in Sessions : \/ CreateFile(k) \/ ResumeFile(k)
                         \/ WriteLine(k) \/ CloseFile(k)
  \/ HourPasses

TranscriptsSpec == TranscriptsInit /\ [][TranscriptsNext]_transcriptVars

-----------------------------------------------------------------------------

\* Every line that a session has written stays in its file, with those of the
\* session the file was resumed from, and even when two resumed sessions write
\* at once.  (The logger that created a file does not append: if it is still
\* open when the file is resumed, it writes over the other's lines.)
LinesKept ==
  \A k \in Sessions : \A n \in 1 .. lines[k] :
    target[k] \notin doubled => Contains(files[target[k]], <<k, n>>)

=============================================================================
