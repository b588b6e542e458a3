----------------------------- MODULE FilesProofs ----------------------------
(***************************************************************************)
(* What holds of the files that several goroutines read and write: the     *)
(* configuration, for any number of changes, and the transcripts, for any  *)
(* sessions, however they overlap, and any number of lines.                *)
(***************************************************************************)
EXTENDS HotConfig, Transcripts, SequenceTheorems, TLAPS

-----------------------------------------------------------------------------
(* The configuration.                                                      *)

\* Where a request may stand
Stages == {"none", "changed", "ready", "writing", "saved", "failed", "torn"}

ConfigTypes ==
  /\ events \in Nat /\ parses \in BOOLEAN /\ calm \in BOOLEAN /\ unsaved \in BOOLEAN
  /\ stage \in [Changes -> Stages] /\ data \in [Changes -> SUBSET (Changes \cup {Base})]
  /\ file \subseteq Changes \cup {Base} /\ cfg \subseteq Changes \cup {Base}
  /\ loaded \subseteq SUBSET (Changes \cup {Base})

\* When the watcher has no event left, what it has loaded is what the file
\* holds: each write of the file makes an event.
LoadedIsFile == events = 0 /\ parses => \A x \in loaded : x = file

\* When it has installed that too and no request is on its way, the object is
\* what the file holds, unless a save has failed since.
InstalledIsFile == Settled /\ parses /\ ~unsaved => cfg = file

FollowInv == ConfigTypes /\ LoadedIsFile /\ InstalledIsFile

\* What must not be lost: the configuration at the start and saved changes
Kept == {Base} \cup {c \in Changes : stage[c] = "saved"}

Active(c) == stage[c] \notin AtRest

\* No write has failed half way.
NoneTorn == \A c \in Changes : stage[c] # "torn"

\* While requests are made one at a time, what the next write will put into the
\* file is known all along,
InHand ==
  \A c \in Changes :
    /\ stage[c] = "changed" => Kept \cup {c} \subseteq cfg
    /\ stage[c] = "ready" => c \in ByHand \/ Kept \subseteq cfg
    /\ stage[c] \in {"ready", "writing"} => Kept \cup {c} \subseteq data[c]
    /\ stage[c] \in {"changed", "ready"} => events = 0 /\ loaded = {}
    /\ stage[c] = "writing" => file = {}

\* and only a file being written lacks it; the object has it too when the
\* watcher has nothing to do.
InPlace ==
  (\A c \in Changes : stage[c] # "writing") =>
    /\ Kept \subseteq file
    /\ events = 0 /\ loaded = {} => Kept \subseteq cfg

OneActive == \A c, d \in Changes : Active(c) /\ Active(d) => c = d

KeptBody == parses /\ OneActive /\ InHand /\ InPlace
KeptInv == calm /\ NoneTorn => KeptBody

LEMMA FollowInit == ConfigInit => FollowInv
<1> SUFFICES ASSUME ConfigInit PROVE FollowInv
  OBVIOUS
<1>1. stage \in [Changes -> Stages] /\ data \in [Changes -> SUBSET (Changes \cup {Base})]
  BY DEF ConfigInit, Stages
<1>2. ConfigTypes
  BY <1>1 DEF ConfigInit, ConfigTypes
<1>3. LoadedIsFile /\ InstalledIsFile
  BY DEF ConfigInit, LoadedIsFile, InstalledIsFile
<1> QED BY <1>2, <1>3 DEF FollowInv

LEMMA EventsGrow ==
  ASSUME events \in Nat, events' \in Noticed
  PROVE  events' \in Nat \ {0}
BY DEF Noticed

LEMMA TypesStep == ConfigTypes /\ [ConfigNext]_configVars => ConfigTypes'
<1> SUFFICES ASSUME ConfigTypes, [ConfigNext]_configVars PROVE ConfigTypes'
  OBVIOUS
<1> USE DEF ConfigTypes, Stages, Advance
<1>1. ASSUME NEW c \in Changes, ChangeObject(c) PROVE ConfigTypes'
  BY <1>1 DEF ChangeObject
<1>2. ASSUME NEW c \in Changes, Marshal(c) PROVE ConfigTypes'
  BY <1>2 DEF Marshal, Marshalled
<1>3. ASSUME NEW c \in Changes, OpenEditor(c) PROVE ConfigTypes'
  BY <1>3 DEF OpenEditor
<1>4. ASSUME NEW c \in Changes, Truncate(c) PROVE ConfigTypes'
  BY <1>4, EventsGrow DEF Truncate
<1>5. ASSUME NEW c \in Changes, Write(c) PROVE ConfigTypes'
  BY <1>5, EventsGrow DEF Write
<1>6. CASE Read
  BY <1>6 DEF Read
<1>7. CASE Install
  BY <1>7 DEF Install, Installed
<1>8. CASE UNCHANGED configVars
  BY <1>8 DEF configVars
<1>9. ASSUME NEW c \in Changes, SaveFails(c) PROVE ConfigTypes'
  BY <1>9 DEF SaveFails
<1>10. ASSUME NEW c \in Changes, WriteFails(c) PROVE ConfigTypes'
  <2>1. /\ stage' = [stage EXCEPT ![c] = "torn"] /\ unsaved' = TRUE
        /\ UNCHANGED <<cfg, loaded, data, calm>>
    BY <1>10 DEF WriteFails
  <2>2. data[c] \subseteq Changes \cup {Base}
    OBVIOUS
  <2>3. events' \in Nat /\ parses' \in BOOLEAN /\ file' \subseteq Changes \cup {Base}
    BY <1>10, <2>2, EventsGrow DEF WriteFails
  <2> QED BY <2>1, <2>3
<1> QED BY <1>1, <1>2, <1>3, <1>4, <1>5, <1>6, <1>7, <1>8, <1>9, <1>10 DEF ConfigNext

\* Nobody who has begun a request and not ended it leaves things settled.
LEMMA BusyNotSettled ==
  ASSUME NEW c \in Changes, stage[c] \notin AtRest
  PROVE  ~Settled
BY DEF Settled, Idle, AtRest

LEMMA FollowStep == FollowInv /\ [ConfigNext]_configVars => FollowInv'
<1> SUFFICES ASSUME FollowInv, [ConfigNext]_configVars PROVE FollowInv'
  OBVIOUS
<1>0. ConfigTypes /\ ConfigTypes'
  BY TypesStep DEF FollowInv
<1> USE DEF Advance
<1>1. ASSUME NEW c \in Changes, ChangeObject(c) \/ Marshal(c) PROVE FollowInv'
  <2>1. ~Settled'
    BY <1>0, <1>1 DEF ChangeObject, Marshal, Settled, Idle, AtRest, ConfigTypes
  <2>2. LoadedIsFile'
    BY <1>1 DEF ChangeObject, Marshal, FollowInv, LoadedIsFile
  <2> QED BY <1>0, <2>1, <2>2 DEF FollowInv, InstalledIsFile
<1>2. ASSUME NEW c \in Changes, OpenEditor(c) PROVE FollowInv'
  <2>1. ~Settled'
    BY <1>0, <1>2 DEF OpenEditor, Settled, Idle, AtRest, ConfigTypes
  <2>2. LoadedIsFile'
    BY <1>2 DEF OpenEditor, FollowInv, LoadedIsFile
  <2> QED BY <1>0, <2>1, <2>2 DEF FollowInv, InstalledIsFile
<1>3. ASSUME NEW c \in Changes, Truncate(c) \/ Write(c) PROVE FollowInv'
  <2>1. events' # 0
    BY <1>0, <1>3, EventsGrow DEF Truncate, Write, ConfigTypes
  <2> QED BY <1>0, <2>1 DEF FollowInv, LoadedIsFile, InstalledIsFile, Settled
<1>4. CASE Read
  <2>1. LoadedIsFile'
    BY <1>4 DEF Read, LoadedIsFile
  <2>2. InstalledIsFile'
    BY <1>4 DEF Read, InstalledIsFile, Settled
  <2> QED BY <1>0, <2>1, <2>2 DEF FollowInv
<1>5. CASE Install
  <2>1. LoadedIsFile'
    BY <1>5 DEF Install, LoadedIsFile
  <2>2. InstalledIsFile'
    BY <1>5 DEF Install, Installed, FollowInv, LoadedIsFile, InstalledIsFile, Settled
  <2> QED BY <1>0, <2>1, <2>2 DEF FollowInv
<1>6. CASE UNCHANGED configVars
  BY <1>6 DEF configVars, FollowInv, ConfigTypes, LoadedIsFile, InstalledIsFile, Settled, Idle, AtRest
<1>7. ASSUME NEW c \in Changes, SaveFails(c) \/ WriteFails(c) PROVE FollowInv'
  <2>1. unsaved' = TRUE /\ loaded' = loaded
    BY <1>7 DEF SaveFails, WriteFails
  <2>2. CASE UNCHANGED <<file, parses, events>>
    BY <1>0, <2>1, <2>2 DEF FollowInv, LoadedIsFile, InstalledIsFile
  <2>3. CASE events' \in Noticed
    BY <1>0, <2>1, <2>3, EventsGrow DEF FollowInv, LoadedIsFile, InstalledIsFile, ConfigTypes
  <2> QED BY <1>7, <2>2, <2>3 DEF SaveFails, WriteFails
<1> QED BY <1>1, <1>2, <1>3, <1>4, <1>5, <1>6, <1>7 DEF ConfigNext

\* The server works with what the file says once all requests have ended and
\* the watcher has nothing left to do (config.Save, HotConfig.reload,
\* UpdateConfig).
THEOREM FollowsCorrect == ConfigSpec => []ServerFollowsFile
<1>1. FollowInv => ServerFollowsFile
  BY DEF FollowInv, InstalledIsFile, ServerFollowsFile
<1> QED BY <1>1, FollowInit, FollowStep, PTL DEF ConfigSpec

-----------------------------------------------------------------------------

LEMMA KeptInit == ConfigInit => KeptInv
BY DEF ConfigInit, KeptInv, KeptBody, OneActive, InHand, InPlace, Kept, Active, AtRest

LEMMA KeptStep == FollowInv /\ KeptInv /\ [ConfigNext]_configVars => KeptInv'
<1> SUFFICES ASSUME FollowInv, KeptInv, [ConfigNext]_configVars, calm', NoneTorn'
             PROVE  KeptBody'
  BY DEF KeptInv
<1>0. ConfigTypes
  BY DEF FollowInv
<1> USE DEF Advance
<1>a. NoneTorn
  <2> SUFFICES ASSUME NEW c \in Changes, stage[c] = "torn" PROVE stage'[c] = "torn"
    BY DEF NoneTorn
  <2> QED BY <1>0 DEF ConfigTypes, ConfigNext, ChangeObject, Marshal, OpenEditor, Truncate,
             Write, SaveFails, WriteFails, Read, Install, configVars
<1>1. ASSUME NEW c \in Changes, ChangeObject(c) PROVE KeptBody'
  <2>1. calm /\ Settled
    BY <1>1 DEF ChangeObject
  <2>2. KeptBody /\ \A d \in Changes : stage[d] \in AtRest
    BY <1>a, <2>1 DEF KeptInv, Settled, Idle
  <2>3. events = 0 /\ loaded = {} /\ Kept \subseteq file /\ Kept \subseteq cfg
    BY <2>1, <2>2 DEF KeptBody, InPlace, Settled, AtRest
  <2>4. Kept' = Kept /\ stage'[c] = "changed" /\ cfg' = cfg \cup {c}
        /\ \A d \in Changes \ {c} : stage'[d] = stage[d]
    BY <1>0, <1>1 DEF ChangeObject, Kept, ConfigTypes
  <2>5. UNCHANGED <<file, parses, events, loaded, data>>
    BY <1>1 DEF ChangeObject
  <2>6. OneActive'
    BY <2>2, <2>4 DEF OneActive, Active
  <2>7. InHand'
    BY <2>2, <2>3, <2>4, <2>5 DEF InHand, AtRest
  <2>8. InPlace'
    BY <2>3, <2>4, <2>5 DEF InPlace
  <2> QED BY <2>2, <2>5, <2>6, <2>7, <2>8 DEF KeptBody
<1>2. ASSUME NEW c \in Changes, OpenEditor(c) PROVE KeptBody'
  <2>1. calm /\ Settled /\ c \in ByHand
    BY <1>2 DEF OpenEditor
  <2>2. KeptBody /\ \A d \in Changes : stage[d] \in AtRest
    BY <1>a, <2>1 DEF KeptInv, Settled, Idle
  <2>3. events = 0 /\ loaded = {} /\ Kept \subseteq file /\ Kept \subseteq cfg
    BY <2>1, <2>2 DEF KeptBody, InPlace, Settled, AtRest
  <2>4. Kept' = Kept /\ stage'[c] = "ready" /\ data'[c] = file \cup {c}
        /\ \A d \in Changes \ {c} : stage'[d] = stage[d]
    BY <1>0, <1>2 DEF OpenEditor, Kept, ConfigTypes
  <2>5. UNCHANGED <<file, parses, events, loaded, cfg>>
    BY <1>2 DEF OpenEditor
  <2>6. OneActive'
    BY <2>2, <2>4 DEF OneActive, Active
  <2>7. InHand'
    BY <2>1, <2>2, <2>3, <2>4, <2>5 DEF InHand, AtRest
  <2>8. InPlace'
    BY <2>3, <2>4, <2>5 DEF InPlace
  <2> QED BY <2>2, <2>5, <2>6, <2>7, <2>8 DEF KeptBody
<1> SUFFICES ASSUME calm => KeptBody PROVE KeptBody'
  BY <1>a DEF KeptInv
<1>3. ASSUME NEW c \in Changes, Marshal(c) PROVE KeptBody'
  <2>1. Kept' = Kept /\ stage[c] = "changed" /\ stage'[c] = "ready" /\ data'[c] = cfg
        /\ \A d \in Changes \ {c} : stage'[d] = stage[d] /\ data'[d] = data[d]
    BY <1>0, <1>3 DEF Marshal, Marshalled, Kept, ConfigTypes
  <2>2. KeptBody /\ UNCHANGED <<file, parses, events, loaded, cfg>>
    BY <1>3 DEF Marshal
  <2>3. OneActive'
    BY <2>1, <2>2 DEF KeptBody, OneActive, Active, AtRest
  <2>4. InHand'
    BY <2>1, <2>2 DEF KeptBody, InHand
  <2>5. InPlace'
    BY <2>1, <2>2 DEF KeptBody, InPlace
  <2> QED BY <2>2, <2>3, <2>4, <2>5 DEF KeptBody
<1>4. ASSUME NEW c \in Changes, Truncate(c) PROVE KeptBody'
  <2>1. Kept' = Kept /\ stage[c] = "ready" /\ stage'[c] = "writing"
        /\ \A d \in Changes \ {c} : stage'[d] = stage[d]
    BY <1>0, <1>4 DEF Truncate, Kept, ConfigTypes
  <2>2. KeptBody /\ UNCHANGED <<data, loaded, cfg>> /\ file' = {} /\ parses'
    BY <1>4 DEF Truncate
  <2>3. \A d \in Changes \ {c} : stage[d] \in AtRest
    BY <2>1, <2>2 DEF KeptBody, OneActive, Active, AtRest
  <2>4. OneActive'
    BY <2>1, <2>3 DEF OneActive, Active
  <2>5. InHand'
    BY <2>1, <2>2, <2>3 DEF KeptBody, InHand, AtRest
  <2>6. InPlace'
    BY <2>1 DEF InPlace
  <2> QED BY <2>2, <2>4, <2>5, <2>6 DEF KeptBody
<1>5. ASSUME NEW c \in Changes, Write(c) PROVE KeptBody'
  <2>1. Kept' = Kept \cup {c} /\ stage[c] = "writing" /\ stage'[c] = "saved" /\ file' = data[c]
        /\ \A d \in Changes \ {c} : stage'[d] = stage[d]
    BY <1>0, <1>5 DEF Write, Kept, ConfigTypes
  <2>2. KeptBody /\ UNCHANGED <<data, loaded, cfg>> /\ events' # 0
    BY <1>0, <1>5, EventsGrow DEF Write, ConfigTypes
  <2>3. file = {} /\ parses
    BY <2>1, <2>2 DEF KeptBody, InHand
  <2>4. parses' /\ Kept' \subseteq file'
    BY <1>5, <2>1, <2>2, <2>3 DEF Write, KeptBody, InHand
  <2>5. \A d \in Changes : stage'[d] \in AtRest
    BY <2>1, <2>2 DEF KeptBody, OneActive, Active, AtRest
  <2>6. OneActive' /\ InHand'
    BY <2>5 DEF OneActive, Active, InHand, AtRest
  <2>7. InPlace'
    BY <2>2, <2>4 DEF InPlace
  <2> QED BY <2>4, <2>6, <2>7 DEF KeptBody
<1>6. CASE Read
  <2>1. KeptBody /\ UNCHANGED <<file, parses, cfg, stage, data>> /\ events > 0
        /\ loaded' = {file} /\ Kept' = Kept
    BY <1>6 DEF Read, KeptBody, Kept
  <2>2. OneActive' /\ InHand'
    BY <2>1 DEF KeptBody, OneActive, Active, InHand
  <2>3. InPlace'
    BY <2>1 DEF KeptBody, InPlace
  <2> QED BY <2>1, <2>2, <2>3 DEF KeptBody
<1>7. CASE Install
  <2>1. KeptBody /\ UNCHANGED <<file, parses, events, stage, data>> /\ loaded' = {}
        /\ cfg' \in loaded /\ Kept' = Kept
    BY <1>7 DEF Install, Installed, KeptBody, Kept
  <2>2. OneActive'
    BY <2>1 DEF KeptBody, OneActive, Active
  <2>3. InHand'
    BY <2>1 DEF KeptBody, InHand
  <2>4. events = 0 => cfg' = file
    BY <2>1 DEF FollowInv, LoadedIsFile, KeptBody
  <2>5. InPlace'
    BY <2>1, <2>4 DEF KeptBody, InPlace
  <2> QED BY <2>1, <2>2, <2>3, <2>5 DEF KeptBody
<1>8. CASE UNCHANGED configVars
  BY <1>8 DEF configVars, KeptBody, OneActive, InHand, InPlace, Kept, Active
<1>9. ASSUME NEW c \in Changes, SaveFails(c) PROVE KeptBody'
  <2>1. Kept' = Kept /\ stage[c] \in {"changed", "ready"} /\ stage'[c] = "failed"
        /\ c \notin ByHand /\ \A d \in Changes \ {c} : stage'[d] = stage[d]
    BY <1>0, <1>9 DEF SaveFails, Kept, ConfigTypes
  <2>2. KeptBody /\ UNCHANGED <<file, parses, cfg, events, loaded, data>>
    BY <1>9 DEF SaveFails
  <2>3. \A d \in Changes : stage'[d] \in AtRest /\ (d # c => stage[d] \in AtRest)
    BY <2>1, <2>2 DEF KeptBody, OneActive, Active, AtRest
  <2>4. OneActive' /\ InHand'
    BY <2>3 DEF OneActive, Active, InHand, AtRest
  <2>5. Kept \subseteq file /\ Kept \subseteq cfg
    BY <2>1, <2>2, <2>3 DEF KeptBody, InHand, InPlace, AtRest
  <2>6. InPlace'
    BY <2>1, <2>2, <2>5 DEF InPlace
  <2> QED BY <2>2, <2>4, <2>6 DEF KeptBody
<1>10. ASSUME NEW c \in Changes, WriteFails(c) PROVE FALSE
  <2>1. stage'[c] = "torn"
    BY <1>0, <1>10 DEF WriteFails, ConfigTypes
  <2> QED BY <2>1 DEF NoneTorn
<1> QED BY <1>1, <1>2, <1>3, <1>4, <1>5, <1>6, <1>7, <1>8, <1>9, <1>10 DEF ConfigNext

\* Changes made one at a time are all in the file in the end, for any number of
\* them, whoever makes them and whatever the watcher reads in between.
THEOREM KeptCorrect == ConfigSpec => []CalmChangesKept
<1>1. KeptInv => CalmChangesKept
  BY DEF KeptInv, KeptBody, InPlace, NoneTorn, CalmChangesKept, Kept, Settled, Idle, AtRest
<1> QED BY <1>1, FollowInit, FollowStep, KeptInit, KeptStep, PTL DEF ConfigSpec

-----------------------------------------------------------------------------
(* Transcripts.                                                            *)

Lines == Sessions \X Nat

TranscriptTypes ==
  /\ files \in Seq(Seq(Lines))
  /\ newest \in 0 .. Len(files) /\ fresh \subseteq 1 .. Len(files)
  /\ logger \in [Sessions -> {"none", "open", "closed"}]
  /\ target \in [Sessions -> 0 .. Len(files)]
  /\ \A k \in Sessions : logger[k] = "none" <=> target[k] = 0
  /\ offset \in [Sessions -> Nat] /\ lines \in [Sessions -> Nat]
  /\ appends \subseteq Sessions /\ \A k \in appends : logger[k] # "none"
  /\ \A k \in Sessions : logger[k] = "none" => lines[k] = 0 /\ offset[k] = 0
  /\ \A k \in Sessions : target[k] # 0 => offset[k] <= Len(files[target[k]])

\* A logger that does not append has its file to itself as long as it writes,
\* or the file is one that was resumed too early.
CreatorAtEnd ==
  \A k \in Sessions : logger[k] = "open" /\ k \notin appends /\ target[k] \notin doubled =>
    /\ offset[k] = Len(files[target[k]])
    /\ \A j \in Sessions \ {k} : target[j] # target[k]

LinesInv == TranscriptTypes /\ CreatorAtEnd /\ LinesKept

\* A line put at the end of a file leaves the others where they are.
LEMMA AtTheEnd ==
  ASSUME NEW s \in Seq(Lines), NEW l \in Lines
  PROVE  /\ Append(s, l) \in Seq(Lines) /\ Len(Append(s, l)) = Len(s) + 1
         /\ Contains(Append(s, l), l)
         /\ \A x : Contains(s, x) => Contains(Append(s, l), x)
<1>1. /\ Append(s, l) \in Seq(Lines) /\ Len(Append(s, l)) = Len(s) + 1
      /\ Append(s, l)[Len(s) + 1] = l
      /\ \A i \in 1 .. Len(s) : Append(s, l)[i] = s[i]
  OBVIOUS
<1>2. Len(s) \in Nat
  OBVIOUS
<1> QED BY <1>1, <1>2 DEF Contains

LEMMA LinesInit == TranscriptsInit => LinesInv
BY DEF TranscriptsInit, LinesInv, TranscriptTypes, CreatorAtEnd, LinesKept

LEMMA CreateStep ==
  ASSUME LinesInv, NEW k \in Sessions, CreateFile(k)
  PROVE  LinesInv'
<1> USE DEF LinesInv, TranscriptTypes
<1>1. /\ files' = Append(files, <<>>) /\ newest' = Len(files) + 1
      /\ Len(files') = Len(files) + 1 /\ files'[Len(files) + 1] = <<>>
      /\ \A f \in 1 .. Len(files) : files'[f] = files[f]
      /\ files' \in Seq(Seq(Lines))
  BY DEF CreateFile
<1>2. /\ target' = [target EXCEPT ![k] = Len(files) + 1]
      /\ logger' = [logger EXCEPT ![k] = "open"] /\ logger[k] = "none"
  BY <1>1 DEF CreateFile, Opening
<1>3. TranscriptTypes'
  <2>0. newest' = Len(files') /\ fresh' = fresh \cup {newest'}
    BY DEF CreateFile
  <2>1. newest' \in 0 .. Len(files') /\ fresh' \subseteq 1 .. Len(files')
    <3>1. Len(files) \in Nat /\ fresh \subseteq 1 .. Len(files)
      OBVIOUS
    <3>2. 1 .. Len(files) \subseteq 1 .. Len(files')
      BY <1>1, <3>1
    <3>3. newest' \in 1 .. Len(files')
      BY <1>1, <2>0, <3>1
    <3>4. fresh' \subseteq 1 .. Len(files')
      BY <2>0, <3>1, <3>2, <3>3
    <3>5. newest' \in 0 .. Len(files')
      BY <3>3
    <3> QED BY <3>4, <3>5
  <2>2. UNCHANGED <<appends, offset, lines>>
    BY DEF CreateFile
  <2>3. \A j \in Sessions : target'[j] # 0 => offset[j] <= Len(files'[target'[j]])
    BY <1>1, <1>2
  <2>4. target' \in [Sessions -> 0 .. Len(files')]
    BY <1>1, <1>2
  <2> QED BY <1>1, <1>2, <2>1, <2>2, <2>3, <2>4
<1>4. CreatorAtEnd'
  BY <1>1, <1>2 DEF CreateFile, CreatorAtEnd
<1>5. LinesKept'
  BY <1>1, <1>2 DEF CreateFile, LinesKept
<1> QED BY <1>3, <1>4, <1>5

LEMMA ResumeStep ==
  ASSUME LinesInv, NEW k \in Sessions, ResumeFile(k)
  PROVE  LinesInv'
<1> USE DEF LinesInv, TranscriptTypes
<1>1. /\ target' = [target EXCEPT ![k] = newest] /\ newest \in 1 .. Len(files)
      /\ logger' = [logger EXCEPT ![k] = "open"] /\ logger[k] = "none"
      /\ appends' = appends \cup {k}
      /\ UNCHANGED <<files, fresh, newest, offset, lines>>
      /\ doubled \subseteq doubled'
  BY DEF ResumeFile, Opening, Appending
<1>2. TranscriptTypes'
  BY <1>1
<1>3. ASSUME NEW j \in Sessions, logger'[j] = "open", j \notin appends',
             target'[j] \notin doubled'
      PROVE  target'[j] # newest
  BY <1>1, <1>3 DEF ResumeFile, Creators
<1>4. CreatorAtEnd'
  BY <1>1, <1>3 DEF CreatorAtEnd
<1>5. LinesKept'
  BY <1>1 DEF LinesKept
<1> QED BY <1>2, <1>4, <1>5

LEMMA WriteStep ==
  ASSUME LinesInv, NEW k \in Sessions, WriteLine(k)
  PROVE  LinesInv'
<1> DEFINE f == target[k]
           l == <<k, lines[k] + 1>>
<1> USE DEF LinesInv, TranscriptTypes
<1>1. /\ f \in 1 .. Len(files) /\ files[f] \in Seq(Lines) /\ l \in Lines
      /\ logger[k] = "open" /\ offset[k] \in Nat /\ Len(files[f]) \in Nat
  BY DEF WriteLine, Lines
<1>1a. offset[k] <= Len(files[f])
  BY <1>1
<1>2. /\ files' = [files EXCEPT ![f] = Written(files[f], k, l)]
      /\ lines' = [lines EXCEPT ![k] = lines[k] + 1]
      /\ newest' = f /\ fresh' = fresh \cup {f}
      /\ offset' = IF k \in appends THEN offset ELSE [offset EXCEPT ![k] = offset[k] + 1]
      /\ UNCHANGED <<logger, target, appends, doubled>>
  BY DEF WriteLine
<1>3. /\ Written(files[f], k, l) \in Seq(Lines)
      /\ Len(Written(files[f], k, l)) >= Len(files[f])
      /\ k \notin appends => offset[k] + 1 <= Len(Written(files[f], k, l))
  <2> DEFINE s == files[f]
             o == offset[k]
  <2>0. s \in Seq(Lines) /\ l \in Lines /\ o \in Nat /\ Len(s) \in Nat /\ o <= Len(s)
    BY <1>1a, <1>1
  <2>1. CASE k \in appends \/ o = Len(s)
    <3>1. Written(s, k, l) = Append(s, l)
      BY <2>1 DEF Written
    <3>2. Append(s, l) \in Seq(Lines) /\ Len(Append(s, l)) = Len(s) + 1
      BY <2>0, AtTheEnd
    <3> HIDE DEF s, o, l
    <3>3. Len(s) + 1 >= Len(s) /\ o + 1 <= Len(s) + 1
      BY <2>0
    <3> QED BY <3>1, <3>2, <3>3 DEF s, o
  <2>2. CASE ~(k \in appends \/ o = Len(s))
    <3>1. Written(s, k, l) = [s EXCEPT ![o + 1] = l]
      BY <2>2 DEF Written
    <3> HIDE DEF s, o, l
    <3>2. o + 1 \in 1 .. Len(s)
      BY <2>0, <2>2
    <3>3. /\ [s EXCEPT ![o + 1] = l] \in Seq(Lines)
          /\ Len([s EXCEPT ![o + 1] = l]) = Len(s)
      BY <2>0, <3>2, ExceptSeq
    <3>4. Len(s) >= Len(s) /\ o + 1 <= Len(s)
      BY <2>0, <3>2
    <3> QED BY <3>1, <3>3, <3>4 DEF s, o
  <2> QED BY <2>1, <2>2
<1>4. /\ files' \in Seq(Seq(Lines)) /\ Len(files') = Len(files)
      /\ files'[f] = Written(files[f], k, l)
      /\ \A g \in 1 .. Len(files) : g # f => files'[g] = files[g]
  <2> DEFINE w == Written(files[f], k, l)
  <2>1. w \in Seq(Lines) /\ files' = [files EXCEPT ![f] = w]
    BY <1>2, <1>3
  <2> HIDE DEF w
  <2>2. DOMAIN files = 1 .. Len(files) /\ f \in DOMAIN files
    BY <1>1
  <2>3. files'[f] = w /\ \A g \in 1 .. Len(files) : g # f => files'[g] = files[g]
    BY <2>1, <2>2
  <2>4. files' \in Seq(Seq(Lines)) /\ Len(files') = Len(files)
    BY <1>1, <2>1, ExceptSeq
  <2> QED BY <2>3, <2>4 DEF w
<1>5. TranscriptTypes'
  <2>1. ASSUME NEW j \in Sessions, target[j] # 0
        PROVE  offset'[j] <= Len(files'[target[j]])
    <3>1. /\ offset[j] \in Nat /\ Len(files[target[j]]) \in Nat
          /\ offset[j] <= Len(files[target[j]]) /\ target[j] \in 1 .. Len(files)
      BY <2>1
    <3>2. CASE j = k
      BY <1>1a, <1>1, <1>2, <1>3, <1>4, <3>2
    <3>3. CASE j # k /\ target[j] = f
      <4>1. Len(files'[f]) >= Len(files[f]) /\ Len(files'[f]) \in Nat /\ offset'[j] = offset[j]
        BY <1>1, <1>2, <1>3, <1>4, <3>3
      <4> QED BY <3>1, <3>3, <4>1
    <3>4. CASE j # k /\ target[j] # f
      BY <1>2, <1>4, <3>1, <3>4
    <3> QED BY <3>2, <3>3, <3>4
  <2>2. /\ offset' \in [Sessions -> Nat] /\ lines' \in [Sessions -> Nat]
        /\ newest' \in 0 .. Len(files') /\ fresh' \subseteq 1 .. Len(files')
    <3>1. lines[k] + 1 \in Nat /\ offset[k] + 1 \in Nat
      OBVIOUS
    <3>2. lines' \in [Sessions -> Nat]
      BY <1>2, <3>1
    <3>3. offset' \in [Sessions -> Nat]
      BY <1>2, <3>1
    <3>4. newest' \in 0 .. Len(files') /\ fresh' \subseteq 1 .. Len(files')
      BY <1>1, <1>2, <1>4
    <3> QED BY <3>2, <3>3, <3>4
  <2>3. \A j \in Sessions : logger[j] = "none" => lines'[j] = 0 /\ offset'[j] = 0
    BY <1>1, <1>2
  <2> QED BY <1>2, <1>4, <2>1, <2>2, <2>3
<1>6. f \notin doubled => files'[f] = Append(files[f], l)
  BY <1>1, <1>4 DEF Written, CreatorAtEnd
<1>7. CreatorAtEnd'
  <2> SUFFICES ASSUME NEW j \in Sessions, logger[j] = "open", j \notin appends,
                      target[j] \notin doubled
               PROVE  /\ offset'[j] = Len(files'[target[j]])
                      /\ \A i \in Sessions \ {j} : target[i] # target[j]
    BY <1>2 DEF CreatorAtEnd
  <2>1. /\ offset[j] = Len(files[target[j]])
        /\ \A i \in Sessions \ {j} : target[i] # target[j]
    BY DEF CreatorAtEnd
  <2>2. CASE j = k
    BY <1>1, <1>2, <1>6, <2>1, <2>2, AtTheEnd
  <2>3. CASE j # k
    BY <1>2, <1>4, <2>1, <2>3
  <2> QED BY <2>1, <2>2, <2>3
<1>8. LinesKept'
  <2> SUFFICES ASSUME NEW j \in Sessions, NEW n \in 1 .. lines'[j], target[j] \notin doubled
               PROVE  Contains(files'[target[j]], <<j, n>>)
    BY <1>2 DEF LinesKept
  <2>1. CASE target[j] = f
    <3>1. files'[f] = Append(files[f], l) /\ f \notin doubled
      BY <1>6, <2>1
    <3>2. CASE j = k /\ n = lines[k] + 1
      BY <1>1, <2>1, <3>1, <3>2, AtTheEnd
    <3>3. CASE ~(j = k /\ n = lines[k] + 1)
      <4>1. n \in 1 .. lines[j]
        BY <1>2, <3>3
      <4>2. Contains(files[f], <<j, n>>)
        BY <2>1, <3>1, <4>1 DEF LinesKept
      <4> QED BY <1>1, <2>1, <3>1, <4>2, AtTheEnd
    <3> QED BY <3>2, <3>3
  <2>2. CASE target[j] # f
    <3>1. n \in 1 .. lines[j]
      BY <1>2, <2>2
    <3>2. target[j] \in 1 .. Len(files)
      BY <3>1
    <3> QED BY <1>4, <2>2, <3>1, <3>2 DEF LinesKept
  <2> QED BY <2>1, <2>2
<1> QED BY <1>5, <1>7, <1>8

LEMMA LinesStep == LinesInv /\ [TranscriptsNext]_transcriptVars => LinesInv'
<1> SUFFICES ASSUME LinesInv, [TranscriptsNext]_transcriptVars PROVE LinesInv'
  OBVIOUS
<1>1. ASSUME NEW k \in Sessions, CloseFile(k) PROVE LinesInv'
  BY <1>1 DEF CloseFile, LinesInv, TranscriptTypes, CreatorAtEnd, LinesKept
<1>2. CASE HourPasses
  BY <1>2 DEF HourPasses, LinesInv, TranscriptTypes, CreatorAtEnd, LinesKept
<1>3. CASE UNCHANGED transcriptVars
  BY <1>3 DEF transcriptVars, LinesInv, TranscriptTypes, CreatorAtEnd, LinesKept
<1> QED BY <1>1, <1>2, <1>3, CreateStep, ResumeStep, WriteStep DEF TranscriptsNext

\* No line of a transcript is lost unless its file was resumed while the
\* session that created it still wrote (NewLogger, resumeRecent, Write).
THEOREM LinesCorrect == TranscriptsSpec => []LinesKept
<1>1. LinesInv => LinesKept
  BY DEF LinesInv
<1> QED BY <1>1, LinesInit, LinesStep, PTL DEF TranscriptsSpec

=============================================================================
