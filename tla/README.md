# LiveSub in TLA+

A verification project for LiveSub, the Go program under `src/` that listens to
Bilibili live rooms, recognises and translates what is said, and sends the
translations back into the rooms as danmaku. The TLA+ modules here model its
concurrent core, TLC checks them on small instances, and TLAPS proves what
matters most for every value of the constants. `PROJECT.json` says which lines
of the source every definition models.

## The system

One process (`cmd/livesub/main.go`). For every streamer whose room is live it
runs one *session*:

    audio -> speech recognition -> agent -> translation workers -> controller -> danmaku
                                                                      |
                  web panel, danmaku commands, edits ----------------+

| component | source | state | operations | who calls it |
|---|---|---|---|---|
| controller | `internal/controller` | `c.ch`, `outputs`, `paused`, `outputStates`, `skipSet`, `nextMsgID`; local to the `run` goroutine: `senders` (next number and reordering buffer of every output), `delayQueue` | `Submit`, `run`, `processDelayQueue`, `flushDelayQueue`, `sendMessage`, `SetPaused`, `SkipPending`, `SyncOutputs`, `Stop` | workers submit; web server and command handler control; the session's goroutine stops it |
| agent | `internal/agent` | `resultsCh`, `seq`, the pool `sem`, `translateWg` | `Run`, `runPipeline`, `pausableReader.Read` | the session's goroutine |
| process | `cmd/livesub` | `active` (room to session) under `mu`, `monEvents` | event loop, session goroutines, `onStreamerChange` | the monitor, the web server |
| web server, pauses | `internal/web/server.go` | `rt.paused`, `rt.ctrl`, `rt.live`, `sc.Outputs` | `SetLive`, `SetController`, `handleToggle`, output and streamer handlers | browsers, the process |
| danmaku commands | `internal/command` | `ctrl`, the whitelist | `/on`, `/off`, one output or all | viewers on the whitelist |
| configuration | `internal/config` | the `Config` object, the file | `Load`, `Save`, `Watch` | web handlers, the file's watcher |
| login sessions and users | `internal/web`, `internal/auth/store.go` | a map in memory, tables | login, logout, restoring, accounts of users | browsers |
| speech recognition | `internal/stt` | one stream, the goroutine that feeds it | `Stream`, reopened after 305 s | the agent |
| Control Panel page | `internal/web/pages.go` | what it shows, a timer, a WebSocket | `init`, `fetchStatus`, `renderStatus`, clicks | people |
| translation | `internal/translate` | `degraded`, `recoverAt` | `Translate` with a fallback model | workers |
| transcripts | `internal/transcript` | an open CSV file | `NewLogger` (resumes a recent file), `Write`, `Close` | controller |
| bots | `internal/bot`, `internal/auth/bilibili.go` | the pool, login state of every account | `Get`, `Send`, QR login | controller, web handlers |
| status push | `internal/web/server.go` | connections, a channel of capacity one | `BroadcastStatus`, `handleWS` | everything that changes the panel |

What is hard about it:

* workers finish in any order, and each output restores the order by itself;
* a line is examined for a pause and for a skip at different moments, in
  different critical sections, while it waits out the review delay;
* the pipeline restarts under a running controller, and both number results;
* a cancelled context reaches agent, pool, controller and speech stream each on
  its own; a blocking send sits between two of them;
* the end of a session and the start of the next one of the same room write the
  same entries of three maps;
* "paused" is kept in three places and changed by five kinds of actor;
* outputs and streamers are edited while sessions run, from the file too;
* a stream of speech recognition is replaced while its feeder still reads audio;
* messages are cut for bots that may change before the last chunk is sent;
* logins, users and accounts are rows that change one statement at a time, with
  the process free to stop in between.

The hazards of `PROJECT.json` list these at their lines.

What makes each component correct:

* controller: per output the room sees utterances in the order they were said,
  each at most once; a skip that hits a listed message is final; a paused output
  is silent; nothing is held up for ever; every utterance is recorded once.
* agent: results of two pipeline runs never mix; nobody sends on the channel
  that `Stop` has closed; a cancelled session ends.
* process: a session runs exactly while its room is live; whatever runs can be
  stopped and reached from the panel; no registration outlives its session.
* panel: a card shows what the controller does; a click does what it says; a
  pause persists across sessions; an added output starts paused.
* speech recognition: replacing a stream costs a bounded piece of audio, and a
  pipeline whose audio has ended ends.
* configuration: the server works with what the file says, edits are not lost,
  and removing a streamer ends its session.
* bots and messages: saved accounts are ready to send with; chunks fit whichever
  bot sends them, come without gaps, and the turns are even.
* logins: a login survives restarts until it expires, a logout is final, and
  nobody gets what belonged to another user.
* page: it ends up showing the state, however answers and pushes overtake.

## Modules

| module | models |
|---|---|
| `Controller` | one controller from `New` to the return of `run` |
| `Subtitles` | what a controller promises, without queues and goroutines |
| `ControllerSubtitles` | the refinement mapping from `Controller` to `Subtitles` |
| `Session` | the agent around a `Controller`: restarts, pool, gate, shutdown |
| `Lifecycle` | rooms, events, the active map, registrations, edits of streamers |
| `Panel` | the three places of "paused" for one streamer over several sessions |
| `ControllerInvariant`, `SessionInvariant` | the inductive invariants of the two |
| `HotConfig` | the configuration file, the object in memory, the watcher |
| `BotPool` | the bots against the accounts of the database |
| `StatusPush` | how a change of the panel reaches the browsers |
| `Transcripts` | the files of one streamer's sessions |
| `ModelFallback` | the choice between the primary and the fallback model |
| `SplitWrap` | the cutting of a translation into danmaku |
| `Sending` | how the chunks of a message go through the bots of an output |
| `SpeechStream` | the streams of one pipeline, their feeders and the audio reader |
| `Reload` | `Lifecycle` together with the configuration file and its watcher |
| `LoginSessions` | logins, users and their rooms, in memory and in the database |
| `Credentials` | the path of the speech credentials through loads and saves |
| `Page` | the Control Panel in a browser |
| `ControllerProofs`, `ControllerReviewProofs`, `SessionProofs`, `LifecycleProofs`, `PanelProofs`, `FilesProofs`, `SendingProofs`, `LoginSessionsProofs` | theorems |
| `MCController`, `MCSession`, `MCReload`, `MCProgress`, `MCServices` | instances for TLC |

### Controller

Every action ends where the code releases `c.mu`, blocks, or calls out of the
package, so other goroutines interleave exactly where they can. The local
variables of `run` are variables of the module; `pc` is the place where the
goroutine stands: `select`, `log` (the transcript), `route` (the range over
`c.outputs`), `flush` (the loop over `s.pending[s.nextSeq]`), `enqueue` (after
the pause check, before `c.mu` is taken again), `process`, `send`, `recent`
(`processDelayQueue`), `drain` (`flushDelayQueue`), `done`, `panic`.

* `Submit`: a worker's send, which blocks while `ch` is full.
* `Receive`, `LogTranscript`, `RouteOutput`/`RoutePanics`/`RouteDone`,
  `FlushGap`, `FlushLine`, `Enqueue`: one translation from the channel to the
  review queue, an output at a time.
* `TickerFires`, `ProcessNext`, `ProcessDone`: a tick partitions the queue by
  `sendAt`, and takes the batch message by message (unlist, look for the skip
  mark, look for the pause). `SendNowhere`, `SendChunks`, `AddRecent` are
  `sendMessage`, whose every outcome is possible.
* `BeginDrain`, `DrainNext`, `DrainDone`, `Exit`: the two ways out of the select.
* `SetPaused`, `SkipPending`, `SyncOutputs`, `Cancel`, `Stop`: other goroutines.

Text is abstracted to whether there is any, per output: `texts` is the set of
outputs a translation has a line for, any set whatever, so language matching and
failed translations are covered. Two outputs of one name, which the admin request
and a file edited by hand allow, are left out, and so is what a pause does between
two outputs while one result is being logged: `LogTranscript` looks at all pauses
in one step, the code takes the lock for each. A skip may name any id that was
given out, or one of `StaleIDs`, as a page of an earlier session or an unreadable
number does. `left` counts the delay down. `utt` names
what was said; it equals `seq` within one pipeline run and is what order is
about when several runs share a controller (`Session`). Recognition never
delivers an empty final text here, so every utterance reaches the transcript.

### Session

Extends `Controller`: the agent's `Run` loop, `runPipeline`'s range loop
(`Dispatch`, `Acquire`, `PipelineEnds`, `PipelineReturns`), the workers, the
speech goroutine (`Speak`, `SttReconnects`, `SttEnds`), and the stream goroutine
of `main.go` that calls `Stop` after `Run`. `pausableReader` and the check in
the range loop are the same `IsAnyPaused`, asked at two moments. Operators pause
and skip in a session as well; edits of the outputs are left to `Controller`.

### Lifecycle

The monitor's channel, the event loop, the goroutine of every session from
`Register` to `Leave`, and the two halves of `onStreamerChange` (under `mu`, and
`SetLive` after it). Inside a session nothing is modelled but that it ends after
it has been cancelled, whenever it likes. Rooms and operators are unconstrained.
An edit whose `Save` fails changes the list and tells nobody (`StreamerSaveFails`).
A streamer is its room: the request that moves one to another room is left out.
`StreamerChange` reads the configuration under `mu`; as there is one object only in
this module, which is edited in place, that is what the code reads. `Reload` has
`hotCfg.Get()` as a step of its own.

### Reload

Extends `Lifecycle`, whose `streamers` it takes to be what `hotCfg.Get()` holds.
Configurations are objects: a web handler changes the server's in place
(`EditObject`), `Save` truncates and writes the file, the handler then deletes the
runtime and starts `onStreamerChange` (`DropRuntime`), or fails and does neither
(`SaveFails`). The goroutine of `onStreamerChange` keeps the object that it finds
(`GetConfig`) and cancels with it later (`ChangeSaved`). The watcher loads the file
into a new object (`LoadFile`), also the truncated one, and only then gives it to
the server (`InstallConfig`); in between a handler changes an object that nobody
will read. `NoOrphan` is about all this coming between the removal of a streamer
and the callback that ends its session. One save is under way at a time
(`HotConfig` has them overlap), and edits count as calm when each began after all
before it had settled, and was saved.

### SpeechStream

The reader goroutine of `runPipeline` over its streams, and one feeder per stream,
each `Read` and `Send` a step. The audio reader is shared by all feeders that have
not ended, and the gate of `pausableReader` is looked at before each read. A
feeder notices that its stream is over when it sends. Streams break whenever they
like, but for the last one of the instance. `Session` has the other side of the
same pipeline, what becomes of the results. A chunk is lost when it was read and
neither discarded by the gate, nor is held, nor was sent on an open stream:
`LossBounded` allows one per stream that is over.

### Panel

`rt.paused`, `c.paused` and `outputStates[o].Paused`, with a click in two steps
(under `s.mu`, then `SetPaused`), a command that goes through its outputs one by
one, an edit of an output in three steps (configuration and file, `rt.paused`,
`SyncOutputs`), an edit whose `Save` fails, after which memory and file differ and
no pause is set (`OutputSaveFails`), the reload of the file, which brings back what
the file has, `auto_start`, and the five steps of a session. One streamer; sessions do not overlap here (they may in `Lifecycle`).
The variables `asleep`, `untouched`, `added` and `mixed` are history: they decide
nothing and only say of which outputs the properties speak.

### The services around the sessions

These share no state with each other or with the sessions' modules, as far as
they are modelled. `MCServices` and `MCProgress` check several of them in one run:
a behaviour first chooses which part it is about, and the others rest.

* `HotConfig`. A request changes `s.cfg` in place (`ChangeObject`), marshals it
  (`Marshal`), and `os.WriteFile` truncates and fills the file (`Truncate`,
  `Write`); an operator's editor starts from the file (`OpenEditor`). The watcher
  may be told of each, merged or not, and loads what is there (`Read`), also the
  empty file, which parses; then `UpdateConfig` installs it (`Install`). A save may
  fail before it has touched the file (`SaveFails`) or after (`WriteFails`), with
  the object changed. A configuration is the set of changes it has, so defaults are left out.
* `Credentials`. A path is how often the directory was joined to it; the variable
  of the environment is set by the first load of a process and kept.
* `BotPool`. A login by QR code updates the rows of a name (`SaveAccount`) and, if
  there were none, inserts one (`InsertAccount`), two statements without a
  transaction; settings and deletions go by row. Every `syncDBBots` lists the
  rows, then for each looks into the pool (`LookUp`) and refreshes or adds
  (`PutBot`); requests and the watcher run it, so two can run at once. The listing
  and the statements of a login may fail (`ListFails`, `InsertFails`). Bots are
  objects with an identity.
* `Sending`. `sendMessage` chunk by chunk: the limit at the beginning, then a turn,
  a bot and an outcome per chunk, while accounts and bots change.
* `LoginSessions`. Each statement of a request is a step that may fail where the
  handler goes on regardless, and the process may stop before any of them; at a start
  the server also goes on without the rows that it cannot read. Ids of
  users are `AUTOINCREMENT`, foreign keys are not enabled, and expiry is compared
  as text, which makes it a comparison of days. Persons are history: to whom an
  id was given, so that `NothingInherited` can tell two users apart.
* `Page`. Requests, answers, the WebSocket and what is shown. Pushes come after
  changes of controllers only and lack what only an answer has; a page that has
  shown one needs the next answer. It is not assumed that any push is sent,
  which `StatusPush` cannot promise to the others when one browser stops reading.
* `StatusPush`. `Change` and `BroadcastStatus` are two steps of the caller; the
  writing goroutine takes the token, copies the connections, reads the state and
  writes, each a step. Connections come and go.
* `Transcripts`. `NewLogger` resumes (`O_APPEND`) or creates (`os.Create`, which
  does not append: such a logger writes at its own `offset`); it may create a file
  although a recent one exists, when that cannot be opened.
* `ModelFallback`. Each load and store of the two atomics is a step, as are the
  calls; rate limits come and go as they like.
* `SplitWrap`. One action per kind of chunk; only the lengths and the places of
  the breaks matter.

## What the runs check

| run | instance | shows |
|---|---|---|
| `controller_one` | one output, three utterances, channel of 1, delay of 1 tick, edits that keep the output, skips of old ids, fair | `RevokedNeverShown`, `NoGhostPending`, `ReviewComplete`; `EveryLinePassed`, `EveryReviewEnds`, `CancelEndsRun` |
| `controller_two` | two outputs, one without an account, two utterances | `ImplementsSubtitles` for both |
| `controller_edit` | the only output removed and added again, transcripts on | `RecordedOnce`, `ImplementsSubtitles` (which has that skips are final) |
| `session_order` | two workers, three utterances, any restarts and pauses | `NoSendOnClosed`, `OrderedDelivery` across restarts |
| `session_stop` | two utterances, channel of 2, fair | `ShutdownCompletes` while the backlog fits the channel |
| `progress`, rooms | two rooms, three sessions, four flips, one edit, fair | `ActiveIsGoing`, `NoDeadController` always; `GoingIsActive`, `PanelReachesSession`, `FollowsTheRoom` for rooms that do not come back before their last session has ended |
| `progress`, reload | two rooms, two sessions, two flips, one edit, on the web or by hand | the same, and `NoOrphan` |
| `progress`, speech | three streams, two chunks, a change of the pause, fair | `LossBounded`, `DeadAudioEndsPipeline` |
| `progress`, fallback, push, page | see the bounds below, fair | `AutoRecovers`; `ChangeReachesBrowser`; `PageCatchesUp` |
| `services`, panel | two sessions, with two outputs, a click in flight and an edit, and with one output, two clicks and two edits, saved or not | `PausedCardIsSilent`, `CardTellsTruth`, `MapsAgree`, `ClickTakesEffect`, `PausePersists`, `AddedStartsPaused` |
| `services`, the others | see the bounds below | `ServerFollowsFile`, `CalmChangesKept`; `AccountsReady`; `LinesKept`; `ChunksFit`; `PrefixShown`, `FitsAnyBot`, `EvenRotation`; `SessionsSurvive`, `LogoutIsFinal`, `NothingInherited` |
| `sessions_overlap` | one room that comes back while its last session is ending | violated: `StoppedOffline` |
| `controller_added` | an output added to a running session | violated: `NoPanic` |
| `session_restart` | one worker, restarts, fair | violated: `RestartedLinesPass` |
| `reload_removed` | a streamer removed from the file by hand | violated: `RemovedStops` |
| `credentials` | a save and a restart | violated: `CredentialsFound` |

Every property of a passing run has a mutant, a plausible slip in one
definition that makes TLC find it violated.

### Bounds, and why they are enough

* `MaxSeq`. Order between lines concerns pairs; a third utterance is needed for
  one that overtakes while another waits in the buffer and a third in the queue,
  and in `Session` for two of the same number after a restart. Two outputs at
  once already interact through the queue with two.
* `ChanCap` 1 or 2 (100 in the code), `ResultsCap` 1 (50), `Workers` 2 (three per
  output): small enough to be full; `session_stop` needs a channel that holds
  all that is said, which is its hypothesis.
* `StaleIDs` {0}: an old page names an id that is going to be given out again, and 0
  is also what an unreadable one is taken for. No ids beyond it in `Session`.
* `SendDelay` 1: a message is not due, then due; 0 where the run is not about the
  delay. `MaxRecent` 1 (5): the list is cut.
* Lifecycle: three sessions and four flips let one room run two sessions that
  overlap, beside another room, or one room go on and off twice. Reload: two
  sessions and two flips are enough for a session whose streamer is edited,
  loaded and called back for in every order; `sessions_overlap` needs two sessions
  and four flips of one room. Panel: two sessions are
  one boundary. With one output, two clicks can race and one edit follow another (a
  save that fails and then a reload, an output deleted and added again); with two
  outputs, where a command goes from one to the other, one click and one edit. Two
  clicks and an edit with two outputs hold as well (2.7 million states on their own).
* Services: three changes, one of them by hand, are needed for two that overlap
  while the file changes under both; three syncs, so that one list can be older
  than two others, of one account, as accounts do not affect each other; three
  sessions with two lines each: a creator and two that resume its file; two
  browsers and two changes, one in the loop and one in the token; two
  callers of the translator, one that sets the flag and one that clears it, and a
  window of two ticks; texts of up to seven characters, limits up to five and
  wrapping up to two, which gives chunks of one to five characters, each with
  every place of the breaks; two messages of up to three chunks through two bots
  of two limits, so that turns wrap around within a message and from one to the
  next, and two changes of accounts or bots; one login that lasts two hours of
  a two-hour day, observed for three, so that it expires in the course of a day,
  with three users, one of them the administrator.
* Speech: three streams are one that is replaced, one that is replaced while the
  feeder of the first still runs, and the last. Page: two requests at once can
  overtake each other; one fails.

### Fairness

* `Controller`: weak fairness of the goroutine's own steps (nothing in them
  waits); strong fairness of each case of the `select`, which picks at random
  among those ready and whose ticker never stops; weak fairness of the clock; of
  each worker, because a translation has a timeout and an error is submitted
  too. Nothing is assumed of panel, `Cancel` or `Stop`.
* `Session`: the same, with weak fairness of the agent's goroutine, strong
  fairness of a worker's send (senders blocked on a channel are served in
  order), and weak fairness of the end of the speech stream once the context is
  cancelled (`ffmpeg` and the gRPC stream are bound to it). The stream may run,
  reconnect or stop otherwise as it likes.
* `Lifecycle`: weak fairness of the event loop, of every session goroutine, and of
  the goroutines of `onStreamerChange`. None of rooms and operators.
* `SpeechStream`: the goroutines run; a stream that was closed from this side comes
  to its end, as the service answers. That streams break, audio ends or anybody
  pauses is not assumed.
* `Page`: the timer fires, requests are answered or fail a bounded number of
  times, and answers are shown. Nothing is assumed of pushes or clicks.
* In `MCProgress` the parts that rest are in states in which their fair steps are
  not enabled (no page is open, the pipeline has ended, no request has begun), so
  that their fairness takes nothing away from the part that is looked at.
* `StatusPush`: callers that have changed the state go on to `BroadcastStatus`,
  and the writing goroutine runs on. This takes for granted that a write to a
  connection returns, which the code does not ensure: it sets no deadline.
* `ModelFallback`: a request that has begun goes on (calls are answered or time
  out), and time passes. That requests keep coming and limits end is a hypothesis
  of `AutoRecovers` and not assumed: without another request nothing clears the
  flag, and nothing needs to.

## What is proved

Every safety invariant and every action property that a passing run checks is also
a theorem, for all outputs, rooms, lists, capacities, delays and numbers of
utterances, sessions, clicks and edits. The proofs use the named assumptions on the
constants only (`ListsAssumption`, `SendingAssumption` and so on: that lists have
no duplicates, that capacities and limits are numbers); bounds only cap counters.
The larger inductive invariants were invariants of TLC's runs on small instances
before they were proved; now they are steps of the proofs, and no run repeats them.

### The controller (`ControllerProofs`, `ControllerReviewProofs`)

* `TypeCorrect`: `TypeOK`.
* `OrderCorrect`: `OrderedDelivery`. A number is passed only once, but between the
  buffer and the room a message is in the queue, in the batch, or on its way to the
  queue, so order of `shown` alone is not inductive. `OrderInv` says where each stage
  stands: at which `pc` queue and batch are empty (`AtHome`), that all that is beyond
  a buffer is below `nextSeq`, its number used up (`Passed`), that the queue is
  sorted per output (`QueueSorted`), the batch is a prefix of due messages before
  those retained (`RetainedFirst`, `DuePrefix`), and all that was shown is older than
  all that waits (`ShownFirst`); `SameNumbers` says that within one run utterance and
  number are equal. `StepQueue` separates what does not depend on numbers
  (`QueueInv`), which is why it serves for a session as well.
* `RevokeCorrect`, `PendingCorrect`: `RevokedNeverShown` and `NoGhostPending`.
  `ReviewInv` ties the three records of a pending message together: a revoked id is
  marked in `skipSet` or no longer in review (`RevokedIsMarked`), a listed id is in
  review (`ListedIsReviewed`) and not shown (`ListedNotShown`), and the flush happens
  only after `Stop`, which comes after the cancellation (`StopAfterCancel`), so what
  it sends goes nowhere.
* `CompleteCorrect`: `ReviewComplete`, the other direction: what an operator could
  still revoke is on the list. It speaks of the outputs that no edit takes away.
* `RecordCorrect`: `RecordedOnce`. An utterance is in the channel, being logged or in
  the file, one of them and once (`ComesOnce`, `OneLine`), and what is being routed
  or buffered or has been passed has its line (`RoutedHasLine`), whatever edits do.
* `SubtitlesImplemented`: every step of `Controller` is a step of `Subtitles` or a
  stutter under the mapping of `ControllerSubtitles`. `RefineInv` puts the two
  invariants together and adds what holds before `run` begins (`Beginning`): the
  mapping's review is the queue and the undecided rest of the batch, so the step
  that decides on a message needs that it is the first of its output there
  (`QueueSorted`, `DuePrefix`) and that a revoked one is marked.

### The session (`SessionProofs`)

* `ClosedCorrect`: `NoSendOnClosed`. A run ends only when its results are taken and
  its workers have submitted, and `Stop` comes after the last run (`AgentAt`).
* `SessionOrderCorrect`: `OrderedDelivery` over any number of restarts, although every
  run numbers from zero and the senders go on with the old numbers. `DeliveryInv`
  names the utterances with which runs began. The channel carries run after run
  (`RunAfterRun`), within a run numbers are in the order of speech
  (`NumbersInOrder`) and none is missing between what a sender awaits and what is
  known (`NoGaps`), and what a sender has stored and not passed is of one run
  (`OneRunStored`). So when a number comes again, whoever awaits it has passed
  everything of the run before; results whose number lies below `nextSeq` are
  never taken, which is the code's weakness (no. 2 below) and also what keeps order.
* `SessionReviewCorrect`: `RevokedNeverShown`, `NoGhostPending` and `ReviewComplete` in
  a session. `SessionIsStep` shows that
  the agent only ever takes the controller's steps, with other numbers; the
  invariants about queue and review are proved of those steps.
* `LossCorrect`: `LossBounded` of `SpeechStream`: every lost chunk makes the feeder
  that held it give up, and there is one feeder to a stream.

### Rooms and sessions (`LifecycleProofs`)

* `ActiveCorrect`, `ControllersCorrect`: `ActiveIsGoing` and `NoDeadController`.
  `SessionInv` adds that a session leaves its run only cancelled (`LeavesCancelled`)
  and in which steps the panel and a command handler can hold it (`WebHolds`,
  `CommandsHold`). `CancelStep` is the core: cancelling some rooms touches no other
  room's session, because no session is mapped twice.
* `StoppableCorrect`: `GoingIsActive`. `UnhurriedInv`, for rooms that never came back
  early: sessions do not overlap (`OneAtATime`), an event that will start one is
  alone in the queue and with no session before it open (`LiveAlone`), and what goes
  on is in the map (`InTheMap`).
* `ReachableCorrect`: `PanelReachesSession`. Until the first edit the panel has each
  such session from `Register` to its cancellation (`PanelHolds`).
* `ReloadCorrect`: the composition with file and watcher keeps all three, as every
  step of `Reload` is one of `Lifecycle` or leaves the sessions alone.
* `RemovalCorrect`: `NoOrphan`. While edits are made on the web and one after the
  other, what is loaded lists nothing that is not going to be in the file
  (`FileFollows`), so a session of a streamer that will not be has a callback
  coming that ends it (`NoneLeft`), whichever object that callback keeps, and no
  truncated file revives it.

### The panel (`PanelProofs`)

* `SilentCorrect`, `CardCorrect`: `PausedCardIsSilent` and `CardTellsTruth`, by one
  invariant about all maps, sessions or not (`CardInv`).
* `MapsCorrect`, `ClickCorrect`: `MapsAgree` and `ClickTakesEffect`. `MapsInv` says
  that a click between its two steps has set the server's map to what it will tell
  the controller, and that it is the only one on its output (`Clicks`).
* `PersistCorrect`: `PausePersists`, step by step.
* `AddedCorrect`: `AddedStartsPaused`. `AddedInv`: what nobody has resumed is paused in
  the server's map, at the latest when the edit goes on, and in the controller.

### Files, messages, bots and logins

* `FilesProofs!FollowsCorrect`: `ServerFollowsFile`, for any number of changes and any
  interleaving. When the object and the file differ, a request is under way, an
  event waits, something is loaded, the file does not parse, or a save has failed.
* `FilesProofs!KeptCorrect`: `CalmChangesKept`, by following the one change that is
  not settled from the object to the file and back through the watcher.
* `FilesProofs!LinesCorrect`: `LinesKept`. A creator that writes has its file to itself
  and stands at its end, or the file is one of `doubled` (`CreatorAtEnd`).
* `SendingProofs!PrefixCorrect`, `!FitsCorrect`, `!RotationCorrect`: `PrefixShown`,
  `FitsAnyBot`, `EvenRotation`. The chunks were cut by the least of all limits
  (`CutByLeast`), and the accounts from some place up to the turn, around the end of
  the list if need be, have had one try more than the others (`InRotation`).
* `SendingProofs!ChunksCorrect`: `ChunksFit`, for every text, limit and place of the
  breaks. `CutSoFar` says that the chunks so far are the text up to `pos`, and
  `BreakInChunk` that a cut never comes before its first character.
* `SendingProofs!AccountsCorrect`: `AccountsReady`. Whatever the stages of the syncs, an
  account without a bot is on the list of a sync that has yet to put it
  (`Served`), unless the last listing failed; credentials are the stored ones as long as syncs come one by one
  (`OneByOne`).
* `LoginSessionsProofs!SurviveCorrect`, `!LogoutCorrect`: `SessionsSurvive` and
  `LogoutIsFinal`. `TokenInv` follows a login from memory to its row and back
  (`Remembered`, `Stored`), and one that is over to where it can no longer be
  restored (`GoneIsGone`).
* `LoginSessionsProofs!InheritCorrect`: `NothingInherited`: an id is one person's for
  ever (`OnePerson`), rows and logins were made for somebody who had it
  (`MadeForKnown`, `TokensOfLogins`).

### Only model-checked

The properties of progress: `EveryLinePassed`, `EveryReviewEnds`, `CancelEndsRun`,
`ShutdownCompletes`, `FollowsTheRoom`, `DeadAudioEndsPipeline`, `AutoRecovers`,
`ChangeReachesBrowser` and `PageCatchesUp`. Liveness under fairness and `ENABLED` are
outside the prover's reach. The disagreements shown by the violated runs are
counterexamples and need no proof.

## What the code does differently

Disagreements between code and documents, met while modelling. Those that name a
run are shown by it; most of the others are behaviours of the models, and the
properties above name them as their exceptions.

1. An output added to a running session has no entry in `senders`: the next
   translation dereferences nil (`controller.go:392`, run `controller_added`).
2. `runPipeline` numbers from zero at every restart while the senders go on with
   the old number, so lines after a restart stay in the buffer until the new run
   has counted as far (`agent.go:151`, run `session_restart`).
3. With every output paused nothing is recorded, although transcripts are said to
   be recorded continuously (`agent.go:161`).
4. A streamer removed from the file by hand keeps its session, which only the end
   of the process or an edit on the web then stops: the monitor's event that the
   room is offline is one of an unknown room (`main.go:202`, `main.go:269`, run
   `reload_removed`).
5. The credentials path grows by the directory of the file with every save and
   restart, if the program is given a relative path (`config.go:121`, run
   `credentials`); the example file has it relative to the working directory
   instead (`configs/config.example.yaml:2`).
6. `Recent` lists messages that could not be sent, "successfully sent" in the
   manual (`controller.go:573`).
7. The transcript holds the first loggable output's translation only
   (`controller.go:368`).
8. A backlog that does not fit `c.ch` when the context is cancelled leaves a worker
   in `Submit` for ever, and `Run` with it, so `Stop` is not called
   (`controller.go:448`). With `ChanCap = 1` in `MCSession_stop.cfg` TLC finds
   `ShutdownCompletes` violated.
9. A room reported live again while its last session is still ending (this takes
   longer than one poll of the monitor) loses its new session from `active` and
   from the panel, and the next offline event cancels nothing (`main.go:333`,
   `main.go:340`, run `sessions_overlap`).
10. `onStreamerChange` marks the first streamer as offline on every edit, and
    indexes an empty list after the last one was deleted (`main.go:259`).
11. A new output is paused in the map and not on its card (`controller.go:204`).
12. Saving an existing output pauses it in the server's map only; the next click
    sets what is already set (`server.go:1130`).
13. A pause by command is forgotten when the session ends (`handler.go:204`).
14. Two clicks on one output may reach the controller in the other order
    (`server.go:468`).
15. An output saved while a session starts is not paused in it
    (`server.go:1130`).
16. A deleted output that was not paused keeps speech recognition running
    although every output is paused (`server.go:143`).
17. An output deleted while a session starts, between the copy of the list and
    `SetController`, stays in that session's controller until the next edit.
18. A save empties the file first, and the watcher may install the empty
    configuration until the next event; a request in between saves it
    (`watcher.go:70`, `config.go:193`).
19. Edits that overlap may undo one another: each saves the whole of the object
    it finds, and a reload replaces the object (`server.go:497`).
20. Two writers of the file at once can leave one that does not parse; the
    server then works on with what it has.
21. A transcript resumed while the session that created it still writes loses
    lines, because that session does not append (`logger.go:51`).
22. Two syncs of the pool at once may leave the older credentials
    (`main.go:129`), and deleted accounts keep their bots (`main.go:122`).
23. A request may clear the flag that another has just set, so the primary model
    is asked again within the 30 seconds (`gemini.go:175`).
24. One browser that does not read holds up the status of all (`server.go:627`).
25. A bot that is not in the pool when its turn comes leaves its chunk out of the
    message, and the next bot sends the next one (`controller.go:564`).
26. Two first logins of one account at once make two rows of it
    (`auth/bilibili.go:56`), and a login whose user info request fails is stored
    as a second account `UID_n` (`server.go:954`).
27. Deleting a user leaves its rooms and sessions, and a request about a user who
    is gone writes rooms and then fails (`store.go:229`, `server.go:751`). No
    later user gets them, since ids are not given again.
28. Sessions are restored until the end of the day on which they expire
    (`store.go:94`); the first request with such a token finds it expired.
29. Every reload of the configuration sets the administrator's password back to
    the configured one (`main.go:204`).
30. A chunk of audio is lost for every stream that is replaced (`google.go:85`),
    and the wait before a new one doubles up to 30 seconds and is never set back
    (`agent.go:139`).
31. The watcher watches the file itself, so an editor that replaces it by another
    ends the watch (`watcher.go:81`).
32. The callback of an edit that finds the truncated file loaded indexes an empty
    list as well (`main.go:259`).
33. The status that is pushed lacks `auto_start` of outputs without a session and
    is not reduced to the user's rooms; the page shows either until the next
    answer (`server.go:616`). Changes of outputs without a session are not pushed.
34. The admin page saves a streamer with the outputs it last fetched and without
    its alternative languages (`pages.go:778`).
35. A skip of an id that is not pending leaves a mark, and the message that gets this
    id later is dropped although nobody meant it: a page of an earlier session asks
    for an old id, and one that cannot be read is taken for 0, which is the first id
    of every session (`controller.go:269`, `server.go:639`).
36. A save that fails leaves the configuration in memory changed, with the answer 500
    and nobody told: an added output then starts unpaused in the next session, the
    session of a removed streamer goes on, and a later save of something else writes
    the change (`server.go:1123`, `server.go:1054`). The toggles of the panel do not
    look at the error at all (`server.go:528`). A write that fails leaves the
    file cut, which the watcher loads (`config.go:193`).
37. A logout whose `DELETE` fails is answered like any other, and the next start
    signs the browser in again (`server.go:348`).
38. A listing of the accounts that fails is logged only, and what was saved waits for
    the next sync (`main.go:119`).

## What is not modelled, and the plan

Not modelled: the admin pages (forms that post what they show) and the texts of
the UI, the HTTP side of QR login and other requests to Bilibili, the table of
hidden streams (single statements nobody else calls), passwords, permission
checks and the audit log, defaults and the migration of an old configuration,
signals and start-up, build files. Language matching is abstracted in
`Controller`, the time of backoffs in `Session` and `SpeechStream`. Concurrent
access to Go maps and slices without a lock, which the runtime may answer by
ending the process, is not modelled; the models interleave the handlers' steps
instead.

All modules of the plan are written, and all safety properties of the runs are
proved. What would say more:

1. `Session` with edits of the outputs: `FixedOutputs` is what the order proof takes
   from their absence. An output that is added while a session runs makes the run
   goroutine panic at the next result (no. 1 above), so the composition says little
   until this is changed.
2. The transcript over restarts: `RecordedOnce` speaks of what an output has passed
   by number, which is an utterance within one run only. Over restarts lines that
   stay in a buffer are recorded and not passed.
3. `Panel` with sessions that overlap, as they may in `Lifecycle`.
4. The safety half of the promises that `Page` and `StatusPush` make: what a page
   shows was true at some moment since its last request.
