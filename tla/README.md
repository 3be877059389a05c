# yzj_bot_bridge in TLA+

The bridge connects bots of the Yunzhijia chat platform with coding agents.
Paths below are relative to `src/bridge/internal/` unless they say otherwise.

## The system

| part | state | operations | module |
|---|---|---|---|
| intake (`inbound`, `webhook`, `commands`, `yzjcli/message.go`, `dedupe`) | a duplicate filter of at most 5000 keys for each load | Handle up to the queue, onPollMessage, MentionsBots, MessageTargetsBot, Parse, AlreadySeen | `Intake` |
| job queue (`jobs`, `inbound.Dispatcher`) | one slot per scope: busy user, extra text, waiting items, context and cancel function | TryAccept, DrainExtra, Finish, Cancel, Context; Handle, startJob, runJob, notifyQueue | `JobQueue` |
| polling (`yzjcli.Watcher`, `StateStore`) | cursor and ring of recent messages in memory and on disk, switch, cancel function, auth failures | SetEnabled, loop, pollOnce, gather, dispatch, noteError | `PollWatcher` |
| orchestrator, run lock, session store (`orchestrator`, `runlock`, `sessions`) | one token per session; per session the chat, directory, compaction state and conversation | dispatch, Acquire, release; SetChatID, ClearSession, SetAgentCWD, Save, Open | `SessionRun`, `OpenAIChat` |
| CLI backends (`backends/claude.go`, `cursor.go`) | a process per run | Run | `SessionRun` |
| DSH backend (`backends/dsh.go`, `dshpool.go`) | a pool of JSON-RPC processes with known sessions, turns under way, pending calls and subscribers | Run, getOrCreate, call, subscribe, waitIdle, reap, stop | `DshPool` |
| OpenAI backend (`backends/openai.go`, `openai_compact.go`), GUI chats (`controlapi/chat.go`, `chatstore`) | summary of a session; GUI sessions on disk | Run, applyCompact; chatSendMessage | `OpenAIChat` |
| user memory (`memory`) | a profile file and a list of turns per user; queue and in-flight set of the scheduler | AfterDispatch, RunProfiler, Enqueue, pump, scanIdle, the commands of users and of the control API | `UserMemory` |
| runtime, WebSocket client (`runtime`, `registry`, `wssstate`, `ws`, `cmd/yzj-bridge`) | switches and their file; clients and watchers, replaced by each load | Load, SaveAndReload, ReloadFromDisk, SetChannelEnabled, ...; SetEnabled, loop | `Runtime` |

A message comes in by webhook, WebSocket or polling, passes the duplicate
filter, the target check and the allow list, and is either a command, answered
at once, or a prompt. A prompt goes through the job queue; its job calls
the orchestrator, which takes the run lock of the session and lets a backend run
in the session's chat; the reply is sent to the group, and the turn is given to the user memory.
The runtime builds all of this from the configuration and builds it anew at each reload.

Hard behaviour: each message has a goroutine of its own; jobs hand the scope
over to the next waiter; `--stop` may come at any time; several loops of a watcher or
client live side by side after a quick toggle; runs share a DSH process; a profile is
held in memory while a model is asked; the process may crash between handling a
message and recording it; a reload replaces the stores, locks, clients and scheduler under
running jobs. `PROJECT.json` lists the places under "hazards".

What makes each part correct: a message is answered once, by the channels it is meant for; the
queue serves it once, in line, one job per scope; polling misses nothing and repeats
little; the token of a session is in one place, a session's context is kept until it is
cleared and is gone afterwards; a DSH run gets the events of its own turn and every call
returns; the model gets the whole window once; a profile loses no command; a reload
loses no switch and leaves one connection per channel.

## The modules

| module | what it is |
|---|---|
| `Intake` | the three ways in, the duplicate filter, and what Handle makes of a message before the queue |
| `JobQueue` | the job queue and the goroutines around it |
| `AskService` | what a bot promises the people who write to it: the abstract specification |
| `JobQueueRefinement` | the mapping under which JobQueue implements AskService |
| `PollWatcher` | a poll watcher with its state file, toggles, errors and crashes |
| `SessionRun` | the calls of the orchestrator that run a CLI agent: run lock, session store, backends, reloads, crashes |
| `DshPool` | the runs of the DSH backend on their shared processes |
| `OpenAIChat` | the calls of the openai backend with the window, the summary and the GUI sessions |
| `UserMemory` | profiles, turns, profiler, scheduler and commands |
| `Runtime` | switches, clients, watchers, reload, shutdown and start |
| `*Proofs` (eight) | theorems about Intake, JobQueue, PollWatcher, SessionRun, DshPool, OpenAIChat, UserMemory, Runtime |
| `MC*` | instances for TLC |

`PROJECT.json` maps every definition that models code to its lines. The modules keep
*faulty variants* of some definitions (`FinishUnarmed`, `AcquireShared`, `WaitForever`,
`KeyOfWay`, ...): bugs this code might plausibly have had. Next does not use
them; each property is shown to fail when its variant takes the place of the original
("mutants"), so no property is empty. Variables that only record what happened, such as
`told`, `torn` or `repeats`, are read by properties and never by a guard.

### Intake

`worker[w]` is a goroutine with a message in hand: the reader of a WebSocket, which
handles one frame at a time; a webhook request; or the watcher of a group, which hands a
message to one target after the other. `Push` is the platform writing a frame to the
WebSocket of every robot in the account, `Post` and `Poll` the other ways. `NextTarget` is one round of
the loop in onPollMessage, with the label and the trigger. `Check` is the first half of Handle, up to AlreadySeen under
its mutex; `Decide` is the rest, up to the queue, and records the answer. A text is
its @-words and its words, so that mentions, allow list and commands (`Mentioned`,
`MessageTargetsBot`, `Outcome`) are relations and not string searches. `Load` starts
a dispatcher with an empty `seen`; a goroutine keeps the one it has.

A pushed message may carry the ID of its robot, its name, both or neither; `ForBot` compares
what there is. A message without an ID, or at a channel without one, is told apart by the name
alone, and passes when it has none: `NobodyElseAnswers` says so, and says of each answer that
goes to another chat that it is of this kind.

### JobQueue

`slots` is `Manager.slots`; an absent slot is `IdleSlot`. A method of the
manager holds its mutex throughout and is one step; the goroutine does
the rest between these steps. For a message `m`:

- `Arrive(m)` is TryAccept, with a disjunct per outcome: `Accept`, `Merge`,
  `Rejoin`, `Enqueue`. `Answer(m)` is what Handle does with the outcome after
  the mutex is released; `AckAccepted` starts the job.
- `job[m]` is the runJob goroutine started for `m`: `Dispatch` (takes the slot's
  context), `RunEnd`, `Reply`, `DrainExtra` (another round, or not), `Finish`
  (the slot is deleted, or passes to the first waiter, or is not this job's),
  `Notify` (one place told per step), `HandOver` (startJob for the waiter).
- `Stop(u)` is `--stop`, that is Cancel. A cancelled context lets RunEnd return
  "interrupted"; it need not, because the run may have ended before.

A prompt is the set of messages it is made of. `told` and `replied` record what
went out to the users.

### AskService and JobQueueRefinement

AskService has, for each scope, a line of users, the first of whom is being served, and for
each message what has become of it. Nothing in it knows of goroutines, contexts
or two phases of an answer. JobQueueRefinement reads the line off the slot
(`LineOf`) and the state of a message off the place where it is (`StateOf`).
`KeepsThePromise` says that every step of JobQueue is one of AskService
or changes nothing a user could notice. AskService allows text added during a
service to be dropped when the user leaves: the code does that, against what it
tells the user (see *Findings*).

### PollWatcher

`store` is the memory of StateStore and `disk` its file. `loop[l]` is a polling
loop with what pollOnce has in its local variables; `live` is the loop that
`Watcher.cancel` belongs to. One step is one call to the platform, one access of
the store, or one message handed over, because other loops, the user and
a crash can come in between. `Enable` and `Disable` are SetEnabled. `Check`,
`FetchNewest`, `ReadCursor`, `Baseline`, `FetchOlder`, `Dispatch`, `Record` and
`Advance` follow pollOnce, gather and dispatch; `FetchError` and `GiveUp` are
noteError. The messages are numbers in the order of the platform, so a page is an
interval. `base`, `skipped` and `torn` record which messages a baseline has covered,
which were given up because the cursor was too far back, and which a crash found
handed over and unrecorded.

Update in memory and Save are one step: nothing reads the file but a start,
so a crash between the two is a crash before both.

### SessionRun

A *generation* is what one Load makes: an Orchestrator with its own locks
(`free[g]`) and its own store (`store[g]`). Older generations go on in the jobs
that hold them. All share one Registry, so a call whose Orchestrator is
old may run a Backend that holds the newest store: `call[c].orch` and
`call[c].backend` differ. `Begin` resolves the directory before the lock, as the
code does; `Acquire` and `AbandonWait` are the two branches of the select in
`runlock.Acquire`; `Clear` is the override `clear=1` under the lock; `GetEntry`,
`CreateChat`, `Spawn`, `RunEnds`, `Record` are Run of claude or of cursor, chosen by
`Backend`; `Release` is the deferred release. `OpenStore` and `Load` are the two
points of Runtime.Load that others can notice: the store is read from the file, and
later the Orchestrator is replaced. `Crash` loses everything but the file, and the CLI's
own chats (`exists`, `log`).

`log[chat]` are the calls that have spoken in a chat, `since[s]` those that have
spoken in a session since its last clear, reset or move, `cleared` the chats that were
current at a clear.

### DshPool

`pool[k]` is the process of a pool key and `proc[p]` what dshProc keeps of one: `known`,
`inflight`, `pending`, `subs`, `dead`. `up` is whether the operating system still has it.
`run[r]` is one DSH.Run: it finds or starts a process (`Begin`, `SecondLook`, `Spawn`,
`Initialized`), waits for the turns it knows of (`WaitIdle`), subscribes and calls (`Call`, `Receive`,
with `Resumed`, `DirectorySet`, `Prompted`, `Refused` for what the answer means), and
collects events until its turn ends (`Collect`). Each wait has the outcomes of its select: an answer or
event, a dead process, the deadline or an interrupt.

The program behind the pipe is outside the repository. `HandleFrame` lets it answer any call it
has been given, begin, speak in and end the turns of a session one after the other, or lose
an event on a full subscription (`Cap`); the reader's half of
the same action is handleFrame of the code. It may exit (`Exit`) and owes nothing. A
session is named after the run that created it, which keeps the identities small.

### OpenAIChat

A call takes the run lock, reads the window (`LoadHistory`), uses, extends or remakes the
summary (`Summarize`), asks, perhaps several rounds (`UseTools`), and appends the question
and the answer in two steps (`AppendUser`, `AppendAssistant`). A turn is named by its call, and a summary is the sequence of the
turns it was made from: `SummaryFits` can compare it with the history it stands for. A call of
the GUI holds a copy of its session (`Send`) until `Reply` adds the two messages to the
stored one. `TwoDaysPass` moves the window's first day.

### UserMemory

A profile is a record of the parts that somebody relies on: opt-out, locks, the count of profiled
turns, whether LastSeen is set, a pending forget. AfterDispatch reads the profile, appends the turn and
writes the profile (`AfterDispatch`, `AppendTurn`, `TouchProfile`); a pump takes a job, waits for the
semaphore, reads, asks and writes (`Pop`, `Start`, `Read`, `Profiled` or `ProfileFails`).
The commands of users and of the control API read and write at once (`SetOptOut`, `AskToForget`, `Forget`,
`SetLock`, `ResetInferred`, `Delete`, `RunNow`). `Reload` stops the scheduler, loses its
queue, and leaves its running job be.

### Runtime

A client is named by the load that made it, because the loops of replaced clients are still
there: `loop[<<g, c, k>>]` is the k-th loop of the client of channel `c` of load `g`.
`SetEnabled` starts a loop or cancels the one that is live; `Top` to `Stale` are the loop with dial,
authentication, reading, silence and retry, which waits before `Top`; `GiveUp` and `Tell` are the two halves of giving up: the client
turns itself off and afterwards tells the runtime. `Put` and `AskReload` are the
requests, `Snapshot`, `Load` (or `LoadFails`) and `WriteBack` the three times that
SaveAndReload takes the mutex. `Boot` restores the switches from the file, and turns all of them
on when no client is. `Exit` may come without `Shutdown`: a crash.

`watchers` is PollWatchers. `SetupPollers` makes them anew at each load, for any part of the polled
groups, because the state file may not open and the CLI may not be found. `Recompute` is
recomputePollersLocked, which every switch and write-back ends with: of the watchers there are,
those with a channel that is not off are on. `WatcherGivesUp` is the end of noteError: the
watcher turns itself off, the runtime logs it, and switch and file stay as they are; what leads there
is in PollWatcher. `Shutdown` and `DisposeWatchers` are the two times that Runtime.Shutdown takes
the mutex. `quiet` records the watchers that were turned off in these two ways since the last `Recompute`.

## What the runs check

Each passing run asks everything of one module that its instance answers;
the type invariants are proved and have no run. `PROJECT.json` says for each run what it shows.

| run | properties | bounds |
|---|---|---|
| `intake_ways` | `AnsweredOnce`, `NobodyElseAnswers`, `MentionsAreAnswered` | 5 channels in 4 chats, 3 messages, each once per way, a filter of 2 keys, 1 switch, 2 loads |
| `jobqueue_safety` | `OneRunnerPerScope`, `OnePlacePerUser`, `StopReachesTheRunner`, `NothingQueuedIsLost`, `NoSecondAnswer`, `NoOvertaking`, `KeepsThePromise` | users a, b, c on one scope, a message each and a second one of b, stop by a |
| `jobqueue_liveness` | `EverybodyServed`, `SlotsDrain` | two messages of b, one without an openID, stop by either |
| `pollwatcher_watch` | `OneLiveLoop`, `NothingMissed`, `RepeatsAreTorn`, `EverythingHandled`, `CancelledLoopsEnd` | 4 messages (1 recall), page 1, 1 catch-up page, ring of 1, 1 toggle, 1 error that gives up, 1 crash |
| `session_claude` | `TokenConserved`, `OneProcessPerChat`, `ContextKept`, `ClearedIsOver` | 3 calls of a session, one clearing, all interruptible, 2 directories, 1 reload |
| `session_cursor` | `ContextKept`, `ResumeFindsChat`, `EveryCallEnds` | 2 calls of a session, 1 of a oneshot session, 1 crash |
| `dsh_shared` | `OwnAnswer`, `NoOrphan`, `KnownIsLive`, `NothingLeftBehind`, `EveryRunEnds` | 2 runs out of 3 on one key, of one chat or of two, 2 processes, 1 loss, 1 clear, 1 move, 1 nested turn, 5 events a subscription |
| `openai_compact` | `SummaryFits`, `TurnsPaired`, `SessionsOnlyGrow`, `EveryCallEnds` | 3 calls of a GUI session, window 3, summary from 3 turns or a long one, 1 kept, 1 round of tools, 1 interrupt, 1 gap of two days |
| `memory_profiles` | `OneJobPerUser`, `CountWithinTurns`, `CommandsHold`, `EveryTurnProfiled` | 2 answers of one of 2 users, 2 pumps, 1 reload, 1 command |
| `runtime_reload` | `OneLiveLoop`, `SwitchIsClient`, `SwitchesHold` | 1 WebSocket channel and 1 polled one, a configuration without the first, 2 requests, 2 switches or reloads asked for, 3 loads, 2 loops of a client, any number of watchers that give up or cannot be made |
| `jobqueue_merge`, `memory_optout` | violations: see *Findings* | |

Why these bounds are enough for the interesting cases:

- Three users let one run, one be next and one be behind it, which overtaking and
  renumbering need. A second message of a waiter, or of the runner, covers
  rejoining and merging. Scopes share nothing, so one scope suffices; with
  `job_queue: user` a scope has one user, which is a special case.
- With page 1 and one catch-up page two older messages put the cursor out of
  reach. Two loops let a cancelled loop and a live one meet; a third would again be
  a cancelled one. The ring has fewer entries than there are messages, so that it
  forgets some.
- Three calls of a session let one hold the lock and two wait; with one reload there are
  two generations, and a call of the old Orchestrator can use the new store. Three
  calls of the openai backend let the window of three turns move past what was summarised.
- Two runs let one abandon a turn that the next meets, share a process with a stranger, or both start one;
  the second process is the one that replaces a lost one. Five events fill a subscription
  with a nested turn just not.
- Two pumps let a job wait for the semaphore while another runs, and the job of a
  replaced scheduler run beside the new one's. The same user twice is what could go wrong; a second user
  lets commands and reloads fall on somebody else.
- Three loads let a client of the first still be there when the third is made. Two requests let
  two reloads overlap. A channel that disappears and comes back is in the two configurations.
- One channel is on two ways, a robot has channels in three chats, in one of them without an ID so that only
  its name is compared, and two channels share a polled group: the cases in which a message could be answered
  twice, elsewhere, or not at all. A filter of two keys must forget with three messages.

Symmetry is used only in runs without temporal properties, on model values that are only compared:
the two messages of b, the two calls that do not clear, the two requests that reload.
Deadlock is not checked: each model stops when its messages, calls or loads are used up.

### Fairness

Each goroutine, loop, run and call is weakly fair (`WF` of its whole step). The Go
scheduler runs what can run; MessageList and the HTTP calls have timeouts; a
CLI run is killed at its timeout; a channel hands its token to waiters in turn, so with
finitely many calls weak fairness suffices. Nobody has to write, stop, toggle or reload. Where more or less is assumed:

- SessionRun: that the output pipe of a killed CLI closes (`claude.go:165` waits for it)
  and that `create-chat` answers (`cursor.go:33` gives it no timeout). Both are listed
  as hazards.
- DshPool: nothing at all of the process. Its answers, events and exits need not come; a run's
  own deadlines carry `EveryRunEnds`, together with the reader's return once the process is gone.
- UserMemory: the profiler may fail, but not for ever (`SF_vars(Profiled(p))`): the model
  behind it answers now and then. The idle scan comes back, being a ticker.
- Runtime and PollWatcher's user: nothing; a switch, a reload and a restart are never owed.

## Findings

Two runs expect a violation; TLC's counterexample is the scenario.

- `jobqueue_merge`: text merged after the last DrainExtra of a job is erased by Finish
  although its author was told it would be handled.
- `memory_optout`: the profiler and AfterDispatch write back the profile they read
  before; `/memory off` in between is undone although its author was told that it is off.

More counterexamples have a configuration here and no run in the list; `tlc -config
<file> MC<module>` shows each:

| configuration | property | what happens |
|---|---|---|
| `JobQueue_places.cfg` | `ToldTheTruth` | "you are number N" is sent outside the mutex and can follow the notice of a better place |
| `JobQueue_serialized.cfg` | `ChannelSerialized` | the job of a sender without an openID leaves the slot idle, and a second job runs in the same channel |
| `PollWatcher_once.cfg` | `HandledOnce` | the cursor is written after the dispatch, so a crash in between repeats a message; the plan in `src/docs` has it the other way round |
| `SessionRun_bareclear.cfg` | `ClearedIsOver` | `--clear` on its own clears nothing |
| `SessionRun_workspace.cfg` | `WorkspaceFollowsConfig` | the directory of the first claude run shadows the configured workspace for good |
| `DshPool_residue.cfg` | `NoResidue` | a run stopped before its turn has started leaves a turn nobody knows of; the next run takes its text |
| `Runtime_restart.cfg` | `RestartKeepsOff` | the start turns everything on when no client is on, so what was off, or had given up, connects again (`src/README.md:142`, `runtime.go:157`) |
| `OpenAIChat_clear.cfg` | `ClearForgets` | `--clear` empties the summary and leaves the conversation file, so the window still has what was said (`src/docs/chat-test.md:41`) |
| `Intake_labels.cfg` | `MentionsAreAnswered` | channels that share a polled group are silent when `yzj_group_name` is not their group, although it is said to be for display only (`src/README.md:130`) |

Seen while modelling, not stated as properties because no document promises otherwise:

- A baseline stored by a cancelled loop wipes the ring of the new one, so a crash can
  repeat a recorded message.
- A reload lets a call clear the old store and resume from the new one; claude records the
  ID of a chat its CLI never made (so `ResumeFindsChat` holds for cursor only), and
  a crash during the first claude run of a session loses its chat (so the crash run is made for cursor).
- Each load has a duplicate filter of its own, and above its limit the filter drops half of
  its keys in map order, perhaps the one it has just added.
- A robot without `yzj_bot_open_id` that has channels in two chats answers in both, and so does one with it
  when the message carries no ID; an @-word
  with punctuation glued to it names nobody and makes the message nobody's; of two
  commands next to each other the second is taken for text, because the pattern
  takes the space between them.
- Webhook requests are handled by goroutines in any order, so a `--stop` can be handled before
  the message it was to stop.
- A save that asks not to keep the switches leaves clients off whose switch says on. A
  replaced client that gives up turns off the channel of the client that replaced it.
- A client that gives up is switched off, in the file too (`runtime.go:157`); a watcher that gives up is not
  (`yzjcli.go:136`): its switch says on while nobody polls, and any other switch, reload or client that gives
  up turns it on again. Nor is a channel switched off when its group has no watcher because the poll
  state did not open or the CLI was not found (`yzjcli.go:107`, `yzjcli.go:120`).
- A switch made between the two halves of Shutdown says on while the watchers are disposed of.
- An openai run whose last round of tools is followed by an empty answer is not asked again for a text.

## What is proved

All theorems hold for every value of the constants that satisfies the module's
named assumption. The modules with theorems are checked by `tlapm`.

| theorem | says | under |
|---|---|---|
| `IntakeProofs!AnswerOnce` | `AnsweredOnce` | |
| `NobodyElse` | `NobodyElseAnswers` | an ID is that of the robot in its chat (`IdsAreTheirs`) |
| `Mentions` | `MentionsAreAnswered` | `LabelsAgree` |
| `JobQueueProofs!TypeCorrect` | `TypeOK` | |
| `OneRunner`, `Serialized`, `OnePlace`, `StopReaches` | `OneRunnerPerScope`, `ChannelSerialized`, `OnePlacePerUser`, `StopReachesTheRunner` | every sender has an openID (`AllNamed`) |
| `NothingLost`, `NoneTwice`, `NobodyOvertakes` | `NothingQueuedIsLost`, `NoSecondAnswer`, `NoOvertaking` | `AllNamed` |
| `PromiseKept` | `KeepsThePromise`: JobQueue implements AskService | `AllNamed` |
| `PollWatcherProofs!TypeCorrect` | `TypeOK` | |
| `OneLive` | `OneLiveLoop` | |
| `CursorSafe` | `NothingMissed` | |
| `SecondTimeTorn` | `RepeatsAreTorn` | |
| `SessionRunProofs!TypeCorrect` | `TypeOK` | |
| `TokenSafe` | `TokenConserved` | |
| `OneProcess` | `OneProcessPerChat` | |
| `ContextStays` | `ContextKept` | cursor, or no crash so far |
| `ClearedStays` | `ClearedIsOver` | no `--clear` without a prompt (`Bare \cap Keyed = {}`) |
| `ResumeFinds` | `ResumeFindsChat` | cursor |
| `DshPoolProofs!TypeCorrect` | `TypeOK` | |
| `LeftBehind` | `NothingLeftBehind` | |
| `NoneLost` | `NoOrphan` | |
| `KnownLive` | `KnownIsLive` | |
| `OwnReply` | `OwnAnswer` | a subscription holds 7 events or more (`Cap >= 7`) |
| `OpenAIChatProofs!Paired` | `TurnsPaired` | |
| `OnlyGrow` | `SessionsOnlyGrow` | |
| `RequestsFit` | `SummaryFits` | |
| `UserMemoryProofs!TypeCorrect` | `TypeOK` | |
| `OneJob` | `OneJobPerUser` | |
| `CountStays` | `CountWithinTurns` | |
| `CommandsStay` | `CommandsHold` | |
| `RuntimeProofs!TypeCorrect` | `TypeOK` | |
| `OneLoop` | `OneLiveLoop` | |
| `SwitchShown` | `SwitchIsClient` | |
| `SwitchesStay` | `SwitchesHold` | |

**Intake.** Between AlreadySeen and the answer a goroutine holds a message whose key is
already remembered. `Once` says of everyone in that place, and of every answer, that its key has
been `Met`: it is remembered or was dropped; and that two of them with one key in one
load mean that the key was dropped. With the types this is inductive, and a repeated
answer is then the meeting of one of them with an earlier answer.

`NobodyElseAnswers` follows from the way a message took: `WayInv` says what each goroutine can
have in hand (`Fits`: a watcher the messages of its own group, a reader what was pushed to its
WebSocket) and that every answer has passed the filters of its way (`Grounded`). What is left
to assume is about the configuration: `IdsAreTheirs` says that the `yzj_bot_open_id` of a WebSocket channel
is that of the robot in the channel's chat, which `src/README.md:133` asks for. It says nothing of names, of
messages without an ID, or of polled messages: for these the property itself says who may answer, and that
is shown from the filters (`FilteredIsTheirs`, `TriggerSpeaks`). For
`MentionsAreAnswered` a key in the filter is one whose message is being answered or has been
(`Taken`), and a message that a channel owes an answer is `Taken` or still `Waiting` for it at a
watcher; so a target that takes the message, is refused by the filter or answers leaves the later
ones theirs. `LabelsAgree` is the comparison of samePollGroupLabel itself: without
it a channel whose configured group name differs is passed over (`Intake_labels.cfg`). Both hypotheses
hold in the instances.

**Job queue.** `OneRunnerPerScope` speaks of the goroutines that *hold* a scope:
those between a TryAccept that accepted and the start of its job, in the loop of runJob, or being
handed over. It is not inductive alone: that the next job does not run already
needs that a queue item stands for a message that has not begun (`QueueItems`),
that no two jobs hand over the same one (`HandOvers`), and that only an accepted
or queued message has a job (`BegunJobs`, `AckedDecided`). That a stop cancels the
runner's context, and not an old one, needs that only contexts of jobs that have
held a slot are cancelled (`CancelledContexts`). Together with the types these are `SlotInv`. The
assumption `AllNamed` cannot be dropped: `JobQueue_serialized.cfg` is the counterexample.

`PlaceInv` adds where the text of a message can be: prompts, queue items and the extra text
hold messages of their own scope, in the state their authors were told of (`Prompts`,
`QueuedTexts`, `ExtraTexts`), and what has a reply has been settled. Then each step moves a message from one
place to the next, and `NothingQueuedIsLost` and `NoSecondAnswer` are inductive with it.
`NoOvertaking` is a property of steps: under `PlaceInv` every step leaves the line of a scope,
appends to it, removes one of it or takes its head.

The refinement is proved as AskService has it. The initial states map to one, and of each action
it is shown what it does to `lineBar` and `stateBar`: TryAccept is an Ask or an addition, Finish and the
hand-over after it are one step of the line, everything in between stutters. `StateOf` reads the state of a
message off its place, so the proof rests on `PlaceInv`: a message is in one place at a time.

**Poll watcher.** `NothingMissed` says that every message up to the cursor has been
dealt with (`Done`). `CursorInv` adds what each loop knows at each point of a
poll (`Knows`): one that dispatches has dealt with everything before the next
message, one that is about to advance with everything up to the newest. Nothing
that is done is ever undone (`DoneGrows`), so one loop cannot spoil what another one
knows; that is why a stale loop, moving the cursor back, does no harm to it.
`OneLiveLoop` is inductive with the fact that a live loop is one that is not
cancelled.

`RepeatsAreTorn` is about the time before the first toggle. Then one loop is at work, and
`RepeatInv` says that a message which has been handled is behind the cursor, or the next that
this loop records, or `torn`; and that everything the loop has ahead of it has not been handled
(`Ahead`). A crash between OnMessage and Update moves the message from the second case to the third.
After a toggle two loops can meet, and the ring of handled messages may have forgotten the one that
both bring.

**Sessions.** `SessionInv` is the types, `CallsAreAlive` (a call under way belongs to
this process), `ChatsStayHome` (sessions never share a chat) and `TokensInPlace`
(the token's invariant also for generations to come). Two processes in one chat are in
one session, so in one generation they would both hold its token.

`ChatInv` adds where chats can be. The chat of a call that has not created it is nowhere
(`FreshNowhere`), so a new one is in nobody's log and was never cleared. Until the first Load ends
there is one generation and its store is the file (`OneGeneration`). Everyone who has spoken since the last
clear is in the chat of the store entry, or the call that is to record that chat is on its way there
(`Placed`, `Follows`); it holds the token, so nobody can come between. claude records a chat only after the
run, and a crash in between costs it the chat: hence the condition of `ContextStays`. cursor
records before the run and needs none. `--clear` without a prompt
is answered but clears nothing: hence the condition of `ClearedStays`, for which `SessionRun_bareclear.cfg` is the counterexample.

**DSH pool.** `IInv` is the types the proofs need (`Typed`), `Keyed`, and the two
properties `NothingLeftBehind` and `NoOrphan` themselves. `Keyed` says that the pool has
processes under their own key, that a process marked dead has exited, and that the run
which initializes a process is the one that holds dshSpawnMu, for a key that has no live
process: so the process it puts into the pool takes the place of a dead one only.
Most steps are one of two kinds, and the proof shows each of them once: a run
that changes itself and its process (`Serves`), and a change of processes under which no run
moves (`Tends`). `KnownIsLive` needs besides that a call still to be answered is the one its run waits
for, unless that run is over (`Outstanding`), and that a run with an answer, or
with a prompt on its way, has a session its process holds (`Answered`).

`OwnAnswer` needs what a subscription, the events a session still owes and its mark in flight
say together of how far a turn has got, and that is `TurnInv`. Events are counted from the
end of the turn, because what is left of a turn is always an end of it: with `k` after it an event is
a `KindAt`, and with `k` to come the session is `Marked`. A session in which nobody has a turn is
`Resting`: if it is in flight, it owes the rest of some abandoned turn, and otherwise
two events at most, no start among them (the text and end that follow the end of a nested
turn). The reader goes on marking while nobody subscribes, and each of its events
takes one such state to another. Hence a run that has waited for the mark to go has no start to expect but its own
(`ReadyRun`), and once the prompt is taken the subscription and the session owe together what
is left before the turn and the turn itself (`OwnTurn`); collectReply drops the former, as it
looks for a start first. This is said of sessions in which no run has left a turn unseen
(`Clean`), and such a session stays unclean, for a call that is taken after its run has gone leaves one
(`Stale`). The steps come in three kinds again: one run acts (`Acts`), only processes change or answer
(`Shifts`), and the two in which a turn moves, the accepted prompt and the event, are on their own.

`TypeOK` of the pool is the least of it, but for the depth that collectReply counts down: it never goes
below zero, because it is above zero as long as the turn has started and is not over (`Deep`).

The hypothesis `Cap >= 7` says that two events and the longest turn of the model fit into a subscription,
which has 512 places in the code. It is not idle: with turns of five events after one another
and `Cap = 5` TLC finds a reply that is called complete although its text was dropped
(dshpool.go:272 drops, and dsh.go takes the end that comes later). At 6, only an end
can be dropped, and the reply waits for its deadline. `dsh_shared` has 5, so that the events of a turn nobody knew
of overflow a subscription there, and no nested turn comes after an abandoned one.

**Conversations.** A question and its answer are appended in two steps. That nothing comes
between them needs that a call between Acquire and Release has the lock of its key
(`Locked`), so that nobody else of the key is there, and that the call about to append an answer has
appended the last question (`Asked`). A GUI session is only replaced by one that it is a
prefix of, whatever copies are held, because Reply looks at the stored one.

`SummaryFits` holds because a summary is only used for the prefix it is stored under: `StoredIsPrefix` says
that the text stored for a hash was made of exactly the turns that were hashed, although it may have
been extended from an earlier summary, and `Splitting` that a call about to summarize has split the
history where Prefix ends. The history is what was said, without empty turns; it is written as a function
(`Said`) because the library knows nothing of `SelectSeq`.

**User memory.** `OneJobPerUser` needs that the user of a job is in flight in the
scheduler that runs it (`Jobs`), which is what Enqueue and pump look at. The other two follow from `Copies`:
whoever holds a copy of the profile of a user whose copies no command has
crossed holds what the last command made of it, and a count that the turns on disk reach even
with the turns the profiler is about to add. Turns only grow but by a command, so a copy stays good; a
command that meets a copy is exactly what `torn` records, and `memory_optout` shows
that the exception cannot be dropped.

**Runtime.** A live loop belongs to a client that is on, and a client has one at
most (`Connected`); after an exit nothing is left (`Alive`). Then `Shown` is inductive: nothing is at work
that is off (`NothingOff`), in every state; and what is not off is at work or has given up (`InForce`),
unless a reload has yet to write back or a save asked not to. `WatcherGivesUp` moves a group from `watching`
to `quiet`, `Recompute` moves it back whatever it was called for, and a group that `SetupPollers` leaves out
is in neither; without these two exceptions TLC refutes the property in two and three states. That a switch
holds through a reload needs that the snapshot of a reload
under way already has it (`Held`), which is true of a switch made before, and which
a switch made during the reload breaks: those channels are in `torn`.

Only model-checked is liveness, which is beyond the prover (`EverybodyServed`, `SlotsDrain`,
`EverythingHandled`, `CancelledLoopsEnd`, `EveryCallEnds`, `EveryRunEnds`, `EveryTurnProfiled`). Every
invariant and every other action property of a run is proved, under the hypotheses above;
of the types of the conversations and the intake only what the proofs need is proved. No module contains a RECURSIVE operator.

## What is not modelled

`PROJECT.json` lists every component with its reason. In short: conversions
(message formats, configuration files, redaction), I/O (HTTP streaming, downloads,
installer, discovery of programs, GUI), and texts (memory appendix, prompts, formatted
replies) have no state that could go wrong in an order nobody tested. The skill store is used by one caller
at a time. Left out inside the modelled parts: waiting and backoff times, names and texts
kept for display, the session ID in a CLI's events (it is taken to be that of the chat the CLI was told to
resume, while `cursor.go:193` would store another one), the sum of short texts that reaches
`openai_compact_after_runes` together (a text is long by itself or not at all), the download of attachments, the store's history list, the tools of an openai round, and
the two StateStores that a reload may leave over one file: the old loop's store is in
PollWatcher only within one load.

What would come next: a module that joins PollWatcher and Runtime over the shared state file.
