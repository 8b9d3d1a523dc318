# 39claw in TLA+

39claw is a Discord bot, written in Go, that puts Codex conversations behind Discord mentions and slash
commands. A bot instance runs in one of two modes. In *journal* mode everybody shares one conversation per
local day, which `clear` can restart; in *thread* mode every user works on named tasks, each with a Git
worktree and a Codex thread of its own. Scheduled tasks run Codex turns at set times. State that must outlive
the process is in SQLite; queues, running turns and live replies are in memory.

This directory holds the TLA+ model of that program, the TLC configurations that check it, and the TLAPS
proofs about it. Paths below are relative to the repository's root, which the JSON file calls `src/`.

## The system's parts

| part | code | state it keeps | operations | depends on |
|---|---|---|---|---|
| queue coordinator | `internal/thread/queue.go` | `entries`: per execution key a running flag and at most five waiting closures | `Admit`, `Complete`, `DropQueued`, `Snapshot`, each under one mutex | – |
| message service | `internal/app/message_service_impl.go` | in-flight registry (`stopMu`), `queueWG` | `HandleMessage`, `StopCurrent`, `WaitForDrain`; drain goroutines | coordinator, policy, store, gateway, task workspaces, memory bridge |
| thread policy | `internal/thread/policy.go` | – | a message's logical key: the local date, or user and task | store |
| journal sessions | `internal/app/daily_sessions.go`, `daily_command_service.go`, `internal/store/sqlite/daily_sessions.go` | `daily_sessions`: generations of a day, one of them active | resolve-or-create, rotate, `clear` | store, coordinator (snapshot only) |
| journal memory bridge | `internal/dailymemory` | Markdown files in the workdir | one extra Codex turn on the previous generation's thread before the first turn of a new one | store, gateway |
| task commands | `internal/app/task_service.go`, `task_override.go` | `tasks`, `active_tasks`, `thread_bindings` | create, list, switch, close, reset-context | store, workspaces, coordinator (snapshot only) |
| task names, branches | `internal/app/task_name.go`, `task_branch.go` | – | validation of slugs, branch names | – |
| task workspaces | `internal/app/task_workspace.go` | managed bare repository, worktrees, status columns of a task | `EnsureReady`, `PruneClosed`, temporary worktrees, one mutex | git, store |
| SQLite store | `internal/store/sqlite/store.go`, `db.go` | the database; one connection | reads and writes, a few transactions | – |
| migrations | `internal/store/sqlite/migrate.go`, `migrations/` | `schema_migrations` | apply in order, bootstrap of old databases | – |
| scheduled tasks | `internal/app/scheduled_task_service.go` | `scheduled_tasks`, runs, deliveries; running set | tick, admit, execute, retry, deliver, execute-now | store, gateway, workspaces, runtime |
| schedules | `internal/app/scheduled_schedule.go` | – | next occurrence of a cron or one-shot schedule | cron library |
| MCP server | `internal/scheduled` | – | tools that create, edit, toggle, delete and run scheduled tasks | store, scheduled tasks |
| Codex gateway | `internal/codex` | one child process per turn | `RunTurn`: stream of events, a thread id, a text | Codex CLI |
| Discord runtime | `internal/runtime/discord/runtime.go`, `commands.go`, `attachments.go`, `message_mapper.go`, `interaction_mapper.go` | session, `closing`, `workers` | event handlers, `Start`, `Close`, deferred sends, reports | Discord library, message service, commands |
| live replies, chunker | `internal/runtime/discord/live_message.go`, `presenter.go`, `chunker.go` | what a reply shows at present | edit, append, delete so that the chunks show the text | Discord library |
| config, logging, main | `internal/config`, `internal/observe`, `cmd/39claw` | – | wiring, order of start and shutdown | all |
| codexplay | `cmd/codexplay` | – | a developer's tool, not part of the bot | gateway |

How they interact. A Discord event starts a handler goroutine. The handler counts itself in `workers`, asks
the message service to handle the message and presents the response. The service resolves the conversation,
asks the coordinator for the key, and either runs the Codex turn on the handler's goroutine or leaves a pair
of closures in the waiting list. Whoever completes a turn takes the next closure out of the list; a handler
starts a *drain goroutine*, counted in `queueWG`, for it, and a drain goroutine carries on itself until the
list is empty. `/stop` empties the list (the dropped closures clean up after themselves) and then cancels the
registered turn. `Close` refuses new events, waits five seconds for both wait groups in turn, cancels the
lifecycle context every turn runs under, waits one more second and closes the session. Slash commands, MCP
tools and the scheduler work on the same SQLite tables without going through the coordinator; all they look
at is a snapshot of it.

What is hard about it: goroutines of many messages, of `/stop`, of the drain and of the shutdown meet at four
places (coordinator, registry, wait groups, lifecycle context) which are locked one by one; ownership of a
slot, of a waiting message and of a message's temporary images moves between goroutines; most commands check
something and act on it later; whole rows are read, changed and written back; and a process can stop between
any two writes of a scheduled run. `PROJECT.json` lists each of these hazards at its line, with the properties
that watch it, or the reason why none does.

## Modules

| module | models | state and actions |
|---|---|---|
| `QueueCoordinator` | `queue.go` | `entries`, a map with the keys that have an entry; one action per return path of `Admit`, `Complete`, `DropQueued`, and `Busy` for `Snapshot` |
| `MessageService` | `message_service_impl.go` on the coordinator | per message a program counter and what its goroutine carries; the registry, bindings, `queueWG`, the lifecycle context; `/stop` commands |
| `RuntimeLifecycle` | `runtime.go` around the service | a handler per event, `workers`, `open`, `closing`, and the phases of `Close` |
| `JournalSessions` | `daily_sessions.go` (app and store), `daily_command_service.go`, `dailymemory/service.go` around the service | the rows of `daily_sessions`, the local date, lookups under way, clear commands, where each message's memory refresh stands |
| `TaskWorktrees` | `task_workspace.go`, the tables `tasks` and `active_tasks`, around the service | the rows, the worktrees Git knows, the lock of the managed repository, the copy of a row each message holds, what a pruning still has to remove |
| `TaskLifecycle` | `task_service.go`, `policy.go` (thread mode) on top of it | task commands call by call; the resolution of a message to its task; the service's steps, with the set-up and the touch in their places |
| `SerialExecutor` | the contract of `ARCHITECTURE.md` 6.5 and 8.1 | who is served, who stands in line, who is over |
| `ScheduledTables` | the tables `scheduled_tasks`, `scheduled_task_runs`, `scheduled_task_deliveries`, and `scheduled_schedule.go` | rows by key; one operator per statement, with its keys and cascades |
| `ScheduledTasks` | `scheduled_task_service.go` | the tick of the loop, the execution of each run, the contexts that are live |
| `ScheduledProcess` | `mcp_server.go`, `cmd/39claw/main.go` around it | the phases of the process, tool calls with what they have read, crashes and restarts |
| `Chunker` | `chunker.go` | the loop of `chunkText` over a text's lines: its state, one turn of it (`Place`), and what a run of it is (`Loop`) |
| `LiveReply` | `live_message.go`, `presenter.go` | the messages in the channel, what the presenter believes of them, the calls of one update |
| `CodexTurn` | `gateway.go`, `thread.go`, `exec.go`, with the child process | the goroutine of `RunTurn`, the one that reads, the process and its output |
| `LiveTurn` | an immediate message's handler around both | from "Thinking..." to the reply |
| `MessageServiceProofs`, `MessageTurnProofs`, `RuntimeProofs`, `JournalProofs`, `TaskProofs`, `TaskTurnProofs`, `ScheduledProofs`, `LiveProofs` | – | theorems |
| `MCMessageService`, `MCRuntimeLifecycle`, `MCJournalSessions`, `MCTaskLifecycle`, `MCScheduledProcess`, `MCLiveTurn` | – | what TLC needs: symmetry, views, stored rows, texts |

`MessageService` extends `QueueCoordinator`; `RuntimeLifecycle`, `JournalSessions` and `TaskWorktrees` extend
`MessageService`, independently of each other: an action of the outer module conjoins actions of the inner one
with what the outer code adds. `TaskLifecycle` extends `TaskWorktrees`. The scheduled modules are a system of
their own, and so are `CodexTurn`, `LiveReply` and `LiveTurn`, which look into the turn that is one step of
`MessageService`. Closures are not modelled as such; a pair `run`/`onDrop` is known by the message it was made
for.

**Steps.** One action is the code between two accesses to state another goroutine can touch. The states of a
message name where its goroutine (or, when queued, its closure) stands:

    new -> prepared -> claimed -> registered -> ready -> turn -> turned -> returned
                    \-> waiting -^ (popped)                                   |
                    \-> responding (queue full, or not admitted)               v
         done <- responding <- completing <- (delivering, sending: queued only)
    dropped: emptied out of the list by /stop

From `claimed` to `completing` the message *holds the slot* of its key; from `registered` to `returned` it is
entered in `inFlight`. An immediate message passes `responding` after it released the slot, as the handler
presents the response only when `HandleMessage` has returned; a queued one delivers first and completes then.
The acknowledgement "queued at position n" is presented concurrently with all of this.

**Cancellation.** A turn's context is cancelled by `/stop` (`stopped[m]`, immediately) or because the lifecycle
context is (`canceled`, forwarded by a goroutine of the context package, so the turn may see it late). Hence
`MayBeCanceled`, which allows a step to fail, and `MayProceed`, which only a stop forbids.

**The journal.** `JournalSessions` instantiates the service's keys with pairs of a day and a generation, sets
the mode to journal, and fills in three of the service's choices. `PrepareMessage` becomes
`ResolveActiveDailySession`: one step when the date has an active session (`ResolveActive`), three when it has
none (`ResolveNone`, `ResolvePrevious`, `ResolveCreate`), with anything in between. The setup of a turn
becomes the refresh, and a `/stop` resolves its key from the table before it acts. `Clear` is the same lookup,
the coordinator's snapshot (`ClearRejected`, `ClearGoesAhead`) and the rotation, as separate steps; each of the
two transactions of the store is one step, since the database has one connection. `refresh[m]` says where the
memory refresh of a registered message stands: `none`, `wanted` (nothing is bound to the generation and it has
a predecessor), `running` (a turn on the predecessor's thread), `over`. Its errors are only logged, so every
way of not refreshing leads to `over`. Messages and commands carry a date that is today's or an earlier one, as
they may be handled after the midnight that follows their timestamp. `outside`, `ended` and `cut` of a clear
are history variables that only properties read.

**Tasks.** The keys of the service are the ids of tasks. `ResolveTask` gives a message the task it names, or the
one selected when `GetActiveTask` looked. The turn's set-up becomes `LoadTask`, the test for a ready row, the
lock of the managed repository, `git worktree add`, and the row written back; after the binding was saved
come the two steps of `touchTaskLastUsed`. Commands are sequences of store calls: *create* lists the names,
inserts, selects; *switch* lists and selects; *close* is one transaction, followed by `PruneClosed`, which
lists what is surplus, waits for the repository's lock and removes worktree by worktree; *reset-context* loads
the selected task, looks at the coordinator, deletes the binding. A failure may end each of them after any
step. Rows are written back whole, as they were read, which is what the module is about: `row[m]` and
`doomed[c]` are the copies in hand. `overtaken` is a history variable: the messages under way on a task when it
was closed, with the step they were at. There is one user, whose selected task is `active`. Whether a branch
exists already is not modelled, only whether it is checked out in another worktree (`BranchTaken`).

**Scheduled tasks.** Time is a small count that passes at any moment; a schedule is the set of its times. A tick
reads the enabled rows, and for each the latest run, computes the latest due time after the anchor, admits a
run and starts its execution; between any two of these calls the process may crash, a tool call may change the
row, or the store may fail. An execution marks its run as running, has its turn (with its temporary worktree,
one step), records the outcome, retries once, opens a delivery, posts, and closes it. A report is posted message
by message, so that a post with an error (`PostReportFails`) leaves nothing in the channel, a part of the report or
all of it: `shown` has the runs of whose report anything may be there, `sent` those whose report went out whole
and was acknowledged. What survives a crash is `defs`, `runs`, `deliveries`; what does not is reset by `Vanish`.
`begun`, `broke`, `shown`, `sent` and the `stale` and `sound` of a tick are history variables.

**The live turn.** `CodexTurn` has the two goroutines of a turn and the child between them: `Write` and
`Exit` are the child's, `Kill` is the context's. An event that tells of a failure, `turn.failed` or `error`, may come
without saying which; `failure` holds what the last of each type said, and `Return` asks whether one said anything,
as `RunTurn` does. A text is the sequence of its lines, measured in bytes like everything in `chunkText`: a line
is its size, the places of its blanks, of the bytes inside a character and of each "```", and the size of the
fence it is, if it is one (without the white space around it, as the fence is repeated). So a cut may fall inside a
character, as it does in the code. `Loop(states, text)` says that `states` are the states of the loop over `text` one
after the other, to the end, and `Going` that they are its states for as long as it takes; the constant `Loops`
gives them for each text of an instance, `LoopsAssumption` checks them against `Place`, and `ChunksAssumption`
the `ChunksOf` that the actions use against the last of them. Trimming of white space around chunks is left
out. The presenter's calls to Discord take effect and succeed, fail, or take effect and fail all the same.

**Choices.** Which key a message resolves to, whether the store, the setup, the turn or a send fails, and what
Codex does, are nondeterministic. The texts of messages and replies are reduced to what kind of reply it is.

**Defects.** An operator marked `DEFECT` is not part of any specification. It is an action with a plausible
bug (a dropped guard, a missing `Done`, a forgotten flag) which, put in place of the action, makes a property
fail: that is how each property is known to depend on the code.

## Runs

| run | instance | question | answer |
|---|---|---|---|
| `message_service` | 3 messages, 2 keys, 1 may wait, 1 stop, journal mode | is a conversation served exclusively and in order, do slots, registrations, images and Codex threads of two conversations stay apart, is every message answered, through stops and shutdown? | yes |
| `message_progress` | 2 messages, fair goroutines and turns that end | is every message settled, and is the executor implemented with its liveness? | yes |
| `message_stop_race` | 2 messages | does `/stop` cancel the run of whoever has the conversation? | no, see below |
| `runtime_close` | 2 messages, `Close`, no assumption on Codex | does `Close` return, does a forced shutdown end the messages, and has one that was not forced lost nothing? | yes |
| `journal_generations` | 2 messages, 2 clears, 1 day of 3 generations | one active generation, each bridging from the one before, messages resolved to the active one, nothing accepted cut off by clear? | yes |
| `journal_days` | 3 messages, 2 days of 1 generation | does the refresh come before the generation's conversation, and keep its thread out of it? | yes |
| `journal_stop` | 2 messages, 1 stop, 2 days, fair goroutines | does a stopped message end also when its refresh hangs? | yes |
| `journal_clear_race` | 1 message, 1 clear, 1 day of 2 generations | does clear only end idle generations? | no, see below |
| `journal_midnight` | as `journal_days` | is there one turn at a time on a Codex thread? | no, see below |
| `task_lifecycle` | 2 messages, 2 commands, 2 stored open tasks of 4 ids, 3 names, 1 worktree retained | what do closing, pruning, resetting and creating do to turns of the same task under way? | only what late rows and overlaps explain |
| `scheduled` | 1 task id, 1 edit, 1 execute-now, 2 starts, 1 fault, time 0 to 2 | is what is admitted due, nothing due forgotten, no attempt repeated, each report recorded, and `Close` right about what runs? | yes |
| `live_turn` | 2 lines of output, 2 faults, texts of 1 to 3 chunks, chunks of 11 bytes | does the reply show the answer, and does a canceled turn end? | yes |

**Bounds.** `MaxWaiting` is 5 in the code, 2 in `journal_days` and 1 elsewhere. With three messages one
runs, one waits and one meets a full list when the bound is 1; the order within a longer list is left to the
proof. Two keys are enough for one to disturb another, since no operation touches more than one. One stop
can be pending in the middle (list emptied, turn not yet cancelled) while every message takes every step; a
second one repeats it on what the first left. Messages arrive at any moment. In the liveness runs two
messages suffice for a turn with one behind it, and symmetry is not used there. Symmetric are messages and
keys, which no definition tells apart; in the journal runs only messages and clears, keys being pairs.
`LastDay` and `MaxGeneration` bound the journal: at `MaxGeneration` a rotation can only fail. Two days have
one midnight between them, and two clears meet three generations; a clear concerns the generations of its
own day, so the run about clears has one day, and that a day's first generation bridges from an earlier day
is left to the proof.

*Tasks.* Two messages on one task have one hold its row while the other, or a command, writes it; two commands
close two tasks, so that one is surplus when one worktree is retained, and their prunings overlap; two
creations overlap, and a name can be reused (three names for four ids). The tasks stored have their worktrees,
those created are pending. A third command would repeat a race on what two left. The run's `VIEW` leaves out
what no guard and no property of it reads: replies, the thread of a binding, a row that will not be written
any more, and the past of a message or a command that is over.

*Scheduled.* Times 0, 1 and 2 give a daily, an hourly and a one-shot task an occurrence before, at and after any
event. One edit, one execute-now and one fault are each placed at every point; two starts have one restart
between them, on whatever rows the first life left; a failed post, a refused write and a crash are one fault
each. With one task a tick has one row to look at, and the only
thing tasks share is the clock. The `VIEW` drops the statuses of runs and deliveries that no execution can
write any more, keeping whether `ReportsAreRecorded` holds of them.

*Live turn.* Two lines of output are a thread and a message, or two messages of which only the last is the
answer, or an answer and a failure that says what it was or does not. The texts have one and three chunks: one is
cut at a blank and then inside a character; one is a block of code of which the first chunk exceeds the limit by
its closing fence, and whose last line, a padded fence, is itself cut; one is blank. Two faults can hit the
update of a reply and the one that repairs it. `Limit` is 2000 in the code and 11 here, with lengths that keep
the same proportion to it.

Liveness holds for the small instances only. The safety properties that are theorems hold for any number of
messages, keys, stops, tasks, commands, calls and any bound.

**Fairness.** Goroutines are scheduled, calls to the store and to Discord return, a killed Codex process ends,
timers fire: weak fairness of each message's steps (the end of a refresh turn that nobody cancels excepted),
the second half of a stop, and `Close` once it was called. Nobody has to send a message, stop one or shut
down. The code sets no limit on the duration of a Codex turn, so `FairSpec`, `RtFairSpec` and `JFairSpec`
assume nothing of a turn that nobody cancels; `FairTurnsSpec` adds, as an assumption about the environment and
for `message_progress` alone, that turns end. `LiveSpec` has the handler's goroutine, the updates of the reply
and the reading goroutine proceed and the context kill the process; a process that is not killed may write
nothing and stay for ever, and nobody has to cancel.

Deadlock is checked in every run but `scheduled`, which may stop anywhere at its last fault, boot and second.
`Quiet`, `Terminated`, `JTerminated` and `TaskQuiet` are the stuttering of a system that has finished, and are
enabled only there.

### The stop that misses

`ARCHITECTURE.md:310` says that `action:stop` cancels the active task's current Codex run and drops its queued
messages. `StopCurrent` does so in two critical sections, and a message owns its conversation before it is
entered in the registry. A stop in between finds nothing, says that nothing is active, and the turn then runs
unstopped. `message_stop_race` finds it in a few steps: a message is admitted, the stop empties an empty list
and misses in the registry, the turn is registered and started. The same window opens when a queued message
is popped. Everything else proved or checked about stops (which turn is cancelled, that it ends, that dropped
messages are reported and cleaned up) holds.

### The clear that is not idle

`implementation-spec.md:262` says that `action:clear` rotates the generation only when it is idle. `Clear`
looks at the coordinator and rotates in two steps. `journal_clear_race` resolves a message to generation 1, lets
clear find that generation idle, admits the message and rotates: the message runs on a generation that has
been ended, and its answer is saved for a conversation nobody will continue. What does hold, and is proved, is
`ClearSparesAdmitted`: a clear that ends the generation it looked at takes it only from messages that had not
been admitted when it looked. The proviso matters, because the rotation ends whichever generation is active by
then: of two clears at once, the second ends what the first has just started, unlooked at.

### The turn of the day before

`README.md:203` says that one Codex turn runs at a time for a conversation context. The coordinator ensures it
per generation. The memory refresh, however, resumes the *previous* generation's Codex thread while it holds
the slot of the new one. `journal_midnight` answers a first message on day one, starts a second one there,
and lets a message of day two refresh: both turns run on the thread of day one. Nothing of this reaches the
binding of the new generation (`GenerationsApart`, proved).

### What else the models show

These are not findings against a sentence of the repository that a run refutes, but what the code does where its
documents are silent, or where the models leave out the case.

*Tasks.* A row is written back as it was read, so a turn that was setting up its worktree, or touching its task,
when the task was closed opens it again; the worktree may be pruned by then, and the next pruning may close the
reopened task under a running turn. The properties about tasks say `Overtaken` for exactly this. Closing looks
at the task and writes in two steps, and `store.go:388` does not look at the status again: of two commands that
both found the task open, the second closes it a second time, with a later date. A pruning that listed it
before (`task_workspace.go:221` lists before the repository's lock is taken) has the first date, and may then
remove the worktree of a task that is by now among those closed last, though `task_workspace.go` means to keep
these; `PruneKeepsRecent` says `again` for this case, which its proof brought up. The name of a
closed task may be used again (`implementation-spec.md:106`), but the new task's worktree cannot be added
as long as the retained worktree of the old one has the branch `task/<name>` checked out
(`task_branch.go:8-18`, `task_workspace.go:189-200`). Two creations that overlap may give two open tasks one
name, against `ARCHITECTURE.md:299`, which `NamesCollideOnlyByOverlap` delimits; a reset may overtake a message
that arrives after the look, against `ARCHITECTURE.md:309`, which `ResetSparesAdmitted` delimits. The pattern in
`task_name.go:11` accepts names of one character, though the text shown to users says 3 to 32.

*Scheduled tasks.* A crash leaves the run in hand `pending` or `running` for ever: nothing reads such rows again
at a start (`scheduled-tasks.md:249-257` and `ARCHITECTURE.md:205` leave that open). Likewise a run that could
not be marked as started. The history of a task goes with its row (`ON DELETE CASCADE`). Enabling a task runs
the occurrence it missed. An execute-now moves the anchor of the next tick, so a one-shot task that is run by
hand shortly after its time is skipped. The retry of an execute-now is under the context of a request that ends
when the handler answers. When `Close` gives up waiting for runs, `main` skips the runtime's `Close` and the MCP
server's; the `Add` of an execute-now may come after its `Wait` began. A report whose later message is refused,
or whose acknowledgement is lost, is in the channel in part or wholly and recorded as `failed`
(`presenter.go:22-34`, `scheduled_task_service.go:560-564`); `ReportsAreRecorded` allows `failed` for reports that
were not acknowledged whole, and for no others.

*The live turn.* A chunk that ends inside a fence gets a closing one, and may exceed the limit by its length
when the fence opened within the last bytes, though `implementation-spec.md:174` calls the chunks safe. The run
has such a chunk, and `ChunksReadAsText` says that this is the only way to exceed the limit; whether Discord
refuses it is a choice of the model (a call that fails), since its limit is in characters. A line with no
blank where it is cut is cut at a byte (`chunker.go:73-82`): a character of several bytes that lies there is
torn, and neither chunk shows it. `ReadsAs` therefore speaks of bytes, and says that cuts fall inside a character
only in pieces without a blank. A fence line of almost half the limit leaves the loop no room for progress, or a
negative one (`Panics`); `LoopEnds` says that nothing else does, and the texts of a reply are those over which
the loop ends (`LoopsAssumption`). An answer without text leaves "Thinking..." in the channel and is reported as
done. A stop that cuts a line of output is reported as a parse error instead of a cancellation; a `turn.failed`
without an error object, and an `error` without a message, count as a success and cancel what an earlier one said,
so that `AnswerIsSound` promises an answer of a process that ended well with no failure *left standing*; an `error`
that does say something fails the turn though Codex may have recovered. An edit that failed though it took
effect leaves the presenter wrong about what is shown (`lost` marks such runs).

## Proofs

All theorems are about the specification with arbitrary sets of keys, messages and stops, any waiting bound
and either mode, and for the modules above the service with arbitrary sets of commands, calls, names and rows;
`LiveProofs` is about arbitrary texts, events and numbers of lines and faults.
The assumptions are those the modules declare:

- *service, runtime*: the bound is a natural number, `None` is neither a message nor a key, the mode is a
  Boolean, stops are not messages.
- *journal*: keys are the pairs of a day and a generation up to any two bounds, the mode is journal, clears are
  not messages.
- *tasks*: the mode is thread, at least one worktree is retained, commands are not messages, and the finitely
  many rows an earlier process left are dated as closings date them, with no two open ones, and no two with a
  worktree, that share a name.
- *scheduled tasks*: times and the numbers of faults and starts are bounded by any natural number, the loop is
  not a call, execute-now calls are calls; rows and schedules have their types.
- *live turn*: the limit is at least the size of a closing fence, each text is a sequence of lines over which
  the loop ends (`LoopEnds` says of which it does), `ChunksOf` are the chunks it ends with, and the bot's own texts are texts.

| theorem | says |
|---|---|
| `QueueInvAlways` | the inductive invariant below |
| `OneTurnPerKeyAlways` | at most one Codex turn per key |
| `EveryEntryOwnedAlways` | every entry has a goroutine that will complete it |
| `WaitingListsExactAlways` | the lists hold exactly the waiting messages, once each |
| `TypeOKAlways` | types, and the bound of the waiting lists |
| `InFlightIsLiveAlways` | the registry only names turns under way on that key |
| `OneThreadAlways` | all answered turns of a key ran on the Codex thread saved for it |
| `CleanupOnceAlways` | temporary images are removed once, after the turn |
| `ServiceImplementsExecutor` | the service refines `SerialExecutor` |
| `RuntimeImplementsService` | the service inside the runtime is the service |
| `RuntimeKeepsConversations` | so the runtime has its invariants |
| `JournalImplementsService` | the service in journal mode is the service |
| `JTypeOKAlways` | types of the journal, and exactly one active generation for a date that has any |
| `GenerationsLinkedAlways` | the generations of a day form a chain |
| `ResolvedToActiveAlways` | a message gets a generation that is active at that step |
| `ClearSparesAdmittedAlways` | clear takes nothing from messages admitted when it looked, if it ends what it looked at |
| `RefreshBeforeFirstTurnAlways` | the refresh runs only while its generation has no conversation and no turn |
| `GenerationsApartAlways` | no Codex thread is bound to two generations |
| `NoSilentLossAlways` | a message that was let in is over only with a reply, or because the process is ending |
| `DropsAreReportedAlways` | as many messages are dropped as `/stop` commands report |
| `DrainsAreCountedAlways` | `queueWG` is the number of drain goroutines |
| `RtTypeOKAlways` | `workers` is the number of handlers at work |
| `WaitedGroupNeverGrowsAlways` | nothing is added to a wait group while `Close` waits for it |
| `GracefulDrainIsCompleteAlways` | when both waits ended in time, no handler is left, no key is busy, every message is answered |
| `TaskQueueAlways` | the queue's invariant holds among task commands |
| `TaskTypeOKAlways` | types of rows, worktrees, commands; what is selected or registered was created |
| `IdleCloseIsFinalAlways` | only a message that held the row when a task was closed opens the task again |
| `ClosedTasksGetNoTurnAlways` | no turn starts on a closed task, but for messages the close overtook |
| `ResetSparesAdmittedAlways` | reset-context takes the conversation from no message admitted when it looked |
| `NamesCollideOnlyByOverlapAlways` | open tasks share a name only after overlapping creations, or a reopening |
| `PruneKeepsRecentAlways` | pruning spares the worktrees of the tasks closed last, unless a task was closed twice or a row written back late |
| `TurnHasWorktreeAlways` | a turn's worktree is there, unless a close overtook a message on its task; a task reopened by a late row is such a one |
| `TasksImplementExecutor` | each task is served by a serial executor, whatever commands do to the task meanwhile |
| `TasksKeepService` | among task commands the service keeps its types and its promises on the registry, images, answers and drain goroutines |
| `ProcessInvAlways` | the inductive invariant of runs, below |
| `RetryOnlyAfterFailureAlways` | an attempt has one turn at most, and a second attempt follows a failed first |
| `ReportsAreRecordedAlways` | a report of which anything may have gone out has a delivery row unless its task was deleted; one acknowledged whole is never recorded as failed, and one recorded as delivered was acknowledged whole |
| `CloseWaitsForRunsAlways` | when `Close` has returned no tick and no run is under way |
| `ProcessTypeOKAlways` | types of rows, ticks, executions and tool calls |
| `AdmittedRunsAreDueAlways` | a tick admits the latest due time of the schedule, unless the task was changed meanwhile |
| `NothingDueIsLeftAlways` | a tick leaves no occurrence that has come without a run for it or a later one |
| `ChunksReadAsText` | the chunks of a text over which the loop ends hold its bytes once and in order; characters are torn only in pieces without a blank, and only a closing fence exceeds the limit |
| `LoopEnds` | the loop of `chunkText` ends, without a panic, unless a fence takes almost half a message |
| `ReplyIsTheAnswerAlways` | a reply presented without an error or a lost answer of Discord shows the response, torn characters apart, and the response is the last message of a process that ended well with no failure left standing, or says there is none |

*The inductive invariant.* That two turns of a key exclude each other is not inductive: the coordinator only
says that somebody runs. `QueueInv` adds what makes it so: an entry exists exactly when some message holds the
slot, it has a single holder, its running flag is set, and the waiting list holds exactly the waiting messages
of its key without repetition. From these a claim (no entry) finds no other holder, a pop takes a message that
holds nothing, and `DropQueued` cannot disturb the holder. `StepShapes` first shows that every step has one of
eight shapes (arrive, claim, enqueue, move within the slot, pop, release, drop, or none of these) so that the
preservation is proved eight times rather than once for each action and conjunct; the eight `*Keeps` lemmas
do that and `QueueInvStep` puts them together.

*Threads.* `OneThreadPerConversation` needs the exclusion: `ThreadInv` says that a message between loading and
saving the binding still sees the binding it loaded, which only the holder of the slot can change.

*Refinement.* `over` is determined by the program counters, `serving` by the holders. The step lemmas map each
shape to an executor step or to none; `LetInInv` says a message in a slot or list was let in and not refused,
and `OverGrows` that what is over stays over.

*Journal.* `JournalInv` has four parts: the rows (`RowsInv`: one active generation for each date, and the
chain), the lookups (`LookupInv`: the predecessor a caller found is a row of an earlier date, which stays so
because rows are never deleted), the types, and `RefreshInv`: an admitted message has a row, and while its
refresh is due or runs nothing is bound to its generation. The last one needs the queue's invariant: the
binding of a key is written by the holder of its slot alone (`OthersStay`), and the holder is busy refreshing.
`ApartInv` attributes each Codex thread to the message whose turn created it, hence to one key; `ClearInv`
carries from the snapshot to the rotation that whoever is engaged by then was not admitted before.

*Answers and counting.* `AnswersOnTheirWay` says for each state what the message's outcome and reply are by
then, and that a cancelled turn was stopped or met the end of the process; `NoSilentLoss` is its last line.
`CountInv` says that `queueWG` is the cardinality of the messages a drain goroutine works on: those that
were queued and hold a slot. A pop adds one to that set and a completion that finds nothing waiting removes
one, which is where the library's facts on cardinalities come in.

*Shutdown.* `HandlerInv` counts the handlers and says what a handler that is gone has left: a message that is
answered, or one in the care of a drain goroutine. `CloseInv` says that past the first wait no handler is left,
unless a limit ended it. Hence the second wait meets no new drain goroutine (`WaitedGroupNeverGrows`), and when
it ends by the counter being zero, no message is anywhere but at its end (`DrainedInv`).

*Tasks.* `Known` (queue, phases, table, commands) says which steps a message and a command can be at, and
that each copy of a row is of a task that exists and has its name. `Agree` is the core: unless a close
command overtook a message with the row in hand, every copy is as open as the row, and the rows a pruning
holds are closed. From it follow that only overtaken messages reopen, and with `LookIsRecent` (whoever
looked at the task and found it open, and finds it closed now, has been overtaken) that closed tasks get no
turn. `WorktreesKnown` adds that, the overtaken apart, a ready row of an open task has its worktree, and the
one message that may write to it holds the row as it is. `ResetInv` and `NameInv` carry from the look to the
act what happened in between, as for clear.

*The service among task commands.* The journal and the runtime only restrict the service, so that its theorems
hold there as they stand. Task commands do not: reset-context deletes a binding. `ServiceStepOrForgets` says that
this is all they do to the service, `ForgettingKeeps` that no part of `ServiceInv` minds, and that the executor does
not move. `OneThreadPerConversation` is the promise that a reset ends, by intention, so it is not among those of
`TasksKeepService`; `ResetSparesAdmitted` says whom a reset may not take the conversation from. `TaskSpec` has
neither `/stop` nor the end of the process, whose effect on the service is the subject of the other modules; what
the two theorems add is the commands and the worktrees.

*Scheduled tasks.* `ProcessInv` says that what executes was recorded (`Recorded`: it has its row, or its
task is gone for good), that a run not begun is `Fresh`, and that a run a tick is to start is new. Rows
survive a crash and executions do not, so a crash only makes it easier to satisfy; admission is protected by
the key of the table alone. `CloseWaitsForRuns` follows as `live` is empty from the beginning of `Close`, so
that an execution that has not begun cannot begin. `ReportInv` says of each run where its rows are when its
execution has come so far, in particular that a run without a turn has neither report nor delivery, which is
where `ProcessInv` is needed, and that a report being posted has its delivery open unless its task is gone.

*What ticks admit.* `ProcessFits` adds to `ProcessInv` the types and what relates the rows to the clock
(`RowsDated`: a task is as old as its creation, a run is not from before its task). `TickFits` follows a tick
from the rows it read, with `PicksLatest` for the choice of the due time, and `EditNoted` says that a row which
is no longer what the tick read is in `stale`. From these `AdmittedRunsAreDue` and `NothingDueIsLeft` are read
off the two steps they are about; both need that a run once admitted stays, until its task is deleted.

*Dropped messages.* `DropInv` compares the set of dropped messages with the set of pairs of a command and a
number up to its count: the two have one cardinality, as `StopDropQueued` is the only step that adds to
either, adds a waiting list without repetition to the first (from `QueueInv`), and its length to the second.

*Pruning.* `PruneInv` has, in a run where no task was closed twice and no row written back late (`Calm`), three
parts (`Fits`). A closed task that may still be taken for one with a worktree, but has none, is `Superseded`: as
many tasks as are retained were closed after it and have theirs. A copy of a row in a message's hand is the row,
but for a pruning since. And whatever a pruning holds is superseded, by the dates of the row. A removal takes one
task of `Later(t)` away only if that one is superseded itself, by tasks that are all in `Later(t)`, and one can be
spared because there are more of them; this is where the cardinalities meet. Without `again` the third part is not
inductive: that is how the double close came to light.

*Chunks.* `ChunkInv` is the invariant of the loop of `chunkText`: its pages, the chunk under construction
included, hold the text up to the place the loop is at, in order, and nothing behind it (`HoldsUpTo`). An added
fence changes nothing of that (`ItemAdded`), a piece moves the place by its length, the end of a line is the
beginning of the next (`LineEnds`). The induction along the loop is by a least counterexample (`LeastExists`,
from the library's well-founded induction): a first state that violates the invariant has a predecessor that
does not, against `PlaceKeeps`. `SizesInv` says that the chunk under construction is no longer than the limit,
which holds as `Take` takes no more than is left. That the loop ends (`LoopEnds`) has three parts: with room for
every fence there is something to take or a chunk to end (`ThereIsRoom`), so that each turn is `Nearer` to the
end, by a line, a byte or an emptied chunk; and the furthest line reached, the furthest place
in it and an emptied chunk at that place contradict a loop that goes on for ever
(`LoopGetsThrough`).

*Replies.* `TurnInv` says that the thread is that of the last `thread.started` among the lines read, and the
text that of the last message among the events *taken*, of which there is one fewer than were read while one is
being handed over; an end that is reported as good has read everything. `ReplyInv` says that the channel shows
the presenter's messages, under ids of their own, as long as no answer of Discord was lost, and that an update
that is over left no difference. `HandlerInv` ties the two to the handler: who presents has a turn that
returned, and the target of the update is the response.

*Only model-checked:* every liveness property (`EveryMessageSettles`, `CloseReturns`, `ForcedShutdownEndsWork`,
`StoppedTurnEnds`, `CanceledTurnEnds`) and the liveness of the refinement (`ImplementsFairExecutor`), which are
beyond the prover. Every invariant and every action property of the passing runs is a theorem.

## Not modelled

*Left out of the parts that are modelled.* The text of replies, other than how it is cut; logging; attachments
and their download (a message's temporary images are only created and removed); the routing of commands;
progress updates of a queued message; the failure paths of `Start`; panics. Of Git, only that a call may fail
and which worktrees are registered: the set-up of the managed repository (`task_workspace.go:498-650`) is
within `AddWorktreeFails` and `PruneEnds`, and that a failed `worktree remove` may be followed by a removal of
the directory that leaves a registered worktree without files is not there. The temporary worktree of a
scheduled run is part of its turn. `/stop` and shutdown are modelled with the service, the runtime and the
journal, not with task commands, which look at neither; there is one user, as nothing but the repository is
shared between users. At most one edit of a scheduled task is under way with one execute-now, so that two
tool calls which overwrite each other's change are not in the run, though in the module.

*Parts without a module.* Migrations: they run once, before anything else, in one transaction each; the one
window is in the bootstrap of a database from before `schema_migrations`: a crash between creating that
table and recording the versions lets every later start fail at the first `ALTER TABLE`
(`migrate.go:207-229`). Task names are a regular expression, and names in the model are values that pass it.
Configuration and logging have no state. The HTTP transport of the MCP server is the library's. The Discord
library, Git, SQLite and the Codex CLI are modelled from how the code uses them. `codexplay` is a
developer's tool; the shared types are data.
