# claudecli-go in TLA+

claudecli-go runs the Claude CLI as a subprocess and speaks JSONL with it over stdin
and stdout. A `Session` keeps one such process alive for many turns; a `Stream` is one
run of it. Most of what is hard in this code is in the session: one goroutine reads the
CLI's lines, one delivers events, a ticker adds synthetic ones, a goroutine runs per
permission prompt, and any number of callers ask queries, abandon them, send control
requests and close the session. The specifications began there and now reach the
goroutines of a one-shot run, the pool, a login, what the decoding loops keep from line to
line, and the install, update and version checks, which look at a machine that changes
while they look. Source paths below are under `src/`.

## 1. Inventory

| Component | State it keeps | Operations | Talks to |
|---|---|---|---|
| Event router (`router.go`) | handles with their mailboxes, the active handle, the orphan ring, `shutdown` | route, arm, detach, drain, flush, shut down | the pump calls it; callers arm and detach; `readLoop` shuts it down |
| Session: queries and delivery (`session.go`, `client.go`) | `state`, `activeGen`, `genCounter`, pump channel, `Events()`, `routed`, `promptEchoed`, the context; without routing `waited`, `resultReady`, `unread`, `turnEchoed` | Query, QueryCtx, SendMessage, Wait, EnableRouting, Close, `readLoop`, pump | CLI through the pipes, router, tracker |
| Activity tracker (`activity.go`) | `state`, `pendingToolUses`, `firstPending`; the ticker beside it | observe, markQuery, observeUnsolicitedResult | `readLoop` and callers, under `stateMu`; transitions go to the pump |
| Control protocol (`session.go`, `control.go`) | `pending`, `inboundCancel`, `controlWg` | sendControlRequestRaw, handleControlRequest, handleUserInput, control_cancel_request, failPendingRequests | callers, host callbacks, CLI |
| Stdin writer (`session.go`) | stdin, `stdinClosed` | write with a deadline, abandon, close | all writers |
| Typed control requests (`control_requests.go`, `context_usage.go`, `settings.go`) | none | interrupt, MCP reconnect, settings | control protocol |
| Slash-command list (`commands.go`) | `commands`, `commandsChanged` | store, replace, read | initialize, ReloadPlugins, `readLoop` |
| Stream (`stream.go`, `client.go`) | `state`, `result`, `err`, `waited`; four channels | Events, Next, Wait, Close | one process, the goroutines that read it |
| Pool (`pool.go`) | sessions by id, forwarders, `closed` | Add, Remove, forward, CloseAll, Close | sessions' `Events()` |
| Login (`auth.go`, `auth_submit.go`) | `loginOutcome`, the process, `submitMu` | begin, await, Submit, Cancel, observe, exit | CLI output, callback server |
| Decoding (`parse.go`, `decode.go`, `event.go`, `error.go`, `model.go`) | text of the answer, measurement of the context, learned windows, how the turn failed | decode a line, in `ParseEvents` or in `readLoop` | Session, Stream, blocking runs |
| Task-type backfill (`task_backfill.go`) | task types and workflow trees by id | apply, resolveWorkflowAgent | Session, Stream |
| Workflows (`workflow.go`, `workflow_live.go`) | the caller's offset into a transcript | read incrementally | files the CLI writes |
| Installation and updates (`install.go`, `pathentries.go`, `autoupdate.go`, `update.go`, `version.go`, `published.go`) | none kept; each call reads the machine in steps | DetectInstall, Update, LatestPublished | files, `claude`, package managers, HTTP; the CLI's background updater changes what they read |
| Capture (`internal.go`) | ring buffers | write, read | the process's pipes |
| Blocking runs (`blocking.go`), executor (`executor*.go`, `shim.go`), options (`option.go`, `env.go`, `permission.go`), tools (`cmd/`) | none shared between goroutines | sequential | operating system |

What is hard, and what makes each part correct:

- **Router.** The pump delivers while a consumer reads and detaches, another query arms,
  and the session shuts down. Correct: an event never lands in another query's mailbox,
  nothing is sent on a closed channel, no handle is left open that nobody delivers to,
  mailboxes stay bounded by dropping their oldest event, and the pump never blocks.
- **Queries.** The CLI's lines carry no query id. The session attributes by *generation*:
  an event is stamped on arrival with the generation then active, and a terminal event
  ends it. Old results, folded messages and turns the CLI starts by itself all compete for
  it. Correct: a query's handle yields that query's answer; the caller that waits is
  answered or told; a result is never lost or given twice.
- **Turns without routing.** The session counts messages it wrote and echoes it read to
  tell its own turns from the CLI's. Messages are folded into a running turn, slash commands
  have no echo, a failed write may have reached the CLI. Correct: no turn that
  answers a caller is flagged unsolicited; a Wait brings its own query's result.
- **End of a session.** Exit, kill, failed writes and cancellation meet calls that are half
  done. Correct: everything ends, every handle is closed, every waiter returns.
- **Activity.** Tools run in parallel and turns end with tools unanswered; callers move the
  tracker too. Correct: the count matches the turn, the ticker runs exactly while a tool is
  awaited, consumers are told of every state that lasts.
- **Control protocol.** Answers, timeouts, withdrawals and the end of the session race.
  Correct: each call returns, each prompt is answered once, and not after its withdrawal.
- **Stdin.** A write that hangs is given up while its goroutine may still be in it.
  Correct: the CLI gets whole lines and at most one torn one, after all others; Close gets through.
- **One-shot run.** Five goroutines hand on events, and any of them may find its
  reader gone. Correct: Wait tells how the run ended; a cancelled run comes to its end.
- **Pool.** Sessions are added and removed, and end, while the pool closes. Correct: no
  forwarder is left to send on the closed channel; Close returns.
- **Login.** Verdicts, the exit and Cancel race with submissions and their deadlines.
  Correct: what a submission is told is true, and none hangs.
- **Decoding, tasks, commands.** Two loops keep state across lines that others' lines
  come between; answers and changes are applied by different goroutines. Correct: both loops
  say the same of a line, a result is of its own turn, a task keeps its identity, the list
  of commands is the newest.
- **Transcripts and installs.** Files change between two reads. Correct: every whole record
  is given once; the updater runs only on a copy the CLI owns, and a verdict
  compares with the stream its owner follows.

`PROJECT.json` lists these hazards line by line, with the properties aimed at each.

## 2. Modules

| Module | Models |
|---|---|
| `EventRouter` | the router alone; also the abstract specification of what a session may do with it |
| `ClaudeCLI` | external: the CLI as `session.go` relies on it (turns, echoes, folding, notification turns, API errors, exit) |
| `QuerySession` | EXTENDS `ClaudeCLI`, instantiates `EventRouter`: readLoop, pump, ticker, callers, consumers |
| `SessionTurns` | Query, SendMessage and Wait without routing, and the accounting of turns |
| `ActivityTracker` | the tracker's operations |
| `ActivityStream` | EXTENDS `ActivityTracker`: who moves it, in which order, under which lock |
| `ControlChannel` | the control protocol in both directions, with the CLI's side and the end of readLoop |
| `StdinWriter` | a write with its deadline and Close, down to the pieces of a line in the pipe |
| `CommandList` | the slash-command list |
| `OneShot` | `Run`, its five goroutines and their channels, the `Stream` |
| `Decoding` | the two decoding loops over the same lines |
| `TaskBackfill` | the identity of background tasks |
| `Pool` | the pool |
| `Login` | a login with its submissions |
| `Transcript` | the incremental reader |
| `Installs` | DetectInstall, Update, LatestPublished |
| `EventRouterProofs`, `QuerySessionProofs`, `ControlChannelProofs` | theorems about the module they are named for |
| `QueryResultProofs` | EXTENDS `QuerySessionProofs`: the theorem about where results are held |
| `SessionPartsProofs` | theorems about `ActivityStream`, `SessionTurns`, `StdinWriter` and `CommandList` |
| `PoolProofs` | theorems about `Pool` and `OneShot` |
| `LoginProofs` | theorems about `Login` and `Installs` |
| `TaskBackfillProofs` | theorems about `TaskBackfill`, `Decoding` and `Transcript` |
| `MC...` | instances for TLC; the bounds are in the cfg files |

Operators whose comment begins "Mutant of" are not part of any specification. Each is a
plausible wrong version of the definition it names, and `PROJECT.json` pairs it with a
property that tells the two apart.

### How state and actions correspond to the code

**EventRouter.** An action is a section of code under `r.mu`. `handle[g]` is the
`QueryHandle` of generation `g` with the reason it was closed for; `mailbox[g]` its
channel; `evicting` is the event in the hand of `routeStamped` between the failed send and
the second one: the mutex is held there (`Unlocked` is false), but a consumer's receive
needs no mutex and may come between.

**QuerySession.** A step is one access to shared state: one atomic, one channel
operation, or one locked section. Steps that a goroutine takes without touching shared
state are merged into their neighbour. In particular

- `stamp` of a terminal event is two steps, a load (`StampTerminal`) and a store
  (`ClearGen`), as in `session.go:202-208`; then `TrackState`, `ObserveTerminal`, `Push`;
- `QueryCtxMsg` is `EnableRouting`, `PrepareQuery`, `CountGen`, `ArmHandle`, `StoreGen`,
  `MarkQuery`, `CallStamp`, `CallSend`, and the write; after a failed write `FailGen`,
  `FailState`, `FailDetach`;
- the pump looks at `routed` first (`PumpRoute`, `PumpUnrouted`) and, blocked on `Events()`,
  again when routing is enabled; the barrier flushes `Events()` to the orphans;
- readLoop's end is `WaitProcess`, `ClosePump`, `StampExit`, `DeliverExit`, `CheckRouted`,
  `Shutdown`, `Finish`.

An event is its kind and `of`, the queries that the CLI's turn answered. The SDK cannot
see `of`, and no action looks at it: it is what the properties compare the delivery with.
A write may succeed, be lost in the pipe of a dead process, or fail at its deadline having
reached the CLI or not; after a failure stdin is closed, as `writeStdinTimeout` leaves it.

**SessionTurns.** A step is a section under `stateMu`. `Wait` lets go of it while it waits
for `resultReady` (named by the query it was made for), and `sendUserMessage` lets go of it between
counting a message and writing it. A message is the query it asks; the CLI's turn knows
which query it answers, the session does not: `flagged` and `returned` keep what was told.

**ActivityStream.** `state`/`promptEchoed` and the tracker are under `stateMu`, the pump
channel is not, so a transition is decided in one step and announced in a later one, by
readLoop (`EmitTransition`) and callers (`SendTransition`) alike. `outstanding` is the
CLI's own set of unanswered tools. `WriteFails` is `sendUserMessage`'s error path: the mark is
made before the write and nothing takes it back, and stdin is closed for good. `unsent`, a
history variable, says that the tracker still stands where such a call left it.

**ControlChannel.** `pending` and `inboundCancel` are the maps; `result[q]` is the
one-place channel of a call; `handler[p]`/`callback[p]` are the two goroutines of a
prompt. The `select` of a handler is two actions, `SelectResult` and `SelectDone`, both
possible when both channels are ready, as in Go. `initialize` and `Ping` run the same
protocol with other timers and are not modelled a second time.

**StdinWriter.** `write[w]` is a call of `writeStdinTimeout`, `writing[w]` the goroutine it
starts; `mu` is `s.mu`, held over the whole call. `wire` is every piece that ever got into
the pipe. A deadline, and the end of the context, are the same step (`GiveUpWrite`), which
closes the pipe for good.

**CommandList.** readLoop applies a change as it reads it (`ReadChange`) and hands an answer
over (`ReadCommandAnswer`); its caller applies it in a later step (`ApplyAnswer`):
`seedCommands` for `initialize`, `setCommands` for `ReloadPlugins`. A caller whose timer is over
may give up with the answer in its channel (`GiveUpRequest`), as Go's `select` may choose. A list is the count of
the changes it includes, so that "newer" can be said.

**OneShot.** `stdout`, `parsed`, `events` and `tracked` are the pipe and the three channels,
each with its capacity. The goroutines are the reader (`ParseEvents`), the collector
(`readProcess`), `scanStderr`, the interposed goroutine of `newStream`, and the caller. A
line is its kind; the CLI's last one is an answer, an error result, an API error or nothing.

**Decoding.** Each line is decoded in one step by both loops, each with a state of its own
(`decoder[d]`), and `delivered[d]` is what either made of it. Text and measurements
are numbered by the turn they were written in, 0 between turns. What a background task says
between turns reaches `ParseEvents` too, between the CLI's own turn and the prompt's, and stays
in its answer, for it starts no text afresh at an init (`parse.go:78-80`; `session.go:1226` does).
The two flag turns as `Unsolicited` by different rules: `ParseEvents` by the result's origin, a
session by its accounting, which is an input here.

**TaskBackfill.** `cliTask` is the CLI's truth, `byID` the backfiller's map; a line changes
the first and is applied to the second, in one step, as both loops do.

**Pool.** `registered` is the map, a `forwarder[i]` a goroutine with its context. `Add`,
`Remove` and the first half of `Close` are steps under `p.mu`; `CloseAll` closes a snapshot
of the sessions before it. A forwarder's two `select`s are a receive and a send, each with the
end of its context as alternative.

**Login.** `report` is `loginOutcome`, `epoch` its notification channel (closed and replaced
at each report); `submission[s]` is a `SubmitManualCode` or `Submit`, from the lock
(`submitMu`) over the write to the verdict. A callback request may fail after the CLI took its
code. The reader may fail with output unread (`ReadOutputFails`). The exit is reported after the reader is done or
its 2 s of grace are over (`GraceOver`, remembered in `rushed`); the verdict of exit 0 is the
`nil` that a printed success is, here "ok" for both.

**Transcript.** A line is three pieces, and a poll may fall between any two writes;
`readJSONLFrom` is one step, for it reads up to the size of the file it found.

**Installs.** `copy` is the layout of the installed binary: who put it there, and the
evidence its path and neighbours give. `DetectInstall` is `ResolvePath`, `ReadPath`, one
`WalkPath` per entry of PATH, `EndWalk`, `Probe`; `BackgroundUpdate` of the CLI may come
between any two. Files read once per call hold anything.

**MCParts.** An instance of each module that works on state of its own. `part`, chosen in
the initial state, names the one that moves; the others stay as they start. Its state space
is the sum of the parts', not the product, and a property of one part says of the behaviours
of the others only that their initial state satisfies it.

## 3. Runs

| Run | Checks | Shows |
|---|---|---|
| `parts`: router | `MailboxIsolation`, `OnlyActiveOpen`, `ClosedIsFinal`, `OldestFirst` | the router under any sequence of calls, also those no session makes |
| `parts`: activity | `TrackerAgrees`, `PairingBalanced`, `TickerMirrorsState`, `IdleBetweenTurns` | parallel tools, subagents, folded messages, notification turns, errors with tools outstanding, failed writes |
| `parts`: turns | `UnsolicitedIsTrue` | folded messages, slash commands, failed writes and turns of the CLI's own against the accounting |
| `parts`: commands | `CommandsAreCurrent` | the answer to `initialize` against changes |
| `parts`: decoding | `DecodersAgree`, `ResultIsOfItsTurn` | two turns with stray text before, between and after them, subagents, errors and lines between turns |
| `parts`: tasks | `TasksKeepTheirIdentity` | lines of two tasks in any order, unknown and retried ones included |
| `parts`: stdin | `LinesStayWhole`, `CloseGetsStdin` | three writers and Close, a CLI that stops reading, deadlines at any step |
| `parts`: run | `OutcomeTellsTheEnding`, `CancelledRunEnds` | every way a run ends against readers that read, wait, close or do nothing |
| `parts`: pool | `ClosedAfterForwarders`, `PoolCloses` | Add, Remove, CloseAll, Close and the ends of sessions |
| `parts`: login | `VerdictIsTrue`, `NoSubmissionHangs` | two submissions, retries, exits, Cancel, failed callback requests, a slow and a failing reader |
| `parts`: transcript | `PolledOnceInOrder` | polls between any two pieces of three lines |
| `parts`: installs | `UpdateIsEarned`, `VerdictIsOfOwnStream` | every layout, with the background updater at any step |
| `answers` | `AnswersOwnQuery`, `WaitingQueryIsTracked`, `LateResultKeepsGeneration`, `ResultKeptOnce` | two concurrent QueryCtx callers, abandoned queries, folded messages, a notification turn ahead of the answer |
| `ends` | `TypeOK`, `EndedSessionClosesHandles` | one call of any kind against every end of the session: exit, crash, cancellation, failed write, API error |
| `waits` | `EveryWaitReturns`, `ReaderNeverBlocks`, `RefinesRouter` | two queries and a CLI that may crash: every Wait returns, readLoop gets past every event with nobody reading, and the session uses the router as `EventRouter` specifies |
| `control` | `TypeOK`, `WaiterIsReachable`, `AnsweredOnce`, `EveryCallReturns`, `EveryPromptAnswered`, `SessionEnds` | two requests and a prompt against timeouts, withdrawal, exit, Close and cancellation |
| `noteerror` | `WaitingQueryIsTracked` | violated: finding 1 |
| `announced` | `PendingQueryAnnounced` | violated: finding 2 |
| `parked` | `SessionEnds` | violated: finding 3 |
| `withdrawn` | `WithdrawnNotAnswered` | violated: finding 4 |
| `reload` | `CommandsAreCurrent` | violated: finding 5 |
| `waited` | `WaitIsForItsQuery` | violated: finding 6 |
| `replaced` | `OneCopyIsActive` | violated: finding 7 |

`parts` also checks `PartsTypeOK`, the type invariant of whichever part moves. Its parts have
between 77 (`commands`) and 120,593 (`run`) distinct states, about 472,000 together.

Deadlock is checked in `ends`, `waits`, `control` and `withdrawn`: there every execution can
go on, or ends in `Terminated` (the session is over and every call has returned). In the
others the instance may stop: nothing ends the session (`answers`, `noteerror`), calls and
notification turns run out (`announced`, `waited`, `reload`, most parts), a run or a login is
simply over (`parts`), or the callback that never returns is the very point (`parked`).

### Findings

1. **A generation can be lost.** `router.go:301` says the generation is armed before the
   write so that the answer always carries it. `stamp` loads and clears `activeGen` in two
   steps (`session.go:202-208`). The API error of a *notification* turn is stamped while
   the state is idle, so a QueryCtx may arm between the two; the clear takes its generation
   away, the answer goes to the orphans, and the caller waits. For the API error of a
   query's own turn this cannot happen: the state is running, so no other query arms, which
   is why `answers` leaves errors of notification turns out and `ends` has errors of callers' turns.
2. **A transition can be announced late.** `session.go:465` promises that "thinking" is in
   the pump before the CLI's response. Between `trackState` of a result and the `observe`
   of the same result, the next Query marks a tracker that is not idle yet and emits
   nothing; then `observe` announces idle, and idle is what consumers see while it runs.
3. **A parked callback can keep a session from ending.** `README.md:1444` says a prompt's
   context is cancelled when the session ends. When the CLI exits by itself readLoop waits
   for the handler first (`session.go:1376`), the handler for the callback, the callback for
   its context, and nobody cancels that until Close.
4. **A withdrawn prompt can be answered.** `session.go:1703`: "Re-check so a withdrawn
   request is never answered". The cancel function is registered by the handler's
   goroutine; a withdrawal that readLoop reads before that is forgotten.
5. **A reload can bring an older list back.** `commands.go:8-10` says the list is replaced
   by every change and every reload since. `ReloadPlugins` applies its answer on the
   caller's goroutine (`control_requests.go:156`); a change that readLoop reads after
   handing the answer over is applied first, and then overwritten. `seedCommands` guards the answer to
   `initialize` against this, so the property holds in `parts`, which has no reload.
6. **A Wait can return nothing.** `session.go:506` says Wait blocks until a result or error
   for the current query. A Wait that was released, but has not set `waited` (`:527`)
   when the next Query resets it, returns what that Query has just cleared, and the `waited` it
   leaves lets the next Wait return at once.
7. **No copy may be active.** `pathentries.go:29` says exactly one entry is. The path is
   resolved before PATH is walked; when the background updater switches the symlink in
   between, the walk's entry for the same name is another file, is not active, and the
   entry that should lead the list is dropped as a duplicate (`:108`).

Three more places where the code does other than a text beside it says, or than a reader may
expect, are not runs of their own: the properties of the passing runs state what does hold,
and name the exception.

- **A failed SendMessage leaves the tracker thinking.** `README.md:531` has the tracker idle
  between turns. `SendMsg` marks it before the write (`session.go:486-491`), and the error path
  of `sendUserMessage` (`:439-444`) takes back the count of messages only. `IdleBetweenTurns`
  excepts it as long as no terminal event has been read since (`unsent`).
- **A login is told successful by exit 0 as well.** `auth_submit.go:38` says that nil means
  "the CLI printed Login successful"; `exit(nil)` finishes with the same nil
  (`auth_submit.go:162-167`), so a CLI that exits 0 without a word, or whose words the reader lost, is
  told as success. `VerdictIsTrue` says of a success that it was printed or the CLI exited 0, and that
  no failure was printed.
- **A run's answer may begin with what a background task said before its turn**, as above;
  `ResultIsOfItsTurn` and `DecodersAgree` allow it for `ParseEvents` and not for a session.

### Bounds

Every bound is a constant of the module, set in the cfg.

- `MaxGen`, `MaxCalls`: two queries. Attribution is about an old query and the next one;
  three would add a second "old". The router has two handles as well, which is what
  supersession needs. `EventRouterProofs` covers any number.
- `Callers` of `QuerySession`: two in `answers`, where concurrent `QueryCtx` calls meet. One elsewhere; its
  successive calls still meet the pump, readLoop and the ticker.
- `QueryMailboxCap` (256 in the code) is 2, so that a full mailbox is two events away and
  drop-oldest differs from drop-newest. `OrphanMailboxCap` (128) is 4 where a property
  follows a result into the orphans, and 1 or 2 where the wrap-around is what matters.
- `PumpCap` (256) and `EventsCap` (64) are 1: a channel that is full as soon as possible
  is the hard case for blocking, and holds enough to have an event "on its way" when
  routing is switched on. `StdoutCap` is 2, the most lines the CLI's model writes at once.
- `MaxNoteTurns` is at most 1, `MaxTicks` is 1 (a tick that outlives the ticker needs one).
- `Lines`, `Slash`, `ErrorTurns`, `Exits`, `Ops` select which optional behaviour of the CLI
  and which calls an instance has; between them the runs have all.
- activity: two tools (parallel use, first against latest), three calls (two by one caller while
  the other is half done), one notification turn among them.
- `control`: two requests, so that one call's answer, timeout or failed write meets
  another's, and one prompt: prompts share nothing but stdin and the end of the session.
- turns: two queries, a SendMessage, a Wait and a turn of the CLI's own (`MaxQueries`,
  `MaxSends`, `MaxWaits`, `MaxOwnTurns`), so that a message may be folded into a query's turn
  or into the CLI's, and counted before or after it starts. `waited` has two callers and two Waits.
- commands: `MaxChanges` is 2 (one before and one after an answer); `MaxReloads` is 0 in
  `parts`, where the property holds, and 1 in `reload`.
- decoding: `MaxDecodedTurns` is 2, so that something can be left from one turn to the next;
  `MaxPieces` is 2, a piece from between the turns and one of the turn. The theorems of
  `TaskBackfillProofs` cover any.
- stdin: three writers (one in the pipe, one at the lock, one after the failure), lines of two
  pieces (`LineLen`) and room for one (`StdinPipe`), so that every line can be torn.
  `SessionPartsProofs` covers any.
- run: every channel (64) and the pipe hold 1, so that every goroutine can be found blocked
  at every hand-over; `RunLines` has the kinds the outcome depends on, and two lines
  (`MaxRunLines`) precede the last one.
- pool: two sessions, two registrations, one event each, channels of 1: a forwarder of each
  can be anywhere when the pool closes, or a second registration of one session.
- login: two submissions (`MaxSubmits`), since a verdict can only be mistaken for the
  next one's (`LoginProofs` covers any); transcript: three lines; installs: two versions, before and after an update.

`SYMMETRY` is used in `answers` only, for callers, which are only compared for equality.

`answers` leaves out `SendMessage`. A turn started by `SendMessage` that still runs when a
QueryCtx arms ends with a result that is stamped with the query's generation: it "answers" the
query. The documentation promises stamping by the generation active on arrival
(`README.md:671`) and no more, so no promise is broken, but `AnswersOwnQuery` holds only
without such messages. It is listed as a hazard.

### Fairness

`UnreadSpec` of `QuerySession`: weak fairness of readLoop, the pump, the ticker and each
call under way. Each is a goroutine, and Go's scheduler runs a runnable goroutine
eventually; a step that needs room in a channel is not enabled without it, and weak
fairness promises nothing for it. `EveryWaitReturns` needs two more, and states
them as its premises: `CLIFairness` (the CLI ends its turns, starts turns for messages it was sent and,
once its stdin is closed or its context cancelled (`exec.CommandContext` kills it), exits)
and `WaitFairness` (consumers of handles take what is there: `Wait` is such a loop). Nothing is
assumed of readers of `Events()` and orphans, of new calls, or of ticks.

`FairSpec` of `ControlChannel`: the goroutines again; host callbacks return, unless `Parks`
says that they wait for their context; the CLI reads its stdin and answers what it works on.
It assumes no timer: `EveryCallReturns` holds although no timeout is ever obliged to fire.

In the parts fairness is the premise of the liveness property that needs it:

- `StdinFairness` (for `CloseGetsStdin`): the write's return or its deadline comes (a timer
  that runs fires), and strong fairness of taking `s.mu`, which Go's mutex gives a waiter by its
  starvation mode. The CLI owes nothing: it may never read again.
- `RunFairness` (`CancelledRunEnds`): the goroutines of the run, and that the executor
  kills the CLI of an ended context. The caller owes nothing.
- `PoolFairness` (`PoolCloses`): forwarders, Close and CloseAll go on; a session that is
  being closed ends. A forwarder's return has strong fairness, as Go's `select` chooses at
  random among the ready cases and an ended context stays ready. Nobody reads the pool.
- `LoginFairness` (`NoSubmissionHangs`): the reader, the wait for the exit and its grace
  timer, calls under way, the lock as above, and a killed CLI exits. A CLI that is alive
  owes nothing.

## 4. Proofs

The theorems hold for every value of the constants that the modules' named assumptions
admit (`MaxGenAssumption`, `CapAssumption`, `CLIAssumption`, `SessionAssumption`,
`NoToolAssumption`, `TurnsAssumption`, `BooleanAssumption`, `StdinAssumption`,
`CommandsAssumption`, `PoolAssumption`, `OneShotAssumption`, `LoginAssumption`,
`InstallsAssumption`, `DecodingAssumption`, `TranscriptAssumption`): bounds are natural numbers, capacities are
not 0, optional behaviours are chosen from those the module has. No bound of a run is
assumed: the numbers of callers, handles, writers, registrations and submissions, the
capacities and the sets are arbitrary. Five theorems have hypotheses of their own, those
under which the runs check the property as well: `AnswersReachTheirQuery` that callers
use `QueryCtx` only (`Ops = {"QueryCtx"}`; with `SendMessage` it is false, see the bounds),
`LateResultsKeepTheirGeneration` the same and that no turn reports an API error
(`ErrorTurns = {}`; the error's event ends the generation before the result comes),
`WaitingQueriesAreTracked` and `ResultsAreKeptOnce` these two and that the ticker does not run
(`MaxTicks = 0`; with an API error finding 1, with ticks the eviction of section 5), and `SeedIsNeverStale` that nobody reloads (`MaxReloads = 0`; otherwise finding 5).

| Component | Theorem | States | Inductive invariant |
|---|---|---|---|
| router | `RouterIsolation`, `RouterOnlyActiveOpen`, `RouterClosedIsFinal`, `RouterOldestFirst` | `MailboxIsolation`, `OnlyActiveOpen`, `ClosedIsFinal`, `OldestFirst` | with `EvictionIsAddressed` |
| session | `SessionKeepsTypes` | `TypeOK` | `SessionTypes` |
| session | `SessionRefinesRouter` | `RefinesRouter` | `SessionTypes` |
| session | `EndClosesHandles` | `EndedSessionClosesHandles` | `EndInv` |
| session | `AnswersReachTheirQuery` | `AnswersOwnQuery` | `OwnInv /\ TurnInv` |
| session | `LateResultsKeepTheirGeneration` | `LateResultKeepsGeneration` | `Settled` (`EndInv /\ OwnInv /\ TurnInv /\ LateInv`) |
| session | `WaitingQueriesAreTracked` | `WaitingQueryIsTracked` | `Settled /\ WaitInv` |
| session | `ResultsAreKeptOnce` | `ResultKeptOnce` | `Settled /\ WaitInv` with `CopiesInv`, `Sealed`, `Delivered`, `BarePipe`, `Hands` |
| turns | `FlaggedIsUnsolicited` | `UnsolicitedIsTrue` | `TurnsInv` |
| activity | `TrackerAlwaysAgrees`, `PairingStaysBalanced`, `TickerMirrors`, `IdleAgain` | `TrackerAgrees`, `PairingBalanced`, `TickerMirrorsState`, `IdleBetweenTurns` | `CountInv`, `TickerInv`, `IdleInv` |
| control | `ControlTypes`, `WaitersStayReachable`, `PromptsAnsweredOnce` | `TypeOK`, `WaiterIsReachable`, `AnsweredOnce` | below |
| stdin | `StdinLinesStayWhole` | `LinesStayWhole` | `StdinInv` |
| commands | `SeedIsNeverStale` | `CommandsAreCurrent` | `InitializeProgress` |
| run | `OutcomeIsTrue` | `OutcomeTellsTheEnding` | `RunInv` |
| pool | `PoolClosedAfterForwarders` | `ClosedAfterForwarders` | `PoolInv` |
| login | `LoginVerdictIsTrue` | `VerdictIsTrue` | `LoginInv` |
| installs | `UpdateRunsOnlyOwnCopies`, `VerdictFollowsOwner` | `UpdateIsEarned`, `VerdictIsOfOwnStream` | `InstallsInv` |
| decoding | `LoopsAgree`, `ResultsAreOfTheirTurn` | `DecodersAgree`, `ResultIsOfItsTurn` | `DecodingInv` |
| tasks | `BackfillKeepsIdentity` | `TasksKeepTheirIdentity` | `BackfillInv` |
| transcript | `PolledIsWhatIsWhole` | `PolledOnceInOrder` | `TranscriptInv` |

The argument of each:

**`EventRouterProofs`.** `RouterTypes`, `RouterBounded`, `RouterIsolation`,
`RouterOnlyActiveOpen`, and the action properties `RouterClosedIsFinal` and
`RouterOldestFirst`. The four invariants
are not inductive by themselves. An eviction appends to the active handle's mailbox *later*
than the test that found it full, so isolation, the bound and "nothing is sent to a closed
handle" need `EvictionIsAddressed`: while an eviction is under way the router is not shut
down and the event in its hand is stamped for the handle that is still active. It holds because
every action that changes `active` needs the mutex. That is the argument for holding
`r.mu` over both channel operations of `routeStamped`.

**`QuerySessionProofs`.** *Types.* `SessionTypes` says per goroutine and per caller what it may
hold where. Two parts of it are more than types. `Counting` bounds the generations: a call
counts one at most once, so `genCounter` and the calls that will still count are no more
than the calls; the finite sets are needed because `Callers` may be infinite. And a handle is
open only if it is the active one, which every theorem below uses of the router.

*Refinement.* Each step is matched with a step of `EventRouter` (deliver, evict, arm,
detach, flush, drain, receive, shut down) or changes none of its variables. What has to be shown is the
guards: the pump delivers typed events only, and a `QueryCtx` arms a generation that is in
range and not in use yet. With `RouterIsolation` and the others, what
the router promises under any use it keeps in a running session.

*End.* "No handle stays open" depends on calls that are half done when the session ends.
`OpenIsHeld`: an open handle was handed out or is in the hands of the call that armed it;
`RoutedFirst`: routing comes before any handle; `EndIsWaited`: `proc.Wait` has closed stdin before the
end begins, so that no later write succeeds and hands a handle out; `EndIsShutdown`: the
router is shut down, or nobody held a handle when it was asked. A call that armed late
therefore fails its write and closes its handle itself.

*Own answers.* A result carries no query, so the proof has to follow the query through the
CLI. `OneAtATime`: a query that was asked is in one place, in stdin, in the CLI's turn,
among its lines, in readLoop's hand or still with its caller, and the session is
not idle meanwhile, which is what keeps the next caller out. `ActiveIsAsked`: while it
is under way the active generation is its own or none. `EchoBeforeAnswer`: the echo of the message comes before the
result, so the result of a turn the CLI started by itself is held back when it comes first.
`OwnPipe`, `OwnRouter` and `OwnAnswers` then say of every channel on the way to a handle that a
result stamped `g` answers `g`.

*Late results.* The converse, that the answer of `g` is stamped `g`, holds only of queries whose
handle was given out: a query whose write failed may reach the CLI all the same. `PendingOwn` is
the heart of it: while such a query is in stdin, in the turn or among the lines, the active
generation is its own. Three steps write the generation. A call that stores its own is asking, so
by `OneAtATime` nothing is pending. readLoop clears it after a result, which took the one pending
answer away, or at the end, when by `Gone` the CLI has been waited for and answers nothing any more. And `failQuery`
clears it after a failed write, whose query was given to nobody. `PastGrows` keeps what was stamped:
a generation that is past stays past, and is not given out any more. `LatePipe` carries the
results to the orphans, and says that what went to `Events()`, and is flushed to the orphans without a generation,
answers nothing, since before routing no generation is counted (`Numbered`).

*Waiting queries.* `Tracked` follows the event that ends the wait for `g` from place to place:
`Asked`, the generation is active; `InLoop`, readLoop has taken it and carries its terminal
event; `AfterLoop`, that event is in the pump's channel, in the pump's hand, in an
eviction's or in the mailbox, and everything behind it is for another handle or is a barrier
(`Behind`). The last part makes it inductive: `routeStamped` drops the *oldest* event of a
full mailbox, so the terminal one is safe exactly as long as no later event goes to the
same handle, however small the mailbox. readLoop stamps the terminal event and clears the
generation after it; what others stamp in between, or stamped before and enqueue late, is the
question. `Sent`: a call stamps what it sends with its own generation or none, and the ticker,
which would stamp `g`, does not run. `Alone`: a call that has armed has detached every handle
given out, so that what it writes to the generation takes it from nobody who waits. `Stopped`: the pump
goes only when nothing for a handle is left. `Unrouted`: what goes to `Events()` is not stamped.

**`QueryResultProofs`.** The copies of a result are counted over every place it can be in:
readLoop's hand, the pump's channel and hand, `Events()`, an eviction under way, the orphans, the
mailboxes and what consumers have taken. Each action moves one from a place to the next
(`LoopMoves`, `PumpMoves`, `OthersMove`), and three facts make the sum come out. One line makes
one copy: by `OneAtATime` a query is answered by one line (`ReadsPending`), and `CopiesInv` says
that there is no copy before that line is read. The eviction drops something else: it
takes the oldest event of a full mailbox, and `Sealed` says that once the result of `g` is in
the pipe its generation has ended and nothing behind it is for its handle, so the router never
makes room for another event at its cost. And nothing is left in a hand that goes away: `Hands`,
by which the router shuts down only after the pump has emptied its channel. By `BarePipe` and `Delivered`
a result that was held back as unsolicited carries no generation, so it never enters a mailbox and
goes by the events and the orphans only. What the property allows to be lost, a result for a full orphan mailbox or one
that waits for `Events()` when the context ends, is what the code drops on purpose.

**`SessionPartsProofs`.** Of `ActivityStream`, `TrackerAlwaysAgrees` and the action property
`FirstPendingIsStable` follow from the tracker's operations alone. `PairingStaysBalanced`
relates the tracker to the CLI's outstanding tools; its invariant adds what holds in the
window between `trackState` and `observe` of a terminal event, when the turn is over and
the count not yet reset, and that the outstanding tools are finitely many, whatever `Tool` is. `TickerMirrors` adds that the transition in readLoop's hand is the
state of the tracker. `IdleAgain` needs who has a reason to keep the tracker from idle while
no turn runs: a prepared query, a message not read yet, a call before its write, and a mark whose
write failed.

Of `SessionTurns`, `FlaggedIsUnsolicited` is by counting. A turn is flagged when no
message is unread, so it has to be shown that a caller's turn finds one counted.
`MessagesAreCounted`: the messages in the inbox, those the lines on their way still owe an echo or a
result for, the one whose turn runs, and those being written are together at most
`unread`. It holds until a write fails, as only then a message is taken off the count that may
have been sent. `CallerTurnsEnd`, that every turn of a caller ends among the lines or is
the one that runs, lets the count go through a fold and a turn's end. What is owed is a set of
positions in the lines, and each action moves them by one at most.

Of `StdinWriter`, `StdinIsExclusive` and `StdinLinesStayWhole`, for any writers, line length and
pipe. "Lines are whole" is not inductive: an abandoned write's goroutine outlives
its call. The strengthening says that a goroutine that can still put a piece into the pipe
has a call that waits for it (`CallAndGoroutine`), that after a failure no piece
can enter any more (`BrokenForGood`), and that only the current call has part of a line in the
pipe (`TornIsCurrent`). It is the argument for closing stdin at the deadline instead of
merely giving the lock back.

Of `CommandList`, `SeedIsNeverStale`: `InitializeProgress` has one conjunct per state of the
request. Before its answer is read nothing is known; between reading and applying it, the list
is the newest change if there was one, and else the answer is the newest.

**`ControlChannelProofs`.** `ControlTypes` types the two pipes as well. `WaitersStayReachable`
strengthens `WaiterIsReachable` to the whole time from registration to giving up: a call
is in `pending`, or its result is in its channel, or readLoop is done. `PromptsAnsweredOnce`
needs three facts: the number of responses is what the handler's progress says
(`AnswersCounted`), no handler runs once readLoop has waited for them (`HandlersOver`), and
the request line of a prompt is in the pipe at most once, and only while no handler has
been started for it (`RequestOnce`).

**`PoolProofs`.** `PoolTypes`, and `PoolClosedAfterForwarders` for any number of sessions and
registrations. `ClosesInOrder` is what it needs: the channel is closed by the last step of
the one Close that got through, and a pool that takes a session is not closed. A forwarder
only moves while it is alive and never comes back, and Close waits for all of them.

Of `OneShot`, `OutcomeIsTrue`, for channels of any capacity and readers that may stop
anywhere. `RunInv` follows the last line of the CLI and its exit through five hands: the ending is
still unread, or held, or in one of the channels, or the stream knows it (`EndingIsKept`,
`AnswerIsEnding`), and the events the SDK makes up, an exit error or an empty result, are
made up only where the ending is none (`MadeUpAlone`, `ExitIsTold`). The context makes the difference: with it alive no
hand drops anything (`AllTracked`), and without it the outcome tells that it ended.

**`LoginProofs`.** `OneSubmissionAtATime` and `LoginVerdictIsTrue`, for any number of
submissions. Success and failure: what was printed is unread until there is a report
(`PrintedIsReported`, which also says that an exit reported while the reader was through or had failed took
the place of nothing that was read), and what is reported was printed or is the success of exit 0
(`ReportIsPrinted`). That a success is never told where a failure was printed needs
`OneVerdict`: the CLI prints one of the two, and exits 1 after a failure, which is taken from the
tests (`auth_submit_unix_test.go:31-33`, `auth_integration_test.go:65`). "Invalid code"
carries no submission; that it is about the current one needs `AboutCurrent`: until a
submission is abandoned or the login is over, the CLI's input, its output and the count of
invalid codes are about the one that holds `submitMu`, which is in one of three places
(`Unjudged`, `Underway`, `Told`). A submission whose context ends, or whose callback request
fails after the CLI took the code, leaves its verdict to the
next one, which cannot tell; the CLI's words offer no way to, and `VerdictIsTrue` excepts it.

Of `Installs`, `UpdateRunsOnlyOwnCopies` and `VerdictFollowsOwner`, for any number of versions and a
background updater that may come between any two reads. The updater changes the copy's version and
never whose it is. `CallProgress` says what a call knows at which step, that its classification is
that of the layout it started with (`Class`, proved layout by layout), and `ProbedVersion` that a version it read is still the copy's,
or the copy was replaced meanwhile.

**`TaskBackfillProofs`.** `BackfillFollowsCLI`: what is remembered of every task is what the
CLI knows of it; `BackfillKeepsIdentity` follows with the lemma that `resolveWorkflowAgent`
finds the entry's own agent or nothing.

Of `Decoding`, `LoopsAgree` and `ResultsAreOfTheirTurn`. The two loops forget at different places,
`readLoop` at the init of a turn as well. `KeepTheSame` says that as long as both read they keep
the same measurements, windows and flags, and that the text of `ParseEvents` is that of
`readLoop` after pieces said between turns (`AfterStray`, an induction-free relation of two
sequences, kept by a result, an init and any piece). `KeptIsOfTurn` says that what is kept while a
turn runs is of that turn, but for such pieces with `ParseEvents`, which keeps nothing else between
turns. Each kind of line is shown to preserve both.

Of `Transcript`, `PolledIsWhatIsWhole`. The offset is behind the last whole line read, so a poll
goes on where the one before stopped, and the torn line it left is read again when it is
whole. What was shown is a recursive function over the pieces of the file; that it is the same after a
piece is appended, and that two polls show together what one would, is by induction. The
library's induction theorems take an operator, so the induction is on a set of naturals: the
least counterexample, which exists by `InductionOnSets`, has a predecessor that is none.

### Model-checked only

- All liveness properties: fairness and ENABLED are beyond the prover.
- `PartsTypeOK`: the type invariants of the parts; those of the modules that are proved about are conjuncts of their
  inductive invariants.

## 5. Not modelled

- **Drop counters and diagnostics** (`RouterStats`, ring buffers, logging, `ProcessInfo`,
  exit diagnostics): no decision depends on them.
- **Blocking runs**: a sequential run and one JSON document.
- **Executor**: process groups, job objects and signals are the operating system's
  behaviour. Its promise, that the process of an ended context dies, is a
  fairness assumption of the modules that use it.
- **Options, environment, permission values, tools**: argument lists and environments are built.
- **Copying of fields** from JSON into events, and URL parsing and callback ports of a login.
- **WatchWorkflow** re-reads a whole file and sends snapshots; the rest of `workflow.go`
  parses files in one go.
- **ReconnectMCPServerWait** polls on top of two control requests; the other typed requests
  are one request each and keep no state.
- **CheckCLIVersion** and the report of the last update attempt: one file or process each.
  (`Update` reads the version after an update from `claude -v`; where that cannot be parsed
  the code returns an empty version and no error, while `update.go:148-150` says an error always comes with it.
  `Installs` has the version 0 for it; no property is stated.)
- A consumer that drains all 255 other events of a full mailbox between the two channel
  operations of `routeStamped`, so that the eviction drops a terminal event: the bound of
  2 makes it look likely, the code's 256 makes it a matter of nanoseconds. `EventRouter`
  has the behaviour, no property excludes it.
- **A session without routing whose events nobody reads** blocks, as documented;
  `ReaderNeverBlocks` states the routed case. **A session whose stdin is broken** refuses
  queries; `SessionTurns` has it, but the code promises nothing of it.

## 6. Plan

- **Composition**: `StdinWriter` as the writer of `ControlChannel`, whose writes are now
   one step with the outcome `StdinWriter` shows possible.
