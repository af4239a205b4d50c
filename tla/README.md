# Verification of AI Prompt Optimizer (cowork-prompt-enhancer)

TLA+ models of the repository's concurrent parts, the TLC runs that check them on small
instances, and TLAPS proofs of what matters most for every value of the parameters. Paths
below are those of the repository under `src/`. Every definition that stands for code is
listed in `PROJECT.json` under `map` with the file and the lines it stands for; the hazards
the properties are aimed at are listed there under `hazards`, each at the line where it bites.

## 1. The system

A user's request is compiled into a structured prompt. There are two programs that do it: a
client and a server that speak a WebSocket protocol and share a Python worker, and a web page
that runs the whole compilation in the browser.

```
 client                      server (Bun, one event loop)                    worker (Python)
 $WS  -- command/cancel -->  $WSServer -> replay cache -> tool runtime
      <-- events, menu ---      ^              |             |  compression head (pool of 4)
 fileop <- server event --      |              v             v
                                |        BoundedScheduler  enhancePrompt (gate, write chain)
                       challenge store                        |  JSON lines, id -> id
                                                              v
                              LlamaSupervisor -> llama-server <-- thread per line, provider call
```

### 1.1 Components

| component | code | state | operations | what makes it hard | what makes it correct | model |
|---|---|---|---|---|---|---|
| Bounded scheduler | `src/server/lib/scheduler.ts` | tasks, queue, two slot counters, timers, abort signals | schedule, cancel, cancelSession, timeout, drain, completion | a timeout, a cancellation and a completion race; a loop over the queue while the queue changes | both caps; nothing lost, nothing answered twice; order within a session; no idle slot; a deadline for all | `Scheduler` |
| Tool runtime | `src/server/tools/runtime.ts`, `tools/*` | the run of each command | admission, compression, the tool, outcome, the menu that ends a command | outcomes after an abort, failures in the middle, errors in the error path | one outcome per command, nothing after a cancellation, always back to the menu | `CommandRuntime` |
| Context compressor | `src/server/modules/context_compressor/index.ts` | the next segment, the extractions in flight | count, split, extract in a pool, synthesise | one failure among parallel calls; a result that comes too late | the pool is empty when the command goes on | `CommandRuntime` |
| Connection stream | `src/server/lib/ws.ts` | coalesced statuses, flush timer | emit, flush, decode, dispatch | back pressure, frames that overtake a kept status, payloads over a limit | a kept status is written in the end; what is too large for a frame becomes an error | `CommandRuntime`, `Gateway` |
| Challenge store | `src/server/lib/auth.ts` | pending and used challenges | issue, verify, sweep | expiry at the boundary, eviction when full | single use, within the lifetime, bounded | `Gateway` |
| Replay cache | `src/server/lib/replay.ts` | commands seen | accept | eviction of an entry that is still needed | no duplicate within the time to live unless the cache overflowed | `Gateway` |
| Worker manager | `src/server/modules/prompt_enhancer/index.ts` | gate, write chain, pending calls, the worker's handle | enhancePrompt, abort, exit, line, stop | a worker that is killed while calls are registered, chained or written | slots accounted; a call waits only for a worker that can answer; an abort ends the call | `WorkerManager` |
| llama-server supervisor | `src/server/modules/llm/supervisor.ts` | child, restart timer, restart count, stopping | start, ensureReady, stop, exit | an exit between a probe and its answer, a stop during a restart | one owned process; a crash is acted upon; a stop leaves nothing alive | `Supervisor` |
| Python worker | `src/server/modules/prompt_enhancer/{cli,workflow,engine,strategies,search}.py` | per line: strategy, call, attempt; thread-local metrics; lock of stdout | read, generate, retry, fall back, print | threads share one stdout and one module of state; every call may fail | the trace counts this line's calls; a failure is reported only when the last resort failed; lines are whole | `Workflow` |
| Worker providers | `providers/*.py` | none | complete | the outcome of one HTTP call | typed errors | in `Workflow`: answered, too long, or failed |
| Client connection | `src/client/lib/ws.ts` | state, socket, attempts, timer, outbox | start, open, error, close, send | events of a socket that was replaced; a challenge that ends after a close | one attempt at a time, each command once and in order, state agrees with the socket | `ClientConnection` |
| Client handlers | `src/client/index.ts`, `events/*`, `lib/prompts.ts`, `lib/session.ts` | menus shown, the session's directory | session, menu, answer, echo of `init`, file operation | what is written first after a reconnection; a directory that outlives connections | file operations are advertised to every session and executed in its directory | `ClientConnection`, `Session` |
| Server entry, sessions, file capability | `src/server/index.ts`, `events/*`, `tools/fs.ts`, `protocol/index.ts` | one set of announced operations per connection | open, message, close | the two ends learn of a lost connection at different times; order of the first frames | the turn between user and server is neither lost nor doubled; a mutation is sent only when it was announced | `Session` |
| Client file operations | `src/client/events/fileop.ts` | files | write, mkdir, ... | paths | stay under the session's root | `Session` has their outcome and their directory |
| Web compile loop | `src/web/index.ts`, `src/web/lib/prompt.ts` | merged fields, the view | run two passes, parse while streaming, parse at the end | a truncated or partial answer | what was shown stays; a result that is not complete is not invented | `SpecStream` |
| Web local model | `src/web/lib/engine/local*.ts` | one cached model | load, generate, release | releases between the awaits of a load | one resident model, none lost to the page | `LocalModel` |
| Web settings | `src/web/lib/settings.ts`, `lib/ui/settings-panel.ts`, `lib/models.ts` | settings, what the panel shows, a list under way | every input of the panel, the list of models | handlers that do not render; an answer for widgets that are gone | what is shown is what is set | `SettingsPanel` |
| Web page | `src/web/index.ts`, `lib/engine/{index,api,capabilities}.ts` | boot, run, badge | start, persist, compile, hide | the device's check and the settings change during a run | the badge tells where the request goes; every run ends; nothing stale stays in memory | `WebPage` |

Not modelled, with reasons in `PROJECT.json`: the tool registry (a constant), metrics
(counters nothing decides on), configuration, prompt texts and rendering, terminal and page
layout, vendor SDK adapters, browser measurements, the vendored service worker, the offline
evaluation, release scripts. They hold no state that a decision of the running system
depends on, or are input and output only.

### 1.2 How the parts interact

* A frame reaches `$WSServer`. The replay cache accepts or refuses its id (`Gateway`). An
  accepted command becomes a run of the tool runtime (`CommandRuntime`), which calls
  `scheduler.schedule`. The scheduler gives it a signal and a deadline (`Scheduler`); the two
  models are tied together by `AdmissionControl`, below.
* The run calls `enhancePrompt` with the signal. The worker manager serialises writes to the
  worker's stdin, and matches lines of its stdout by id (`WorkerManager`). An abort kills the
  worker and thereby fails every other call that is registered with it.
* The worker runs a thread per line (`Workflow`). Its provider is, in the local profile,
  the llama-server that the supervisor owns (`Supervisor`); a restart of it shows in the
  worker as a failed call.
* The client reconnects (`ClientConnection`); it never repeats a frame it has sent, and a
  challenge it obtained opens one connection at most (`Gateway`). Every connection is a new
  session of the server (`Session`): it announces itself, is told the client's file
  operations, and takes commands. After a command the runtime sends `init`, the client sends
  it back, and only then the server sends the next menu.
* The web page shares none of this. A compilation runs on the engine that was chosen when it
  began (`WebPage`), while the settings panel (`SettingsPanel`), the release of the model and
  the check of the device go on; the engine in the browser keeps one model (`LocalModel`).
  What the passes write and show is `SpecStream`, which shares no state with these.

## 2. The modules

Every module says in its header what a step is and what is left out. Names are the code's:
`drain`, `active`, `activeBySession`, `gate`, `handle`, `pending`, `outbox`, `restartCount`
and so on are the fields of the classes. A definition whose name ends in `_Faulty...` is a
deliberate error: put in the place of the definition after it, it must make TLC find a
property violated. Every property of a passing run has one (`mutants`).

**AdmissionControl** is what the scheduler promises, without its queue, counters, timers and
signals: a line per session, the set that runs, and one answer per call. It is used twice.
`Scheduler` implements it (`ImplementsAdmissionControl`; `Line` is the queue, split by session,
`busy` the runs that are pending, `answer` the promises): checked by a run, and proved. `CommandRuntime` uses its actions
in place of the scheduler, so that the runtime is checked against what was shown of the
scheduler and not against all its detail.

**Scheduler** models `BoundedScheduler`. JavaScript runs a handler to its end, so an action is
a handler, with two exceptions: `drain` and `cancelSession` contain loops, and one iteration
is one action (`index`, `cancelling`), no handler starting in between. A tool's `run()` is
pending over any number of handlers and may ignore its signal. Properties are stated for the
moments between handlers where the code breaks them inside one.

**WorkerManager** models `enhancePrompt`, the gate, the write chain, `onExit`, `onLine` and the
death of the worker as the three separate events it is (killed, end of stdout, exit). Events
of the loop are actions that require `Quiet`; continuations of promises are actions that run
before the next event, in any order among each other. A worker answers only after the call
has seen its line flushed, and the local model is ready when a call is made.

**Supervisor** models `LlamaSupervisor`. An exit and its event, a probe and its answer, a
kill and the death are separate steps. Delays and the clock are left out: a timer that is
armed fires at any later time, a deadline passes at any later time. A process that was reaped
may stand for a new one.

**CommandRuntime** models `registerTool`'s handler for the two compilers and echo, with
`maybeCompress`, `compressContext`, `mapPool`, `runEnhancement`, and the coalescing and the limits
in `$WSServer.emit` and `send`. The texts of a command that are large are compressed one after
another (`input`, `NextInput`). The frames of each command are recorded apart; of the statuses that end
nothing (start, progress, log), only those that are held back. It contains a behaviour worth knowing: echo sends `done` from its own code before it notices an
abort, so a cancelled echo can report both; `OutcomeReported` says exactly when.
An artifact, the message of an echo and the error of a provider may be too large for a frame: the
stream then writes an error envelope of its own ("toolarge"), which may be the only trace of what it
replaced, and `OutcomeReported` says what is left of an outcome.

**ClientConnection** models `$WS` with the handlers that write to it. Sockets, challenges
and timers are counted, never assumed to be single: that they are single is `OneAttempt`.

**Session** extends it with the other end: the sessions of the server by number, the frames of
earlier connections that are still under way (`late`), the operations each was told
(`advertised`), the commands that wait or run, and the client's directory. Either end may
learn first that a connection is lost; frames under way are then read or dropped. A command is
two actions, its arrival and its end: what happens between them is `CommandRuntime`.

**Gateway** models the two bounded maps with expiry. A map is a set of entries numbered by
their insertion, because eviction takes the oldest insertion, not the earliest expiry. The
clock is monotone. The secret proof of a challenge is right or wrong, nothing else.

**Workflow** models the worker process: threads, strategies, fallback, retries with a smaller
budget, and the lock that makes a line of stdout whole. A prompt is its length, an answer is
usable or not. `print` is two writes, which is what the lock is there for.

**SpecStream** models the compile loop of the page with its two readers of the model's output,
as a sequence of lexical tokens with the layout the model chose: compact, with a space after commas
and colons, or indented. Section 6 lists what it
leaves out and what the readers do there.

**LocalModel** models the engine in the browser: memory as a few slots, each free, in use, or
being disposed, the cached one, and the one call of `compile`. Every `await` of `load` and
`releaseLocalModel` is the border of a step, so a release falls between any two of them.

**SettingsPanel** models the settings and the panel that is rendered from them. What it shows
is state of its own, because most handlers write a setting and do not render. `panel.typed` and
`listing.model` tell what the page knows when a list arrives late: the request for it remembers the
model that was set then.

**WebPage** composes the two with the compilation, `boot`, `persist`, the badge and the hidden
page. A run keeps the engine it was created with (`run.engine`), while the badge follows the
settings: `BadgeHonest` is what the code's comment says of the two, and is violated (section 7).

The `MC...` modules give the constants their values for TLC. Three of them put parts that share no
state in one run, whose initial states choose what moves: `MCServer` (`Scheduler`, `WorkerManager`,
`Gateway`) for what these may never do, `MCTimers` (`Supervisor`, `Scheduler`) for what goes on
because a timer fires, `MCWebPage` (`SpecStream`, `WebPage`). `...Proofs` modules hold the
theorems: `SessionProofs` those of `ClientConnection` and `Session`, `ProcessProofs` those of the two
owners of child processes, `WorkerManager` and `Supervisor` (which is why the `Init`, `Next` and so on of these
carry their names, as those of the gateway do for `MCServer`). `Subsequences` has the one operator `Only`, the elements of a
sequence that belong to a set, as a recursive function.

## 3. Plan

Written in this order: the server's core (scheduler, runtime, worker manager, supervisor, the
two stores), the worker, the client's connection, the page's readers; then the sessions that
join client and server, and the page's engine, settings and life around the readers. What
would come next:

1. *Worker providers*: the outcomes of a call told apart (`provider_timeout`,
   `provider_error`, `provider_context_overflow`) with the status codes and bodies each comes
   from, in `Workflow`.
2. *Pure algorithms*: the splitting of a large input (`chunkText`) covers it and respects its
   limit; `confinePath` accepts exactly normal relative paths; `extract_json`.
3. *Proofs*: the invariants of the readers (`ShownStays`, `ResultHonest`), from lemmas on what each
   reader does with one more token. Every other safety property of a passing run is proved.

## 4. The runs

State counts are distinct states.

| run | instance | states | what it shows |
|---|---|---|---|
| `server` | scheduler: sessions s1 (3 commands) and s2 (2), `MaxActive` 2, `MaxPerSession` 1, `MaxQueued` 2; worker manager: 3 calls, 2 slots; gateway: 3 challenges, 3 commands, maps of 2, lifetimes 1, clock to 3, 4 acceptances | 422,097 | the scheduler's invariants, order, first reason, and the refinement of `AdmissionControl`; slots, registered calls and the usable handle; single use, lifetime, no early duplicate, bounds |
| `timers` | supervisor: 3 processes, 2 callers, 2 restarts; scheduler: 3 commands, one slot | 85,851 | ownership and the cap, restart after a crash, quiescence after a stop; every admitted command settles, waiting in the queue ends |
| `worker_live` | 2 calls, 2 slots | 8,275 | an aborted call ends; no call waits for ever for a dead worker |
| `command_runtime` | a compilation with up to 2 texts to compress, and 2 echoes; 3 segments, pool 2; 1 slot, 1 place in the queue | 135,010 | outcomes, limits and cancellation, the pool, back to the menu with nothing held back |
| `client_connection` | 2 sockets, 2 attempts, outbox of 2, 2 openings, 3 commands | 158,813 | one attempt, each command once and in order, files in their own session, one turn per connection and always a menu in the end |
| `workflow` | 2 lines, 1 field and the critique, all strategies, windows 0, 700, 8000 | 843,748 | accounting, honest failure, every line answered whole, retries only when needed |
| `spec_stream` | readers: 4 fields, then 2, three layouts, blank texts, a brace in a string; page: 2 presets and a custom model, 1 provider with 2 models, 2 passes, 2 places for a model | 296,021 | what is shown stays, results are honest; one resident model, nothing stale left, a true panel, every run ends |
| `worker_stop` | the worker manager with 2 calls | violation | section 7 |
| `client_ops` | `ClientConnection` alone: 2 sockets, 2 attempts, outbox of 2, 3 openings | violation | section 7 |
| `workflow_fallback` | as `workflow`, the compiler strategy only | violation | section 7 |
| `badge` | as `spec_stream` | violation | section 7 |
| `spec_salvage` | the readers alone, in the indented layout | violation | section 7 |

Each takes less than two minutes with two workers.

Some properties say more than one thing, where the parts are broken by different errors in the
same code. `Owned` contains the cap of the supervisor's restarts; `OneAttempt` contains that the
shown state is the socket's; `ReturnsToMenu` contains that no status is held back at that
moment; `EveryLineAnswered` asks for a whole line in stdout, so it fails when two threads mix
their lines; `OutcomeReported` contains that nothing is reported as done after a cancellation.

Why these bounds are enough to see the interesting cases:

* *server*, the scheduler: with one slot per session and two in all, a session is blocked by its own cap
  while the other has room, so `drain` must skip entries (the only place where the order of
  the queue is not the order of starts); three commands of a session give a running one and
  two that wait, and five commands exceed slots and queue together, so that one is refused.
  The commands of a session are symmetric. In `timers` the scheduler is smaller and has no symmetry.
* *server*, the worker manager: two calls share a worker while a third waits at the gate, is released by
  an end, and finds a worker killed under it; more calls repeat this. `Worker` has one number
  per call since each call spawns at most one.
* *timers*, the supervisor: two killed processes may linger beside the current one, so an exit can come
  from a process that is no longer the child; two callers have answers of probes from before
  and after an exit at the same time; two restarts reach the cap.
* *command_runtime*: three segments for a pool of two make the pool take another segment
  after a failure of its neighbour; two texts make a second compression begin after the first one
  ended, with its failures and aborts; one slot and one place make one command run, one wait and one
  be refused, and each of the three may be the compilation.
* *client_connection*: two sockets let a closed one report late beside its successor; two
  openings let frames, commands, menus and the announcement of one session meet those of
  the next (each opening resets the attempts, so the code has no bound); three commands
  are one more than the outbox holds.
* *server*, the gateway: one more key than a map holds, and a clock that passes both lifetimes twice.
* *workflow*: two threads suffice for every race on a shared variable; window 0 never holds a
  call, 700 holds it after halvings or cuts, 8000 at once.
* *spec_stream*: every list of two items shows the difference between a finished and a partial
  item; a text with a closing brace unbalances each reader (one with an opening brace is
  among the items). A load needs at most two places in memory: the model that is being disposed of and
  the one that is published. Two presets differ in their device, as `light` and the others do,
  and the custom repository is that of `light`, so that a choice with the same name and
  another device occurs. The passes are two, as in the code. One provider suffices since its
  key and model are looked up by its name only; two models tell the listed from the set one.
  A behaviour is of the readers, or of the settings with every value and the list of models, or of runs in
  which the provider's key and model stay fixed.

Deadlock is checked in `timers` and `spec_stream`. It is not in the others because their instances
do stop: the calls, commands, lines or the bounded clock run out, and a client that was closed stays
closed.

### Fairness

* `timers`, the scheduler: timers fire (strong fairness of `Timeout`: a drain in progress disables
  every handler between its steps), and the two loops go on. Tools are *not* assumed to end
  in the specification; `EveryCommandSettles` has `ToolFairness` as its premise (a tool that was
  aborted ends), since the code has no means of ending one that ignores its signal.
  `QueueWaitBounded` does without it.
* `worker_live`: a killed process dies, the end of its stdout and its exit are delivered,
  a write completes or fails, and continuations run. The worker is not
  assumed to answer: `AbortedEnds` and `DeadWorkerNotAwaited` hold with one that never does.
* `timers`, the supervisor: an armed timer fires, a killed process dies, an exit event is delivered. The
  health endpoint is not assumed to answer well.
* `command_runtime`: a run goes on, calls of a provider end (they have a time limit), the flush
  timer fires. Nothing is assumed of cancellations.
* `client_connection`: timers fire, challenges end, a connecting socket opens or fails, frames
  that arrived are read at both ends, and commands end (`command_runtime` shows it). If the
  server has closed a connection, the client notices in the end. The server is not assumed to
  accept connections, and nobody is assumed to answer a menu.
* `spec_stream`: downloads, measurements, generations and disposals of the browser end (also a
  generation whose session was disposed of under it, of which the code knows nothing), calls of a
  provider end, and the page's continuations run. Nothing is assumed of the user. The
  readers' half needs no fairness.
* `workflow`: each thread is scheduled; a call ends since providers have a time limit.

## 5. The proofs

Proved by TLAPS for all values of the constants, under the named assumptions of the modules
(`OptionsAssumption`, `KeyAssumption`, `ProcAssumption`, `GatewayAssumption` and so on: the checks
that constructors make, and types).

**SchedulerProofs.** No single invariant is inductive: that a slot counter is right in the
middle of `drain` depends on the queue having no key that runs, that a promise is pending
depends on the registration, and all of them on the loop variables. `IInv` is their
conjunction: types, finiteness of `running` (needed for cardinalities), `SlotsAccounted`,
`NoTaskLost`, `WorkConserving` and `DeadlineCovers`. `Invariance`
proves it of `Spec`, one step per action; `TypeCorrect`, `SlotsCorrect`, `NoTaskLostCorrect`,
`WorkConservingCorrect`, `DeadlineCoversCorrect` follow from it, and so do the two action
properties `NoOvertakingCorrect` and `FirstReasonCorrect`.

`RefinementCorrect` proves that every behaviour of `Scheduler` is one of `AdmissionControl`, from
`IInv`: an action that does not touch the queue, the runs or the promises is a stutter
(`AbstractState` says what it must leave alone), and each of the others is one abstract action
(`ScheduleRefines`, `AbortRefines`, `DrainRefines`, `SettleRefines`). What needs an argument is `drain`: it
takes an entry from the middle of the queue, and the abstract action takes the *head* of the
session's line. The entries before the index have been passed over because their sessions had no
room, and none gained room since, so they are of other sessions (`NoOvertaking`'s reason too), and
the line of a session is the queue with the others left out (`LineTaken`).

**GatewayProofs.** `TypeCorrect`; `SingleUseCorrect` and `FirstTryCorrect` for the challenges;
`NoEarlyDuplicateCorrect` and `BoundedCorrect` for the maps. Single use holds although the
record of a use is itself evicted: what carries it is that an id once taken out of the pending ones never
returns, because `issue` never repeats an id (`IssueInv`). For the cache, `ReplayInv` says that a
command accepted within its time to live is missing from the map only when `MaxEntries` later
ones were accepted.

**SessionProofs.** `OneAttemptCorrect` and `FilesCorrect`, for any number of sockets, attempts,
connections and commands. `OneAttempt` counts, and says nothing of the sockets that are not
current; `CurrentSocket` adds that a socket which connects or is open is the current one, so
`onopen` cannot happen on a forgotten socket. For the directory, `Announced` says that as long as
the announcement has not been handled it is the *next* event, because the server sends it before it
reads a frame and events are only appended. The server's steps are dealt with once, by what
they leave unchanged.

`SentCorrect` and `TurnsCorrect` are about sequences with elements left out, and are proved together
with these (`TurnsInv`). Commands are sent once and in order because those in the outbox are newer than
those that were sent: `SentOnceInOrder` is inductive with the types of the two sequences, and with
`Spent`, which says that a client that has used up its attempts has no timer, challenge or socket
left. `Turns` counts menus, frames of a turn under way in either direction, and the commands that
run. `TurnsKept` is inductive with its bounds stated for every state (`TurnInv`) and with `Fresh`: a
session that was not opened yet runs and reads nothing, so an opening starts its count at nothing.
Each event moves a turn from one place to the next, and each lemma `...Turns` is the sum before and
after.

**ProcessProofs.** Of the worker manager: `GateCorrect`, `AwaitedCorrect` and `HandleCorrect`. `GateOK` adds to
`GateAccounted` that a call that was just handed a slot is not aborted, since it listens to
neither end then. `CallsOK` adds to `AwaitedIsPending` what a call had before it waited: a result or
a registration. `WorkersOK` carries `HandleUsable`: a worker that was not spawned yet is nobody's,
numbers of workers are not used up because each spawn belongs to a call (a cardinality), and the
current worker is never the one that an aborted call captured, because numbers only grow.

Of the supervisor: `TypeCorrect`, and `OwnedCorrect`: every process that is alive and not
killed is `child`; a child and an armed restart exclude each other; stopping excludes
both; the restart count respects its cap. With the types it is inductive as it stands.

**CommandRuntimeProofs.** `OutcomeCorrect` and `PoolCorrect`, for any number of commands and segments
and any limits of pool and scheduler. The runtime's view of a command, the scheduler's and the stream must
agree: `Admitted` (a command runs exactly while its run has a stage between none and ended; what waits
has not begun; an abort that was recorded is of a run that began), `Reported` (nothing is
reported before the end, and the frames of an ended command are one of the sequences of `Outcome`, tied
to the answer and the abort, in which any frame with a text may have been replaced by the limits) and `Drained` (nothing is in flight before the first segment was taken or after
the last extraction). The counts that `OutcomeReported` speaks of are read off these sequences
(`FrameCounts` counts a kind of frame in a sequence of each length, `OutcomeCounts` sums them up as a
`Tally`). The steps of a run are reduced to three shapes, `Started`, `Advanced` and `Ended`, each
proved to keep the invariant of its command and of the others.

**WebPageProofs.** `ModelsCorrect`, `StaleOnlyLateCorrect` and `PanelCorrect`, of
`PageSpec`, in which an earlier visit may have left any settings. `CallOfRun` is the strengthening
for the engine: a call belongs to the run, none is cached until its load has published, and from then on
the cached model is of the run's choice or there is none. `Resident` says what each place in memory
can be. To `PanelTrue`, `PanelType` adds that only an open panel waits for a list, and `ListTrue`
that the request under way is for the engine that is shown, and knows the model that is set unless one
was typed since. The action
property follows from the first invariant before and after the step.

**WorkflowProofs.** `TraceCorrect` and `OutcomeCorrect`, for any number of threads, fields, windows
and lengths of prompts. A response is right about its calls because, as long as a line is not
answered, the list of its thread counts what it made (`CallsCounted`) and nothing was made before the list was
cleared (`NothingMade`); it is right about the fallback because a generation is of the field loop exactly
when it is of one of the loop's fields (`InLoop`). `GiveUpCorrect` is the action property
`GiveUpJustified`: at the n-th attempt a generation asks for at most the n-th of 2048, 1024, 512, 256 and 256
tokens (`Shrinking`), so the fifth asks for as little as the retry ever does, and one that is given up sooner
has nothing left to shrink. How a generation returns or raises is reduced to three shapes (`Goes`,
`Serves`, `Fails`) before the invariant is looked at.

**QueueLemmas** has what these proofs need of sequences: what adding, taking the head and
taking one position out do to the set of a queue's elements, and what `Only` selects from a sequence
after an element was added, concatenated or taken out. `Only` is defined by recursion on the length.
The library's induction theorems take an operator as a parameter, which no installed prover can
instantiate; the lemmas use its theorem on well-founded relations instead, which speaks of sets: a
set of natural numbers that is not empty has a least element (`Least`), and the lengths at which a
fact fails are such a set (`NatInductionSet`, `SequenceInduction`).

**Only model-checked**: the liveness properties (`EveryCommandSettles`, `QueueWaitBounded`, `AbortedEnds`,
`DeadWorkerNotAwaited`, `CrashIsSupervised`, `StopQuiesces`, `ReturnsToMenu`, `NeverLeftAlone`,
`EveryLineAnswered`, `RunEnds`), because the prover handles neither fairness under quantifiers nor
`ENABLED`; and `SpecStream`, whose documents are put together with a fold of the library
(`FlattenSeq`) and whose readers search all of a document. Its two properties, `ShownStays` and
`ResultHonest`, are the only safety properties of a passing run without a theorem.

## 6. What the models leave out

* Time, except as order: delays, back-off and jitter are "later". Only `Gateway` has a clock.
* Contents: texts, prompts and payloads, unless a property tells them apart.
* The codec's format. `Session` has what a refused frame leads to: an error without a menu for
  a command, a line in the log for an event. HTTP routes are left out but for their challenges.
* The connection in `CommandRuntime` stays open; that a disconnection cancels everything is
  `cancelSession` in `Scheduler`.
* The restart of the server as a whole: its state is in memory, and nothing is recovered.
* `Workflow`: searches decide only whether there are sources. `GiveUpJustified` excludes the
  single-pass full specification: its 4608 tokens are 288 after the four halvings that five
  attempts allow, so it may be given up before its prompt was cut once.
* `Session` has no cancellation by the user (that is `CommandRuntime`), and a client that gave up
  or was closed is not started again.
* The web page: the text of errors and notices, copying, the history and animations. One call of
  the local engine at a time, which the disabled composer guarantees.
* Prompt texts, the registry of tools, metrics and configuration: see section 1.1. The terminal
  dialogue for files and projects and the directory walk (`project-select.ts`) are input and
  output; only that a prompt may fail is modelled (`PromptFails`).
* `SpecStream` has complete documents with their fields in order, or prefixes of them. At the edges
  of that and outside, `prompt.ts` behaves as follows:
  * in the indented layout, the one the prompt shows the model, the streaming reader shows
    nothing until the end, and a truncated answer salvages no field, so that the whole
    output becomes the context (this case *is* in the model, and `spec_salvage` shows it);
  * with a space after the commas, names and items of later fields can appear in the list that is
    being shown, and when the output is truncated also in the result (`prompt.ts:404-459`). This case
    is in the model too: `ShownStays` excepts the end of such a pass, where what was shown in
    excess disappears, and `ResultHonest` says only that nothing is in the result that was not written;
  * fields that are missing in the middle or out of order are not modelled;
  * a string that equals the name of a field is misread, since `findKeyStart` prefers `,"key"`;
  * values of the wrong type are dropped or turned into text;
  * after an error the skeletons and `aria-busy` remain;
  * dismissals (`spec-view.ts:46`) do not survive `clear()`;
  * the second prompt shows all ten keys though only six are read.

## 7. Disagreements between documents and code

* **An abort does not always stop work** (`worker_stop`, `AbortStopsWork`).
  `docs/architecture.md:81` says that an active provider request is terminated by stopping
  its owned worker. When a write fails, the inner catch of `enhancePrompt`
  (`prompt_enhancer/index.ts:254`) sets `handle = null` without asking whose worker it is. If a
  newer worker lives by then, it is no longer reachable: the abort of a call it works on finds
  no worker to kill. The run shows a live worker that works on the line of an aborted call.
* **Commands may precede the announcement of file operations** (`client_ops`,
  `OpsBeforeTools`). The comment at `server/events/session.ts:7` says that the announcement
  arrives before any tool can be invoked. When a socket opens, `onopen` flushes the outbox first
  (`client/lib/ws.ts:126`), and a menu of the old connection can still be answered, so a command
  can reach the new session before its client's file operations do.
* **The fallback can be lost to its provider** (`workflow_fallback`, `FallbackDelivers`).
  `docs/architecture.md:24` says that provider failures "cannot remove the deterministic fallback
  from the workflow", and `README.md:72` that a provider failure still has "a deterministic delivery
  path". The field loop, which is that path, calls the provider too and catches nothing
  (`strategies.py:69`), so a provider that goes on failing fails the request. `OutcomeHonest` says
  what does hold: nothing else fails one.
* **The badge follows the settings, not the run** (`badge`, `BadgeHonest`).
  `web/lib/engine/types.ts:46` says "True only when no request leaves the browser". `persist`
  (`web/index.ts:178`) shows the engine of the new settings under a run that goes on with its own, and
  the end of `boot` (`:475`) shows the device's without looking. A provider is called while the badge
  says that the request stays on the device.
* **Nothing is salvaged in the layout the prompt asks for** (`spec_salvage`, `ClosedSurvives`). The
  comment at `web/lib/prompt.ts:449` says that what a truncated output had completed is kept.
  `findKeyStart` (`:270`) finds a key only right behind a comma or a brace; in the indented layout of
  `shapeFor` no key is. `ResultHonest` says what does hold.

Met while modelling, in the models, and without a run of their own because no document
claims the contrary, or because a weaker property says exactly what does hold:

* The exit of a killed worker fails calls that were sent to its successor
  (`prompt_enhancer/index.ts:184`). They end with an error, so `DeadWorkerNotAwaited` holds.
* A health answer delivered after a crash resets the restart count (`supervisor.ts:115`), so a
  crash loop with good probes in between is not capped. `Owned` bounds the count, not the sum.
* A response keeps `grounded` and its sources after the fallback of `workflow.py:106`, though the
  final prompt was made without them.
* A list of models stays when the key it was asked with is cleared or replaced, and the option
  it shows is not the model that is set when the list lacks that one, or when a model was typed after
  the list was asked for (`settings-panel.ts:249`). `PanelTrue` excepts these two, and nothing else of a list.
* A model that is released while it loads is published all the same (`local.ts:85`), so it is in
  memory against the settings until the next load or release; `StaleOnlyLate` says that this is
  the only way.
* A prompt that fails, or a command that the codec refuses, leaves the client without a menu until it
  reconnects (`client/index.ts:28`, `server/lib/ws.ts:57`); `NeverLeftAlone` excepts it by `lost`.
* An artifact above the server's limit is replaced by an error envelope and the tool is not told
  (`server/lib/ws.ts:97`, `:115`), so the command still ends with `done`, although `README.md:74` says
  that every successful run writes a prompt; and an error that is too large leaves an error envelope without the
  error status. `OutcomeReported` says what is written in each case. A file operation that the
  client refuses is a line in its log (`Session`).

## 8. Use

```
tlc -workers 2 -config Server.cfg MCServer.tla
tlapm SchedulerProofs.tla
```
