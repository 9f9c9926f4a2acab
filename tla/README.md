# Verification of Baby

Baby is a personal assistant that lives on its owner's PC: one Python process
(asyncio, FastAPI, SQLite) with a voice thread, a pool of background workers,
an orchestrator for multi-step projects, a router over local and cloud models,
and a desktop shell around it. This directory holds TLA+ models of the parts
where concurrency, failure and ordering decide whether the program is correct,
the TLC runs that check them, and TLAPS proofs of what matters most.

    tlc -workers 2 -config backend.cfg MCBackend      # a run
    tlapm WorkerPool_proofs.tla                       # the proofs of a module

Contents: [inventory](#1-inventory), [how the process is
modelled](#2-how-the-process-is-modelled), [modules](#3-modules),
[runs](#4-runs), [proofs](#5-proofs), [where the code and its own statements
part](#6-where-the-code-and-its-own-statements-part), [what is not
modelled](#7-what-is-not-modelled), [plan](#8-plan).

## 1. Inventory

### Components, their state and their operations

| Component | Source | State | Operations | Module |
|---|---|---|---|---|
| Worker pool | `workers/queue.py`, `tools/tasks.py` | `tasks`, `task_events` rows; `_running`, `_wake`, `_stopping` | add, claim, run, cancel, notify, start/stop | `WorkerPool`, `TaskBoard` |
| Orchestrator | `workers/orchestrator.py`, `tools/projects.py` | `projects` rows, its one child, a bus queue | plan, add subtasks, wait, integrate, cancel, stop | `Orchestrator` |
| Rate limiter | `core/ratelimit.py` | a deque of stamped acquisitions | `try_acquire`, `acquire_wait`, `seconds_until_slot` | `TokenBucket` |
| Health monitor | `core/router.py:290-440` | state, streak, cooldown; the probe loop | `note_failure`, `note_success`, `_probe_once` | `HealthMonitor` |
| Router | `core/router.py:440-1081` | ladder of a call, stream | `chat`, `_ladder` | `CloudRouter` |
| Game mode and its watcher | `core/router.py:537-581`, `ui/gamewatch.py` | `game_mode`, `_auto_set`, the rewarm task, the GPU's memory | switch, watch, unload, rewarm, health check | `GameMode` |
| Turns and conversations | `core/agent.py`, `db/database.py`, handlers of `ui/server.py` | `messages`, `conversations` rows, each agent's `conversation_id` | `run_turn`, new, resume, delete, wipe, kill, boot reconcile | `Turns` |
| What a turn decides | `core/agent.py`, `core/intents.py` | `pending_suggestion`, `pending_wipe`, the brain boost, the loop's retry flags | memory commands, offers, generations, tool rounds, replies | `AgentLoop` |
| Context | `core/context.py` | none (a list of rows) | `sanitize_messages`, `trim` | `Context` |
| Safety gate | `core/safety.py`, the calls in `core/agent.py` | pending questions, session approvals, unrecognized channels | classify, ask, resolve, cancel_all, note_approval | `Gate`, `Shell` |
| Memory | `memory/*.py` | message vectors, summary and watermarks per conversation; facts and their vectors | embed, summarise, reconcile, wipe, delete; add_fact, forget, extract | `Recall`, `Facts` |
| Voice pipeline | `voice/pipeline.py`, `/kill` | thread state, sentence queue, `_interrupt`, `_turn_future`, `_text_buf` | wake, listen, respond, barge-in, kill | `Voice` |
| Downloads, loaders | `core/provision.py:186-605` | `.part` files, a loader's thread | fetch, resume, promote, watch, give up | `Fetch` |
| First run and keys | `core/provision.py`, `core/keys.py`, `core/paths.py`, `/api/setup` | `setup.json`, `.env`, the environment, the rows of the walk | choose, provision, verify, save and clear keys, complete, boot | `Setup` |
| Event bus | `core/bus.py` | one bounded drop-oldest queue per subscriber | subscribe, publish | as seen by `Orchestrator` and `Voice` |
| Scheduler, notifier | `workers/scheduler.py`, `workers/notify.py` | jobs of a cron library | fire, announce | a call in others' models |
| Telegram, CLI | `clients/*.py` | a lock, a bus queue | message, callback | answers of `Gate` |
| Providers, vision | `core/providers/*.py`, `core/vision.py` | none | HTTP | environment of the router |
| Tools | `tools/*.py` | browser session | OS and web calls | one step of a turn |
| Readiness, diagnostics | `core/readiness.py` … | none | checks | environment of `Setup` |
| Shell and web UI | `ui/shell`, `ui/app` | process handle; stores | spawn, restart; render | inputs of handlers |

`PROJECT.json` lists the same components with their status, and under
`hazards` what is hard to test in each, at its line.

### How they interact

* Turns call the **router**, the router takes slots of the **rate limiter** and
  reports outcomes to the **health monitor**, whose probe loop takes slots too.
* A turn's tools put rows on the **task board**; the **pool** runs each as a
  turn of its own. The **orchestrator** puts subtasks there and hears of their
  end on the **bus**, which may lose events, or by polling the rows.
* The **voice thread** submits turns to the event loop and hears of them
  through a bridge coroutine on the bus that fills a thread-safe sentence queue.
* A turn's tool calls pass the **gate**, whose questions any surface may answer,
  and what it sends to a brain passes **sanitize and trim**.
* After a good turn the agent's **maintenance** job summarises, embeds and
  extracts facts; the nightly reconciler embeds what was missed.
* The **UI** runs turns of its own agent, and its HTTP handlers move, delete and
  wipe the conversations under both agents, and cancel everything (`/kill`).
* The **watcher** and the owner switch the game mode, which takes local rungs
  from the router's ladder and the local model out of the GPU's memory.
* The **first run** decides, through `setup.json` and `.env`, which brain the
  next boot builds.
* All share **one SQLite connection** behind one `asyncio.Lock`.

### What is hard, and what correct means

* *Task board*: a row runs at most once over crashes, a verdict is final and is
  what the owner is told, every task that can be decided is.
* *Projects*: a project that is over leaves nothing behind that would still be
  started; lost events do not hang it.
* *Rate limit*: never more than `rpm` in any window, and the background still
  served.
* *Health and routing*: recovery happens without traffic, pinned calls stay
  local, no call hangs or fails in silence.
* *Game mode*: the memory is the game's, and the watcher ends only what it
  began.
* *Turns*: rows of a turn are kept or hidden as a whole, ids are not shared,
  pointers are live.
* *What a turn decides*: a yes means the last offer, memory is erased only when
  asked twice, a good turn has a reply.
* *Gate*: nothing that changes the machine runs without a yes to its own
  question, and no question outlives its turn.
* *Memory*: what is recalled is what was said, what was erased is gone, what
  was said is in reach, facts are not doubled and the forgotten ones do not
  return.
* *Voice*: what is spoken belongs to what was asked, a kill reaches every turn
  and opens no microphone, a response ends.
* *First run*: a file under its name is whole, "provisioned" is true, no
  combination of keys bricks the next boot.

## 2. How the process is modelled

*Atomic steps.* A coroutine runs without interruption between two awaits; an
action is such a stretch, named after what resumes it. A database call holds
the lock from its statement to the moment its caller runs again, and callers
queue in FIFO order. `WorkerPool` and `Turns` have this queue (`dbq`): serving
the head executes the statement *and* the caller's code up to its next await.
`Orchestrator` treats a call as one step, and says with two guards
(`Unhindered`, `Unstamped`) the only order of the lock that such a step would
lose: a write that was asked for right after the read that decided it comes
before the writes of coroutines that did not exist yet.

*Cancellation.* `Task.cancel()` raises at the await where the task is. Where
that is decides what happens, so every model has an explicit program counter
and an operator (`Interrupted`, `Cancelled`, `Delivered`) that says what a
cancel does at each of its values. A coroutine that is cancelled while queued
for the lock leaves a dead request behind that nobody serves (`Husk`,
`Withdrawn`).

*Restarts.* `Reboot` keeps the rows and forgets everything else; `Stop` is the
orderly shutdown. Both happen anywhere, a bounded number of times.

*Threads.* `Voice` has two: the voice thread and the event loop. The loop's
kill handler is one synchronous stretch, but the voice thread sees each of its
statements, so it is four actions (`KillSets`, `KillChecks`, `KillCancels`,
`KillDrains`) during which no other coroutine moves.

*Bounds* are constants named in each module: `MaxTask`, `MaxProject`,
`MaxOutages`, `MaxTrouble`, `MaxToggles`, `MaxSwitches`, `MaxAwaited`,
`MaxTake`, `BusyUntil`, `MaxTime`, `MaxBoots`, `MaxRun`, `MaxTokens`,
`MaxKills`, `MaxHiccups`, `MaxQuestions`, `MaxFlying`, `MaxTurns`, `MaxPieces`,
`MaxMarks`, `MaxRows`, `MaxText`, `MaxErasures`, `MaxJobs`, `MaxFacts`,
`MaxLoaders`, `MaxWalks`, `MaxSaves`, `MaxRestarts`, and the sets `Worker`,
`Canceller`, `Waiter`, `Call`, `UiRun`, `VoiceRun`, `Handler`, `Caller`,
`Request`, `Slot`, whose members are the actors.

*History variables* (`claims`, `notice`, `announced`, `good`, `opened`,
`gameAtStart`, `switched`, `cause`, `by`, `parted`, `home`, `astray`,
`overlap`, `killed`, `log`, `acting`, `clicked`, `moved`, `erased`,
`overtaken`, `raced`, `torn`) record what happened for the properties; no guard
of the code's actions reads them.

*Sums.* Parts that share no state are checked in one run whose behaviours are
each about one part: `MCBackend` (pool, limiter, router, game mode), `MCServer`
(turns, one asset, the setup), `MCMind` (gate, shell, loop, context, messages,
facts). `MCProjects` has two kinds of behaviour of one part: two projects with
one `cancel()`, or one project with two. The
variable `about` or `part` names it and never changes, so the state space is
the sum of the parts' and every property is checked on its own part.

*Mutants.* Definitions marked "Mutant" are never part of a specification. Each
is a plausible bug in the definition that follows it; `PROJECT.json` says which
property it breaks.

## 3. Modules

### TaskBoard — what the pool promises

A task row goes absent → queued → running → done, failed or cancelled; its
runner goes none → live → over and is never live twice. Three edges are there
because the implementation takes them: a claimed row may be stamped cancelled
under its live runner, a runner may vanish without a verdict, a claim may be
lost before a runner exists.

### WorkerPool — `workers/queue.py`

| Model | Code |
|---|---|
| `status`, `doneRow` | `tasks.status`, the 'done' row of `task_events` |
| `dbq`, `Husk` | the database's `asyncio.Lock`, a request whose caller was cancelled |
| `wpc`, `wtask`; `Begin`, `ServeClaim`, `ServeClaimEmpty`, `Awake`, `Reap` | `_worker` |
| `cpc`, `outcome`; `ServeConversation`, `TurnEnds`, `TurnClosed`, `ServeUpdate`, `ServeEvent`, `Notify` | `_run_task` |
| `running`, `wake`, `stopping` | `_running`, `_wake`, `_stopping` |
| `kpc`, `ktask`, `kres`; `CancelCall`, `ServeGet`, `ServeOverwrite` | `cancel()` |
| `Submit`, `SubmitSubtask`, `WakeSubtasks` | `start_background_task`; the orchestrator's silent rows |
| `Stop`, `Reboot` | `stop()`, the end of the process |

Left out: the recorder that mirrors progress events (`queue.py:168-185`), and
exceptions of the database itself.

### Orchestrator — `workers/orchestrator.py` on top of `TaskBoard`

It EXTENDS `TaskBoard`, whose actions `Add`, `Claim`, `Finish`, `CancelQueued`
and `CancelClaimed` are conjoined with the orchestrator's own variables: what
the pool is shown to implement is all the orchestrator relies on.

| Model | Code |
|---|---|
| `pstatus`, `owner` | `projects.status`, `tasks.project_id` |
| `rpc`, `rproj`; `ClaimProject`, `ClaimNone`, `PollAgain`, `Reap` | `_run_loop`, `_running` |
| `Plan`, `Starts`, `AddsSubtask` | `_plan` (with its one retry), the rows, `project_started` and the wake |
| `Hears`, `Polls`, `TimesOut` | `_wait_for_tasks`: an event, the ten-second poll, the deadline |
| `Collects`, `Integrates`, `Reports`, `Concludes`, `Announces` | the rest of `_run_project` and `_fail` |
| `Closes`, `Sweeps`, `Stamps`, `Marks` | the `except CancelledError` block; `Sweeps` and `Stamps` are `pool.cancel`, also after the deadline |
| `Interrupted` | which handler, if any, catches a cancel at each await |
| `Cancels`, `Overwrites`; `Stop`, `Reboot` | `cancel()`; `stop()`, the end of the process |

There is no queue of events: an event says that a row is terminal, which stays
true, so hearing it is a step that may happen at any time later or never.

### TokenBucket — `core/ratelimit.py`

`log` is every acquisition ever made and `head` where the deque starts in it:
the pruned part stays visible to the properties. `TryAcquire` is a caller that
goes on either way, `AcquireWait` one that sleeps `UntilSlot` ticks (at least
one) and tries again, up to `Lag` ticks late. `Rpm`, `BgCap`, `Window` are the
limit, the background's part of it and the sixty seconds.

### HealthMonitor — the cloud / degraded / offline machine

`NoteFailure`, `NoteSuccess` are the two passive signals; `ProbeDue` …
`PingAnswered` the probe loop between its three awaits, with calls reporting in
between. `net` is the world: up, congested (connects, but generates too late)
or down. p95 latency and thresholds on it are left out.

### CloudRouter — `chat()` on top of `HealthMonitor`

`Ladder` is `_ladder` for a kind of turn; `GoesDown` one descent over the rungs
that are missing, cooling down or out of slots, up to the rung whose stream is
opened; `FirstTimeout`, `Refused`, `EmptyReply` what sends a call further down
before its first chunk; `Stalls`, `Breaks`, `StreamEnds` what may come after.
The monitor's own steps and its other callers interleave. `Toggle` is the flag
of `set_game_mode` under a call; what the switch does to the memory is in
`GameMode`. Usage telemetry, RAM arithmetic for the local heavy model and
redaction are left out.

### Turns — `core/agent.py`, the message rows, the HTTP handlers

A `run_turn` is the sequence of its database calls: `ServeNext` (turn id),
`ServeUser`, rounds of `CallsTool`/`ServeTool`, `Answers`/`ServeReply`,
`ServeMark`; `ServeClosing` after a cancel, `ServeNewChat` for the memory
command. A request names the conversation read from the agent when it was made.
`New`, `Resume`, `Delete`, `Wipe` are the handlers with their guards
(`turn_running` only where the code has it). `Reconcile` is another process's
boot on the same file, `Reboot` this one's. Conversation ids are reused as
SQLite reuses them without AUTOINCREMENT. `chan` is a function whose domain is
the conversations that exist; ids and turn ids are numbers without a bound, and
the runs are finite because the calls are. The reads of flags, memory, usage and
audit are left out: they touch neither rows nor pointers.

### Voice — `voice/pipeline.py` and `/kill`

The thread's states idle, listening, (heard, submitted), responding with its
polls of the queue, playing, ended; the submission of a turn and the assignment
of its handle as two steps between which the loop may run (`Submits`, `Holds`);
the bridge (`Bridge`: one bus event to sentences or a sentinel; a failed turn's
text is dropped), turns as `Turns` describes them, and the kill handler.
`Hiccup` is any exception of an audio device or the TTS: the thread goes idle.
Cancels are delivered late. Left out: announcements, push-to-talk as a second
kind of wake, speaker verification, the spoken confirm dialogue, lost events.

### GameMode — `set_game_mode`, `_rewarm`, `ui/gamewatch.py`

| Model | Code |
|---|---|
| `mode`, `auto`, `watch`, `seen` | `game_mode`, `GameWatch._auto_set`, where `_run` is suspended, what `_fullscreen_now` said |
| `weights` | whether the local model is in GPU memory |
| `unloads`, `rewarms`, `replies`, `checks` | requests to Ollama that are awaited |
| `TurnsOn`, `TurnsOff`, `Unloaded`, `Rewarmed` | the switch up to its first await, and the answers |
| `Look`, `AutoOn`, `AutoUnloaded`, `AutoOff` | the watcher's poll |
| `LocalReply` with `KeepAlive`, `Check`, `Checked` | who else loads the model; a reply in game mode is sent with `keep_alive` 0, the check evicts what it loaded |

The flag turns at once, the memory when Ollama answers, and the two may
disagree between. `GameInit` has the boots into game mode as well.

The watcher notes a mode as its own only after its await (`AutoUnloaded`), and
never learns that the owner ended it. `parted` records that: the owner ended a
mode of the watcher's while the watcher held it, or was about to hold it, to be
its own. `ManualModeStands` is what is kept outside of that case, and
`ManualModeNeverFought` the docstring as it stands (section 6).

### Gate and Shell — `core/safety.py`

`Gate` is a tool call from classification to its effect: `CallTool` is
`classify_tool` with the session's state (recognized speaker, approved browser
domains), `Dispatch` the call that flies, `Land` its effect later; a question
is `Answer`ed from any surface, `TimesOut`, or is called off with its turn, by
`Kill` or by a barge-in (`BargeIn`). A call belongs to a `Slot`, one for the
page's agent and one per turn of the voice that may run: the voice has one flag
for its speaker and one handle for the kill switch, both of the newest
utterance. `Hear` sets them, whatever else runs; a turn that was running is
then `outrun`: its flag is the newcomer's, and the kill switch does not reach
it. The timer may overtake an answer that was given and has not woken the turn
yet: then the tool does not run. The browser page is shared by all channels and
by its owner (`Shows`, `OwnerBrowses`). Tools are three kinds: reading,
changing, harmful.

`Shell` is `classify_shell`: a command is a sequence of pieces, each a set of
marks (what the regular expressions find in it), and marks of the whole; a step
checks one command and the run enumerates them all.

### AgentLoop — what one agent decides, `core/agent.py`

`Begin` takes a message: a memory command with its one-shot challenge
(`pending_wipe`), or a turn with the offer it takes (`pending_suggestion`).
`Serves` is one generation with its retries for silence and for a bare promise,
`CallsTools`, `ToolReturns`, `NextRound`, `FinalAnswer` the tool loop with its
cap. `Stored`, `Capped` and `Fails` lead to the awaits of the `finally` block
(`phase = "closing"`: the marks of the rows, the usage), after which `Finishes`
drops the offer of a turn that did not end well. A cancel in one of those awaits
is caught by nobody and leaves at once (`Cut`); a turn cancelled before has no
such await (`Cancelled`).
`log` is the list of turns. A text is its kind (yes, no, wipe, other), a
generation what it holds (speech, a promise, an offer, calls, nothing).

### Context — `core/context.py`

`Sanitize` and `Trim` as functions of a sequence of rows (role, call ids,
length), and `Sends` any sequence of rows that broken turns could leave, a
budget and what is sent. `Keep` takes the rows at a set of positions, and the
loops of `trim` are functions of the position they have reached.

### Recall and Facts — `memory/*.py`

| Model | Code |
|---|---|
| `conv[c].summary`, `.folded`, `.embedded` | `summary`, `summary_upto_id`, `message_embedded_upto` |
| `msg`, `vec` | `messages` rows; the message vectors, by message id |
| `Ask`, `Reply`, `Close` | the user's row, the reply's row, `mark_turn` |
| `Summarise`, `SetSummary` | `maybe_summarize` before and after the model's answer |
| `Embed`, `PutVector`, `SetEmbedded` | `embed_new_messages`: the rows, each vector, the watermark held before the first hole |
| `Wipe`, `Delete`; `ForeignBoot`, `Reboot` | `wipe_all`, `delete_conversation`; the reconcile of another process and of this one |
| `fact`, `fvec`, `op` | `facts` rows, their vectors, the calls in progress |
| `Knn`, `RowsForAdd`, `Insert`, `Activate` | `add_fact` in its holds of the lock |
| `RowsForForget`, `Deactivate`, `ForgetLast`, `DeleteFact`, `WipeFacts` | `forget` and the fact browser |

A message is told from another by when it was written (`text`), and a summary
is the set of texts in it. Ids are reused as SQLite reuses them. `Grade` of two
phrases is 2 above `dedup_similarity`, 1 above `min_similarity`.

### Fetch and Setup — `core/provision.py`, `core/keys.py`, `core/paths.py`, `/api/setup`

`Fetch` has the two ways an asset comes: `download_file` (`Resumed`,
`Restarted`, `NothingLeft` for 206, 200 and 416, `Chunk`, `StreamEnds`,
`Promote`, `AttemptFails`, `Dies`), and the watched loader (`Watch`, `Arrives`,
`Beat`), whose thread goes on when it is given up. A file is the sequence of
its blocks.

`Setup` has the wizard: `ChooseMode`, the walk of `provision.run` row by row
(`CheckDisk` … `Verify`) over `Plan(mode)`, a key's save in its five places
(`Submit`, `Proved`, `WriteEnv`, `WriteEnviron`, `Stamp`), `Complete`, and the
ends and starts of the process (`RestartExit`, `Crash` — also in the middle of
`write_setup` —, `Boot` with what `build_provider` makes of it). A check of an
asset works or does not (`Works`); of keys only the primary cloud key's
presence is kept, the others appear as saves that stamp.

## 4. Runs

| Run | Instance | Question |
|---|---|---|
| `backend` | Pool: 2 workers, 2 tasks (one silent), 1 cancel, 1 outage. Limiter: rpm 3, share 1, window 3, 2 waiters, 15 ticks. Router: 1 call of each of 5 kinds of turn, `recover_after` 2, 1 trouble, 2 toggles. Game mode: 3 switches by the owner, 1 awaited request of a kind | What the agents run on: `NoticeIsTrue`, `OneRun`, `EveryTaskDecided`, the refinement `ImplementsBoard`; `RateHeld`, `WaiterServed`; `PinnedStaysLocal`, `LocalOrHonest`, `Recovers`, `EveryCallEnds`; `ManualModeStands`, `MemoryIsFreed` |
| `projects` | 2 projects with 1 cancel, or 1 project with 2; 2 subtasks, 1 outage | Does a project end without leaving work behind and without counting on events? `NothingLeftQueued`, `CompletionNoticed`, `RunnerReturns` |
| `server` | Turns: 3 calls out of 1 UI turn, 2 voice turns and 2 HTTP calls; 1 boot. Asset: 3 blocks, 2 attempts, 2 loaders. Setup: 2 walks, 2 key saves, 2 requests, 1 restart | What the handlers work on: `TurnIsAtomic`, `NoSharedTurn`, `UiPointerLive`; `FetchedIsWhole`, `GivesUpOnTheDead`; `ProvisionedIsEarned`, `WalkIsShown`, `BootNeverRefuses`, `KeyIsApplied` |
| `voice` | 2 turns of 1 token, 1 kill, 1 device failure | `ResponseIsOwn`, `KillReaches`, `NoFollowUpAfterKill`, `ResponseEnds`, and no deadlock |
| `mind` | Gate: 2 turns out of 1 of the page and 2 of the voice, 2 questions, 2 domains. Shell: 2 pieces with 2 marks each. Loop: 3 turns of 2 generations. Context: 4 rows. Memory: 2 conversations, 4 messages, 2 jobs, 1 erasure, 1 boot; 3 facts, 2 callers, `K` 2 | What happens inside a turn and after it: `RunsOnlyOnYes`, `ClickedWasAsked`, `NoOrphanQuestion`, `UnaskedIsReadOnly`, `YesMeansTheLastOffer`, `ErasesAreAskedTwice`, `EveryReplySpeaks`, `Sendable`, `RecallIsHonest`, `NothingLost`, `NoTwins`, `ForgottenStaysForgotten` |
| `pool_cancel_stuck`, `game_mode_fought`, `turns_shared_id`, `stale_offer`, `voice_kill_misses`, `memory_wipe`, `setup_no_brain` | small | one statement of the source each that the code does not keep: see section 6 |

**Why the bounds are enough.** Every hazard listed takes at most two actors of
a kind and one disturbance. Two workers and a canceller suffice for all orders
of claim, overwrite and the child's calls, because the lock is FIFO and a
canceller makes two calls. A second `cancel()` matters only where it meets the
handler of the first, so it is given to one project alone. One outage separates
a before and an after; a second one starts from a state the first can also
reach. Two projects show that the runner returns; with two subtasks a project
has a decided and an undecided one. Four acquisitions overflow a bucket of
three. One trouble breaks the streak, and the probe has to climb again. One
call is enough for the router because all that one sees of another is what it
reported to the monitor (`CallFailed`, `CallServed`). Two voice turns are a
turn and the one that barges in on it, or outruns it at the gate, where any two
of the three slots take part in a behaviour (`absent` is the third). In
`server` any three of the five calls do. The symmetry of the voice turns, of
the HTTP calls, of the key requests (`server`) and of the voice slots and browser domains (`mind`)
is used, which is sound because these two runs check no liveness. Three turns
of an agent are the offer, the one that takes it and the one that must not.
Four rows hold a question, a call, its result and one more; budgets 1 and 3 cut
in the first and in a later block. In the memory `Every` is 3 and `KeepRecent`
2, so that four messages make a fold due and leave rows outside it; the wiped
id is handed out again. Three facts overflow the two candidates of `add_fact`
(the code has three) and the two that a `forget` takes (`K`). In `server` three
loss-prone blocks have a first, a middle and a last, and of two saves one
overtakes the other; a key that the shell exports is tried on a machine that
already has the runtime library, whose own installation such a key does not
touch. Where TLC's instance is small, the theorems of section 5 hold for all.

**Constraints.** Two runs stop where a recorded disturbance has made the
properties' condition false, since what follows says nothing more: `mind` with
`Undisturbed` (a page changed under a question that was being asked; a job of
the memory has written on reads an erasure or repair had outdated; two calls on
facts raced) and `server` with `Uncut` (the mode was changed under a running
walk; a crash cut a key's save in two; two saves of the primary key overlapped
between file and environment). The step into such a state is still explored and
checked; `ClickedWasAsked`, the memory's properties, `ProvisionedIsEarned` and
`BootNeverRefuses` name the condition themselves, in the formula or in their
theorem; `WalkIsShown` and `KeyIsApplied` are proved without one.

**Deadlock** is checked in `voice`, whose system never stops. The others may:
all calls made and answered, the clock at its bound, the process stopped for
good, a sequence of turns at its bound.

**Fairness and why the code justifies it.**

* `backend`, the pool: the lock is handed on; a worker's wait has a five-second
  timeout; a turn ends (`max_iterations`, stream timeouts). No fairness for
  submissions, cancels or outages.
* `projects`: the same for the runner, model and database calls, and the
  ten-second poll. The deadline is fair only when a subtask can no longer end,
  so that `CompletionNoticed` is the poll's doing and not the deadline's. No
  fairness for events: they may be lost.
* `backend`, the rest: the probe loop and the cooldown timer run, and the
  timers of a call fire; providers may do nothing, and nobody has to call. The
  limiter needs no fairness: `WaiterServed` is a bound in ticks on how long a
  sleeper goes on unserved once interactive callers stop (`BusyUntil`), with
  wake-ups at most `Lag` late. A behaviour is fair to the part it is about
  (`BackendFairness`): elsewhere nothing is owed.
* `voice`: the submission goes on, the response loop polls, the bridge and the
  kill handler run on, a turn ends. Nobody has to speak.
* `server`, `mind`: safety only.

Some properties have a condition, and say in words what it stands for:
`~astray` (no handler switched a turn's conversation under it or gave the id of
a deleted one it still writes to to another, and the pipeline has not forgotten
a turn that runs), `~overlap` (the
previous turn had gone quiet before the next was submitted), `hiccups = 0`,
`~switched`, `cause = "none"`, `parted`, `hold = "outrun"`, `stopping`,
`overtaken`, `raced`. Each condition
is a behaviour the code has and a reader should know of; where the source
promises otherwise it is a finding, and the others are listed in section 6.

## 5. Proofs

TLAPS proves these for every value of the constants (any number of workers,
tasks, callers, channels, questions, turns, requests, conversations and facts;
any rate, share, window, `recover_after`, file size, patience, cadence of
summaries and similarity of texts).

| Module | Theorems |
|---|---|
| `WorkerPool_proofs` | `PoolTypeCorrect`, `PoolInvariant`, `NoticeCorrect`, `OneRunCorrect`, `ReachableCorrect`, `AnnouncedCorrect`, `IdleCorrect`, `DoneIsFinalCorrect`, `PoolImplementsBoard` |
| `Orchestrator_proofs` | `ProjectInvariant`, `LeftoverCorrect`, `ProjectsUseBoard` |
| `Cloud_proofs`: limiter | `BucketInvariant`, `RateCorrect`, `ShareCorrect`, `ServedCorrect` |
| `Cloud_proofs`: monitor, router | `MonitorCorrect`, `StreakCorrect`, `ClimbCorrect`, `PinnedCorrect`, `OneVoiceCorrect`, `HonestCorrect` |
| `Cloud_proofs`: game mode | `GameCorrect`, `WatchCorrect`, `MemoryCorrect` |
| `Turns_proofs` | `TurnsInvariant`, `AtomicCorrect`, `SharedCorrect`, `PointerCorrect` |
| `Voice_proofs` | `VoiceInvariant`, `OwnCorrect`, `ReachCorrect`, `NoFollowUpCorrect` |
| `Mind_proofs`: agent | `YesCorrect`, `EraseCorrect`, `SpeechCorrect` |
| `Mind_proofs`: gate, shell | `GateCorrect`, `QuestionsCorrect`, `ClickCorrect`, `StrictestDecides`, `UnaskedCorrect` |
| `Mind_proofs`: context | `SentCorrect` |
| `FirstRun_proofs` | `FetchCorrect`, `FetchTypes`, `GivesUpCorrect`, `ProvisionedCorrect`, `BootCorrect`, `AppliedCorrect`, `ShownCorrect` |
| `Memory_proofs` | `HonestRecall`, `NothingIsLost`, `FactsStayApart`, `ForgottenFactsStay` |

**The pool.** What callers rely on (a notice is what the row says from then on;
done is final) is not inductive, because of one race: `cancel()` reads the row
as queued, a claim that was ahead of it in the lock takes the row, and only
then does the overwrite land. It is harmless because the overwrite was asked
for *before* the child of that claim can ask for anything. `OverwriteInv` says
so: while a canceller waits to overwrite, its request is in the lock's queue
ahead of the child's first call (`Ahead`), and the child has not got beyond
that call. `UnclaimedInv` ties rows, children and claims (a queued row has no
child and was never claimed), `ChildInv` the child's place to the row it has
written, `AwaitInv` workers to children. `IInv` is their conjunction with
`TypeOK`, `ChildReachable` (a live child is registered and awaited) and
`AnnouncedIsTerminal`. `NoIdleWorker` (no worker waits beside a queued task)
needs only `TypeOK`. `PoolImplementsBoard` maps a child's program counter to
the board's `runner` and shows each step to be a board step or a stutter.

**The bucket.** `RateHeld` speaks of acquisitions the deque has forgotten.
`OrderInv` bridges: stamps are in time order, and everything before `head` is a
window old. When a slot is taken, the acquisitions in the window that ends now
are therefore among those the deque holds, which are fewer than the limit.
`WaiterServed` is a bound in ticks and so a safety property. A waiter that is
refused finds a stamp in the deque, and sleeps no longer than until the *last*
stamp is a window old (`SleepInv`); so it resumes, late by `Lag` at most, when
the deque is empty or somebody has been served meanwhile. `PaceInv` counts: each
waiter that has been served puts off the last stamp by at most one window and
one lag. A background share of nothing is excluded (`BgCap > 0`), for there the
polls never end.

**The projects.** A child's place tells which of its subtasks may still be
undecided (`ChildInv`): none exist before the plan is stored, all that are not
terminal are in `pending` while it waits, all that are queued are in `todo`
while it cancels, and none is queued once it is over. A row's status only moves
on (`Onward`), so what other projects, workers and restarts do keeps each of
these. `ProjectsUseBoard` shows every step to be one of the board's or none.

**The turns.** The lock's queue is the crux. `QueueInv`: whoever waits has
exactly one request in it, for the place it is at. `LiveInv`: one UI turn runs,
and one voice turn besides those that were cancelled and are closing, whose last
write is *ahead* of their successor's requests. `HomeInv`: a turn's requests
name the conversation it began in, and the two agents' turns are in different
ones. From these, `RowInv`: the turn id that `NextTurnId` gives is in use by
nobody, because the rows of a predecessor in the same conversation are all
written, the closing one included. `OutcomeInv` ties what the rows show to the
outcome. All but `QueueInv`, the types and the pointer hold while `~astray`.
The attempt to prove `NoSharedTurn` showed two ways to break it that three voice
turns or three handlers are needed for, which the run does not have: a stale
sentinel makes the pipeline forget a turn that runs (section 6), so that nobody
cancels it when the next one starts; and the id of a deleted conversation is
handed out again while a turn of it is still writing. TLC confirmed both; they
now count as `astray`.

**The voice.** `OwnInv`: only the newest turn may still say something and all
that waits in the queue is of it, because the drain before a submission finds
everything quiet. `EndInv`: a sentinel is of a turn that is over, so taking it
while the kill is pending cannot hide one. `ReachInv` is `KillReaches` with the
thread's places in which a turn runs; `KillInv` keeps `_interrupt` set from the
kill to the end of the response it hit.

**The monitor and the router.** `MonitorInv` bounds the streak by the successes
since the last failure, at each place the probe loop can be suspended.
`CallsInv` says that a pinned call has no rung left besides the one it is on;
the ladder of a pinned turn is the local brain in every state of monitor and
game mode. For `LocalOrHonest` the invariant follows a call that was not
switched: what it has opened, what it still may open, and that outside of game
mode the local brain is in one of the two.

**The game mode.** `GameInv` counts: in game mode either the weights are out,
or one of the requests that will take them out is awaited, or `cause` names
what brought them back. What the watcher holds, or is about to hold, to be its
own is a mode that is on and that it began (`HoldsItsOwn`), unless the two have
`parted`.

**The agent.** The invariant ties `offer` to the last turn of `log` and
`pending_wipe` to a challenge that is its last entry, at each place the turn can
be suspended; silence is excluded because every way to `Stored` passes the final
answer, and the loop's flags say which retries are spent. An offer outlives a
turn that was not stored only if that turn's entry is `cut`.

**The gate.** For each place of a call the invariant says what its question's
future and verdict are and that no other call has the same question; that a
turn of an unrecognized speaker is flagged or outrun (`Flagged`); what flies
keeps the verdict it was dispatched with, because a decided question never
changes. The same holds for the pages: a yes is to a question on a page, and a
call that acts on a page carries its approval with it (`ClickInv`) until the
page moves.

**The shell.** `Verdict` is a recursive function over the pieces of a command,
so what it returns for a command of any length needs an induction, which the
library's theorems offer only for operators. `StrictestDecides` does without:
of all positions at which the claim about the pieces so far fails there is a
first one (`WFMin` on the order of the naturals), it is not the position before
the first piece, and the function's equation (`FiniteNatInductiveDef`) carries
the claim over it from the one before. The same argument gives the greatest
member of a bounded set of ids in `Turns_proofs`.

**The context.** The same induction (`CountUp`) carries what the loops of
`Keep`, `Chars` and `Dropped` compute, which is why they are recursive
functions and not folds of the community modules. A list made by `Keep` is
described by the positions it takes (`Lists`): increasing, and all of them;
there is one such list (`ListsUnique`), and a list of a list is a list. `Sound`
says of a set of positions what `Valid` says of a list; that a run of tool rows
among the rows that are kept is a run among all rows (`RunKept`) holds because
each kept tool row's own call is kept, and so ends the run of any other. What
both passes keep is sound; a valid list goes through both unchanged; and `trim`
drops whole blocks (`Whole`), which leave sound positions. None of them is of
the turn being answered (`CurrentStays`): whatever precedes a question that may
go is before one that may not. `DropFine` is the invariant of its loop: the
tokens it counts as left are never fewer than what the rest weighs, because
each block's estimate is rounded down by itself (`TokensSplit`), so the loop
may drop a block more than it has to, but what it sends fits or nothing that
may go is left.

**The first run.** A `.part` is a prefix of the file while a stream is open at
its end, which is why a promoted one is whole. The watched loader's theorem
needs that `last` is never above what has arrived. For the setup, `Needs` of
the walk's mode is collected row by row, and a stamped router mode implies a key
on file or in the save that is on its way, as long as nothing was torn. The
rows shown need no such condition: wherever the walk is in its checklist, the
rows before are answered (`Underway`), or it is at the verdict and the model's
row was passed over for a daemon that is missing.

**The memory.** A summary is a set of texts up to a row. The invariant says
which (`Folds`): all completed rows up to that one, none past it, never the
newest row, and so never the failed row of a turn that is still running and
whose repair would come too late. That needs `KeepRecent > 0`, a hypothesis of
`NothingIsLost` (the configuration says 10). `Tail` is what makes
the step of a running turn harmless: its question and answer are the newest
rows. `Embeds` and `Reads` say the same of the vectors up to the watermark and
of the rows a job holds, as long as nobody has written since it read
(`~overtaken`). For the facts, the step that checks and the step that writes
are joined by what a call *knows* while nobody else has written (`Knows`):
between its search and its rows, that every fact outside its candidates has
more rivals than candidates fit; between its rows and its write, that nothing
says the same and that whatever is close and forgotten is crowded out. `Apart`
has to be about all rows and not only the active ones, because a forgotten fact
that is said again comes back with no look at the others. A commit makes every
other call `stale`, which is why nothing is claimed once a stale one has
written (`raced`).

**Type invariants** are theorems (`PoolTypeCorrect`, the invariants named
above) and not properties of runs, except where they are part of one.

**Assumptions** are the named `ASSUME`s of the modules (naturals, non-zero
limits, disjoint sets of callers). Two corners of the configuration lie outside
them: with `rpm = 0` `seconds_until_slot` reads an empty deque
(`ratelimit.py:50`), and with `rpm` times the share below one the background
never gets a slot.

**Only model-checked**: all liveness (`EveryTaskDecided`, `CompletionNoticed`,
`RunnerReturns`, `Recovers`, `EveryCallEnds`, `ResponseEnds`: out of the
prover's reach).

## 6. Where the code and its own statements part

| Run | Statement | What happens |
|---|---|---|
| `pool_cancel_stuck` | `tools/tasks.py:64` "Cancel a queued or running background task." | A cancel that meets the child outside `run_turn` (opening the conversation, writing the verdict) ends it with no handler; the row stays running for ever |
| `game_mode_fought` | `ui/gamewatch.py:5` "a manual "game mode on" is never fought by the watcher" | The owner ends the watcher's mode and begins one of his while the watcher awaits its switch, or between two polls; the watcher believes it to be its own and ends it |
| `turns_shared_id` | `core/agent.py:255` "A completed turn is all-'ok'" | A resume between a turn's id and its first row gives it a finished turn's id in another conversation; failing later, it quarantines both |
| `stale_offer` | `core/agent.py:289` "An errored or capped turn must not leave a stale suggestion for the next turn" | A cancel while the turn awaits `mark_turn` or `add_usage` leaves the `finally` block before the offer is dropped; the next yes carries it out |
| `voice_kill_misses` | `voice/pipeline.py:345` "the UI kill switch must reach VOICE turns too" | A device exception sends the thread idle with its turn running; the next utterance overwrites the handle |
| `memory_wipe` | `memory/store.py:426` "True amnesia: every fact, every vector, the raw turns and the rolling summaries" | A job that had read its rows before the wipe writes their vector or summary after it |
| `setup_no_brain` | `ui/server.py:902` "the same can_finish gate that holds the key step holds here too" | A key that only the shell exports satisfies the gate, and nothing stamps the cloud brain; the next boot builds the local one, which has no model |

The models contain further behaviours that no statement of the source forbids,
or that take a run of their own to show again, and that a maintainer should
know:

* `cancel()` of a queued project or task writes without looking again. For a
  task the run it then stamps ends with its own verdict; for a project that was
  claimed in between, `running` overwrites `cancelled` and it runs to the end.
* A second cancel of a project interrupts the handler of the first: the row
  stays non-terminal and the subtasks not yet swept are run.
* `stop()` while a project's end is being announced restamps it as cancelled.
* A row that was running (task or project) at a restart stays so for good, and
  `cancel()` answers False; queued subtasks of such a project still run.
* A project whose provider raised is failed inside the `except Exception`
  block, where even a first cancel is caught by nobody.
* The deadline of a project is looked at before the event that would have met
  it.
* A failure reported while the monitor's ping is in flight restarts the streak,
  and the ping's answer lifts the state all the same (`router.py:418`).
* A reload that a switch-off began is not cancelled by the next switch-on: it
  loads the model into game mode; off, on and off again makes two reloads.
* The safety session has one flag for the voice channel (`core/safety.py:513`),
  set or cleared at each utterance (`voice/pipeline.py:607`, `616-623`). When a
  device exception or a stale sentinel has left an older turn running, that
  turn's tools are judged by the newcomer's recognition: a stranger's turn goes
  on under the owner's, and the owner's is refused under a stranger's.
* A cancel before `run_turn`'s try block (`agent.py:202-209`) leaves neither a
  closing row nor a `turn_end`; a voice response then ends only by a kill or a
  barge-in.
* The `turn_end` of a cancelled turn may reach the bridge after the queue was
  drained for the next one. Its sentinel ends the next response, and `_respond`
  drops the handle of the turn that runs (`pipeline.py:671`); the utterance
  after that starts a turn beside it, and the two can take the same turn id.
* Conversation ids are reused after a delete; a turn that was not the UI
  agent's goes on writing rows under its id, now in the new conversation.
* The delete guard looks at the UI agent only; deleting the voice agent's
  conversation leaves that agent on a row that is gone. The memory wipe has no
  guard for running turns.
* Text left in the bridge's buffer by a turn that died is spoken at the start
  of the next one.
* A call that starts in game mode and outlives it can fail without having tried
  the local model.
* An answer that is set in the tick of the timeout or of a cancel is told to
  the surface as approved, and the tool does not run.
* An approval is recorded for the page that is open when the tool starts: a
  page that changed under the question is approved unasked.
* A call that was dispatched lands even when its turn was cancelled meanwhile.
* Opening a new conversation or resuming one leaves the offered next step of
  the agent where it is; a yes in the other conversation carries it out.
* Two `add_fact` of one text at once store it twice; a forget between the check
  and the insert of another call is missed. Three closer facts hide a forgotten
  one from the extractor's check.
* `forget` takes the `k` best matches (`config.yaml:120` "facts injected per
  turn"), where its docstring has all above the floor go (`store.py:233`); with
  more than `k`, five by default, the rest stays active.
* A loader that was given up goes on in its thread beside the next attempt.
* The install mode may be changed under a running walk: `provisioned` is then
  written for the mode chosen last.

## 7. What is not modelled

* *Telegram, CLI*: what they add to `Gate` is an answer. The bot handles its
  updates one at a time, so that a Yes or No pressed during a turn of its own
  is read after the question's timeout (`clients/telegram_bot.py:145`).
* *Scheduler and notifier*: a cron library, and calls that return. `run_now`
  (`workers/scheduler.py:121`) bypasses the library's limit on instances.
* *The state feed of the UI* (`ui/server.py:119-156`): it folds the events of
  all channels into one gauge, for display.
* *Readiness, diagnostics, disclosure, desktop shell, web UI*: reads of the
  machine, process handling outside Python, rendering.
* *Providers, tools, audio, OCR, embeddings, speaker verification*:
  environment. The models take what they can do, not how.
* *Patterns and wording*: the regular expressions behind commands, intents and
  shell marks, prompts, titles, token estimates beyond a length.
* *Memory*: the vector table's flip between vec0 and BLOB storage, the
  extractor's watermark, ranking for retrieval; the reads of a watermark and of
  the rows past it (two holds of the lock) are one step.
* *Gate*: `dry_run`, an empty command, repair of wire arguments.
* *Setup*: other keys than the primary one, access lists, masking, health
  checks inside; the acknowledgement is part of `Complete`.
* *Database errors*: what SQLite raises, and when, is not decided in `src/`.
* *The event bus as such*: its fan-out is a loop; what matters is loss, which
  `Orchestrator` assumes of every event and `Voice` of none.
* *Build, installer, scripts, benchmarks, legacy UI*: not part of the running
  system.

## 8. Plan

Done: the pool and its abstract board, the orchestrator on top of it, limiter,
monitor, router, game mode, turns, the agent's loop, context, gate, memory,
voice, first run; proofs of every safety property the runs check.

Next, proofs: the refinement of an abstract
turn (asked, answered, failed or cancelled as a whole) by `Turns`.
