# nanobot: a TLA+ verification project

nanobot is a personal AI agent: one gateway process receives messages from chat
channels, a WebUI, an HTTP API, cron jobs and local triggers, runs them as *turns*
of sessions through a language model and tools, and sends the answers back. The
Python package is `src/nanobot/`; `src/tests/` and `src/docs/` were read with it.

The project checks the coordination of that process: who may run when, where a
message is at any time, what is on disk when the process dies, and what happens
when a command, a timer, a reload or another process arrives in between. Almost
everything runs on one asyncio event loop, so the interleavings that matter are
those at `await`; where files are shared with other processes or survive a crash,
they are those at each file operation.

## Inventory

| Part | State it keeps | Operations | Interacts with | Hard behaviour |
|---|---|---|---|---|
| Agent loop dispatch (`agent/loop.py` `run`, `_dispatch`, `process_direct`; `bus/queue.py`) | inbound bus, session locks, concurrency gate, pending queues, active tasks | consume, route, spawn, start turn, inject, re-publish, cancel | channels publish; commands cancel; the runner drains | cancellation at every await, bounded queues, ordering |
| Automation turns (`agent/automation_turns.py`, `cron_turns.py`, `triggers/local_turns.py`) | deferred turns per session, futures of submitters | submit, defer, publish next, complete | cron timer and trigger runner wait on the futures | a future nobody resolves, a deferred turn nobody publishes |
| Continuations (`session/turn_continuation.py`, `goal_state.py`) | goal state in the session, continuation counter | continue a turn that ran out of iterations | its own pending queue | waiting for oneself |
| Local trigger queue (`triggers/local_store.py`, `local_runner.py`) | `triggers.json`, delivery files in `pending/`, `processing/`, `failed/` | enqueue, claim, retry, complete, recover, enable, delete | CLI processes, agent loop | crash between two file operations, retries, a batch in memory |
| Cron service (`cron/service.py`) | `jobs.json`, `action.jsonl`, the store in memory, a timer task | add, remove, enable, update, run, list, tick | WebUI, the cron tool, other processes, agent loop | store replaced during an await, a timer cancelled in the middle of a job |
| Agent runner (`agent/runner.py`) | messages of the turn, checkpoint | iterate model and tools, inject | providers, tools, session | partial results on cancellation |
| Turn state machine (`loop.py` `_state_*`) | session history, restart flags | restore, build, run, save | session store | crash between persist and save |
| Subagents (`agent/subagent.py`, `tools/spawn.py`) | running tasks, counts per session | spawn in the background or inline, announce, cancel by session | bus, loop, exec sessions | completion racing cancellation, a turn that waits for results |
| Exec sessions (`tools/exec_session.py`) | two tables of processes, each under a lock | start, poll, write, list, terminate, close | turns, subagents, `/stop`, shutdown | table and processes change in different steps |
| Session store (`session/manager.py`) | cache, session objects, files | load, save, cap, invalidate, delete, history of a prompt | everyone | the same session in memory twice |
| Memory consolidation (`agent/memory.py`, `autocompact.py`) | cursor, `history.jsonl`, a lock per session | archive before and after a turn, compact idle sessions, farewell of `/new` | session store, provider | a cursor computed before an await; who takes the lock and who does not |
| Channel manager (`channels/manager.py`) | outbound queue, what was read too far, fingerprints, instances and their tasks | dispatch, coalesce, suppress, retry; start, replace, remove, stop | channels, WebUI settings | one dispatcher for all channels; instances replaced while it sends |
| Provider failover (`providers/fallback_provider.py`, `base.py`) | circuit breaker, streamed flags | try primary, fallbacks, retry, close segments | runner | two layers with flags of their own, breaker shared across awaits |
| Pairing store (`pairing/store.py`) | codes, approvals | issue, approve, deny, revoke | channels, commands | expiry, lost file |
| Other tools, MCP (`agent/tools/`) | connections | call, reconnect | runner | leaks, timeouts |
| Channels, providers, WebUI, CLI, config, security, desktop | | I/O, formats, predicates over strings | | not candidates, or only through their calls |

What makes each part correct: a session works on one turn at a time and the gate
bounds turns in all; an accepted message is in exactly one place until it ends and
does end; automations are answered in turns of their own and their submitters are
told; however a turn ends, the history it leaves is one a provider accepts; whatever
shrinks a session, each message is in the prompt or in the archive; a delivery is
handled at least once and tried a bounded number of times; an occurrence of a job
runs once, a due job does run, and no change is lost between memory, `jobs.json` and
`action.jsonl`; a request to the model ends, does not give up before every model was
tried, and never shows the output of two models as one; what is published reaches the
user in order and one running channel instance has the name;
results of subagents reach their session, and `/stop` and the shutdown leave no process
nobody can find, unless they are cancelled themselves.

## Modules

| Module | Models | Proved about in |
|---|---|---|
| `QueueOps` | prefix, suffix and removal on queues | lemmas in `AgentDispatchProofs`, `SubagentsProofs`, `SessionMemoryProofs` |
| `AgentDispatch` | the agent loop, from the bus to the end of a turn | `AgentDispatchProofs` |
| `SessionService` | what that loop promises, without queues, locks or tasks | `AgentDispatchProofs` |
| `SessionTurn` | one turn after the other of a session: what is in memory and on disk | `SessionTurnProofs` |
| `LocalTriggerQueue` | the file queue and its consumer | `LocalTriggerQueueProofs` |
| `CronService` | the scheduler, its files, other processes | `CronServiceProofs` |
| `ProviderFailover` | a request to the model: failover inside retries | `ProviderFailoverProofs` |
| `SessionMemory` | what shrinks a session while it is in use, and the archive | `SessionMemoryProofs` |
| `ChannelManager` | the outbound dispatcher and the channel instances | `ChannelManagerProofs` |
| `Subagents` | subagents, their processes, `/stop` and the shutdown | `SubagentsProofs` |
| `MCAgentDispatch`, `MCSessionTurn`, `MCLocalTriggerQueue`, `MCCronService`, `MCProviderFailover`, `MCSessionMemory`, `MCChannelManager`, `MCSubagents` | instances for TLC | |

The modules meet at narrow interfaces. `AgentDispatch` shows that turns of a session do
not overlap, which `SessionTurn`, `SessionMemory` and `Subagents` assume; `SessionTurn`
has what one turn writes, `SessionMemory` what happens to it afterwards; the turn that
`CronService` and `LocalTriggerQueue` wait for is an automation of `AgentDispatch`.

### AgentDispatch

A message is also the name of the task that processes it, since `run()` creates at
most one task per message. `pc` is the await a task stands at: `created` (not
started), `lock`, `gate`, `run` (in its turn), `put` (in the awaited `put()` of a
continuation), `await` (a `/new` waiting for the tasks it cancelled), `direct`,
`done`. `lockQ` holds a session lock's holder and then its waiters, `gateQ` the
waiters of the gate; asyncio grants both in order, which the model keeps.
`registered` is `_pending_queues`: whose queue is published for the session.

| Action | Code |
|---|---|
| `Publish`, `CallDirect` | `publish_inbound`, `submit()`, `process_direct()` |
| `BeginInlineCommand`, `AwaitedDone`, `EndStop`, `EndNewInline` | priority and inline commands; `cmd_stop`, `cmd_new` |
| `Defer`, `RouteToPending`, `Spawn` | the three other ends of one iteration of `run()` |
| `StartTask`, `LockGranted`, `GateGranted` | `async with lock, gate` up to the published queue |
| `DrainInjections` | `_drain_pending` called by the runner |
| `FinishTurn`, `FailTurn`, `ContinueTurn`, `CommandNew` | the body of the turn |
| `CancelTurn`, `CancelWaiting`, `CancelUnstarted` | where a cancellation arrives |
| `LeaveTurn` (operator) | the inner `finally` that re-publishes leftovers |

`TasksStartFirst` is the one difference between Python versions that matters:
`asyncio.wait_for` lets new tasks run before it returns an available message up to
3.11, and does not from 3.12 on, so a command may cancel a task that has not
started. `SessionService` is the abstract specification; `ServiceSpec` maps every
message to `absent`, `accepted`, `working` or `over`.

### SessionTurn

`mem` is the cached `Session` and `disk` its file: the messages, the runtime
checkpoint (kept as the messages it restores) and the flag of an unanswered user
message. `AgentDispatch` shows that turns of a session do not overlap, so here one
turn follows the other; inside a turn, `pc` and `iteration` follow the states of
`loop.py` and the loop of `runner.py`.

| Action | Code |
|---|---|
| `Restore`, `Build`, `BuildContinuation`, `Shortcut`, `ShortcutReply`, `SaveTurn` | `_state_restore`, `_state_build`, `_state_command`, `_state_save` |
| `CallTools`, `ToolsCompleted`, `ToolsFailed` | an iteration with tool calls |
| `Answer`, `GoalGoesOn`, `NoAnswer`, `Blank`, `Truncated` | an iteration without: an answer, one that a goal continues, an error or blanks, a retry, a cut-off answer |
| `Join` | a follow-up, a subagent's result or a continuation out of the pending queue: `_drain_pending`, `_append_injected_messages` |
| `OutOfIterations`, `ContinueLater` | the `else` of the iteration loop, and `maybe_continue_turn` after it |
| `Cancel`, `Fail`, `New`, `NewInline`, `Crash` | the other ends of a turn |

A message is a role and what it is `of`: the user messages it carries, or the
iteration that produced it. Whether the pending queue has something is a choice of the step
that drains; what it has joins message by message (`Join`). `WithJoined` merges as
`_append_injected_messages` does: a visible user message into a visible user message. The
result of a subagent is a hidden message, so it stays one of its own and nothing is merged
into it. When the iterations are used up the turn either has an answer (`OutOfIterations`)
or, with an active goal, none: the answer is stripped and a continuation is queued
(`ContinueLater`), which begins a later turn without storing a message or joins one. `cut`
remembers the lengths of the history at which that happened.

### LocalTriggerQueue

Each directory is a function from deliveries to the attempts written in the file,
or `NoFile`. A file operation is an action of its own where the crash between it
and the next one can be observed (`WriteRetry` then an unlink; `Complete`); a whole
section under the `FileLock` is one otherwise. `Crash` may come between any two.
The runner is a `pc` over `run_local_trigger_queue`; the turn itself is a
nondeterministic outcome (answer, exception, error at the record).

### CronService

`disk`, `actions` and `mem` are `jobs.json`, `action.jsonl` and the store in
memory. A job is enabled, next and last run; the identity of job objects, on which
the code depends, is the flag `own` of a task: the executed object still belongs to
the store. `tick` is the set of timer tasks: `_arm_timer` cancels one and creates
another, and the cancelled one may still be about to run its `finally`. Methods
without an await are one action; a tick is cut at each job. `Seen` lets other
processes read `jobs.json` at one time and append to `action.jsonl` at another.
`Merged` says what merging comes to, job by job: the last line about it decides.
The WebUI looks at a job and then starts `run_job` in a task of its own
(`ws_http.py:651`): `AskRun`, `RunJob` or `RunRefused`, and `RunEnds`. Two constants
allow what breaks properties (see below): `DiesInMerge` a crash between the two writes of a
merge, "run_late" in `Calls` that a tick goes on before `run_job` begins.

### ProviderFailover

`req` has a record of the locals of one request in both layers: `outer` and `muted`
belong to `chat_stream_with_retry` and `_run_with_retry`, `inner`, `dropped`, `at`
and `last` to `_try_with_fallback`. `segment` is what the user sees in the open
stream segment, relative to the call in progress. An error is of one of six classes,
told apart by `_is_transient_response` and `_should_fallback`. The two disagree on
"disputed": a status 400, 404 or 422 with a transient marker in its text is transient for
the retries (`base.py:432`) and no reason to fail over (`fallback_provider.py:370`).

| Action | Code |
|---|---|
| `Begin`, `Abandon` | `_request_model` of the runner, its `wait_for` |
| `Attempt` | a round of `_run_with_retry` up to the first call; `chat_stream` of `FallbackProvider` |
| `Delta` | content through both `_tracking_delta` |
| `PrimaryAnswers`, `PrimaryError`, `PrimaryFails` | the part of `_try_with_fallback` about the primary |
| `NextFallback`, `FallbackReturns`, `NoFallbackLeft` | its loop over fallbacks and its end |
| `Decide`, `Wake` | what `_run_with_retry` does with an error; the delay |
| `Elsewhere`, `CoolDown` | other sessions and time change the breaker |

### SessionMemory

`SessionManager` hands out objects, and after `invalidate()` a session may be in memory
twice; so sessions live in a `heap`, `cached` names the one in the cache, `file` is on
disk. A message is an input and a number, 0 for the user message; `archived` is what
`history.jsonl` covers. `lock` is the queue of the consolidation lock and `job` what
its holder keeps across the call of the model: an object, a chunk, a new cursor or the
messages to keep.

| Action | Code |
|---|---|
| `StartTurn`, `Persist`, `Finish` | the parts of `_state_build` and `_state_save` about the session |
| `Consolidate`, `Archive` | `maybe_consolidate_by_tokens`, of a turn or in the background, up to and after a call of the model |
| `CheckExpired`, `Compact`, `Compacted` | `check_expired`, `compact_idle_session` up to and after its call |
| `Command`, `New`, `Farewell`, `Stop`, `Delete` | `_state_command`, `cmd_new` and its background archive, `cmd_stop`, `delete_session` |
| `Crash` | the process ends; `_load` afterwards |
| `Save`, `Capped`, `Retained`, `Replay`, `Histories`, `ReplayOverflow` (operators) | `save` with the file cap, `retain_recent_legal_suffix`, `get_history` before and after it counts tokens, `_replay_overflow_boundary` |

`ReplayOverflow` and `Replay` compute from the same messages, one where the replay window
will begin and one what it contains; `AllRecalled` compares them. What the token budget of
the prompt leaves of the window is a choice (`Histories`): the code archives nothing for it,
so the property says only that it takes the oldest messages and never all. `lost` remembers
what a deletion discarded, and what a crash took that the background archive of a `/new` had
in memory.

### ChannelManager

`outbound` and `pending` are the bus queue and what coalescing has read too far. `hand`
is what the dispatcher sends and the instance it has looked up; its `ids` are the
messages that coalescing has made into one, so a merged delta remembers what it was
made of.
`channels` and `tasks` are the two dictionaries of the manager and `instance` every
instance ever built, which they may have forgotten.

| Action | Code |
|---|---|
| `Publish` | `publish_outbound` |
| `Dispatch` | a round of `_dispatch_outbound` up to an await, with `_coalesce_stream_deltas` and `_should_suppress_outbound` |
| `Send` | an attempt of `_send_with_retry`: it returns, raises, raises after the message is out |
| `StartAll`, `StartEnds`, `StopAll`, `StopNext`, `Stopped` | `start_all`, `_start_channel`, `stop_all`, `_stop_channel` |
| `Enable`, `Disable`, `Replaced`, `Removed` | `apply_channel_feature_action` up to and after it has stopped an instance |
| `Dropped` | the request is cancelled while `_stop_channel` awaits `channel.stop()` |

### Subagents

A turn and a subagent are both actors that may be in one call of the exec tool at a
time. `process`, `table` and `lock` are the processes and the two
`ExecSessionManager`s: `loop.py` makes one for the main agent, `subagent.py` one for
all subagents. The lock is held while a process is spawned, not while output is
awaited; cancellation may hit both.

| Action | Code |
|---|---|
| `StartTurn`, `Route`, `Drain`, `Wake`, `EndTurn` | the turn as far as results concern it: `run()`, `_drain_pending` with its wait, the `finally` that re-publishes |
| `Spawn`, `Finish`, `CleanUp`, `CancelledEnds` | the spawn tool, `_run_subagent` and its announcement, `_cleanup`, a cancellation that arrives |
| `Exec`, `Spawned`, `Polled`, `Write`, `List`, `Exits` | `start`, `poll`, `write`, `list` with `_cleanup_locked`; a process ends |
| `Stop`, `StopProcesses`, `StopEnds`, `StopAnswered` | `cmd_stop`: the turn, `cancel_by_session`, `terminate_by_owner`, the answer |
| `Close`, `CloseStep` | `run()` ends, between two messages or in a `/stop`; `close_mcp`: the drain of background tasks, the subagents, `close_all` of both managers |
| `CloseCut` | `close_mcp` is cancelled: in the drain, in the wait for subagents or a lock, in the kills |

The gateway cancels `agent.run()` when it shuts down (`cli/commands.py:2176`) and once more
if it still runs (`:2197`). The first cancellation may find `run()` inside a `/stop`, which
it awaits inline, the second inside `close_mcp`. Each ends what it hits: a `gather` of kills
leaves the processes whose kill had not begun (`spared`; a kill that has begun has sent
its signal), the wait before a `close_all` skips that manager (`skipped`), and `close_mcp`
goes on with its next step. A cancellation in `_cancel_active_tasks`, while a `/stop` awaits
the turn it has cancelled, is suppressed there (`loop.py:781`); `run()` ends later then, like
between two messages.

## What the runs check

### Agent loop

| Run | Shows | Instance |
|---|---|---|
| `dispatch_traffic` | Every message ends, every `submit()` returns; automations are isolated | chat, a direct call and `/new` in one session; chat, an automation and a continuation in another; gate of 1 |
| `dispatch_stop` | Lock, gate, queues and re-publication stay consistent whatever is cancelled; no message lost or doubled; deferred automations have a publisher; the loop implements `SessionService` | two chat messages, an automation, a continuation and `/stop` in one session, chat in a second; queue of 1 |
| `dispatch_submit_hangs` (violation) | `/stop` of a waiting automation leaves `submit()` waiting | an automation that waits for the gate |

Queue and injection limits of 1 or 2 in place of 20, 3 and 5 make every queue full
and every limit reached within six messages; a second session is enough for
what passes between sessions, the gate. Fairness: the loop runs what is ready (`WF`
of each step of the consumer and of a task) and a turn ends, since the runner bounds
its iterations and the provider bounds a request. Nothing obliges a producer.
`dispatch_traffic` has no command in the session of its automation and room for its
continuation: with those, `submit()` hangs and a turn blocks on its own full queue
(see below). `dispatch_stop` has one automation because a second one in its session can be
stranded by `/stop` from Python 3.12 on, also listed below; its two chat messages use
up the injection cycle and then fill the queue a continuation wants to enter. `/new`
and direct calls are left to the other run and to the proofs, which cover the
properties of `dispatch_stop` for every set of messages.

### Turns of a session

| Run | Shows | Instance |
|---|---|---|
| `session_turn` | calls have results, no two user messages follow each other but where a continuation is due, nothing is repeated, the message that began a turn stays, a crash between turns changes nothing | 2 chat messages as inputs or follow-ups, a command, `/new`, the result of a subagent, a continuation, of which 4 in all begin or join turns, 3 with the command or `/new`; 2 iterations, any number of crashes |

Two iterations give every order of a response with tools, one without and the end
of the loop; with four messages a turn can restore what a turn left that restored
another, and every kind can meet every other one in the run of a turn. Every turn takes a
message, so crashes and cancellations need no bound. `FourTaken` bounds the messages: a
command and `/new` take nothing into a run, so that the turn before and the turn after
them is enough there. The proofs have no such bound.

### Local trigger queue

| Run | Shows | Instance |
|---|---|---|
| `trigger_queue` | nothing lost, nothing stuck in `processing/`, attempts bounded, no replay after completion, every delivery leaves the queue | 2 deliveries of 2 triggers in one batch, 2 attempts, 2 stops or crashes, disk errors |

A delivery interacts with the others only through the batch it was claimed in and
through its trigger, so two are enough; two stops let a crash hit the recovery from
an earlier crash, and two attempts let a retry be the last one or not. Fairness:
`WF` of the gateway: it is started again and a turn ends. The bound on stops keeps
a gateway that always dies out of the liveness property.

### Cron service

| Run | Shows | Instance |
|---|---|---|
| `cron_timer` | an occurrence is started once and its outcome kept, while `list_jobs`, other processes, stops and crashes interfere | 4 jobs: a system job, a recurring one, and a one-shot job of each kind; 2 calls, 2 changes by other processes, 1 stop or crash |
| `cron_calls` | after any sequence of two calls `jobs.json` is what the scheduler has; what another process adds is not lost; a due job starts | every method of the service, a recurring and a one-shot job, 1 change by another process, 1 stop |

`MaxTime`, `MaxCalls`, `MaxOffline` and `MaxStops` bound the environment only; the
clock goes on for another `MaxSleep` so that the last timer can fire, and three
timer tasks at a time are never exceeded. `cron_timer` has no calls that arm the
timer during a tick, because such a call makes the job run twice (see below);
`cron_calls` has them and checks what holds all the same, without `DiesInMerge` and
"run_late". Fairness: time passes, due timers are woken, a run that was asked for
begins, an execution ends (the turn it submits does).

### Requests to the model

| Run | Shows | Instance |
|---|---|---|
| `failover` | a segment shows one call and is never closed empty; a transient error is returned only after every retry, and every fallback the failover asks for it; a request ends | streamed with and without recovery and plain, standard and persistent, with and without images; 2 fallbacks, 2 retries, breaker opens at 2 |

Two fallbacks let one follow the other after a stall, two retries let the breaker
open within one request, so that a round skips the primary. Every class of error may come
from every model. One request is enough:
requests share nothing but the breaker, and `Elsewhere` changes that in every way
another request can. Fairness: `WF` of the request: a provider answers or its idle
timeout does. Persistent requests may go on for ever when errors alternate and are
not part of `RequestsEnd`.

### Memory of a session

| Run | Shows | Instance |
|---|---|---|
| `memory` | a saved message is in the session, in the archive or on its way there, unless it was deleted or a crash hit the archive of a `/new`; the cursor hides archived messages only; what the replay window leaves out was archived; after `/new` nothing old comes back; a turn gets its lock | 3 turns of a message and an answer, a command, `/new`, a deletion, compaction, a crash, any 5 of these inputs and the crash; window of 4, cap of 5, suffix of 1 |
| `memory_new` (violation) | `/new` during an idle compaction: the old messages are written into the new session | the same, with `/new` let in |

With a window of 4 the third turn overflows it, with it or the command the file exceeds its
cap of 5, two exchanges in the window let the token budget choose, and every session with an
answer has something to compact: all the ways to shrink a session meet. `FiveMeet` leaves
out only that all of the command, `/new`, the deletion and the crash meet in two turns, or
three of them in three; the bounded events are started from outside, so that it does not
keep a task that can go on from going on. `Racing` says which
calls may come while consolidation or compaction awaits the model; the passing run has none
of `/new`, commands, deletions and direct calls there, since the code does not survive them
(see below). Turns, `/stop`, crashes and the background tasks interleave freely.
`Window > MaxReplies` is an assumption of the module: a turn fits into the replay window.
Fairness: a call of the model returns or fails, and the holder of the lock goes on.

### Channels

| Run | Shows | Instance |
|---|---|---|
| `channels` | output is in the order of publication and a merged block has no hole; only repetitions are suppressed; a running instance is registered with its task or being stopped, none is left by `stop_all`, but for the one whose stop was cancelled; every message is settled | a stream of a delta and an end, two equal answers to one message and one to another; one channel, one settings request after the other, one of which may be cancelled, then 3 of the messages, 2 instances, 2 attempts |

The two producers interleave in every way, so a delta is followed by its end, by a message
that does not match, or by nothing, when the dispatcher looks. Two attempts let a retry
succeed or fail; two instances let an old one be replaced once. Fairness: sends and stops
return (`WF`), the dispatcher runs. One settings request at a time and no send that ends in
`CancelledError`: with them the properties fail (see below).
`ThreeWithCancelled` bounds the messages beside a cancelled request: the cancellation
concerns an instance and its task, which one message on its way to them already shows, and
the order and the settling of all five are checked without one. Publishing has no
fairness, so the bound takes nothing from `Delivered`.

### Subagents and processes

| Run | Shows | Instance |
|---|---|---|
| `background` | every running process is in a table or in the hands of the command that kills it, unless a cancellation skipped its kill; `/stop` ends the subagents and their processes; an announced result reaches its session once | 2 sessions, 2 subagents, 2 processes, tables of 2, 2 user turns, with the second of which 3 of the subagents and processes; any number of `/stop`, a shutdown at any moment, in a `/stop` too, and cancelled in any of its awaits |

Two of everything let a process belong to the wrong session, the wrong subagent or the
wrong manager; the table is full when both processes run. Sessions, subagents and processes are
interchangeable (`New` chooses among processes nobody has used, so any choice leads to the
same state but for names), and all properties are invariants. `ThreeBesideTwoTurns` lets two subagents with two processes
meet beside one user turn, and two user turns with one of either missing: a second turn
matters for who takes a result, a second process for who is left behind. The proofs have
neither bound. There is no fairness: that a
result is announced at all depends on a subagent that ends.

### Where the code departs from what is said of it

The violation runs are listed with their quotes under "findings" in `PROJECT.json`.
More departures were met and have no run:

- `maybe_continue_turn` awaits `put()` on the turn's own pending queue
  (`turn_continuation.py:129`); when the turn has used its injection cycles and the
  queue is full nobody else empties it, and the turn blocks with its lock and its
  slot of the gate (`EveryMessageEnds` fails in `AgentDispatch` with `QueueCap` = 1).
- A follow-up is merged into the last message when that is a user message
  (`runner.py:143`). Before the turn has an answer of the model that is the message the turn
  began with, which is on disk already, so the follow-up is answered but in no history,
  against the comment at `runner.py:635`.
- `_append_injected_messages` says that it preserves the alternation of roles
  (`runner.py:129`). The result of a subagent is a hidden message and is not merged
  (`runner.py:136`), so it follows a user message, or is followed by one, as a message of
  its own; `Alternates` is about visible messages.
- A turn whose budget ends while a goal is active may leave its last message without an answer
  (`turn_continuation.py:121`). When the continuation is lost (the process dies, or the turn
  that took it is stopped) the next message of the user follows it directly, and nothing
  marks it for `_restore_pending_user_turn` to close.
- `_arm_timer` cancels the timer task also while it awaits a job (`cron/service.py:483`).
  `add_job` and the other calls all arm it; the cancelled tick does not record the run and
  the next one executes the job again (`OncePerOccurrence` fails in `CronService` with the
  call `add`; compare `tests/cron/test_cron_service.py:815`).
- When the primary was tried and failed and no fallback can be made, the failover returns
  a message of its own in place of the error (`fallback_provider.py:325`, against the
  docstring at `:320`), and the retries find nothing transient in it.
- An error with a status 400, 404 or 422 and a transient marker in its text is retried
  (`base.py:432`), but the failover does not take it up (`fallback_provider.py:370`): when the
  retries are used up it comes back with the fallbacks untried. `GivesUpLate` says so.
- `_merge_action` empties `action.jsonl` before `jobs.json` is saved
  (`cron/service.py:279`); a crash in between loses what other processes have added
  (`ActionsNotLost` fails in `CronService` with `DiesInMerge` and an added job).
- A tick that executes several jobs may delete or disable one of them between the WebUI's look
  at it (`ws_http.py:651`) and the beginning of `run_job`. `run_job` refuses, and arms the timer
  all the same (`cron/service.py:800`): the tick is cancelled with its work unsaved,
  `jobs.json` still has the job, and the next tick runs it again (`DiskCurrent` fails in
  `CronService` with the calls `run` and "run_late").
- After the cooldown every request calls the primary until one has failed;
  `fallback_provider.py:148` speaks of one probe.
- From Python 3.12 on, `/stop` right behind a re-published automation cancels a task
  that has not run its first line; neither `finally` of `_dispatch` runs, and the
  other deferred turns of the session have no publisher (`DeferredHasPublisher` fails
  in `AgentDispatch` without `TasksStartFirst`).
- `run_job` does not set `_timer_active`, so a `list_jobs` during the job replaces the
  store and the run is forgotten (`UpdateKept` fails with the calls `run` and `list`;
  compare `tests/cron/test_cron_service.py:1005`).
- The checkpoint holds the latest response only, so `/stop` and crashes lose what
  earlier iterations of the turn produced, against the comment at `loop.py:1164`.
- A restart counts as an attempt of every claimed delivery (`local_store.py:227`), so
  restarts alone can move a delivery to `failed/` that never reached the agent,
  against `docs/automations.md:145`.
- Commands store their two messages without the consolidation lock (`NothingForgotten`
  and `HiddenIsArchived` fail in `SessionMemory` with `Racing` = {"command"}), `/new` and
  an archive call that is under way do not wait for each other ("new": these two and
  `FreshAfterNew` fail); a deletion does not cancel the tasks of the session ("delete":
  `NothingForgotten` and `FreshAfterNew` fail); idle compaction skips sessions whose turn
  the bus started, not those of direct calls ("direct": `NothingForgotten` and `AllRecalled`
  fail).
- `get_history` drops what precedes the first user message of its window and
  `_replay_overflow_boundary` does not always agree with it: when a turn is longer than the
  window, messages are neither shown nor archived (`MemoryAssumption` excludes it; the code allows
  it only with very many tool calls in a turn).
- What `/new` still has to archive is held by a background task only; a crash loses it
  (`lost` in `SessionMemory`). A crash between an archive and the save of the cursor
  archives a chunk twice.
- The prompt is cut by tokens once more (`manager.py:255`, passed at `loop.py:1550`), and
  what that cut leaves out is not archived first. Consolidation makes room for it before,
  but not when it has failed or used up its rounds.
- Two settings requests for one channel at a time are not serialized; one of the new
  instances is left running under no name (`Owned` fails in `ChannelManager` with two
  callers for one channel).
- A settings request that is cancelled in `await channel.stop()` (with the WebUI
  request it serves) raises at `manager.py:364` when it has taken the task of the channel and not yet
  cancelled it. The instance stays registered but has no task that anybody could
  cancel, and a later request starts another one beside it. `Owned` has this as its one
  exception (`forsaken`); `OwnedApart` proves that, with requests for one channel one after
  the other, nothing else breaks it.
- A `send` that ends in `CancelledError` without the dispatcher having been cancelled ends
  the dispatcher, and nothing is sent any more (`Delivered` fails with the outcome
  "cancelled").
- The dispatcher looks its instance up once; its retries go to the old instance after a
  replacement. A delta whose attempts fail is dropped while later ones are sent.
- `/stop` ends the processes of subagents only. Those of the main agent are in a manager
  of its own (`loop.py:385`, `subagent.py:148`) that `cancel_by_session` does not reach.
- The second cancellation of `agent.run()` at shutdown (`cli/commands.py:2197`) ends the cleanup
  step of `close_mcp` it hits, and the shutdown goes on. In `SubagentManager.close()` before
  `close_all` (`subagent.py:554`) it leaves the processes of all subagents running, in the
  drain of background tasks (`loop.py:1233`) those of both managers, in a `gather` of kills
  those whose kill had not begun, which are in no table any more (`exec_session.py:315`).
  `NoOrphans` has these as its exceptions (`skipped`, `spared`).
- The deadline of a process is looked at when it is polled; one that nobody polls
  keeps its place in the table until it has been idle for long.
- A process that could not be killed goes back into the table even if that exceeds
  `max_sessions`.
- `enable_job` of another process that has read an old `jobs.json` brings a job back
  that the gateway has removed in between.

## What is proved

Of `AgentDispatch`, from `DispatchAssumption` only (positive capacities, finite
`Msgs`):

| Theorem | Says |
|---|---|
| `TypeCorrect` | `Spec => []TypeOK` |
| `Inductive` | `Spec => []IInv` |
| `Exclusive`, `Consumed`, `Bounded`, `Isolated` | `SessionExclusive`, `QueueHasConsumer`, `GateBound`, `AutomationIsolated` hold for all messages, sessions and capacities |

The safety properties are not inductive. Mutual exclusion needs to know what the
queue of a lock contains: `LockInv` says that it lists exactly the tasks that want
or have the lock, without repetition, its holder first. A step that leaves the lock
removes the head and thereby elects the next holder; two holders would both be the
head. That nobody starts twice needs `PlaceInv` and `LifeInv`: the bus, the pending
queues and the deferred turns share no message, and a message waiting in one has no
task. `IInv` is the conjunction of these with types and `QueueHasConsumer`.

`AgentDispatchProofs` has a lemma for each kind of step (a task joins, keeps or
leaves a lock; messages leave a place, move, or are handed over), then one for each
action, then `IInvStep`. `GateBound` follows from the fact that a turn begins only
in a step whose guard is `GateFree` (`RunningStep`) and cardinalities;
`AutomationIsolated` from `PlaceInv`: whatever is injected or dropped comes from a
pending queue, which holds no automation. The lemmas at the beginning state what `FirstOf`,
`RestOf`, `Without`, `Append`, `\o` and `Tail` do to the elements of a queue.

The second half of `AgentDispatchProofs` builds on that invariant:

| Theorem | Says |
|---|---|
| `NothingLost` | `NothingLostOrDoubled` holds |
| `Published` | `TasksStartFirst` implies that `DeferredHasPublisher` holds |
| `Implements` | `Spec => ServiceSpec`: the loop implements `SessionService` |

`PlaceInv` says that no message is in two places; `NothingLost` needs the other half,
`Somewhere`: a message that is not over is in at least one. The step where it could fail
is the end of a turn, whose queue is emptied onto the bus together with the next deferred
turn (`SomewhereLeave`).

`Published` is about the chain of re-publications: each automation turn publishes the next
deferred one when it ends, so somebody of the session must always be about to end. A
command breaks the chain if it cancels a task that has not started. `CommandInv` follows
what a `/stop` or `/new` has cancelled and waits for, `Started` says that the loop never
lets a task wait for its first step while a command begins (this is what
`TasksStartFirst` gives), and `PublisherInv` names the publisher: a task, a message on
the bus, or one the loop has in its hand.

`Implements` is a step simulation. `StatusOf` maps a message to its status in the
service; `Publish` is an `Accept`, `StartTask`, `LockGranted` and `GateGranted` are a
`Begin` or nothing, `DrainInjections` a `Join`, the four ends of a turn a `Finish`, the
two cancellations of a waiting task a `Revoke` by the command that `CommandInv` finds,
the ends of commands an `EndCommand`; deferring, routing, spawning and re-publishing
change nothing the service sees. That `Begin` finds its session free is `Exclusive`
again, now a consequence on the abstract level.

Of `SessionTurn`, from `TurnAssumption` only, and so for any number of messages,
crashes and iterations:

| Theorem | Says |
|---|---|
| `Invariant`, `TypeCorrect` | `Spec => []IInv`, `Spec => []TypeOK` |
| `CallsHaveResults` | `Paired`: in the history the next turn sends every call has its result |
| `Answers` | `Alternates`: two visible user messages follow each other only where a continuation was due |
| `MessageKept`, `NothingLostByCrash` | `UserKept`, `CrashLosesNothing` |
| `RestoredOnce` | `NoneTwice` |

All of these speak of a history that does not exist yet, the one the next turn restores.
The invariant is about what it is made of. `SessionOK` is the contract between two
turns: calls are paired, visible user messages follow each other only at lengths in `cut`
(`AlternatingBut`), the checkpoint is one that completes the history, and an unanswered
message at the end is marked or at such a length (`Due`). It is kept by
every way a turn can end because the runner's messages (`RunOK`) are complete by
themselves, except while tools run, when the checkpoint stands for what is missing.
They never begin with a visible user message: the input of the turn is in front of them, and
a follow-up that comes before everything else is merged into it (`JoinCases`). `Merged` and
`RunJoins` say what joining does to them, `Meets` where two parts may be put together.
`Same` says how far the file may be behind: one flag, and only when the last message is
answered, so that restoring either gives the same (`DiskRestored`). The overlap with
which a checkpoint is merged is all of it or nothing (`OverlapAbsorbs`): a part of it
would be a call at the end of a stored history, which pairing excludes. For
`RestoredOnce`, `NInv` adds where messages come from: a session has nothing of the turn
that is running, an iteration writes one call, one result and one answer at most
(`IterationAdds`), and histories of different turns are `Apart`.

Of `LocalTriggerQueue`, from `QueueAssumption` only (a number of deliveries, a
trigger for each, positive limits), and so for any number of crashes:

| Theorem | Says |
|---|---|
| `Invariant`, `TypeCorrect` | `Spec => []IInv`, `Spec => []TypeOK` |
| `NothingLost` | `NotLost`: at-least-once |
| `Bounded` | `AttemptsBounded` |
| `NothingStuck` | `InHand` |
| `NeverReplayed` | `NoReplay` |

None of these is inductive. `NotLost` needs to know that the second half of an
operation, the unlink, finds the first half on disk (`Halves`). `AttemptsBounded`
needs the account of attempts (`Counted`): the number in a file, or in memory for a
claimed delivery, is at most one behind the submissions, and only while the
delivery is claimed. That account survives a crash in the middle of a retry, where
a delivery has two files, because of `Single`: if the copy in `processing/` has
attempts left the other one is in `inbox/`, if not it is in `failed/`, so recovery
writes the same file again and never a second one. `Fresh` and `Finished` say that
a delivery is nowhere before `enqueue` and after `complete_delivery`. `IInv` is the
conjunction; `WriteRetryRetried` and `MoveToProcessingMoved` say what the two file
operations do to each delivery, and there is one lemma per action with one step per
conjunct. `FirstIn` (a set of deliveries has an oldest one) is proved from the
well-foundedness of strict inclusion of finite sets.

Of `ProviderFailover`, from `FailoverAssumption` only, and so for any number of
requests that share the provider, of fallbacks and of retries:

| Theorem | Says |
|---|---|
| `Invariant`, `TypeCorrect` | `Spec => []IInv`, `Spec => []TypeOK` |
| `SegmentsOfOneCall` | `SegmentOfOneCall` |
| `GivesUpLast` | `GivesUpLate`: a transient error is passed on, unseen, only when attempts are used up, and the fallbacks too if the failover takes the error up |

The property speaks of the segment the user sees; the code decides by two flags
that two layers keep apart. `Consistent` ties them together: the flag of the
retries is set exactly while the open segment has content, that of the failover
only then, and only for the call that ended last; a call that is heard, and an
attempt of a caller that still listens, begins with an empty segment. The failover's
flag says nothing once the failover has returned: the retries may have closed the
segment without clearing it, which is why the invariant mentions it only inside a
call. `Flags` and `Values` state that a record of a request stays one when a field
changes; there is a lemma per action, and `OneRequest` lifts it to all requests.

`GivesUpLast` is a second invariant on top of the first. `Owes` is the account of a request:
a caller that is not heard has shown something before; a persistent one counts identical
errors and has not reached the limit while it goes on; an error that comes back while the
user has seen nothing, or what was seen is about to be cleared away, has no fallback left
that the failover would ask (`FallbacksUsed`): it comes from the last one, from a provider
that raised it, or from the primary with a class it does not take up. `Decide` closes the
account: of its ways out of an error, each needs one of these.

Of `Subagents`, from `SubagentAssumption` only, and so for any number of sessions,
subagents, processes and entries of the tables:

| Theorem | Says |
|---|---|
| `Findable` | `NoOrphans`: a running process is listed, or in the hands of the command that kills it, or a cancellation has skipped its kill |
| `Stopped` | `StopStops`: when `/stop` is answered, nothing it cancelled runs but what could not be killed |
| `ResultsArrive` | `ResultsKept`: an announced result is in one place, once, and in its own session |

A process is in a table only some time after it was created, and leaves it some time
before it has ended. `Spawning` covers the first gap: while it is being created a process
is nobody else's, and its manager is locked and open. `Located` covers the second, and
`Returned` what could not be killed, which is listed again. The two commands that kill,
`/stop` and the shutdown, work in phases: `Phases` says which, and that the shutdown begins
when `/stop` is over or was cancelled. `Closed` says that nothing runs under a closed manager
but what is about to be killed, could not be or was spared,
`Agency` that a subagent that has ended is in no call, `Doomed` what a `/stop` still has
to do. `IInv` is the conjunction with the types; there is one lemma per action, and
`KillReaps` and `StateChanges` for what the actions share.

`ResultsArrive` has an invariant of its own, since processes do not matter to it. The
property counts occurrences in the bus, the inboxes and the turns; `RInv` says the same
without counting: no queue holds a result twice (`Once`), a result that is in one place is
in no other, was announced and belongs to the session it is in (`Apart`), and an announced
one is somewhere (`Somewhere`). The last is what the end of a turn could break, which puts
what it has not read back on the bus.

Of `ChannelManager`, from `ChannelAssumption` only, and so for any number of producers,
messages, channels, instances and attempts:

| Theorem | Says |
|---|---|
| `ChannelTypes` | `Spec => []TypeOK` |
| `ShownInOrder` | `InOrder`: output is in the order of publication, merged blocks have no hole |
| `SuppressedRepeats` | `OnlyRepetitions` |
| `NothingStranded` | `Accounted`: a message without a fate waits, is put aside or is in hand, unless the dispatcher has ended |
| `OwnedApart`, `OwnedAlone` | `Owned`, if no two settings requests wait for the same channel at once |

`Order` says where everything is: every published message was taken, is put aside or
waits, in this order (`Waiting`: `pending` and then `outbound` are the end of what was
published), and what is in hand or was put out are blocks of what was taken, one behind
the other (`Blocks`, `InHand`). Coalescing keeps it because it stops at the first message
that does not match and puts that one in front of what was put aside. `Fates` says what
became of what was taken: `Fingerprinted` gives for each remembered answer a message
that a channel had been given, so what equals it is a repetition. `Runs` is about the
instances: a request that awaits the end of an instance (`Requests`) has taken the task of
a channel that is still registered. A second request for the same channel would find no
task to cancel and start another instance beside the first; that is the hypothesis
`Apart`, without which the theorem is false (see above). A request that is cancelled
in between drops the task it has taken, which `forsaken` remembers (`DroppedRuns`); apart from
that instance nothing is lost. `Apart` does not speak of different
channels, of `start_all` or of `stop_all`, which may overlap with requests in any way.

Of `SessionMemory`, from `MemoryAssumption` and `Racing` = {}, as in the run `memory`, and
so for any number of messages, objects, crashes and any window, budget and file cap:

| Theorem | Says |
|---|---|
| `NotForgotten` | `NothingForgotten` |
| `HiddenArchived` | `HiddenIsArchived` |
| `Recalled` | `AllRecalled` |
| `StaysFresh` | `FreshAfterNew` |

`Racing` names the four things that may happen while an archive call is awaited and that
break these properties (see above); the theorems say that nothing else does, in particular
no `/stop`, background consolidation, file cap or stale object of a turn, and no crash but
one that ends the archive of a `/new`, whose messages `NothingForgotten` counts as `lost`
like those of a deletion. The hypothesis excludes no `/new`, command or deletion as such: a
`/new` only while a call of a background task is awaited, a command while the call would
write with positions that it shifts, a deletion during a call or a turn, and the begin of a
compaction during a turn. What makes it hold is spread over the code. `Sound`: the cursor of
every object is inside the session and followed by a user message, or is the end, and the
object in the cache equals the file. `Queue`: a turn that waits for the lock is the last in
its queue. So a compaction, which replaces the object, may come between the moment a turn
took its object and its first save, and `TurnHas` says why that loses nothing: what the file
shows is the end of what the turn's object shows (`EndOf`), and the rest is archived. `Held`
follows what a task that awaits the model is about to write: a cut of the session as the
file still has it at a user message, or a cursor at one. `Ended` keeps what was ended out of
the file and out of the object of the turn. `AllRecalled` is needed with them: what a turn
is about to hide is what its replay window leaves out.

The lemmas below are about the functions on sequences: `CapShrinks` and `RetainedEnd` say
that the file cap and the retained suffix leave an end of what was visible that begins with
a user message and report the rest as dropped; `BudgetKeepsEnd` that the token budget keeps
an end of the replay, `ReplayShows` that the replay contains the last `Window` messages from
the first user message on, and `OverflowFacts` that what lies before them is what the
consolidation archives.

Of `CronService`, from `CronAssumption`, and so for any jobs, schedules, other processes
and stops. The properties depend on what the environment may do, and each theorem names
what it excludes; without that the property is false (see above).

| Theorem | Says | Excludes |
|---|---|---|
| `TypeCorrect` | `Spec => []TypeOK` | |
| `DiskIsCurrent` | `DiskCurrent` | a tick that goes on between the WebUI's look and `run_job` |
| `ActionsAreKept` | `ActionsNotLost` | a death between the two writes of a merge |
| `StartedOnce` | `OncePerOccurrence` | calls in the gateway that arm the timer |
| `ExecutionsKept` | `UpdateKept` | the same |

`DiskIsCurrent` is about who owes a save. `Saved` says that memory and `jobs.json` differ only
while a tick executes that nobody has cancelled; whoever arms the timer and so cancels
it saves in the same step, except `run_job` when it refuses, and a job it was asked for
stays enabled in the store as long as anything is unsaved. For `ActionsAreKept`, `Present`
says that only a job that is gone is deleted by a line, so merging loses no other
(`MergedKeeps`), and that the scheduler has what `jobs.json` has. `Once` is the invariant
behind the other two. `OneTimer`: there is one timer task, its job belongs to the store,
and while it executes nothing is reloaded. `Unstarted`: what may still be started (the next
run of every job that does not execute, what the tick has found due, what a line is
about to bring) has not been started, because a next run that is computed lies in the
future (`FreshIs`) and what was started does not; a disabled job has no next run
(`AllCleared`), since the start of the gateway computes only those of enabled ones. That
merging brings only what a line or the old store has is `MergedIs`.

Only model-checked: liveness (`EveryMessageEnds`, `QueueDrains`, `SubmitReturns`,
`DueRuns`, `RequestsEnd`, `TurnsGetThrough`, `Delivered`), which TLAPS cannot prove.

## Not modelled

Inside the modelled parts:

- `AgentDispatch`: priority commands that only answer, the wait of a turn for its
  subagents (it is in `Subagents`, which has no queue limits).
- `LocalTriggerQueue` and `CronService`: `rename` and rebinding of triggers, session binding
  of cron jobs, cron expressions (an `every` schedule stands for them), a corrupt
  `jobs.json`, errors of the gateway's own save.
- `SessionTurn`: turns that the result of a subagent begins (results join turns here),
  failing writes, several tool calls in one response (the checkpoint knows all as pending or
  all as completed), the limits on retries and on injection cycles, which only bound what
  the model allows. Compaction and the file cap are in `SessionMemory`.
- `SessionMemory`: what token counts decide is a choice of the model, since they
  depend on texts; `MEMORY.md`, Dream and its cursor; the eviction of sessions that nobody
  holds; raw archives after an error differ from summaries in their text only.
- `ChannelManager`: status reports, transcription, progress filters and the routing of
  stream flags, which depend on the channel; what a channel does inside `start` and `send`.
- `Subagents`: direct calls, the liveness of announcements (a turn waits 300 s at most, a
  subagent is bounded by its runner), what a tool writes to a process.

Whole parts that are not modelled are in the inventory and in `PROJECT.json` with the
reason. Most of the code by size is of that kind: channels and providers translate
between formats of other services, the WebUI backend and the CLI present and edit
settings, and security policies and tools are predicates and effects on strings and
files. They have little state of their own; where they take part in the coordination
above their calls are actions of a module.

## Plan

1. Composition of `CronService` and `LocalTriggerQueue` with the deferral of
   automation turns: a `submit()` that does not return stops the timer or the queue.
2. An abstract at-least-once queue implemented by `LocalTriggerQueue`.
3. The pairing store (codes and approvals of concurrent channels and commands) and the
   reconnection of MCP servers.
