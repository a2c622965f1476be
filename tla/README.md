# Verification of private-gpt's resumable chat runtime

## 1. The system

private-gpt is a FastAPI service that answers chat requests with an LLM that
may call tools.  Most of its 1135 files adapt third-party models, document
formats and databases.  Its own control logic is in the parts that carry a chat
turn across processes and in the parts that carry its events to a client.

| Part | State it keeps | Operations | Talks to | Hard behaviour |
|---|---|---|---|---|
| `ResumableChatRunner` (`components/engines/chat/resumable_runner.py`) | none of its own | `submit`, `start`, `resume`, `callback`, `cancel`, `fail_abandoned` | store, scheduler, tool scheduler, event broker, engine | every call is a coroutine with a Redis round trip at each `await`; jobs, callbacks, cancel and rescue of one turn interleave |
| `RedisChatCheckpointStore` (`arq/chat/iteration_state.py`) | five Redis keys per turn: ctx, results, resumed, actions, terminal | `save`, `load`, `record_result`, `get_results`, `claim_resume`, `claim_action`, `mark_terminal`, `release_resume`, `cleanup` | Redis | each is atomic, their sequences are not |
| ARQ chat tasks (`arq/tasks/chat`, `arq/enqueue.py`, `ArqChatExecutionScheduler`) | ARQ queue and job ids | enqueue start / resume / tool-result / tool-timeout, abort | ARQ | a used job id is refused; aborts are requested in the background and may come too late |
| ARQ worker (`arq/liveness.py`, `leases.py`, `runner.py`) | in-progress locks, worker leases | claim jobs, recover stale locks, fail abandoned chats | Redis, runner | worker death, stalls longer than the lease |
| Celery tools (`components/tools/tool_scheduler.py`, `celery/tasks/tools`) | Celery tasks | dispatch, revoke, complete | runner, through a tool-result job | answers early, late, never, twice |
| `AsyncChatEngine` | run state, streamed blocks | iterate: stream the model, run tools, pause or complete | tool scheduler, event channel | parallel tool calls, one of several failing |
| Event broker and channel (`event_broker.py`, `event_channel.py`) | Redis list of events, pending batch, drain task | `emit`, `flush`, `close`, `publish_many`, `finish`, `listen` | runner, engine, router | batches in flight, failed publishes, two finishers |
| Stream processing (`components/streaming/stream/stream_processor.py`, `tasks/task_manager.py`, `providers/*`) | Redis stream and status hash, active tasks | create, process, cancel, clean up | broker listener, chat API | status against events, cancel against clean-up |
| Stream reading (`components/streaming/stream/stream_reader.py`) | broadcasts, cursors, consumers, shared worker | `stream_events`, `add_consumer`, `remove_consumer` | stream service | consumers that join and leave while a read is in flight |
| Concurrency managers (`components/concurrency`) | priority queue, registry of futures, workers | `execute`, `close` | ingestion | shutdown with tasks in flight |
| Environment manager (`components/environment`) | workspaces, distributed ownership | mount, hydrate, release | sandbox | two workers, one workspace |
| everything else | - | - | - | adapters, formats, configuration: see `PROJECT.json` |

What makes each correct:

* the turn: one engine run at a time; a pause is resumed once, with an answer
  for every tool; it ends, and then its keys are gone, its stream is closed,
  its tools are stopped and nothing brings it back;
* workers: a job has one owner while its owner lives, and some owner if it dies;
* events: a client sees what was emitted, in order, up to the end;
* streams: no reader misses or repeats an event or waits for a stream that is over;
* managers: every caller of `execute` gets an answer, `close` included.

## 2. The plan

In order of importance.  Rows 1 to 6 are built; rows 7 and 8 are what is left.

| # | Module(s) | Models | Abstract specification | Theorems |
|---|---|---|---|---|
| 1 | `ResumableChat`, `ResumableChatProofs`, `ResumableChatRefinement`, `ResumableChatEnds` | runner, checkpoint store, ARQ chat jobs, tool tasks and timeouts, rescue | `ChatTurn` | types, one engine, complete results, one error, no resurrection, no late result, the refinement of `ChatTurn`, nothing left behind, no tool unwatched (done) |
| 2 | `EventDelivery`, `EventDeliveryProofs` | channel with drain task, Redis list, listener, and who ends a turn | an ordered stream of which a beginning is heard (to state) | types, events heard in order, error last, completed turns heard (done) |
| 3 | `StreamProcessing`, `StreamProcessingProofs` | life of a client-facing stream: batched writer, status, cancel, delete, direct reader | a stream is written, then over, then gone (to state) | types, no hole, status not ahead, observers hear the end, quiet after a cancel, stays deleted (done) |
| 4 | `StreamMultiplexer`, `StreamMultiplexerProofs` | broadcasts, consumers joining and leaving, shared worker, adaptive routing | each consumer hears the stream from its start (to state) | types, served consumers, stop when drained, ended means heard (done) |
| 5 | `WorkerLeases`, `WorkerLeasesProofs` | ARQ poll, in-progress locks, leases, recovery of stale locks, abandoned chats | one owner per job (to state) | types, starts bounded, locks kept, only abandoned turns failed, locks change hands (done) |
| 6 | `EngineIteration`, `EngineIterationProofs` | the iterations of the async engine: streamed blocks, parallel tool calls, gather, pause and resume, message order, block indices | `EngineRuns`: the engine as `ResumableChat` has it | the refinement of `EngineRuns`, model calls bounded, types, prompts well formed, blocks in order, fresh indices (done) |
| 7 | `SemaphoreQueue` | priority queue in front of bounded workers, memory and Redis variants, `close()` | every call is answered once | the permit bound |
| 8 | `EnvironmentLease` | distributed ownership of a workspace | one owner | mutual exclusion |

How the modules meet.  `EventDelivery` takes the chain of jobs of
`ResumableChat` as one coroutine and works out what its `heard` stands for;
`StreamProcessing` has the generator that `EventDelivery`'s listener feeds as
its engine; `StreamMultiplexer` has the streams of `StreamProcessing`, with
another instance's cancel and a delete, reduced to their length and status;
`WorkerLeases` justifies the steps `Crash` and `RecoverJob` of
`ResumableChat`, and its `OnlyAbandonedFail` says when they may happen;
`EngineRuns`, which `EngineIteration` is proved to implement, is what
`ResumableChat` and `EventDelivery` have for an engine.  No run
composes two of them: each interface is a few events, and the product of two of
these state spaces is out of TLC's reach.

Every module keeps its parameters in CONSTANTS with named assumptions, has one
action per operation, names the parts of its invariants and declares no
RECURSIVE operator, so that it can be proved about.

## 3. `ResumableChat`: one turn across processes

The module models one execution id under `scheduler.chat.mode = arq` and
`scheduler.tools.mode = celery`, the only settings in which a turn pauses.
Turns share no keys, so one is enough.

| Variable | In the code |
|---|---|
| `ctx`, `results`, `resumed`, `actions`, `terminal` | the five keys of `RedisChatCheckpointStore`; `ctx` is the number of the saved checkpoint instead of its uuid, 0 when the key is absent |
| `pc[p]` | the next operation of coroutine `p`: `<<"job", 0>>` is the start job, `<<"job", c>>` the resume of checkpoint `c`, `<<"result", t>>` and `<<"timeout", t>>` the tool-result job of tool `t` by the payload it carries, `<<"rescue", j>>` a `fail_abandoned` for job `j`, `<<"client", 0>>` a `cancel()` |
| `seen[p]` | the local variable `checkpoint` or `saved` of that coroutine, kept across its awaits |
| `fed[j]` | the results handed to `engine.resume` by job `j` |
| `by[t]` | the job whose engine run dispatched tool `t`; `Pending(c)` are the `pending_async_tools` of checkpoint `c` |
| `tool`, `timer` | the Celery task of a tool, and its deferred tool-timeout job |
| `aborts` | ARQ jobs an abort was requested for |
| `saved`, `swept` | history, read by `CancelStopsTools` only |
| `heard` | what a client that listens from the start receives: errors, the FINISHED mark, errors after it |

One action is one Redis command or script, or the local code between two of
them. The actions bear the names of what they model; `map` in `PROJECT.json`
gives the lines. Four deserve a word.

* `Save` and `Cleanup` are Lua scripts or single commands and atomic; `Check`,
  `Take` and `Send` of `_resume_if_ready` are three round trips, and so is
  everything that relies on the checkpoint loaded by `Peek`.
* `Enqueue` refuses an id that was ever used: ARQ does so while it keeps the
  job's result (`_keep_result_seconds`: the callback timeout + 300 s), which is
  as long as a pause may last.
* `Revoked` is a tool somebody asked to stop.  `cancel_task` spawns Celery's
  revoke in a thread and returns, and a failure is logged and dropped
  (`tool_scheduler.py:202-224`): the tool may be killed, answer first, or never
  hear of it, so a revoked tool may still call back.
* `AbortJob` is CancelledError raised in a job that an abort was requested for.
  It may happen at any later step or never: `abort_job` spawns the request in
  the background and does not wait for it. One inside the try block of `start`
  or `_resume` runs `_cancel_pending_tools`.

`ChatTurn` is the turn as its client may think of it: it starts, runs, pauses
for a set of tools, collects answers, goes on when all of them are in, and may
be over at any time, for good. `ResumableChat!ImplementsTurn` is the refinement:
a turn is paused while the job of the stored checkpoint has not reached its
engine, the answers are the results hash, and once there is a terminal status
the mapping forgets the store, which is being cleaned up.

## 4. `EventDelivery`: from the engine to the router

| Variable | In the code |
|---|---|
| `job`, `round`, `emitted` | the engine's coroutine inside `start` / `_resume`, the number of pauses, how many events it emitted |
| `pending`, `drain`, `inflight` | `BrokerEventChannel._pending`, the state of the `_drain` task, the batch it is publishing |
| `wire` | the Redis list `private_gpt:engine:events:<id>` |
| `got`, `heard`, `listener` | the local variables of `listen()`, and what it has yielded |
| `cancel`, `rescue`, `terminal` | the other two that may end the turn, and the turn's terminal status |

Events are numbers in the order of `emit`, so a hole, a repetition and a swap
all show in `heard`. A push that ends without a reply (an error, a cancelled
drain task, a dead worker) was applied or was not: both outcomes are explored.
A failed drain task stays in `_drain` and is awaited again by every later
`flush()`: `StartsDrain` and `FlushRaises` are the two places where that shows.
The pushes of `_fail`, `cancel()` and `fail_abandoned` may raise as well; what
the last of them raises `liveness.py:297` swallows.
`CancelStep` leaves out the revocations between the terminal status and
FINISHED, `Rescue` those before it: they are in `ResumableChat` and touch
nothing here. Pops of the listener are two commands, BLPOP and LPOP with a
count (255 in the code, `PopLimit` here).

A history variable, `taken`, tells a worker that was taken for dead from one
that is; no guard reads it.

## 5. `StreamProcessing`: the stream the client reads

| Variable | In the code |
|---|---|
| `hash`, `whole`, `log`, `trimmed`, `gone` | the two Redis keys of a stream; `whole` is false for a hash that a late HSET made anew, which `get_stream_metadata` cannot read; `log` is all that was ever added, of which the first `trimmed` entries are no longer there |
| `proc`, `struck`, `cause` | where the task in `process_stream` is, an undelivered `task.cancel()`, and the handler it is in |
| `next`, `halted` | how far the engine's generator is, and whether a call to the runner has cancelled it |
| `marked`, `pending`, `writer`, `inflight` | the locals of `process_stream`: `is_processing`, the events no batch has, the writer task and its batch |
| `calls` | requests to `/cancel` and DELETE, with what they have awaited; one in `Remote` runs in an instance whose `TaskManager` does not know the task |
| `obs`, `pos`, `seen` | one direct reader (`StreamReader.stream_events`); `missed` is history: entries were trimmed before it read them |

Every await of the processor is a value of `proc`, because a cancellation is
delivered at any of them and what happens then depends on where.
`Yield` is the body of the loop up to its next await; `LeaveLoop` is the
`finally` that cancels and awaits the writer before any handler runs.  A write
that fails or is cancelled was applied or was not (`Applied`, `BreakPush`).  The
Redis client executes a command or a pipeline again whose reply came late
(`retry_on_timeout`, `redis_stream_service.py:387`): `WriteRepeats` and
`PushRepeats` are the execution that counts for nothing, and may leave a part of
a batch in the log.  Every XADD trims the log to about `max_stream_length`, so
`Write` may remove entries at the beginning.  A call is
`CancelTask` (the task is struck) and then `TaskAwaited`, or `NoTask`, and then
what the service writes or deletes.

## 6. `StreamMultiplexer`: many readers in one process

| Variable | In the code |
|---|---|
| `written`, `over`, `ended` | the streams, reduced to their length, whether their status is terminal, and whether their processor has written its last one |
| `cut`, `erased`, `called` | how long a stream was when another instance wrote CANCELLED (history) or when it was deleted, and the calls made |
| `pc`, `topic`, `on`, `feed` | a consumer: the await it is at, its stream, the multiplexer it captured, the `StreamState` it reads |
| `direct`, `lock`, `mux` | `_direct_count`, `_lock` and `multiplexer` of the `AdaptiveStreamReader` |
| `current`, `members`, `open`, `pushed` | `states`, `consumers`, whether a broadcast is closed, and its `last_id` |
| `work`, `held` | the tasks of the worker's cycle, and the state each took before its await |

`StreamState` and multiplexer objects are named after the consumer whose
arrival makes them, so that two states of one stream are told apart: `held`
may be a state that was replaced.  What runs under `StreamMultiplexer._lock`
suspends nowhere and is one step; the adaptive reader's lock is held across
`stop()`, so `lock` is a variable.  A direct reader is only counted here, and
what it reads is in `StreamProcessing`.

A terminal status need not last.  A cancel call that reaches an instance without
the task writes CANCELLED (`CancelElsewhere`) while the processor goes on
(`Publish`) and may set another status (`Overwrite`, `Finish`); a delete removes
log and status under the readers (`Delete`), and a later event starts a new log,
which a reader goes on with behind its last id.  One stream has at most one such
call.  Trimmed logs and repeated entries are left to `StreamProcessing`, and so
is a stream created a second time under one id.

## 7. `WorkerLeases`: who runs a job

| Variable | In the code |
|---|---|
| `queue`, `tries`, `lock`, `lease` | ARQ's queue, retry counters, in-progress locks with their owner, and the lease keys of `arq/leases.py` |
| `pc`, `seen`, `wanted`, `target`, `dirty` | the poll loop of a `HeartbeatWorker`: the locks it has read, the jobs it goes through, the one it watches, and whether Redis will refuse its transaction |
| `counter`, `run` | `job_counter` and ARQ's tasks, one per job |
| `chat` | the turn of a job: open, ended by its function, failed as abandoned |
| `claimed`, `started`, `weak` | history, read by properties only |

One action is one round trip to Redis.  Recovery is three of them (`ReadLocks`,
`ReadLeases`, `Release`), so an owner may come back between the second and the
third: the script looks again.  Claiming is two, `Watch` and `Claim`; whoever
touches the lock between them makes the second fail.  `Begin`, `Finish` and
`FinishFailed` are transactions of the ARQ library.  A worker that lapses goes
on running, and its `Finish` deletes the lock of whoever took the job over:
`Forget` does, as ARQ does.

## 8. `EngineIteration`: what one engine run does

| Variable | In the code |
|---|---|
| `pc`, `iteration`, `reason` | the checkpoint handler `_continue_loop` is in, `runtime.iteration`, the stop reason |
| `is_async` | `is_async` of the tool scheduler: tools go to Celery |
| `count`, `index` | the two counters of blocks: `run.block_count`, saved as `next_block_count`, and `_current_index` of `EnsureIndexIsRefreshedInterceptor`, which has the last word |
| `wire`, `open` | the starts and stops a client gets, all runs of the turn, and the block that is open |
| `calls`, `kind`, `task` | the tool calls of the iteration in order, who has to answer each, and where its `_handle_tool_use` task is |
| `messages`, `prompt` | the messages of the request since the turn began, and those the model was last asked with |
| `pending` | `pending_async_tools`, the content of the pause |

What is one step follows from where the code suspends.  A tool task suspends
only while a local tool runs: `dispatch_task` of Celery is a synchronous call,
no body under the `asyncio.Lock` awaits, so the message and the block of a
result are put without a break.  The tasks run while the model goes on
streaming, and while the calls are read from the response in a thread (`Fold`),
which is why a result may be in `messages` before the assistant message that
asked for it; `EnsureToolAreFlattenInterceptor` (`AfterIteration`) repairs that
before the next iteration.  A response without calls ends the message with the
reason the provider gave, any of `StopReasonEnum` or none (`Fold`).  Events pass the interceptors in the order they were
put and the index depends on the blocks before only, so it is given at the put.

`Abort` is any exception: the model's stream, an interceptor, the JSON of a
call, a cancelled turn.  A cancelled `gather` cancels its tasks; before it
nobody holds them, and those of a run that raised go on unseen and may still
hand a tool to Celery.  A resumed run that raises while it shows the answers is
taken to raise just after.

`EngineRuns` says what the runner relies on: no call is handed out twice, a
pause names all that are out, a run that completes leaves none out, and only one
that raised may.  The runner's side (one run at a time, an answer for every
tool of the pause) is what `ResumableChat` shows, and `Resume` takes it.

## 9. What TLC checks

| Run | Instance | Distinct states | Depth | Question |
|---|---|---|---|---|
| `ResumeFaults` | 2 tools (symmetric), 1 pause, cancel, resumes and timeouts that cannot be enqueued | 2.44 M | 48 | Does the engine go on only with all results, and does a turn that is over stay over, clean and with its tools told to stop? Is every step one of `ChatTurn`? |
| `ResumeRecovery` | 1 tool, 1 pause, dying jobs and callbacks, stalls, enqueue errors of resumes and timeouts | 0.42 M | 41 | With two parties failing one turn, is there one error, and is the stream closed in the end? |
| `ResumeLiveness` | 2 tools, 2 pauses, engine errors | 0.43 M | 48 | Is there one engine at a time, and does every turn end, stale claims aside? |
| `Delivery` | 3 events, 1 pause, all faults, a client that leaves | 1.33 M | 29 | Is what is heard a beginning of what was emitted, error last, complete for a completed turn; and does the listener of a turn that is over end? |
| `StreamLife` | 3 events, logs trimmed to 3 entries, 1 observer, and 2 disturbances: calls, one perhaps remote, and writes that fail or repeat | 1.04 M | 33 | Do log, status and what is heard agree, is a cancelled stream quiet, does a deleted one stay deleted? |
| `Multiplexer` | a stream of 2 events that is cancelled elsewhere or deleted, one without events, 3 consumers, threshold 1 | 0.60 M | 24 | Is everyone who waits served, does the multiplexer stop when it is not needed, and are the consumers of an ended stream let go? |
| `WorkerLeases` | 2 workers with one slot, 2 jobs, 1 death, 2 lapses | 0.18 M | 44 | Is a job started once, kept while its owner's lease is, failed only if abandoned, and does every turn end? |
| `EngineIteration` | 3 calls (symmetric), 3 iterations, 1 text block, 2 blocks of interceptors | 0.30 M | 33 | Is what the model reads and what the client sees well formed, however the tool tasks interleave; and is the engine that of `EngineRuns`? |
| `LostWakeup`, `LostCallback`, `LostBatch`, `DeletedStream` | see findings | | | four behaviours that contradict the repository |

The properties in words are above their definitions.  The less obvious ones:

* `ResumedWithAllResults`: the resume job reads the results a second time, long
  after the check that caused it.  Cleanups may have emptied them; then the turn
  is over and its engine run is refused at its save.
* `CancelStopsTools`: `cancel()` asks the tools of the checkpoint it loads to
  stop; a pausing job whose save is refused asks its own.  The property says
  that no tool falls between the two, or that its timeout is still to come or
  has come.  It has two exceptions, which are what the code does not do.  Tools
  that no stored checkpoint names are known to their job alone: nobody asks them
  if its engine raises, or if it dies or is aborted by the same cancel before it
  has asked.  And when another party fails the turn that was just cancelled (a
  job that cannot arm its timeouts, a rescue), it may clean up before `cancel()`
  has loaded the checkpoint (`swept`).  A tool that was asked may not hear of it.
* `EventDelivery!NoHole` in the presence of a lost batch holds only because a
  failed drain task is never replaced: what was emitted after it is never published.
* `TurnEndsUnlessClaimIsStale` isolates finding F1, and `ObserverEndsUnlessDeleted`
  F4 and a status whose write failed.  `StreamEndsUnlessRaised` says that a
  listener is left waiting only if whoever ends the turn raised, because its own
  push did: F3 is one way, a failing `finish` of `cancel()`, of the job or of
  the rescue are others.  Nothing else in these models loses a wake-up, an end
  of stream or an observer; an API process that dies, and a cancel call whose
  own write fails, are not in them.
* `StreamProcessing!NoHole` lets entries repeat: a pipeline that the client
  executes twice is in the log twice.  It says that no event is skipped and that
  only the same error follows an error.
* `HeardAsSeen`: the reader asks for the status after it found nothing, and
  events may be written in between.  The read after the status makes it true.
  An observer of a log that was trimmed ahead of it (`missed`) is left out.
* `StaysDeleted` leaves out a delete call that could not reach the processor
  (another instance, or a task not yet registered): the next status write of
  that processor makes a hash without metadata, which no reader can use.
* `EndedMeansHeard` promises less of a stream that another instance cancelled:
  readers that stop at that status miss what the processor goes on to write, and
  have what was there before.  It leaves out deleted streams, and consumers in
  `robbed`: while the worker awaits a read for one state of a stream, all its
  consumers may leave and others join; `_close_all_consumers` then closes the
  state that is there now, not the one that was read for.  These consumers end
  early, although the docs say that a stream replays (`messages-async.mdx:64`).
* `ConsumersEnd` leaves out the consumers of a deleted stream: F4 is theirs too.
* `TurnsEnd` holds for one death.  With two, a worker may die between the
  transaction that drops a job and `_fail_abandoned_chat`: the job is gone
  and its turn is failed by nobody.  `FailAbandoned` succeeds here; in the code
  it may raise, which `liveness.py:297` swallows, with the same effect, and
  `EventDelivery` has that.  The hazard list has both.
* `FreshIndices` has an exception, without which it is false: when an
  interceptor showed a block, later ones may repeat its index.  See finding F5.

Bounds.  Two pauses are needed for a checkpoint to replace another, two tools
for a pause to be half answered and for two callbacks to race; a third of
either adds no new pair of actors, since each step relates at most one loaded
and one stored checkpoint (the theorems hold for any number).  `ResumeFaults`
and `ResumeRecovery` split the disturbances, each having those that can meet in
its question.  `Rounds` bounds the pauses: a job at the bound dispatches no
tool.  Each job is rescued once, and each turn is cancelled once.  Three events
and pops of two let a batch be split by the listener, a batch be in flight
while a second is pending, and FINISHED fall inside a batch.  In `StreamLife`
three events are the least with one before the first block, one in a batch and
one behind it, and the least with which a repeated batch makes the log long
enough to be trimmed; two disturbances let a cancel race a delete, an instance
that owns the task race one that does not, and a call meet a failed or repeated
write.  Three consumers at threshold one are a direct
reader and two that meet in one state, replace it, or have one each; a second
stream keeps the multiplexer alive while the first is dropped, for which it
needs no events.  In
`WorkerLeases` two lapses let each worker lose its lease and both hold the same
job; the safety properties were explored once with three workers as well (5.7
million states).  In `EngineIteration` three calls may share an iteration or have one
each, and of any kind; the second block of an interceptor is
one that follows blocks of the engine.  There deadlock is checked: a turn goes
on until it has ended or waits.  The other runs have CHECK_DEADLOCK FALSE: a
turn, a stream and a queue that are done with stop.

Fairness.  A coroutine that is runnable runs (`ProcStep`, `CancelStep`,
`DrainStep`, `JobStep`, `ListenerStep`, `ServerStep`, `ObserverStep`,
`ConsumerStep`, `ProcessStream`, `StartCycle`, `Loop`, `RunJob`: the event
loops), a deferred job comes due (`TimerStep`: ARQ polls), the lock of a dead
worker is found stale (`RecoverJob` from "crashed", `Rescue` from "dead": every
worker runs the recovery loop), and a key whose owner is dead expires
(`DeadLeaseExpires`).  All of it is weak fairness, with one exception: a poll
that renews the lease goes on to look for stale locks if two seconds have
passed, which is a choice in `Renew`; time passes, so the choice is strongly
fair.  Where the steps of a module cannot go on for ever it is enough to ask it
of all of them together (`FairStep`, `ServerStep`).  Nothing is assumed of tools, aborts, cancels, stalls, lapses, errors,
clients, or of the length of an engine run beyond its ending (the model
client's `request_timeout` and ARQ's job timeout bound it).

Symmetry is used in `ResumeFaults` (tools) and `EngineIteration` (calls), which
have safety properties and refinements of specifications without fairness.

## 10. What is proved

Eight modules hold theorems, and every invariant, action property and
refinement that a passing run checks is one of them.  Each argues from named
assumptions on constants alone, for every value of them.

### `ResumableChatProofs`, from `RoundsAssumption` (`Rounds \in Nat`)

| Theorem | Statement |
|---|---|
| `TypeCorrect` | `Spec => []TypeOK` |
| `OneEngineAtATime` | `Spec => []SingleEngine` |
| `ResultsComplete` | `Spec => []ResumedWithAllResults` |
| `ErrorsOnce` | `Spec => []OneErrorEvent` |
| `StaysCleanedUp` | `Spec => NoResurrection` |
| `NoResultAfterEnd` | `Spec => NoLateResult` |

The argument for `SingleEngine` and `ResumedWithAllResults` is the invariant
`Chain`, which says why the chain of jobs is a chain.  Neither property is
inductive: a state with two queued resume jobs satisfies `SingleEngine` and the
next step breaks it.

* `JobsInOrder`, `LoadedSettled`: a job is enqueued, and a checkpoint is stored
  or loaded by anyone, only after all jobs before it are past their engine
  (`Settled`).  The claim of an action, made once, keeps a job from going back.
* `SendersReady`, `JobsReady`: whoever is between the check and the enqueue,
  and every enqueued job, has all answers of its checkpoint, or the turn is
  over (`Ready`); results disappear only by a cleanup, and `WipersOver` says
  that whoever cleans up has seen a terminal status.
* `ResumersLoaded`: a job past its first read has loaded its own checkpoint.

`TypeInv` adds to `TypeOK` that the job at the bound never pauses.  `ErrorsOnce`
rests on `ErrorsDecided`: the errors published plus the processes about to
publish one are at most one, and none while there is no terminal status.
The action properties follow from `OnlyWipes`: a step taken when the turn is over
stores no new checkpoint and no new result.

### `ResumableChatRefinement`, from the same assumption

| Theorem | Statement |
|---|---|
| `TurnImplemented` | `Spec => ImplementsTurn`: the refinement of `ChatTurn` |

`Chain` alone does not say what the store holds, and the mapping reads it.
`Order` adds it: while the turn is not over the stored checkpoint is the latest
that any job, or anything loaded, speaks of, and the only job that may still
save is the one resumed from it (`Latest`); a job at its save has tools to
pause for (`PausesForTools`); a tool nobody dispatched has no timer, callback
or result (`Undispatched`); and whoever dispatched one has begun
(`DispatchersBegan`).  `OnlyMoves` names what all steps have in common that
neither save, record nor dispatch, so that the other actions are few: a save
is `ChatTurn`'s pause, the record of an awaited answer is its answer, a
terminal status ends the turn, the first engine step of a job begins or
continues it, and the rest stutter.

### `ResumableChatEnds`, from the same assumption

| Theorem | Statement |
|---|---|
| `EverythingCleanedUp` | `Spec => []NothingLeftBehind` |
| `NoToolUnwatched` | `Spec => []CancelStopsTools` |

Both speak of a turn at rest, and need what keeps it from coming to rest too
early.  `Ends`: a turn with a terminal status is clean, or somebody is on the
way to `cleanup()`, or died on it and its rescue is due; the same for the end
of the stream.  An abort could take a coroutine off that way, and is requested
only by `cancel()`, which then goes the way itself.  `Watch`: a tool of a
pause that still runs has its timer armed or its timeout started, and the
stages of a job, of the senders and of the client's cancel each know what was
armed and heard.  `Watch` holds at all times, not only after a cancel.
`saved` and `swept` in it name the two exceptions above.

### `EventDeliveryProofs`, from the bounds

| Theorem | Statement |
|---|---|
| `DeliveryTypes` | `Spec => []TypeOK` |
| `EventsHeardInOrder` | `Spec => []NoHole` |
| `ErrorHeardLast` | `Spec => []ErrorLast` |
| `CompletedTurnsHeard` | `Spec => []CompletedMeansHeard` |

The invariant `Delivered` reads everything between the engine and the client as
one sequence, `Flow`: what was heard, what the listener has popped, the wire,
and what the drain task still has.  A pop, a push, or a step of the drain task
moves the borders inside it and leaves it what it is; `emit`, an error and
FINISHED put one element behind it; a push that is lost cuts it at its end and
closes the drain for ever (`Open`).  `FlowOK` says that events stand at their
number, that FINISHED comes after all of them in a completed turn, and where an
error may be.  Where the listener has already left, `Heard` keeps what it knew.

### `StreamProcessingProofs`, from `EventsAssumption`, `MaxLenAssumption` and `ErrorAssumption`

| Theorem | Statement |
|---|---|
| `StreamTypesHold` | `Spec => []TypeOK` |
| `StreamWithoutHole` | `Spec => []NoHole` |
| `StatusInOrder` | `Spec => []StatusNotAhead` |
| `ObserverHearsTheEnd` | `Spec => []HeardAsSeen` |
| `CancelledStreamIsQuiet` | `Spec => QuietAfterCancel` |
| `DeletedStreamStays` | `Spec => StaysDeleted` |

`IInv` is `Types`, `Control` (where the two tasks are, and what a writer that
rests has left), `Waited` (a call that has waited has seen the processor end:
the two action properties follow from it) and, while the stream is there, what
its log is.  A push that is repeated puts a beginning of the batch into the log
and then the batch again, so the log is no prefix of what was yielded.
`Recorded` says that it counts up all the same: no entry skips a number, what is
counted to was counted through, and only errors follow an error (`Orderly`,
`Through`).  `Batched` says where the batch and the pending events go on, as
long as no writer failed (`Held`): at a number no higher than the one the log
ends with.  `StatusEarned` and `Told` say that a status was earned and that what
an observer was told when it stopped stays true.

### `WorkerLeasesProofs`, from the bounds, `MaxTries > 0`, a finite `Job` and `None` being no worker or job

| Theorem | Statement |
|---|---|
| `TypeCorrect` | `Spec => []TypeOK`: with the exact count of the slots |
| `StartsBounded` | `Spec => []StartedOnce` |
| `LocksKept` | `Spec => []KeepsLock` |
| `FailsOnlyAbandoned` | `Spec => []OnlyAbandonedFail` |
| `LocksChangeHands` | `Spec => BackInTime` |

`IndInv` has, beside the types: `Watching`, why an unharmed watch means that the
lock is free; `Leased`, that a worker that never lapsed has its lease whenever it
may have a lock, and the lock of all it claimed; `Claimed`, that what runs was
claimed; and `Tried`.  `StartedOnce` is not inductive, since a job whose counter
says 0 although it was started would start again: `Tried` ties the counter to
the starts while the job is queued, and a second try to an owner that lapsed.
The count of slots needs `Job` finite and the library's facts on cardinality.

### `StreamMultiplexerProofs`, from the bounds, a finite `Consumer` and `None` being no consumer or stream

| Theorem | Statement |
|---|---|
| `TypeCorrect` | `Spec => []TypeOK`: with the registries in step and the direct readers counted |
| `ServesAll` | `Spec => []NobodyLeftBehind` |
| `Drained` | `Spec => []StopsWhenDrained` |
| `EndsWhole` | `Spec => []EndedMeansHeard` |

`IndInv` has `Places` (what a consumer holds, by where it is), `Registry` (the
open broadcasts are those of the registered states, one stream each, and the
members are those who read them) and `Stops` (whoever stops the multiplexer
holds the lock and it has no states).  `NobodyLeftBehind` follows from it.  It
is not inductive alone: a consumer that joins between the last look at the
states and the stop would be left behind, and `Stops` with the lock excludes it.
`EndsWhole` needs three parts besides: `Holds`, about what the worker's tasks
took before their reads (their state belongs to their stream, whatever has
replaced it); `Bounded`, that no state has more than was written to its stream;
and `Overs`, that only another instance's cancellation makes a stream be over
before its processor is done, and that a worker which is about to close a stream
nobody cancelled has seen its end.

### `EngineIterationProofs`, from the bounds and `None` being no call, kind, state of a task or block

| Theorem | Statement |
|---|---|
| `RunsImplemented` | `Spec => ImplementsRuns`: the refinement of `EngineRuns` |
| `CallsBounded` | `Spec => []ModelCallsBounded` |
| `TurnTypesHold` | `Spec => []TypeOK`: with the exact count of the engine's blocks |
| `ModelReadsPairs` | `Spec => []AnswersFollowCalls` |
| `BlocksSeenInOrder` | `Spec => []BlocksInOrder` |
| `IndicesFresh` | `Spec => []FreshIndices` |

That a pause names all that is out needs an invariant, because the pause is made
from the results of the current iteration's tasks: `Gathered` says that a
task that lives belongs to a call of this iteration, that between the gather and
the next call none lives, and that the call whose block is open has no task yet.
`Tasks` ties the states of a task to its call, so that only a call of the server
at a worker is ever handed out.  `Counted` ties the model's calls to the
iteration, across the pause.

What a client sees is `WireInv`.  Every action puts one *piece* behind the wire
(`Puts`): it starts the blocks of one set, none of which was started, and stops
those of another, none of which was stopped.  So every block has one start and
one stop behind it (`Once`), whatever the pieces hold, and each action only has
to say what its piece is.  `Named` ties the blocks on the wire to the calls,
`Opened` the open block to the starts without a stop, `ResultsBehind` a result
to its call; `CallStates` and `Reasons` say who has to answer a call in each
place of the engine, and why the message ends.  `Indexed` says what a block of
an interceptor spoils: before the first one the index is the count and every
index used is below it.  `Numbered` counts the blocks, with the library's facts
on cardinality.

What the model reads is `Answering`: there is a sequence of calls, in the order
they were shown, of which the messages tell, and which an iteration extends by
its own.  Messages are compared by what the interceptor flattens them to: an
answer adds nothing to that wherever it comes, and the folded response adds
its calls as pairs.  The calls of an iteration are shown behind all earlier
ones because the wire only grows.

`FlattenSeq` and what is flattened by it are folds.  What a fold computes is
an induction over data, and the induction theorems of the library cannot be
used here; instead the lemmas at the head of the module derive from the
well-foundedness of < on numbers, which is a fact about sets, that a set of
sequences with the empty one, closed under `Append`, holds them all
(`LeastNumber`, `Count`, `Lengthen`).  From it follow what `FlattenSeq` is
(`FlatAppend`), and the lemmas on pairs, flattening and chosen answers.

Each inductive proof has a lemma per part of the invariant or per group of
actions, with a step per action.  The invariants were checked by TLC first.

Model-checked only: the liveness properties (`TurnEndsUnlessClaimIsStale`,
`StreamEnds`, `StreamEndsUnlessRaised`, `ObserverEndsUnlessDeleted`,
`ConsumersEnd`, `TurnsEnd`), since fairness and ENABLED are out of the prover's
reach; and the four runs that expect a violation, where there is nothing to prove.  The
theorems hold for any number of tools, pauses, calls, events, workers, jobs,
streams and consumers; which faults may happen is a constant too.

## 11. Findings

* F1, `LostWakeup`: the resume claim names no checkpoint.  A callback that has
  loaded checkpoint 1 claims after checkpoint 2 was saved, its enqueue is
  refused, and the claim blocks the resume of checkpoint 2 for ever.
* F2, `LostCallback`: a worker that dies in a tool-result job loses the result,
  and the tool's timeout, which has the same job id, cannot replace it.
* F3, `LostBatch`: one failed push makes `close()` raise inside `_fail`; the
  turn has failed and FINISHED is never published.
* F4, `DeletedStream`: a client observes a stream that another deletes.  There
  is no status left to find, `check_terminal_status` answers False, and the
  observer polls for ever.  So does the worker of a multiplexer, for all its
  consumers of that stream.

`PROJECT.json` quotes the lines each one contradicts.  Two observations are no
runs, as no line of the repository says otherwise:

* F5: the engine numbers the blocks of a turn with `run.block_count`, and the
  index interceptor keeps a count of its own, which includes the blocks that
  other interceptors show.  At the end of an iteration (`async_chat_engine.py:763`),
  and when a turn resumes (`:841`), the first overwrites the second, so that
  after an interceptor's block two blocks of a message have one index.  The
  legacy `ChatLoopEngine` keeps the interceptor's count.
* A worker that is shut down raises CancelledError in the engine's coroutine,
  and the runner takes it for a client's cancel: it revokes the tools and leaves
  the turn without a terminal status.  What ARQ does with such a job next is
  the library's, so the model has no worker that stops.

## 12. What is not modelled

* Expiry of keys (callback timeout + 300 s for the store, six hours for an
  in-progress lock, the stream's expiration for list, hash and log).  It bounds
  the damage of F1 and F2 but ends no stream: the listener polls for ever.
* What the model and the tools compute, message contents, tracing, formatting.
* The local scheduler and the in-memory store, broker and stream service: a
  turn never pauses under them and nothing of theirs outlives the process.
* Redis itself failing over, and commands lost or retried by the client
  library, except where a module says so: the pushes of `EventDelivery`, and in
  `StreamProcessing` the writes of the processor and its writer, which may fail
  or be executed more than once.  There the copy that counts is the last: one
  that reaches Redis after its repetition is left out, and so are failing or
  repeated writes of the cancel and delete calls and failing reads.  The model
  may repeat a write as often as the bound allows, the client does so once.
* An API process that dies with a listener, a processor or an observer in it.
* Celery redelivering a tool task: the second answer carries a used job id.
* Locks without an owner, left by workers from before leases existed.
* In the readers: a consumer that joins at a given id, a read that raises, the
  entries one by one (a broadcast is its length), trimming and repeated entries
  under a multiplexer, a stream made anew under the id of a deleted one, and
  `AdaptiveStreamReader.shutdown`, which nobody calls.
* In the engine: interceptors that rewrite the history, blocks withheld from a
  client, token counts, deltas, and tools executed one at a time.
* The shutdown of a worker, see above.
* The semaphore managers of the ingestion and the ownership of workspaces, rows
  7 and 8 of the plan.  The managers are off by default (`enable_semaphore`);
  their two hazards are listed.
* The adapters.  Most of the repository wraps third-party models, parsers,
  databases and stores, describes its HTTP types and settings, or renders
  documents: `settings.py`, `input_models.py`, the readers, the query
  generators, the patched vector store, the audio and image handlers.  Most
  keep no state that two actors share, and a faithful model of one would be a
  transliteration of string and data handling.  This is why the map covers a
  small share of the lines of the repository: what decides which process may do
  what, and when, is a few files, and those of the chat path are modelled.

`PROJECT.json` lists each of these parts with its reason.
