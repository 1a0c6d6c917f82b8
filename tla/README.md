# A verification project for the Gifd gateway

Gifd (a fork of OpenClaw) is a TypeScript gateway that connects chat channels to
agents. One Node process receives messages from many channels, decides which
session each belongs to, runs an agent turn for it, and sends the reply. The
parts modelled here decide *what runs when, and what survives*: everything else
in the gateway relies on them.

The models are TLA+ modules. TLC checks them on small instances, and TLAPS proves
what matters most for every instance.

Paths below are relative to the repository (`src/` is its source directory).

## 1. Inventory

The process is single-threaded. A step of the program is the code between two
awaits: a function called from the event loop, a timer callback, or the
continuation of a settled promise. Concurrency means interleaving of such steps
and, for the files of the delivery queue and the gateway lock, crashes and other
processes.

### Modelled

| Component | State | Operations | Correct when |
| --- | --- | --- | --- |
| Command lanes, `src/process/command-queue.ts` | per lane: queue, active task ids, width, generation; a draining flag; waiters for active tasks | enqueue, set width, clear, reset one or all, mark draining, wait for active tasks; completion and timeout of a task | no lane above its width by what it starts; no free slot beside waiting work; nothing lost or started twice; FIFO; a stale completion frees nothing of a newer generation; waiters are told the truth |
| Lanes of an agent run, `src/agents/pi-embedded-runner/{run,lanes}.ts`, `src/gateway/server-lanes.ts`, the manual cron runs of `src/cron/service/ops.ts` | which of its nested entries (cron lane, session lane, global lane) a run has submitted; its abort signal | submit, go deeper, end, time out, abort; interrupt, recovery, width changes, drain and restart | one run of a session at a time; in order; each answered once; nested waiting never deadlocks |
| Follow-up queue, `src/auto-reply/reply/queue/*.ts`, `src/utils/queue-helpers.ts` | per session: queued messages, what overflowed, settings, a drain; a registry entry; the session's one reply operation | enqueue with dedupe and drop policy, debounce, abort sweep, run in followup or collect mode, failure and retry, clear | no accepted message lost or repeated; messages of another route or sender never merged; somebody always drains; lifecycles completed |
| Reply-run registry, `src/auto-reply/reply/reply-run-registry.ts` | per session: the reply operation with its phase, result, abort signal and attached attempt; the ids that lead to it; waiters | begin, phases, new session id after a compaction, attempts in the session lane, attach, abort by user or restart, complete, fail, force-clear, wait with timeout | one operation per session; exactly its id leads to it; a cleared operation never gets to run an attempt; waiters are told |
| Embedded-run registry, `src/agents/pi-embedded-runner/runs.ts`; stuck-session recovery, `src/logging/diagnostic-stuck-session-recovery.runtime.ts` | per session id: the handle of the attempt that talks to the model; waiters | register, clear, abort, wait, force-clear; the recovery's abort, wait, forced clear and lane reset | the late end of an attempt touches no successor; a turn always ends though its attempt may never unwind |
| Heartbeat wake, `src/infra/heartbeat-wake.ts` (and what `heartbeat-runner.ts` does to it) | one pending wake per target, one timer with a kind, scheduled and running flags, the handler and its generation | request, fire, run a batch, skip busy targets, throw, register and dispose a handler | no wake lost, none stuck; batches of a handler apart; a retry cooldown is kept |
| Outbound delivery queue, `src/infra/outbound/{delivery-queue-storage,delivery-queue-recovery,deliver}.ts` | a file per message with a retry count and a mark; `failed/`; claims in memory; recovery and drains | write-ahead, claim, hooks and rendering, mark, send, note, acknowledge, fail; recovery at start, drains at reconnect, deferral; crash | nothing logged is lost; a marked send is not repeated; one at a time works on an entry; retries end |
| Gateway lock, `src/infra/gateway-lock.ts`, and the run loop around it, `src/cli/gateway-cli/run-loop.ts` | the lock file, the listening port, each process's place and handle | acquire with stale-owner reclaim, bounded retries under a supervisor (`run.ts`), serve, fail to start, stop, restart in process, crash | the file never names a living process that does not serve; a supervised start outlasts whatever file a crash left |

How they interact. A message that finds its session idle starts a turn: it takes
the reply operation of the session, then enters the session lane and the global
lane, and registers its attempt as an embedded run. One that finds a turn active
is put into the follow-up queue, and the end of the turn schedules the drain,
which takes the reply operation for each follow-up turn and enters the same
lanes. Stop commands and interrupting messages find the turn through the two
registries; resets clear the follow-up queue and the session lane; the recovery
of a stuck session aborts through the registries, waits, clears by force and
resets the lane. Configuration reloads change widths; the restart loop drains and
resets every lane, registers a new heartbeat runner over the old one's batch, and
takes the gateway lock again. Heartbeats are turns like any other, and are told
"busy" while the session's lanes have work. Replies leave through the delivery
queue.

### Not modelled, and why

`PROJECT.json` lists every component with its files. In the order of interest:

* **Cron service**: jobs in a file under a promise lock, one timer, runs that
  outlive their edit or removal, missed runs after a restart. Its manual runs are
  in `EmbeddedRuns`; the store and the timer are the next module worth writing.
* **Lane suspension**: a width of zero with a resume timer. `CommandLanes` lets any
  caller set any width at any time, zero included; what is missing is which width
  the timer restores after a reload.
* **Session write lock, session store**: their acquire loops, with the reclaim of
  stale owners, live in the package `@openclaw/fs-safe`, outside the repository.
* **Exec approvals, node registry**: each request answered once, by a decision, a
  timeout or a disconnect.
* **Config reload, inbound debounce, keyed queue, system events, task and subagent
  registries, ACP control plane, process supervisor, pairing and commitment
  stores**: small or large, each its own module.

Left out for good: what a turn does inside its lanes (model calls, tool loops,
failover), channel and provider extensions, the apps, the command line and the
wizard. They are I/O, protocol translation or user interface, and their state is
either local to a call or too large for a model to say something true and short
about. Those parts are most of the repository's lines.

## 2. The modules

| Module | What it is |
| --- | --- |
| `CommandLanes` | the lanes; one action per exported function, timer and completion |
| `EmbeddedRuns` | agent runs over an instance of `CommandLanes`, whose variables it shares |
| `SessionRuns` | the abstract promise of the session lanes; `EmbeddedRuns` implements it under a refinement mapping |
| `FollowupQueue` | the follow-up queue of one session and the reply operation it contends for |
| `ReplyRuns` | the reply-run and embedded-run registries of one session, its turns and its recovery |
| `HeartbeatWake` | the wake queue, its timer, its batches and the runners that take it over |
| `DeliveryQueue` | the write-ahead queue of outbound messages, its live sends, recovery, drains and crashes |
| `GatewayLock` | the lock file and the life of the gateway processes of one profile |
| `*Proofs` | the theorems about a module |
| `MC*` | model values and small constants for TLC |

Definitions preceded by a comment `Deviation:` are not part of a specification.
Each is a plausible slip in the code, and for every property of every passing
run `PROJECT.json` names one that makes TLC find the property violated.

### CommandLanes

An action is a whole step of the code, with the `pump()` and
`notifyActiveTaskWaiters()` it ends with: `Pump` starts the entries in one go, so
`draining` (true only while `pump` is on the stack) needs no variable. The
code's fresh `taskId` per started entry is the entry itself. Three pieces of
state describe an entry: `promise` is what its submitter sees, `body` is the task
function, and `startGen` is the generation its completion handler captured. They
come apart exactly where the code is delicate: after a lane timeout the promise
is rejected and the slot free while the body runs on, and after a reset the slot
is free while both go on. The budget of a waiter and the timeout of a task are
"may fire at any time from now on".

### EmbeddedRuns and SessionRuns

A run owns the entries `<<r, 1>>`, `<<r, 2>>` (and `<<r, 3>>` for a manual cron
run, which holds a cron slot around the other two). `Starting` holds the session
entries whose task function `pump` has just called: it submits the next entry
before it returns to the event loop, so every other action waits for that
(`Quiet`). The callers of the lane operations are actions of their own:
`Interrupt` (clears the session lane), `Recover` (resets it), `ApplyConcurrency`
(a reload: main first, then cron and cron-nested), and the restart loop as four
steps. Nested and subagent lanes wait in the same way as main and are left out.

`SessionRuns` has a queue, at most one served run and an outcome per run; it knows
nothing of lanes. The mapping reads the session entry of each run.

### FollowupQueue

`queue` holds queue *objects*, not sessions: a clear deletes the registry entry,
and the next message creates a new object while the drain of the old one may
still be inside its turn. Objects nobody refers to any more are blank and are
reused, so two of them cover any length of run. `over` holds the messages
dropped under `drop = "summarize"` since the last summary (`droppedCount` is its
length), `lines` how many of them still have a summary line, `sources` those
whose lifecycle the summary owes. `turn` is a turn of the reply agent, whose end
schedules a drain, and `foreign` a run somebody else started
(`attempt-execution.ts`), whose end does not. A drain is `off`, in a sweep over aborted
messages (before or after the debounce), in the debounce, `opening` (its runner
has been called and does not have the reply operation yet) or `running`.
`fate` is a history variable: it says what became of each message, and the
properties compare it with where the message is.

Modelled by what they do: the debounce is a wait of any length; the cache of
recent message ids forgets an id at any time; routes and senders are values that
are equal or not. Left out: `lastRun` (set whenever it is read), prompt texts,
the drain callbacks, the `restartIfIdle` path no caller of the gateway uses,
`refreshQueuedFollowupSession`, and aborts of the reply operation itself, which
belong to `ReplyRuns`.

### ReplyRuns

One session: ids belong to one session, so two sessions meet in neither registry and
each map keyed by the session is one variable. A turn is one record. `at` is its place
(waiting for the operation or a run to end, checking, going, over), `step`, `result`,
`cleared`, `signal` and `sid` are the fields of its reply operation, `awaits` is the
attempt its own code awaits and `backend` the one attached to the operation. Attempts
are records of their own: queued in the session lane, preparing, running, cancelled,
closing, ended. One that the lane has given up is *late*: its turn no longer awaits it
and may ask for another beside it, as it does when a memory flush fails
(`agent-runner-memory.ts:1061`) or the next model is tried (`model-fallback.ts:1159`).
A turn of the follow-up drain gives its attempts no abort signal
(`followup-runner.ts:340`), so an abort reaches only the attached one; any other
turn's attempts hear the signal, attached or not. A wait is a value, not a promise:
what it waits for, reset by `Told` in the very step that ends it, which is when the
code resolves the promise. The steps of the code that run through both registries
(`abortActiveReplyRuns`, a forced clear, the end of an attempt) are one action each,
in the code's order. A message that finds the session busy waits, and aborts first in
interrupt mode only (`Arrive`); a stop takes the operation and the handles of both the
active and the stored id (`UserAbort`). `AttemptTimesOut` is the attempt's own timer,
`LaneTimesOut` the lane's; a cancelled attempt need never unwind.

The first session id is numbered 1 and a compaction takes a later one. Left out:
the key under which waiters of an id are kept (the one of the session), a rebind of
an id to another session's operation (it throws), the compaction mode of an abort,
model switches, message steering and snapshots.

### HeartbeatWake

Time is discrete: `Tick` takes a unit off the armed timer. `Scheduled` is
`schedule()`: the kind of the armed timer decides whether it may be replaced. A
batch runs its wakes in any order, one at a time, each ending in `Ran`,
`SkippedBusy` or `Threw`; `by` is the handler it was taken for. Registering a
handler clears the flags the code clears and bumps the generation, so a batch of
the older handler ends beside the newer one's. `waiting` is a history variable:
the requests no run has answered. Source, reason and override of a wake are data
that no property needs; equal priorities replace one another as in the code.

### DeliveryQueue

A message is its own live send; the workers are the recovery of a process and one
drain per drain key. A job says where an actor stands, which entry it has read and not
yet written back, and what is left of its scan. Updates of an entry are a read and,
later, a write (`ReadEntry`, `WriteMark`), as they are in the code; a deferral is the
same without a claim. `Prepare` is the channel's handler, the hooks and the rendering,
which a live send and a replay go through alike: a hook may cancel, the payload may
turn out empty, or something may throw. An error inside the loop over the payloads is
swallowed for a best-effort message (`AfterError`), one outside it (making the
handler, appending the mirror) is not (`AfterThrow`). The adapter may answer without
the identity of a message, which counts as sent (`Suppresses`); the caller's abort
acknowledges the entry, or is one more payload error for a best-effort message
(`AbortSend`). A read that fails under a claim, and a failed prune of a drain, end the
scan (`ScanThrows`). The platform takes a message and then answers, or its answer is
lost. The first retry after a crash is always due, later ones are due or not: back-off
times are left out, and so are the order of a scan, the two phases of an
acknowledgement (the second removes a file nothing reads), and what hooks and
rendering do to a payload. A message is one payload. One process at a time uses the
queue directory; the gateway lock is what sees to that.

### GatewayLock

Between any two file-system or socket calls every other process may act, or this
one may crash (`kill -9`), or fail to write its payload. A stale owner is judged by
the port first, as the code does when it has one, then by pid and start time, then
by age. The payload names its owner by pid and start time, so on Linux an owner is
a process and never a recycled pid; the two other platforms differ in that. The
run loop's part is what it does to the lock, the port and `locked`.

`Tick` passes while every process sleeps, starts or serves: the calls of one poll
take no time worth counting. `left` is what is left of a call's patience
(`timeoutMs`) or of a pause. A first start by a supervisor is retried in process
for a bounded time (`Retry`, `run.ts:383`), a start by hand and a restart in
process are not; a start that gives up ends for good (`GiveUp`): under systemd it
exits with the code that systemd does not restart after (`run.ts:335`,
`systemd-unit.ts:79`).

## 3. The runs

| Run | Instance | Question |
| --- | --- | --- |
| `lanes` | an ordinary and a probe lane, three entries (two with a timeout), a timed waiter, widths 0..2, one reset per lane | every safety and action property of the lanes, and `TimedLaneDrains` |
| `runs_order` | three runs of one session (one with a timeout), widths 1..2 | turns of a session overlap only if a slot was let go; `EmbeddedRuns` implements `SessionRuns` |
| `runs_live` | a run and a manual cron run of one session, both with a timeout, widths 1 | nested waiting never deadlocks |
| `followup_safety` | three messages (one redelivered, one alone with lifecycle and abort signal, two senders), cap 2, `drop = "new"`, both modes, two objects, clears, another run, one failure | nothing lost, repeated, mislaid or left uncompleted |
| `followup_drains` | four messages, two routes, two senders, another run, one failure, no clear, caps 1 and 2 in both modes, `drop = "old"` or `"new"`, or `"summarize"` | a queue that somebody attends to is drained and goes away, only a message behind another run is left to nobody, and batches are never mixed |
| `followup_lost_old` | three messages, cap 2, `drop = "old"` | *violated*: finding 1 |
| `reply_runs` | two turns of one session (one from the follow-up drain), two attempts, two session ids, one recovery | both registries agree with the turns, waiters are told, every turn ends |
| `reply_forced` | the same | *violated*: finding 2 |
| `wake` | three requests (an interval, an action that outranks it, another target), two handlers, two batches side by side, one error | no wake lost or stuck, the cooldown kept, every wake answered |
| `delivery` | one message of any of the eight kinds, the recovery and a drain, `MAX_RETRIES` 2, one crash, one failed file operation | one owner, nothing lost, a marked send not repeated, retries end |
| `delivery_swallowed` | a best-effort message, one crash | *violated*: finding 3 |
| `lock_starts` | three processes on one port, one of them supervised, two crashes or failed writes | no file without its owner, and a supervised start outlasts whatever file the dead have left |

Bounds.

* Lanes: an overtaking, an idle slot or a lost entry needs two entries of a lane
  and one to run beside them; a stale completion needs one reset, a waiter that
  missed its notification one waiter. A run occupies two or three lanes, so two
  runs of one session and one that holds the cron lane contain every cycle of
  waiting. `MaxGeneration` stops resets; `TimedLaneDrains` holds whether or not
  resets come, so this takes nothing away from it.
* Follow-up queue: the cap is two where a head is running and another message
  waits, one where a single arrival overflows; three messages give head, next and
  arrival. `MaxTurns` and `MaxFailures` bound repetitions that return the queue to
  a state it was in before.
* Registries: a stale end needs a turn and its successor, or an attempt and the next
  of the same turn; a stale id needs two ids; `MaxAttempts` bounds the attempts of all
  turns, of which two can be side by side or in turn; one recovery addresses one of
  the two turns before or after the other began.
* Heartbeat: two targets for a batch that ends half-way, three requests so that
  two meet in one target, two handlers for a restart, two batches for the overlap
  it leaves. Delays of zero, one and two units tell the timer kinds apart.
* Delivery: the entries of two messages meet nowhere but in a worker's scan, whose
  rest is kept as a set. The runs have one message; the theorems of
  `DeliveryQueueProofs` cover any number of them.
  `MAX_RETRIES` is 2 so that an entry is due, due again and exhausted; the code's 5
  adds no other case. One crash gives a live send, a recovery after it, and entries
  that the first process left in any state.
* Lock: three processes, so that two can contend for a file a third has left, and
  two crashes, so that one of the two contenders can leave one in turn. A tick
  stands for several seconds: a call's patience of 5 s and the pause of 5 s are two
  ticks each, the 30 s of the retries and the 30 s of the stale age four each. What
  the property turns on is kept: the retries and the last pause reach past the stale
  age, and the patience of one call does not.

The runs of everything but the lanes stop when nothing is left to do: deadlock is
not checked there because such a state is not a fault.

Fairness, and what justifies it:

* `lanes`, `runs_live`: armed timers fire and promise continuations run
  (`TimerFairness`, `RunFairness`); no task function and no turn is assumed to
  return.
* `followup_drains`: also that a turn ends and a run of somebody else ends;
  `run.ts` times every turn out (which `runs_live` shows), and both loops are
  continuations of settled promises.
* `reply_runs`: timers fire (of a wait, of the lane), the lane starts what waits for
  it, and a turn's own code goes on when it awaits nothing. That an attempt ever
  attaches, ends or unwinds, that its own timer fires, that anybody stops a turn or
  that a recovery comes is not assumed.
* `wake`: time passes, a handler returns, and a target that is tried again and
  again is not busy each time (strong fairness): what keeps it busy are turns that
  time out. Without that last one the code retries for ever, as it means to.
* `delivery`: an entry found due is taken up in the same turn of the event loop.
  Whether channels reconnect is left open: `RetriesEnd` says that reconnects
  cannot make an entry come due for ever.
* `lock_starts`: time passes and a process that asks for the lock goes on with its
  calls. That a process is started, started again after it gave up, closed or
  killed, or that a server ever comes up, is not assumed.

Nothing is assumed of messages, operators, aborts, failures or crashes.

What some properties do *not* say.

* `SessionSerial` and `ServesSessions` let turns of a session overlap after a lane
  timeout or a reset, which is what the code does (see the remarks on lanes).
* `Accounted`, `HandIsHead` and `LifecycleSettled` are checked with `drop = "new"`
  only, where nothing is summarized; under `drop = "old"` the code violates
  `Accounted` (finding 1).
* `MixedNeverMerged` speaks of the messages handed to a turn and of those of its
  batch. The summary a turn carries tells what was dropped, whoever sent it.
* `QueueDissolves` exempts a queue nobody attends to (and says that only a message
  behind another run brings one about, which needs `Clears = FALSE`), and the
  summary that followup mode never tells. Both are under the remarks.
* `OnlyItsOwnEnd` exempts the forced clear (finding 2).
* `OneOwner` is about one process. `NothingLost` exempts what the caller, a hook or
  the adapter gave up (`dropped`, `suppressed`), and the swallowed errors of finding
  3. It does not forbid an entry that comes back or a mark that is undone (the
  deferral, below).
* `MarkedSentOnce` speaks of sends that carry the mark: a best-effort send whose
  mark could not be written, and every replay, carries none, and a crash between
  the platform's answer and the acknowledgement repeats it, which at-least-once
  delivery accepts.
* `StartsGetThrough` is for supervised first starts of processes of one port, and
  says that they do not give up too early, not that a server comes up. A start by
  hand waits 5 s, less than the stale age: a file without a payload, left by a
  crash, makes it give up, and nobody starts it again.

## 4. Findings and remarks

Each violated run states what a document or a comment says.

1. `followup_lost_old`: `drainNextQueueItem` remembers the head *by position*
   across an await. A message that arrives meanwhile at a full queue drops that
   head, and the `shift()` afterwards removes the next message, which never runs.
   The same holds for the batch of collect mode and for `drop = "summarize"`.
2. `reply_forced`: an abort that waits for a run and then clears by force addresses
   the run by its session id. When the run ends at the last moment and a new turn
   of the session starts under the same id, the clear takes the registrations and
   the operation of that turn, which nobody stopped, and its attempt goes on.
3. `delivery_swallowed`: the replay of a best-effort message whose send fails
   returns as if it had been sent, and the drain acknowledges the entry: the
   message is gone, neither delivered nor in `failed/`.

Remarks: what the code does and no run is spent on.

* Lanes. A restart drain refuses the inner entries of runs queued before it
  (`command-queue.ts:357`), so a run waiting in its session lane starts during the
  drain, is refused by its global lane and does not survive to the reset that keeps
  queued work. A lane timeout frees the slot of a task that still runs:
  `waitForActiveTasks` may report "drained" beside it (`command-queue.ts:194`), and
  the next turn of its session may start beside it (`docs/concepts/queue.md` promises
  that only one run touches a session at a time). `SessionSerial` says that turns
  overlap only in this way or after a reset.
* Follow-up queue. In followup mode the message that lends its route to an overflow
  summary is removed though its prompt was not sent (`queue/drain.ts:429`). With cap
  1, or after a mode change following a batch, an empty queue with overflow still to
  report makes the drain schedule itself for ever without yielding to timers
  (`queue/drain.ts:445`). A message queued behind a run that the reply agent did not
  start is left to nobody when that run ends, because only the reply agent's turns
  schedule a drain (`agent-runner.ts:1208`, `:2186`; `attempt-execution.ts:595` ends
  without): it waits for the next message or turn, although `docs/concepts/queue.md`
  runs it "after the current run ends". The same happens to a message that arrives
  after a clear while the cleared turn is still ending. The remaining authorization
  groups of a batch taken before a clear still run (`queue/drain.ts:385`). A summary
  is told in the turn of whoever comes next: an owner's turn may tell a guest's
  message, or that of another route (`queue/drain.ts:364`, `:422`).
* Registries. A lane timeout while an attempt is being prepared makes the turn fail,
  which does not cancel an attempt that attaches between the timeout and the
  failure; it runs until its own timer. An abort of a follow-up turn reaches its
  attached attempt only: one still queued or preparing is cancelled when it attaches.
  A late attempt and the next one of the same turn talk to the model side by side.
* Heartbeat. A normal timer armed during a batch is not replaced by the retry timer
  a busy target asks for, so such a retry comes after the coalescing delay and not
  after the cooldown; the "hard minimum" is one for retry timers that are armed. A
  runner that is stopped while its batch is running drops the batch's remaining
  wakes as "disabled".
* Delivery. A deferral writes without a claim what it read before: it can undo a
  mark, or bring back an acknowledged entry. After a mark, a transient failure makes
  later drains refuse the replay unless the adapter reconciles, and no adapter in
  the tree does.
* Lock. A starting gateway that is told another port finds *that* port free and
  takes a serving owner for dead (`gateway-lock.ts:193`; `docs/gateway/gateway-lock.md`
  speaks of one port). Before the server listens the same holds for every owner, and
  the removal takes whatever file is there: until then the bind, and not the lock
  file, keeps two gateways apart. After a failed in-process restart a later one
  serves without taking the lock again (`run-loop.ts:146`, `:227`).

## 5. What is proved

Every theorem is about the specification of its module, for every value of its
constants under the module's one named assumption (the constants have the shape
the comments say; sets of processes, messages, turns, lanes are arbitrary). The
last three theorems about the follow-up queue have a hypothesis more, `NewOnly`,
explained below; without it they are false of the code.

| Module | Theorem | Property |
| --- | --- | --- |
| `CommandLanesProofs` | `Invariance` | the inductive invariant `IInv` |
| | `TypeCorrect`, `GenerationSafety`, `NoLostWakeup`, `NothingIsLost`, `WaitersAreExact` | `TypeOK`, `GenerationSound`, `NoIdleSlot`, `NothingLost`, `WaitersExact` |
| | `SlotsAreRespected`, `NothingOvertakes` | the action properties `SlotsRespected`, `NoOvertaking` |
| `EmbeddedRunsProofs` | `RunInvariance` | the inductive invariant `RunIInv` |
| | `SessionsAreSerial` | `SessionSerial` |
| | `SessionsAreServed` | the refinement `ServesSessions` of `SessionRuns` |
| `FollowupQueueProofs` | `QueueInvariance` | the inductive invariant `QueueIInv` |
| | `QueueTypesHold`, `RegisteredAlways`, `OncePerQueueAlways`, `NeverMixed` | `TypeOK`, `RegisteredHolds`, `OncePerQueue`, `MixedNeverMerged` |
| | `NothingLost`, `HandStays`, `LifecyclesClose` (`NewOnly`) | `Accounted`, `HandIsHead`, `LifecycleSettled` |
| `ReplyRunsProofs` | `ReplyInvariance` | the inductive invariant `ReplyInv` |
| | `ReplyTypes`, `RegistryIsExact`, `IndexIsExact`, `NobodyWaitsInVain` | `TypeOK`, `RegistryExact`, `IndexExact`, `WaitersLive` |
| | `AttemptsAreRegistered`, `RunsLeaveByThemselves` | the action properties `AttachedIsRegistered`, `OnlyItsOwnEnd` |
| `HeartbeatWakeProofs` | `WakeInvariance` | the inductive invariant `WakeInv` |
| | `WakeTypes`, `NoWakeIsLost`, `QueueNeverStalls`, `BatchesStayApart` | `TypeOK`, `WakeKept`, `NoStall`, `BatchesApart` |
| | `CooldownIsKept` | the action property `CooldownKept` |
| `DeliveryQueueProofs` | `QueueInvariance` | the inductive invariant `QueueInv` |
| | `DeliveryTypes`, `OneAtWork`, `LoggedIsKept` | `TypeOK` with its bound on retries, `OneOwner`, `NothingLost` |
| | `MarkedIsSentOnce` | the action property `MarkedSentOnce` |
| `GatewayLockProofs` | `LockInvariance` | the inductive invariant `LockInv` |
| | `LockTypes`, `FileIsAccounted` | `TypeOK`, `FileAccounted` |

None of these properties is inductive alone.

**Lanes.** `IInv` is the conjunction of `TypeOK`, `LaneInv` (queued entries are
pending, idle and occur once, in the queue of their lane; an active set is what
the current generation is running; whatever is pending is queued or running),
`NoIdleSlot`, `WaitSetsStarted` (a waiter only waits for what has been started, so
a fresh entry cannot disturb it) and `WaitersExact`. `Pump` is the step every
action but a few ends with, and the proof follows that. `LaneInv` and its parts
are stated for an arbitrary lane state (queue, active sets, generations, promises,
bodies) and not for the variables, because an action hands `Pump` intermediate
values: an appended queue, an active set without the task that ended, a new
generation. `PumpKeepsLaneInv` says that pump preserves `LaneInv`, `PumpFills` that
it leaves no lane it was called for with a free slot and waiting work,
`PumpLeavesOthers` that other lanes are as before. Each action then has only to
show that what it hands to pump satisfies `LaneInv` (`AppendSound`,
`CompletedSound`, ...), and `TurnEndsWithPump` and `TurnWaiters` do the rest. The
two action properties follow from one lemma, `StepIsTurn`: a step either starts
nothing and keeps every queue's order (`Quiet`), or pumps from a lane state whose
active sets have not grown and in which nothing has been overtaken (`Turn`); then
`PumpFills` bounds what is started and `PumpKeepsOrder` carries the order through.

**Runs on their lanes.** `EmbeddedRuns` has no queue of its own: it instantiates
`CommandLanes` for the lanes and entries of the runs. Its proofs instantiate
`CommandLanesProofs` in the same way (as `QP`), discharge the assumption of that
module once (`LanesOfRuns`), and cite its lemmas by name. `RunIInv` adds to the
invariant of the lanes that session lanes have width one (`OneEach`), that the body
of a session entry runs as long as its turn is pending, and that only a timed turn
times out (`TurnsSound`). `SessionsAreSerial` follows: the entries of two turns of a
session that run at once are both active, in a lane of width one, unless one of
them was released. `SessionsAreServed` is the step simulation: `PumpedTurn` says what a
turn of the event loop that ends with a pump does to the session lanes (each that
serves nobody takes up the head of its queue, `TakesUp`); for each action a lemma
`...Keeps` proves the invariant and names the queues and active sets from which the
sessions take up, and a lemma `...Serves` reads that as the action of `SessionRuns`
it is, or as a stutter.

**Follow-up queue.** A drain and the queue object it works on meet in three ways: the
drain goes on, a drain is scheduled for the registered object, and the registered
object gets new contents. Lemmas about these three steps show `Core` (an object that
holds messages is the registered one; its messages differ; a drain is `Steady`:
neither its hand, nor the rest of its batch, nor a batch a summary is given to holds
what must not be merged), whatever the settings are, for batches and queues of any
length. `QueueIInv` is `Core` and the types. `Accounted`, `HandIsHead` and
`LifecycleSettled` need that nothing leaves the head of a queue during the turn that
carries it. That is so when a full queue turns messages away, `NewOnly`: all the
settings have drop "new". With drop "old" or "summarize" a message that arrives at a
full queue drops the message a turn is carrying, and the turn then takes the next one
off without running it; the run `followup_lost_old` finds this loss, so the theorems
cannot do without the hypothesis. Under `NewOnly`, `Lined` says that the hand and the
batch behind it are at the head of the registered queue and the message of a sweep at
its index, and `Moved` that each step of a drain takes off exactly what it has let go
of. `AuthGroups` and the order of a hand are stated without recursion (`Starts`,
`InOrder`, `Consecutive`), so that the proofs can reason about them; where an argument
would be an induction on positions it takes a least counterexample (`NatLeast`,
`OrderExists`) from the well-foundedness of `<`.

**Registries.** `ReplyInv` has two parts. `Sound` relates the two maps, the turns and
the recovery, for arbitrary values, because abort, force-clear and the end of an
attempt change them in several stages: the registry holds exactly the turn that goes
on and is not cleared, the index exactly its id, each turn's record is consistent
(`TurnOK`), and whoever waits waits for something that is there. The lemmas about
`Cancelled`, `Resulting`, `ClearState`, `ToldTurns` say what each stage keeps, and an
action cites the ones it goes through. `Owned` says that an attempt under way
belongs to a turn that has begun, and that a turn awaits only an attempt of its own.
Most steps neither begin, end nor let run an attempt and take no turn back: they are
`Calm`, which keeps `Owned` once and for all (`Ages` is the turns' half of it), and
only those that do are looked at one by one. That an attempt is let run only for the
registered operation follows because an operation that was cleared has a result.
`OnlyItsOwnEnd` follows because a handle leaves the map under the guard that it is
the one registered, in the step in which its attempt ends or closes.

**Heartbeat.** `WakeInv` adds to the properties what they rest on: an armed timer
finds work (`TimerHasWork`), what a batch has left is a part of what it took and
covers requests of its targets (`BatchesSound`), and a handler is in `overlaid` when
a batch of an older one is at work (`Overlays`). `WakeKept` survives a merge because
`Merge` never lowers a priority, and a batch that throws because the whole batch is
merged back.

**Delivery.** `QueueInv` says of every actor what its position implies for the entry
it has claimed (`JobOK`: its claim is in `entriesInProgress`, what is being noted or
acknowledged was accepted or given up, a read entry is not an absent one), and of
every message what its history implies for its entry (`MsgOK`). Only the owner of an
entry relies on it, and an actor touches one message in a step: `OwnStep` proves once
that such a step disturbs nobody else, and the lemmas `OwnerGoes`, `OwnerEnds`,
`OwnerWrites` specialise it, so that an action has to show what it does to its own
message. Crashes and deferrals, which break that pattern, have proofs of their own.

`TypeOK` says that no retry count passes `MAX_RETRIES + 2 + MaxCrashes`, which needs
a second invariant. A worker replays an entry below `MAX_RETRIES` only, a live send
counts one failure as it ends, but the deferral of a recovery whose time is up
writes without a claim, between the read and the write of the owner. `RetryInv`
therefore bounds a count by the deferrals of the message that are over (`Spent`: one
for each life of the process, once that life can no longer write one) and the live
send that has ended (`Ended`), and says of an owner's copy that it is the entry's
count until the deferral of this life is over (`ReplayOK`), and of a deferral's copy
that it is at most the entry's count (`CountOK`). `CountStep` proves once that a step
of an owner keeps this; crashes and deferrals are proved apart.

**Lock.** `LockInv` is the types, `Clocks` (a process that tries or pauses has time
left, which `Woken` relies on), `BoundByPort` (a port is bound by a serving process
that was told to use it) and `OwnerHasHandle` (the process a written file names holds
a handle unless it was killed, so that its release removes the file).

Only model-checked: the liveness properties `TimedLaneDrains`, `RunsAnswered`,
`QueueDissolves` (its action half too), `RetriesEnd`, `WakesAnswered`, `TurnsEnd` and
`StartsGetThrough`. They rest on fairness and `ENABLED`, which are out of the prover's
reach. Every other invariant and action property and the refinement that the passing
runs check are theorems, three of them under `NewOnly`, which is the setting of drop
in the run that checks them. Out of reach as well: induction over data with a
predicate as parameter, which the proofs avoid as said above.

## 6. What would come next

1. `CronService`: the locked store, the timer, manual runs, removal during a run,
   catch-up after a restart. Two jobs.
2. `FollowupQueue` over an instance of `ReplyRuns` in place of its own reply
   operation, and lane suspension over one lane of `CommandLanes`.
3. `ExecApprovals`, then `InboundDebounce` with the keyed queue, then the registries
   of nodes, tasks and subagents as far as they stay small.
4. Proofs: what remains of `Accounted` with drop "old" (a message is lost only when
   it was dropped, or came next to one that was, during a turn), and invariants of
   the modules above as they come.

