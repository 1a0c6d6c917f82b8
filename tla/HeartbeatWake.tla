---------------------------- MODULE HeartbeatWake ----------------------------
(***************************************************************************)
(* The wake queue of the heartbeat: requests are coalesced per target,     *)
(* held for a short time and handed in batches to the handler of the       *)
(* heartbeat runner; a busy target or a handler that throws is tried again *)
(* after a cooldown.  The gateway may restart in the process: a new runner *)
(* takes over the queue while the batch of an old one is still running.    *)
(*                                                                         *)
(* Source: src/src/infra/heartbeat-wake.ts, and what heartbeat-runner.ts   *)
(* does when it is started and stopped.                                    *)
(*                                                                         *)
(* An action is the code between two awaits, or the passing of one unit of *)
(* time.  A wake keeps its target and priority; its source, reason and     *)
(* heartbeat override are data.  A batch is run in any order.              *)
(***************************************************************************)
EXTENDS Integers

CONSTANTS
  Targets,      \* the wake targets (agent and session)
  Requests,     \* the calls of requestHeartbeat
  TargetOf, PriorityOf, DelayOf,   \* of a request: target, priority, coalesceMs
  DEFAULT_COALESCE, DEFAULT_RETRY, \* in units of time
  MaxHandlers,  \* runners started one after the other (a bound)
  MaxBatches,   \* batches that run side by side (a bound)
  MaxErrors     \* calls of the handler that throw (a bound)

Priorities == 0..3   \* RETRY, INTERVAL, DEFAULT, ACTION

ASSUME WakeConstants ==
  /\ TargetOf \in [Requests -> Targets]
  /\ PriorityOf \in [Requests -> Priorities]
  /\ DelayOf \in [Requests -> Nat]
  /\ DEFAULT_COALESCE \in Nat /\ DEFAULT_RETRY \in Nat
  /\ MaxHandlers \in Nat /\ MaxBatches \in Nat /\ MaxErrors \in Nat

VARIABLES
  pending,    \* pendingWakes: the priority of the wake of each target
  timer,      \* the armed timer: its kind, the time left, the delay it was given
  scheduled, running,
  handler,    \* the registered handler, 0 if none
  loops,      \* the batches being run, at most one slot per batch
  started,    \* the runners that were started
  stopped,    \* the ones that were stopped
  errors,
  asked,      \* the requests made; each is made once
  waiting,    \* history: requests made and not yet answered by a run
  overlaid    \* history: handlers registered while an older batch was running

vars == <<pending, timer, scheduled, running, handler, loops, started, stopped,
          errors, asked, waiting, overlaid>>

-----------------------------------------------------------------------------
NoWake == -1
NoTimer == [kind |-> "none", left |-> 0, delay |-> 0]

Handlers == 1..MaxHandlers
Slots == 1..MaxBatches

Free == [by |-> 0]
Busy == {l \in Slots : loops[l] # Free}

Queued(wakes) == {t \in Targets : wakes[t] # NoWake}

\* queuePendingWakeReason: one wake per target, replaced by one that is not of
\* lower priority.
Merge(wakes, t, priority) ==
  [wakes EXCEPT ![t] = IF priority >= @ THEN priority ELSE @]

Armed(delay, kind) == [kind |-> kind, left |-> delay, delay |-> delay]

\* Deviation: a new timer replaces a retry timer that is due later.
Preempted(T, delay, kind) ==
  IF T.kind # "none" /\ T.left <= delay THEN T ELSE Armed(delay, kind)

\* schedule: an armed retry timer is never replaced, a normal one only by one
\* that is due earlier.
Scheduled(T, delay, kind) ==
  IF T.kind = "retry" \/ (T.kind = "normal" /\ T.left <= delay) THEN T
  ELSE Armed(delay, kind)

TypeOK ==
  /\ pending \in [Targets -> Priorities \cup {NoWake}]
  /\ timer.kind \in {"none", "normal", "retry"}
  /\ timer.left \in 0..timer.delay
  /\ timer.kind # "none" => Queued(pending) # {}
  /\ scheduled \in BOOLEAN /\ running \in BOOLEAN
  /\ handler \in Handlers \cup {0} /\ handler \notin stopped
  /\ started \subseteq Handlers /\ stopped \subseteq started
  /\ errors \in 0..MaxErrors
  /\ waiting \subseteq asked /\ asked \subseteq Requests
  /\ overlaid \subseteq started
  /\ \A l \in Busy : /\ loops[l].by \in started
                     /\ loops[l].cur \in loops[l].rest
                     /\ loops[l].rest \subseteq Queued(loops[l].batch)

Init ==
  /\ pending = [t \in Targets |-> NoWake]
  /\ timer = NoTimer /\ scheduled = FALSE /\ running = FALSE
  /\ handler = 0 /\ loops = [l \in Slots |-> Free]
  /\ started = {} /\ stopped = {}
  /\ errors = 0 /\ asked = {} /\ waiting = {} /\ overlaid = {}

-----------------------------------------------------------------------------
\* requestHeartbeat.
Request(r) ==
  /\ r \notin asked
  /\ pending' = Merge(pending, TargetOf[r], PriorityOf[r])
  /\ timer' = Scheduled(timer, DelayOf[r], "normal")
  /\ asked' = asked \cup {r} /\ waiting' = waiting \cup {r}
  /\ UNCHANGED <<scheduled, running, handler, loops, started, stopped, overlaid, errors>>

Tick ==
  /\ timer.kind # "none" /\ timer.left > 0
  /\ timer' = [timer EXCEPT !.left = @ - 1]
  /\ UNCHANGED <<pending, scheduled, running, handler, loops, started, stopped,
                 waiting, overlaid, errors, asked>>

Due == timer.kind # "none" /\ timer.left = 0

\* The timer fires and nobody is registered: what is pending waits for the next
\* handler.
FireUnheard ==
  /\ Due /\ handler = 0
  /\ timer' = NoTimer /\ scheduled' = FALSE
  /\ UNCHANGED <<pending, running, handler, loops, started, stopped, waiting, overlaid, errors, asked>>

\* It fires during a batch: it is armed again with the delay it was given.
FireBusy ==
  /\ Due /\ handler # 0 /\ running
  /\ timer' = Armed(timer.delay, timer.kind) /\ scheduled' = TRUE
  /\ UNCHANGED <<pending, running, handler, loops, started, stopped, waiting, overlaid, errors, asked>>

\* Deviation: a batch is begun even when one is running.
FireUnguarded(l, t) ==
  /\ Due /\ handler # 0
  /\ loops[l] = Free /\ t \in Queued(pending)
  /\ loops' = [loops EXCEPT ![l] =
       [by |-> handler, batch |-> pending, rest |-> Queued(pending), cur |-> t,
        void |-> FALSE, delay |-> timer.delay, covers |-> waiting]]
  /\ pending' = [u \in Targets |-> NoWake]
  /\ timer' = NoTimer /\ scheduled' = FALSE /\ running' = TRUE
  /\ UNCHANGED <<handler, started, stopped, waiting, overlaid, errors, asked>>

\* It fires otherwise: the pending wakes become a batch of which t is run first
\* (a timer is never armed without one, see TypeOK).
Fire(l, t) ==
  /\ Due /\ handler # 0 /\ ~ running
  /\ loops[l] = Free /\ t \in Queued(pending)
  /\ loops' = [loops EXCEPT ![l] =
       [by |-> handler, batch |-> pending, rest |-> Queued(pending), cur |-> t,
        void |-> FALSE, delay |-> timer.delay, covers |-> waiting]]
  /\ pending' = [u \in Targets |-> NoWake]
  /\ timer' = NoTimer /\ scheduled' = FALSE /\ running' = TRUE
  /\ UNCHANGED <<handler, started, stopped, waiting, overlaid, errors, asked>>

\* The batch with its next wake; a runner that was stopped skips it.
Onward(b, rest, t) ==
  [by |-> b.by, batch |-> b.batch, rest |-> rest, cur |-> t,
   void |-> b.by \in stopped, delay |-> b.delay, covers |-> b.covers]

\* Deviation: the end of a batch does not clear the running flag.
ContinueRunning(l, rest, wakes, T) ==
  /\ pending' = wakes
  /\ IF rest # {}
     THEN /\ \E t \in rest :
               loops' = [loops EXCEPT ![l] = Onward(@, rest, t)]
          /\ timer' = T
     ELSE /\ loops' = [loops EXCEPT ![l] = Free]
          /\ timer' = Scheduled(T, loops[l].delay, "normal")
  /\ UNCHANGED <<scheduled, running, handler, started, stopped, asked, overlaid>>

\* The rest of the batch of l is `rest`: the handler is called with the next
\* wake, or the finally block runs.  wakes and T are pendingWakes and the timer
\* by then.
Continue(l, rest, wakes, T) ==
  /\ pending' = wakes
  /\ IF rest # {}
     THEN /\ \E t \in rest :
               loops' = [loops EXCEPT ![l] = Onward(@, rest, t)]
          /\ timer' = T
          /\ UNCHANGED running
     ELSE /\ loops' = [loops EXCEPT ![l] = Free]
          /\ running' = FALSE
          /\ timer' = IF Queued(wakes) # {} \/ scheduled
                      THEN Scheduled(T, loops[l].delay, "normal") ELSE T
  /\ UNCHANGED <<scheduled, handler, started, stopped, asked, overlaid>>

\* The handler is done with the wake: it ran, failed, or was skipped for good.
\* A runner that was stopped before the call skips every wake.
Ran(l) ==
  /\ l \in Busy
  /\ Continue(l, loops[l].rest \ {loops[l].cur}, pending, timer)
  /\ waiting' = waiting \ {r \in loops[l].covers : TargetOf[r] = loops[l].cur}
  /\ UNCHANGED errors

\* Deviation: a busy target is left to the next request.
SkippedForGood(l) ==
  /\ l \in Busy /\ ~ loops[l].void
  /\ Continue(l, loops[l].rest \ {loops[l].cur}, pending,
              Scheduled(timer, DEFAULT_RETRY, "retry"))
  /\ UNCHANGED <<waiting, errors, asked>>

\* The target is busy: its wake is queued again, for after the cooldown.
SkippedBusy(l) ==
  /\ l \in Busy /\ ~ loops[l].void
  /\ Continue(l, loops[l].rest \ {loops[l].cur},
              Merge(pending, loops[l].cur, loops[l].batch[loops[l].cur]),
              Scheduled(timer, DEFAULT_RETRY, "retry"))
  /\ UNCHANGED <<waiting, errors, asked>>

\* The handler throws: the whole batch is queued again.
Threw(l) ==
  /\ l \in Busy /\ ~ loops[l].void
  /\ errors < MaxErrors /\ errors' = errors + 1
  /\ Continue(l, {},
              [t \in Targets |-> IF loops[l].batch[t] = NoWake THEN pending[t]
                                 ELSE Merge(pending, t, loops[l].batch[t])[t]],
              Scheduled(timer, DEFAULT_RETRY, "retry"))
  /\ UNCHANGED waiting

\* Deviation: wakes that wait for a handler are left to the next request.
StartQuietly(h) ==
  /\ h \notin started /\ \A g \in Handlers : g < h => g \in started
  /\ handler' = h /\ started' = started \cup {h}
  /\ timer' = NoTimer /\ running' = FALSE /\ scheduled' = FALSE
  /\ overlaid' = IF Busy # {} THEN overlaid \cup {h} ELSE overlaid
  /\ UNCHANGED <<pending, loops, stopped, waiting, errors, asked>>

\* startHeartbeatRunner, setHeartbeatWakeHandler: a new life of the queue.
Start(h) ==
  /\ h \notin started /\ \A g \in Handlers : g < h => g \in started
  /\ handler' = h /\ started' = started \cup {h}
  /\ timer' = IF Queued(pending) # {} THEN Armed(DEFAULT_COALESCE, "normal") ELSE NoTimer
  /\ running' = FALSE /\ scheduled' = FALSE
  /\ overlaid' = IF Busy # {} THEN overlaid \cup {h} ELSE overlaid
  /\ UNCHANGED <<pending, loops, stopped, waiting, errors, asked>>

\* Deviation: the runner is stopped but its handler stays registered.
StopOnly(h) ==
  /\ h \in started \ stopped
  /\ stopped' = stopped \cup {h}
  /\ UNCHANGED <<pending, timer, scheduled, running, handler, loops, started, waiting,
                 overlaid, errors, asked>>

\* The cleanup of a runner; its disposer leaves a later registration alone.
Stop(h) ==
  /\ h \in started \ stopped
  /\ stopped' = stopped \cup {h}
  /\ handler' = IF handler = h THEN 0 ELSE handler
  /\ UNCHANGED <<pending, timer, scheduled, running, loops, started, waiting, overlaid, errors, asked>>

-----------------------------------------------------------------------------
Next ==
  \/ \E r \in Requests : Request(r)
  \/ Tick \/ FireUnheard \/ FireBusy
  \/ \E l \in Slots : \E t \in Targets : Fire(l, t)
  \/ \E l \in Slots : Ran(l) \/ SkippedBusy(l) \/ Threw(l)
  \/ \E h \in Handlers : Start(h) \/ Stop(h)

Spec == Init /\ [][Next]_vars

\* Time passes, timers fire, the handler returns, and a target that is tried
\* again and again is not busy each time (an agent turn has a timeout).
Fairness ==
  /\ WF_vars(Tick \/ FireUnheard
              \/ \E l \in Slots : \E t \in Targets : Fire(l, t))
  /\ \A l \in Slots : WF_vars(Ran(l) \/ SkippedBusy(l) \/ Threw(l))
  /\ \A t \in Targets : SF_vars(\E l \in Busy : loops[l].cur = t /\ Ran(l))

FairSpec == Spec /\ Fairness

-----------------------------------------------------------------------------
\* Coalescing never loses a wake: a request that no run has answered is held by
\* the queue or by a batch still to reach it, at no lower priority than its own,
\* through merging, busy targets, errors, overlapping batches and restarts.
WakeKept ==
  \A r \in waiting :
    LET t == TargetOf[r] IN
    \/ pending[t] >= PriorityOf[r]
    \/ \E l \in Busy : /\ t \in loops[l].rest /\ r \in loops[l].covers
                       /\ loops[l].batch[t] >= PriorityOf[r]

\* "running === true from an interrupted heartbeat blocks all future schedule()
\* attempts": while a handler is registered, pending wakes always have a timer
\* armed or a batch at work whose end arms one, whatever is left of earlier
\* handlers.
NoStall ==
  handler # 0 /\ Queued(pending) # {} => timer.kind # "none" \/ Busy # {}

\* The running flag keeps the batches of a handler apart; two of them run side
\* by side only when a batch of an older handler was still running when this
\* one was registered (its finally block clears the flag of the other).
BatchesApart ==
  \A k, l \in Busy :
    k # l /\ loops[k].by = loops[l].by => loops[k].by \in overlaid

\* "Keep retry cooldown as a hard minimum delay": once a retry timer is armed
\* nothing but a new handler makes it fire earlier.
CooldownKept ==
  [][timer.kind = "retry" /\ timer.left > 0 /\ started' = started
       => timer' = timer \/ timer' = [timer EXCEPT !.left = @ - 1]]_vars

\* A wake is answered in the end, or it waits because no runner is registered.
WakesAnswered ==
  []<>(waiting = {} \/ handler = 0)
=============================================================================
