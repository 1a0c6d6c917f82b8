---------------------------- MODULE CommandLanes ----------------------------
(***************************************************************************)
(* The in-process command queue of the gateway: src/process/               *)
(* command-queue.ts.  Work is submitted to named lanes; a lane runs at     *)
(* most maxConcurrent entries at a time and keeps the others in order.     *)
(*                                                                         *)
(* The code is single-threaded JavaScript: an exported function, a timer   *)
(* callback or the continuation of a settled task runs to its end before   *)
(* anything else does.  Each such turn is one action here, and it includes *)
(* the pump() and notifyActiveTaskWaiters() the turn ends with.            *)
(*                                                                         *)
(* An entry stands for one QueueEntry.  The code gives an entry a fresh    *)
(* number (nextTaskId) when it leaves the queue and never reuses one, so   *)
(* the entry itself plays the part of the taskId.  The `draining` flag of  *)
(* a lane is true only while pump() is on the stack, hence false between   *)
(* actions; it has no variable.                                            *)
(***************************************************************************)
EXTENDS Naturals, Sequences, FiniteSets

CONSTANTS
  Lanes,          \* lane names, after normalizeLane
  ProbeLanes,     \* "auth-probe:" and "session:probe-" lanes: never fully closed
  Entries,        \* entries a caller may submit, each at most once
  LaneOf,         \* the lane an entry is submitted to
  TimedEntries,   \* entries submitted with a taskTimeoutMs
  Waiters,        \* calls of waitForActiveTasks
  TimedWaiters,   \* those that pass a timeoutMs
  Widths,         \* concurrency values callers pass to setCommandLaneConcurrency
  MaxGeneration   \* bound on lane resets

ASSUME LanesAssumption ==
  /\ ProbeLanes \subseteq Lanes
  /\ LaneOf \in [Entries -> Lanes]
  /\ TimedEntries \subseteq Entries
  /\ TimedWaiters \subseteq Waiters
  /\ Widths \subseteq Nat
  /\ MaxGeneration \in Nat
  /\ IsFiniteSet(Entries)

VARIABLES
  queue,            \* LaneState.queue: entries waiting, first in first out
  active,           \* LaneState.activeTaskIds
  maxConcurrent,    \* LaneState.maxConcurrent
  generation,       \* LaneState.generation
  gatewayDraining,  \* new submissions are refused
  promise,          \* what the submitter of an entry sees
  body,             \* the entry's task function itself
  startGen,         \* taskGeneration captured when the entry was started
  waiter,           \* state of each waitForActiveTasks call
  waitSet           \* ActiveTaskWaiter.activeTaskIds, captured at the call

laneVars   == <<queue, active, maxConcurrent, generation, gatewayDraining>>
entryVars  == <<promise, body, startGen>>
waiterVars == <<waiter, waitSet>>
vars       == <<laneVars, entryVars, waiterVars>>

-----------------------------------------------------------------------------
(* A caller's promise is "settled" when the task function returned or threw *)
(* (both take the same path through the queue), "timedOut" when the lane    *)
(* timeout rejected it, "cleared" when the lane was cleared, "refused" when *)
(* the gateway was draining.                                                *)
PromiseState == {"none", "pending", "settled", "timedOut", "cleared", "refused"}
BodyState    == {"idle", "running", "done"}
WaiterState  == {"idle", "waiting", "drained", "expired"}

TypeOK ==
  /\ queue \in [Lanes -> Seq(Entries)]
  /\ active \in [Lanes -> SUBSET Entries]
  /\ maxConcurrent \in [Lanes -> Nat]
  /\ generation \in [Lanes -> Nat]
  /\ gatewayDraining \in BOOLEAN
  /\ promise \in [Entries -> PromiseState]
  /\ body \in [Entries -> BodyState]
  /\ startGen \in [Entries -> Nat]
  /\ waiter \in [Waiters -> WaiterState]
  /\ waitSet \in [Waiters -> SUBSET Entries]

Init ==
  /\ queue = [l \in Lanes |-> <<>>]
  /\ active = [l \in Lanes |-> {}]
  /\ maxConcurrent = [l \in Lanes |-> 1]
  /\ generation = [l \in Lanes |-> 0]
  /\ gatewayDraining = FALSE
  /\ promise = [e \in Entries |-> "none"]
  /\ body = [e \in Entries |-> "idle"]
  /\ startGen = [e \in Entries |-> 0]
  /\ waiter = [w \in Waiters |-> "idle"]
  /\ waitSet = [w \in Waiters |-> {}]

-----------------------------------------------------------------------------
(* Helpers *)

Taken(q, n) == {q[i] : i \in 1..n}

AllActive(act) == UNION {act[l] : l \in Lanes}

\* Deviation: the loop compares with <=.
PumpContinuesOnceMore(q, act, width, k) ==
  /\ Cardinality(act \cup Taken(q, k)) <= width
  /\ k < Len(q)

\* The loop condition of pump() after it has started the first k entries of q.
PumpContinues(q, act, width, k) ==
  /\ Cardinality(act \cup Taken(q, k)) < width
  /\ k < Len(q)

\* pump() stops after exactly n entries.
PumpEndsAt(q, act, width, n) ==
  /\ n <= Len(q)
  /\ ~ PumpContinues(q, act, width, n)
  /\ \A k \in 0..(n - 1) : PumpContinues(q, act, width, k)

\* drainLane / pump on the lanes in `pumped`, from the queues q, active sets
\* act, widths max, generations gen and task functions bod of this turn.
Pump(pumped, q, act, max, gen, bod) ==
  \E m \in [pumped -> 0..Cardinality(Entries)] :
    LET n       == [l \in Lanes |-> IF l \in pumped THEN m[l] ELSE 0]
        started == UNION {Taken(q[l], n[l]) : l \in pumped}
    IN
    /\ \A l \in pumped : PumpEndsAt(q[l], act[l], max[l], n[l])
    /\ queue' = [l \in Lanes |-> SubSeq(q[l], n[l] + 1, Len(q[l]))]
    /\ active' = [l \in Lanes |-> act[l] \cup Taken(q[l], n[l])]
    /\ body' = [e \in Entries |-> IF e \in started THEN "running" ELSE bod[e]]
    /\ startGen' = [e \in Entries |-> IF e \in started THEN gen[LaneOf[e]]
                                                       ELSE startGen[e]]

\* notifyActiveTaskWaiters: every stored waiter none of whose tasks is in an
\* active set resolves with { drained: true }.
NotifyWaiters(states, sets, act) ==
  waiter' = [w \in Waiters |->
               IF states[w] = "waiting" /\ sets[w] \cap AllActive(act) = {}
               THEN "drained" ELSE states[w]]

\* completeTask succeeds only for a task of the lane's current generation.
IsCurrent(e) == startGen[e] = generation[LaneOf[e]]

\* The continuation of runQueueEntryTask: the lane forgets the task, tells the
\* waiters and pumps - or, for a task started before a reset, does nothing.
Complete(e, bod) ==
  LET l   == LaneOf[e]
      act == [active EXCEPT ![l] = @ \ {e}]
  IN IF IsCurrent(e)
     THEN /\ Pump({l}, queue, act, maxConcurrent, generation, bod)
          /\ NotifyWaiters(waiter, waitSet, act)
     ELSE /\ body' = bod
          /\ UNCHANGED <<queue, active, startGen, waiter>>

-----------------------------------------------------------------------------
(* Operations of the callers *)

\* enqueueCommandInLane while the gateway drains: GatewayDrainingError.
Refuse(e) ==
  /\ promise[e] = "none"
  /\ gatewayDraining
  /\ promise' = [promise EXCEPT ![e] = "refused"]
  /\ UNCHANGED <<laneVars, body, startGen, waiterVars>>

\* Deviation: a submission goes to the front of its lane (unshift).
AcceptInFront(e) ==
  /\ promise[e] = "none"
  /\ ~ gatewayDraining
  /\ promise' = [promise EXCEPT ![e] = "pending"]
  /\ Pump({LaneOf[e]}, [queue EXCEPT ![LaneOf[e]] = <<e>> \o @],
          active, maxConcurrent, generation, body)
  /\ UNCHANGED <<maxConcurrent, generation, gatewayDraining, waiterVars>>

\* enqueueCommandInLane: push, then drainLane.
Accept(e) ==
  /\ promise[e] = "none"
  /\ ~ gatewayDraining
  /\ promise' = [promise EXCEPT ![e] = "pending"]
  /\ Pump({LaneOf[e]}, [queue EXCEPT ![LaneOf[e]] = Append(@, e)],
          active, maxConcurrent, generation, body)
  /\ UNCHANGED <<maxConcurrent, generation, gatewayDraining, waiterVars>>

Enqueue(e) == Refuse(e) \/ Accept(e)

\* Deviations: the width is one too small; a raised width is not used at once.
SetConcurrencyLess(l, n) ==
  /\ maxConcurrent' = [maxConcurrent EXCEPT ![l] = n - 1]
  /\ UNCHANGED <<queue, active, generation, gatewayDraining, entryVars, waiterVars>>

SetConcurrencyOnly(l, n) ==
  /\ maxConcurrent' = [maxConcurrent EXCEPT ![l] = n]
  /\ UNCHANGED <<queue, active, generation, gatewayDraining, entryVars, waiterVars>>

\* setCommandLaneConcurrency: a raised width is used at once, a lowered one
\* lets the running tasks finish.
SetConcurrency(l, n) ==
  LET width == IF l \in ProbeLanes /\ n = 0 THEN 1 ELSE n IN
  /\ maxConcurrent' = [maxConcurrent EXCEPT ![l] = width]
  /\ IF width > 0
     THEN Pump({l}, queue, active, maxConcurrent', generation, body)
     ELSE UNCHANGED <<queue, active, body, startGen>>
  /\ UNCHANGED <<generation, gatewayDraining, promise, waiterVars>>

\* Deviation: the waiting entries are dropped without an answer.
ClearLaneSilently(l) ==
  /\ queue[l] # <<>>
  /\ queue' = [queue EXCEPT ![l] = <<>>]
  /\ UNCHANGED <<active, maxConcurrent, generation, gatewayDraining,
                 entryVars, waiterVars>>

\* clearCommandLane: every waiting entry is rejected, running ones go on.
ClearLane(l) ==
  /\ queue[l] # <<>>
  /\ queue' = [queue EXCEPT ![l] = <<>>]
  /\ promise' = [e \in Entries |-> IF e \in Taken(queue[l], Len(queue[l]))
                                   THEN "cleared" ELSE promise[e]]
  /\ UNCHANGED <<active, maxConcurrent, generation, gatewayDraining,
                 body, startGen, waiterVars>>

\* Deviations: the generation is not bumped; the waiters are not notified.
ResetSameGeneration(ls) ==
  LET act == [l \in Lanes |-> IF l \in ls THEN {} ELSE active[l]]
  IN /\ Pump({l \in ls : queue[l] # <<>>}, queue, act, maxConcurrent, generation, body)
     /\ NotifyWaiters(waiter, waitSet, active')
     /\ UNCHANGED <<maxConcurrent, generation, promise, waitSet>>

ResetSilently(ls) ==
  LET gen == [l \in Lanes |-> IF l \in ls THEN generation[l] + 1 ELSE generation[l]]
      act == [l \in Lanes |-> IF l \in ls THEN {} ELSE active[l]]
  IN /\ \A l \in ls : generation[l] < MaxGeneration
     /\ generation' = gen
     /\ Pump({l \in ls : queue[l] # <<>>}, queue, act, maxConcurrent, gen, body)
     /\ UNCHANGED <<maxConcurrent, promise, waiter, waitSet>>

\* The shared body of resetCommandLane and resetAllLanes.
ResetLanes(ls) ==
  LET gen == [l \in Lanes |-> IF l \in ls THEN generation[l] + 1 ELSE generation[l]]
      act == [l \in Lanes |-> IF l \in ls THEN {} ELSE active[l]]
  IN /\ \A l \in ls : generation[l] < MaxGeneration
     /\ generation' = gen
     /\ Pump({l \in ls : queue[l] # <<>>}, queue, act, maxConcurrent, gen, body)
     /\ NotifyWaiters(waiter, waitSet, active')
     /\ UNCHANGED <<maxConcurrent, promise, waitSet>>

\* resetCommandLane: recovery of one stuck lane.
ResetLane(l) == ResetLanes({l}) /\ UNCHANGED gatewayDraining

\* resetAllLanes: after an in-process restart.
ResetAll == ResetLanes(Lanes) /\ gatewayDraining' = FALSE

\* markGatewayDraining.
MarkDraining ==
  /\ ~ gatewayDraining
  /\ gatewayDraining' = TRUE
  /\ UNCHANGED <<queue, active, maxConcurrent, generation, entryVars, waiterVars>>

\* waitForActiveTasks.  With nothing active it resolves at once; a spent
\* budget (timeoutMs <= 0) gives up at once; otherwise the waiter is stored and
\* the waiters are notified.
WaitForActive(w) ==
  /\ waiter[w] = "idle"
  /\ waitSet' = [waitSet EXCEPT ![w] = AllActive(active)]
  /\ \/ /\ AllActive(active) = {}
        /\ waiter' = [waiter EXCEPT ![w] = "drained"]
     \/ /\ AllActive(active) # {}
        /\ w \in TimedWaiters
        /\ waiter' = [waiter EXCEPT ![w] = "expired"]
     \/ /\ AllActive(active) # {}
        /\ NotifyWaiters([waiter EXCEPT ![w] = "waiting"], waitSet', active)
  /\ UNCHANGED <<laneVars, entryVars>>

-----------------------------------------------------------------------------
(* Steps of the running tasks and of the timers *)

\* The task function of e returns or throws before any lane timeout.
Finish(e) ==
  /\ body[e] = "running"
  /\ promise[e] = "pending"
  /\ promise' = [promise EXCEPT ![e] = "settled"]
  /\ Complete(e, [body EXCEPT ![e] = "done"])
  /\ UNCHANGED <<maxConcurrent, generation, gatewayDraining, waitSet>>

\* Deviation: the timeout answers the caller but keeps the slot.
TimeoutKeepsSlot(e) ==
  /\ e \in TimedEntries
  /\ body[e] = "running"
  /\ promise[e] = "pending"
  /\ promise' = [promise EXCEPT ![e] = "timedOut"]
  /\ UNCHANGED <<laneVars, body, startGen, waiterVars>>

\* The lane timeout of e fires: the caller is rejected and the slot released
\* while the task function is still running.  armTimeout re-arms while the
\* task reports progress, so the model lets it fire at any later moment.
TimeoutFires(e) ==
  /\ e \in TimedEntries
  /\ body[e] = "running"
  /\ promise[e] = "pending"
  /\ promise' = [promise EXCEPT ![e] = "timedOut"]
  /\ Complete(e, body)
  /\ UNCHANGED <<maxConcurrent, generation, gatewayDraining, waitSet>>

\* The task function of a timed-out entry ends; its result is dropped.
FinishLate(e) ==
  /\ body[e] = "running"
  /\ promise[e] = "timedOut"
  /\ body' = [body EXCEPT ![e] = "done"]
  /\ UNCHANGED <<laneVars, promise, startGen, waiterVars>>

\* The setTimeout of a waiter fires.
WaitExpires(w) ==
  /\ waiter[w] = "waiting"
  /\ w \in TimedWaiters
  /\ waiter' = [waiter EXCEPT ![w] = "expired"]
  /\ UNCHANGED <<laneVars, entryVars, waitSet>>

-----------------------------------------------------------------------------
Next ==
  \/ \E e \in Entries : Enqueue(e) \/ Finish(e) \/ TimeoutFires(e) \/ FinishLate(e)
  \/ \E l \in Lanes, n \in Widths : SetConcurrency(l, n)
  \/ \E l \in Lanes : ClearLane(l) \/ ResetLane(l)
  \/ ResetAll
  \/ MarkDraining
  \/ \E w \in Waiters : WaitForActive(w) \/ WaitExpires(w)

Spec == Init /\ [][Next]_vars

\* Node fires every armed timer; whether a task function ever returns, and
\* whether an operator calls anything, is not the queue's to promise.
TimerFairness ==
  /\ \A e \in Entries : WF_vars(TimeoutFires(e))
  /\ \A w \in Waiters : WF_vars(WaitExpires(w))

FairSpec == Spec /\ TimerFairness

-----------------------------------------------------------------------------
(* What the queue promises.                                             *)
Released(e) == promise[e] \in {"settled", "timedOut", "cleared"}

InQueue(e) == \E i \in DOMAIN queue[LaneOf[e]] : queue[LaneOf[e]][i] = e

\* completeTask, resetCommandLane: the active set of a lane is exactly the set
\* of its tasks that were started in the current generation and have neither
\* ended nor timed out.  A stale completion can therefore never free, and a
\* reset never leak, a slot of the new generation.
GenerationSound ==
  \A l \in Lanes :
    active[l] = {e \in Entries : /\ LaneOf[e] = l
                                 /\ body[e] = "running"
                                 /\ promise[e] = "pending"
                                 /\ startGen[e] = generation[l]}

\* drainLane is called wherever a slot or an entry may have appeared: between
\* turns no entry waits in a lane that has a free slot (a lost wakeup would
\* leave it waiting until somebody happens to enqueue again).
NoIdleSlot ==
  \A l \in Lanes : queue[l] # <<>> => Cardinality(active[l]) >= maxConcurrent[l]

\* resetAllLanes "queued entries are intentionally preserved": an accepted
\* entry whose promise is open is either waiting in its own lane, not yet
\* started, or its task function is running; and everything in a queue is such
\* an entry of that lane, once.  No reset, clear or pump loses or repeats one.
NothingLost ==
  /\ \A e \in Entries :
       /\ promise[e] = "pending" => (body[e] = "running") # InQueue(e)
       /\ InQueue(e) => promise[e] = "pending" /\ body[e] = "idle"
  /\ \A l \in Lanes : \A i, j \in DOMAIN queue[l] :
       /\ LaneOf[queue[l][i]] = l
       /\ queue[l][i] = queue[l][j] => i = j

\* waitForActiveTasks: a stored waiter still has one of its tasks in an active
\* set (else it was resolved: no missed notification, the restart would hang),
\* and a waiter told { drained: true } has none, now or later.
WaitersExact ==
  \A w \in Waiters :
    /\ waiter[w] = "waiting" => waitSet[w] \cap AllActive(active) # {}
    /\ waiter[w] = "drained" => waitSet[w] \cap AllActive(active) = {}

\* pump(): whoever starts work - a submission, a completion, a timeout, a
\* widening, a reset - never takes a lane above its width.  (A narrowed lane may
\* be above it, but then starts nothing.)
SlotsRespected ==
  [][\A l \in Lanes : active'[l] \subseteq active[l]
                       \/ Cardinality(active'[l]) <= maxConcurrent'[l]]_vars

\* x waits in a lane, and y is behind it there or has yet to be submitted to it.
Ahead(x, y) ==
  /\ InQueue(x)
  /\ LaneOf[x] = LaneOf[y]
  /\ \/ promise[y] \in {"none", "refused"}
     \/ \E i, j \in DOMAIN queue[LaneOf[x]] :
          i < j /\ queue[LaneOf[x]][i] = x /\ queue[LaneOf[x]][j] = y

\* enqueueCommandInLane pushes at the tail and pump() shifts from the head:
\* through completions, timeouts, widenings and resets, nothing overtakes an
\* entry as long as it waits - neither in the queue nor by being started first.
NoOvertaking ==
  [][\A x, y \in Entries : Ahead(x, y) => Ahead(x, y)' \/ ~ InQueue(x)']_vars

\* CommandLaneTaskTimeoutError: "the lane is released so queued work is not
\* blocked forever".  If every entry of a lane carries a timeout and the lane is
\* not left closed, each accepted entry gets its answer, even when no task
\* function ever returns.
TimedLaneDrains ==
  \A l \in Lanes :
    (\A e \in Entries : LaneOf[e] = l => e \in TimedEntries) =>
      (<>[](maxConcurrent[l] > 0) =>
         \A e \in Entries :
           LaneOf[e] = l => (promise[e] = "pending" ~> Released(e)))
=============================================================================
