---------------------------- MODULE EmbeddedRuns ----------------------------
(***************************************************************************)
(* Agent runs on top of the command lanes: src/agents/pi-embedded-runner/  *)
(* run.ts (runEmbeddedPiAgent), lanes.ts, the manual cron runs of          *)
(* src/cron/service/ops.ts (enqueueRun), the lane widths of                *)
(* src/gateway/server-lanes.ts, and the in-process restart of              *)
(* src/cli/gateway-cli/run-loop.ts.                                        *)
(*                                                                         *)
(* A run holds several lanes at once.  Its task function in the session    *)
(* lane submits a second entry to a global lane and waits for it; a manual *)
(* cron run wraps both in an entry of the cron lane.  The innermost task   *)
(* function is the agent turn itself.  Nested waiting on bounded lanes is  *)
(* where the system could deadlock, and where a slot released early (lane  *)
(* timeout, session recovery) lets two turns of one session overlap.       *)
(***************************************************************************)
EXTENDS Naturals, Sequences, FiniteSets

CONSTANTS
  Runs,          \* calls of runEmbeddedPiAgent
  Sessions,      \* session lanes ("session:<key>")
  SessionOf,     \* the session of a run
  ManualCron,    \* runs started by enqueueRun: they hold the cron lane first
  TimedRuns,     \* runs with a finite timeoutMs, hence a lane timeout
  GlobalWidths,  \* widths the configuration may give the main and cron lanes
  MaxGeneration  \* bound on lane resets

ASSUME RunsAssumption ==
  /\ IsFiniteSet(Runs)
  /\ MaxGeneration \in Nat
  /\ SessionOf \in [Runs -> Sessions]
  /\ ManualCron \subseteq Runs
  /\ TimedRuns \subseteq Runs
  /\ GlobalWidths \subseteq Nat \ {0}
  /\ {"main", "cron", "cron-nested"} \cap Sessions = {}

VARIABLES
  queue, active, maxConcurrent, generation, gatewayDraining,
  promise, body, startGen, waiter, waitSet,   \* the command lanes
  aborted                                     \* runs whose abortSignal fired

laneVars == <<queue, active, maxConcurrent, generation, gatewayDraining>>
allVars  == <<laneVars, promise, body, startGen, waiter, waitSet, aborted>>

-----------------------------------------------------------------------------
(* The lanes of a run, outermost first *)

\* Deviation: inner cron work stays on the cron lane.
GlobalLaneUnmapped(r) == IF r \in ManualCron THEN "cron" ELSE "main"

\* resolveCronAgentLane, resolveGlobalLane: "Cron jobs hold the cron lane slot;
\* inner operations need a dedicated lane to avoid deadlock".
GlobalLane(r) == IF r \in ManualCron THEN "cron-nested" ELSE "main"

Path(r) == IF r \in ManualCron THEN <<"cron", SessionOf[r], GlobalLane(r)>>
                               ELSE <<SessionOf[r], GlobalLane(r)>>

GlobalLanes == {"main", "cron", "cron-nested"}
AllLanes    == GlobalLanes \cup Sessions

\* Entry <<r, i>> is the i-th nested queue entry of run r.
RunEntries   == UNION {{<<r, i>> : i \in 1..Len(Path(r))} : r \in Runs}
EntryLane    == [e \in RunEntries |-> Path(e[1])[e[2]]]
Root(r)      == <<r, 1>>
Turn(r)      == <<r, Len(Path(r))>>
Child(e)     == <<e[1], e[2] + 1>>
IsTurn(e)    == e[2] = Len(Path(e[1]))
TimedTurns   == {Turn(r) : r \in TimedRuns}
RestartWait  == 1

Q == INSTANCE CommandLanes WITH
       Lanes <- AllLanes, ProbeLanes <- {}, Entries <- RunEntries,
       LaneOf <- EntryLane, TimedEntries <- TimedTurns,
       Waiters <- {RestartWait}, TimedWaiters <- {RestartWait},
       Widths <- GlobalWidths

Init == Q!Init /\ aborted = {}

Answered(e) == promise[e] \in {"settled", "timedOut", "cleared", "refused"}

\* Session entries whose task function pump() has just called: it submits the
\* inner entry before it returns, so nothing else happens first.  (A cron entry
\* goes deeper after some awaits.)
Starting == {e \in RunEntries : /\ EntryLane[e] \in Sessions
                                /\ body[e] = "running"
                                /\ promise[Child(e)] = "none"
                                /\ e[1] \notin aborted}

\* Nothing of the kind: the event loop may begin another turn.
Quiet == Starting = {}

-----------------------------------------------------------------------------
(* A run *)

\* runEmbeddedPiAgent / enqueueRun: the outermost entry.
Submit(r) == Quiet /\ Q!Enqueue(Root(r)) /\ UNCHANGED aborted

\* The task function of an outer entry submits the next one, unless
\* throwIfAborted() throws.
Descend(e) ==
  /\ Quiet \/ e \in Starting
  /\ ~ IsTurn(e)
  /\ body[e] = "running"
  /\ e[1] \notin aborted
  /\ Q!Enqueue(Child(e))
  /\ UNCHANGED aborted

\* A task function returns or throws: the agent turn on its own, an outer one
\* when the inner promise is answered, or without going deeper when the run was
\* aborted before that or the cron job turned out not to be due.
MayConclude(e) ==
  \/ IsTurn(e)
  \/ ~ IsTurn(e) /\ Answered(Child(e))
  \/ /\ ~ IsTurn(e)
     /\ promise[Child(e)] = "none"
     /\ e[1] \in aborted \/ EntryLane[e] = "cron"

Conclude(e) ==
  /\ Quiet
  /\ MayConclude(e)
  /\ Q!Finish(e) \/ Q!FinishLate(e)
  /\ UNCHANGED aborted

\* The lane timeout; run.ts gives one to the entry of the global lane only.
TimeoutFires(e) == Quiet /\ Q!TimeoutFires(e) /\ UNCHANGED aborted

\* The caller's AbortController fires while the run is on its way.
Abort(r) ==
  /\ Quiet
  /\ r \notin aborted
  /\ promise[Root(r)] = "pending"
  /\ aborted' = aborted \cup {r}
  /\ UNCHANGED <<laneVars, promise, body, startGen, waiter, waitSet>>

-----------------------------------------------------------------------------
(* The gateway *)

\* get-reply-run.ts, queue mode "interrupt": the session's waiting runs are
\* cleared (its running turn is told to abort, and may end as any turn may).
Interrupt(s) == Quiet /\ Q!ClearLane(s) /\ UNCHANGED aborted

\* diagnostic-stuck-session-recovery: the session lane is forced back to idle
\* when its turn could not be aborted and drained.
Recover(s) == Quiet /\ Q!ResetLane(s) /\ UNCHANGED aborted

\* Deviation: the configured width is applied to every lane.
ApplyConcurrencyEverywhere(main, cron) ==
  /\ Quiet
  /\ maxConcurrent' = [l \in AllLanes |-> IF l = "main" THEN main ELSE cron]
  /\ Q!Pump({l \in AllLanes : queue[l] # <<>>}, queue, active, maxConcurrent',
            generation, body)
  /\ UNCHANGED <<generation, gatewayDraining, promise, waiter, waitSet, aborted>>

\* applyGatewayLaneConcurrency: at start and on every config reload.
ApplyConcurrency(main, cron) ==
  /\ Quiet
  /\ maxConcurrent' = [l \in AllLanes |-> IF l = "main" THEN main
                                          ELSE IF l \in GlobalLanes THEN cron
                                          ELSE maxConcurrent[l]]
  /\ Q!Pump({l \in GlobalLanes : queue[l] # <<>>}, queue, active, maxConcurrent', generation, body)
  /\ UNCHANGED <<generation, gatewayDraining, promise, waiter, waitSet, aborted>>

\* run-loop.ts: markGatewayDraining, then wait for what is active, then close
\* the server and resetAllLanes.  Work running then stays in the process.
BeginDrain ==
  /\ Quiet
  /\ waiter[RestartWait] = "idle"
  /\ Q!MarkDraining
  /\ UNCHANGED aborted

AwaitDrain ==
  /\ Quiet
  /\ gatewayDraining
  /\ Q!WaitForActive(RestartWait)
  /\ UNCHANGED aborted

DrainExpires == Quiet /\ Q!WaitExpires(RestartWait) /\ UNCHANGED aborted

Restart ==
  /\ Quiet
  /\ gatewayDraining
  /\ waiter[RestartWait] \in {"drained", "expired"}
  /\ Q!ResetAll
  /\ UNCHANGED aborted

-----------------------------------------------------------------------------
RunStep ==
  \/ \E r \in Runs : Submit(r) \/ Abort(r)
  \/ \E e \in RunEntries : Descend(e) \/ Conclude(e) \/ TimeoutFires(e)

GatewayStep ==
  \/ \E s \in Sessions : Interrupt(s) \/ Recover(s)
  \/ \E main, cron \in GlobalWidths : ApplyConcurrency(main, cron)
  \/ BeginDrain \/ AwaitDrain \/ DrainExpires \/ Restart

Next == RunStep \/ GatewayStep

Spec == Init /\ [][Next]_allVars

\* Microtasks run and timers fire: an outer task function goes deeper and
\* returns, a turn that neither ends nor makes progress is timed out.  No turn
\* is assumed to end by itself.
RunFairness ==
  \A e \in RunEntries :
    /\ WF_allVars(Descend(e))
    /\ WF_allVars(~ IsTurn(e) /\ Conclude(e))
    /\ WF_allVars(TimeoutFires(e))

FairSpec == Spec /\ RunFairness

-----------------------------------------------------------------------------
\* A slot of entry e was released while its task function went on.
LetGo(e) == promise[e] = "timedOut" \/ startGen[e] < generation[EntryLane[e]]

\* run.ts "enqueueSession(() => enqueueGlobal(...))": two turns of one session
\* run side by side only if a lane of one of them was released by its timeout
\* or by a reset; no order of submissions, aborts, clears, widenings and
\* restarts does it otherwise.
SessionSerial ==
  \A r1, r2 \in Runs :
    /\ r1 # r2
    /\ SessionOf[r1] = SessionOf[r2]
    /\ body[Turn(r1)] = "running"
    /\ body[Turn(r2)] = "running"
    => \E r \in {r1, r2} : \E i \in 1..Len(Path(r)) : LetGo(<<r, i>>)

\* The session lanes, seen from outside: the entry of a run in its session lane
\* and where it stands.
SessionEntry(r) == IF r \in ManualCron THEN <<r, 2>> ELSE <<r, 1>>

S == INSTANCE SessionRuns WITH
       waiting <- [s \in Sessions |-> [i \in 1..Len(queue[s]) |-> queue[s][i][1]]],
       serving <- [s \in Sessions |-> {e[1] : e \in active[s]}],
       outcome <- [r \in Runs |->
                     CASE promise[SessionEntry(r)] = "none" -> "none"
                       [] promise[SessionEntry(r)] = "pending" -> "open"
                       [] OTHER -> "answered"]

\* enqueueSession: whatever the global lanes, timeouts, aborts, reloads and
\* restarts do, a session serves its runs one at a time, in order, and answers
\* each once; it changes hands early only by a recovery or a restart.
ServesSessions == S!Spec

\* resolveGlobalLane "to avoid deadlock": the nested waits can always be
\* resolved - every accepted run is answered, even if turns hang, as long as
\* hanging turns have a lane timeout.
RunsAnswered ==
  (TimedRuns = Runs) =>
    \A r \in Runs : promise[Root(r)] = "pending" ~> Answered(Root(r))

=============================================================================
