----------------------------- MODULE ReplyRuns -----------------------------
(***************************************************************************)
(* The two registries that say which turn of a chat session is in          *)
(* progress: the reply-run registry (reply-run-registry.ts), which holds   *)
(* the reply operation of a session, and the registry of embedded runs     *)
(* (pi-embedded-runner/runs.ts), which holds the handle of the attempt     *)
(* that talks to the model.  Stop commands, interrupting messages, the     *)
(* restart of the gateway and the recovery of stuck sessions find the turn *)
(* through them, abort it and wait for its end.                            *)
(*                                                                         *)
(* One session.  Session ids are unique to their session, so two sessions  *)
(* meet in neither registry and each map keyed by the session is one       *)
(* variable here; the ids are numbered in the order the session's store    *)
(* gives them out.  The session lane is the mutex that CommandLanes and    *)
(* EmbeddedRuns describe.                                                  *)
(***************************************************************************)
EXTENDS Naturals, Sequences

CONSTANTS Turns,          \* messages that each ask for a turn of the session
          None,
          MaxSids,        \* bound: session ids that compactions give out
          FollowUps,      \* those the drain of the follow-up queue starts
          MaxAttempts,    \* bound: attempts of all turns
          MaxRecoveries   \* bound: recoveries of the session

ASSUME ReplyRunsAssumption ==
  /\ None \notin Turns
  /\ FollowUps \subseteq Turns
  /\ {MaxSids, MaxAttempts} \subseteq Nat \ {0}
  /\ MaxRecoveries \in Nat

VARIABLES
  active,      \* activeRunsByKey: the turn whose operation is registered
  index,       \* activeKeysBySessionId: ids that lead to the session
  embedded,    \* ACTIVE_EMBEDDED_RUNS: the attempt whose handle an id leads to
  embeddedSid, \* ACTIVE_EMBEDDED_RUN_SESSION_IDS_BY_KEY
  lane,        \* the attempt that holds the session lane
  stored,      \* the session's id in the session store
  turn,        \* each turn: its position and its operation
  attempt,     \* each attempt: its position, its turn and its session id
  recovery     \* the recovery of the session, one at a time; "of", the turn it
               \* aborts, is for ForceClearsItsRun only

maps     == <<active, index>>
runs     == <<embedded, embeddedSid>>
vars     == <<maps, runs, lane, stored, turn, attempt, recovery>>

Sids      == 1..MaxSids
Attempts  == 1..MaxAttempts
NoAttempt == 0

\* The phases a turn sets, in order; preflight_compacting and memory_flushing
\* are one, "memory".
Steps == <<"queued", "memory", "running">>

\* A turn before its message arrives: it awaits no attempt, and its operation
\* has no backend (attachedBackendByOperation, kept for follow-up turns: an
\* abort of any other reaches its attempts by their signal).
Unborn == [at |-> "idle", wait |-> [on |-> "none", sid |-> 1], step |-> 1,
           result |-> FALSE, cleared |-> FALSE, signal |-> FALSE, sid |-> 1,
           runSid |-> 1, awaits |-> NoAttempt, backend |-> NoAttempt]

\* What is awaited: the end of the registered operation, of the run an id
\* leads to, or nothing.
NoWait  == [on |-> "none", sid |-> 1]
OnReply == [on |-> "reply", sid |-> 1]
OnRun(s) == [on |-> "run", sid |-> s]

Init ==
  /\ active = None
  /\ index = {}
  /\ embedded = [s \in Sids |-> NoAttempt]
  /\ embeddedSid = None
  /\ lane = NoAttempt
  /\ stored = 1
  /\ turn = [o \in Turns |-> Unborn]
  /\ attempt = [a \in Attempts |-> [pc |-> "unused", of |-> None, sid |-> 1]]
  /\ recovery = [waiting |-> FALSE, wait |-> NoWait, sid |-> 1, of |-> None,
                 count |-> 0]

--------------------------------------------------------------------------
(* Waiting, clearing and aborting                                          *)

\* The waiters of w are told that what they wait for has ended.
ToldTurns(t, w) ==
  [o \in Turns |-> IF t[o].at = "waiting" /\ t[o].wait = w
                     THEN [t[o] EXCEPT !.at = "checking", !.wait = NoWait]
                     ELSE t[o]]
ToldRecovery(r, w) ==
  IF r.waiting /\ r.wait = w THEN [r EXCEPT !.waiting = FALSE, !.wait = NoWait, !.sid = 1, !.of = None] ELSE r

\* The operation is out of the registry, and its session id of no more interest.
Off(t, o) == [t EXCEPT ![o] = [@ EXCEPT !.cleared = TRUE, !.sid = 1]]

\* Deviation: the operation clears the session's entries each time it ends.
ClearStateAgain(o, t, r) ==
  /\ active' = None
  /\ index' = index \ {turn[o].sid}
  /\ turn' = ToldTurns(Off(t, o), OnReply)
  /\ recovery' = ToldRecovery(r, OnReply)

\* Deviation: nobody is told.
ClearStateSilently(o, t, r) ==
  IF turn[o].cleared
    THEN turn' = t /\ recovery' = r /\ UNCHANGED maps
    ELSE /\ active' = None
         /\ index' = index \ {turn[o].sid}
         /\ turn' = Off(t, o)
         /\ recovery' = r

\* clearState: once per operation, the session's entries go and its waiters
\* are told.
ClearState(o, t, r) ==
  IF turn[o].cleared
    THEN turn' = t /\ recovery' = r /\ UNCHANGED maps
    ELSE /\ active' = None
         /\ index' = index \ {turn[o].sid}
         /\ turn' = ToldTurns(Off(t, o), OnReply)
         /\ recovery' = ToldRecovery(r, OnReply)

\* handle.abort / handle.cancel of some attempts: those that talk to the model
\* begin to unwind.
Cancelled(these) ==
  [a \in Attempts |->
     IF a \in these /\ attempt[a].pc = "running" THEN [attempt[a] EXCEPT !.pc = "cancelled"]
     ELSE attempt[a]]

\* The turn returns, or has returned, maybe leaving attempts behind: nothing but
\* its place is of interest any more.
Leaves(t, o, at) ==
  [t EXCEPT ![o] = [Unborn EXCEPT !.at = at, !.result = TRUE, !.cleared = TRUE]]

\* The operation has its result; the first one counts.
Resulting(t, o) == [t EXCEPT ![o].result = TRUE]

\* The abort signal its attempts listen to.
Signalled(t, o) == [t EXCEPT ![o].signal = TRUE]

Own(o) == {a \in Attempts : attempt[a].of = o}

\* The attempts an abort of the operation reaches: all that listen to its
\* signal; those of a follow-up turn do not, and only the attached one is told.
Reached(o) == IF o \in FollowUps THEN {turn[o].backend} ELSE Own(o)

\* abortByUser / abortForRestart: an operation that has not begun its work is
\* cleared at once, any other when its turn ends.
AbortOperation(o, t, r) ==
  LET early   == ~t[o].result /\ t[o].step = 1
      result  == Resulting(t, o)
      aborted == IF o \in FollowUps THEN result ELSE Signalled(result, o)
  IN  IF early THEN ClearState(o, aborted, r)
      ELSE turn' = aborted /\ recovery' = r /\ UNCHANGED maps

\* The operation in the registry, and some handles besides.
AbortActive(handles, t, r) ==
  IF active = None
    THEN attempt' = Cancelled(handles) /\ turn' = t /\ recovery' = r /\ UNCHANGED maps
    ELSE attempt' = Cancelled(handles \cup Reached(active)) /\ AbortOperation(active, t, r)

\* abortEmbeddedPiRun(s): the handle when the id leads to one, the operation
\* otherwise.
AbortRun(s, t, r) ==
  IF embedded[s] = NoAttempt /\ s \in index
    THEN AbortActive({}, t, r)
    ELSE /\ attempt' = Cancelled({embedded[s]})
         /\ turn' = t /\ recovery' = r /\ UNCHANGED maps

\* waitForEmbeddedPiRunEnd(s): what a waiter of id s waits for.
WaitFor(s) == IF embedded[s] # NoAttempt THEN OnRun(s) ELSE OnReply

\* isEmbeddedPiRunActive(s)
RunActive(s) == embedded[s] # NoAttempt \/ (s \in index /\ active # None)

\* resolveActiveEmbeddedRunSessionId, or the stored id.
ActiveSid ==
  IF active # None THEN turn[active].sid
  ELSE IF embeddedSid # None THEN embeddedSid ELSE stored

--------------------------------------------------------------------------
(* A message arrives for the session                                       *)

\* The turn has not begun: it waits, looks at the session or is ready, with the
\* session id it is going to use.
Placed(o, at, wait, sid) ==
  [turn EXCEPT ![o] = [@ EXCEPT !.at = at, !.wait = wait, !.runSid = sid]]

\* An idle session gives the turn way; a busy one is waited for, and
\* interrupted first when its queue mode says so.
Arrive(o) ==
  LET s    == ActiveSid
      here == Placed(o, "waiting", WaitFor(s), turn[o].runSid)
  IN  /\ turn[o].at = "idle" /\ o \notin FollowUps
      /\ \/ /\ RunActive(s)
            /\ \/ AbortRun(s, here, recovery)
               \/ turn' = here /\ UNCHANGED <<maps, attempt, recovery>>
         \/ /\ ~RunActive(s)
            /\ turn' = Placed(o, "ready", NoWait, stored)
            /\ UNCHANGED <<maps, attempt, recovery>>
      /\ UNCHANGED <<runs, lane, stored>>

\* A message queued behind an earlier turn: the drain of the follow-up queue
\* starts its turn without looking at the session.
FollowUp(o) ==
  /\ turn[o].at = "idle" /\ o \in FollowUps
  /\ turn' = Placed(o, "ready", NoWait, stored)
  /\ UNCHANGED <<maps, runs, lane, stored, attempt, recovery>>

\* Deviation: the timer leaves the waiter in the registry's set.
WaitExpiresRegistered(o) ==
  /\ turn[o].at = "waiting"
  /\ turn' = [turn EXCEPT ![o].at = "checking"]
  /\ UNCHANGED <<maps, runs, lane, stored, attempt, recovery>>

\* The timer of the wait: the waiter goes on without an answer.
WaitExpires(o) ==
  /\ turn[o].at = "waiting"
  /\ turn' = Placed(o, "checking", NoWait, turn[o].runSid)
  /\ UNCHANGED <<maps, runs, lane, stored, attempt, recovery>>

\* After the wait the session is looked at again: a run still there sends the
\* message away ("still shutting down").
Check(o) ==
  /\ turn[o].at = "checking"
  /\ turn' = IF RunActive(ActiveSid) THEN Leaves(turn, o, "over")
             ELSE Placed(o, "ready", NoWait, stored)
  /\ UNCHANGED <<maps, runs, lane, stored, attempt, recovery>>

\* createReplyOperation: a second operation of the session is refused.
Begin(o) ==
  /\ turn[o].at = "ready"
  /\ IF active # None
       THEN turn' = Leaves(turn, o, "over") /\ UNCHANGED maps
       ELSE /\ active' = o
            /\ index' = index \cup {turn[o].runSid}
            /\ turn' = [turn EXCEPT ![o] = [@ EXCEPT !.at = "going", !.sid = turn[o].runSid]]
  /\ UNCHANGED <<runs, lane, stored, attempt, recovery>>

--------------------------------------------------------------------------
(* The turn                                                                *)

\* The turn's own code runs while it awaits no attempt.
AtWork(o) == turn[o].at = "going" /\ turn[o].awaits = NoAttempt

\* setPhase: on to a later part of the turn.
Advance(o) ==
  /\ AtWork(o)
  /\ \E n \in (turn[o].step + 1)..Len(Steps) : turn' = [turn EXCEPT ![o].step = n]
  /\ UNCHANGED <<maps, runs, lane, stored, attempt, recovery>>

\* Deviation: the old session id keeps leading to the operation.
CompactKeepingOldId(o) ==
  LET next == stored + 1 IN
  /\ AtWork(o)
  /\ Steps[turn[o].step] = "memory"
  /\ stored < MaxSids
  /\ stored' = next
  /\ IF ~turn[o].result
       THEN /\ index' = index \cup {next}
            /\ turn' = [turn EXCEPT ![o] = [@ EXCEPT !.runSid = next, !.sid = next]]
       ELSE /\ turn' = [turn EXCEPT ![o].runSid = next]
            /\ UNCHANGED index
  /\ UNCHANGED <<active, runs, lane, attempt, recovery>>

\* A compaction, by itself or in the memory flush, moves the session to a new
\* id; updateSessionId moves the operation unless it has its result.
Compact(o) ==
  LET next == stored + 1 IN
  /\ AtWork(o)
  /\ Steps[turn[o].step] = "memory"
  /\ stored < MaxSids
  /\ stored' = next
  /\ IF ~turn[o].result
       THEN /\ index' = (index \ {turn[o].sid}) \cup {next}
            /\ turn' = [turn EXCEPT ![o] = [@ EXCEPT !.runSid = next, !.sid = next]]
       ELSE /\ turn' = [turn EXCEPT ![o].runSid = next]
            /\ UNCHANGED index
  /\ UNCHANGED <<active, runs, lane, attempt, recovery>>

\* The turn asks for an attempt in the session lane, also beside an attempt the
\* lane has given up: a failed memory flush is only logged, and the next model
\* is tried.  A free lane starts it at once.
Ask(o) ==
  LET free == lane = NoAttempt /\ \A b \in Attempts : attempt[b].pc # "queued"
  IN  /\ AtWork(o)
      /\ Steps[turn[o].step] \in {"memory", "running"}
      /\ ~turn[o].signal
      /\ \E a \in Attempts :
           /\ attempt[a].pc = "unused" /\ \A b \in Attempts : b < a => attempt[b].pc # "unused"
           /\ attempt' = [attempt EXCEPT ![a] = [pc  |-> IF free THEN "preparing" ELSE "queued",
                                                of  |-> o,
                                                sid |-> turn[o].runSid]]
           /\ turn' = [turn EXCEPT ![o].awaits = a]
           /\ lane' = IF free THEN a ELSE lane
      /\ UNCHANGED <<maps, runs, stored, recovery>>

\* The attempt has returned: its turn, if it still awaits it, goes on, and the
\* operation has lost the backend.
Returned(a) == [attempt EXCEPT ![a] = [pc |-> "ended", of |-> None, sid |-> 1]]
Resumed(a) ==
  [o \in Turns |->
     [turn[o] EXCEPT !.awaits  = IF @ = a THEN NoAttempt ELSE @,
                     !.backend = IF @ = a THEN NoAttempt ELSE @]]

\* The lane comes to an attempt that waited; throwIfAborted is behind it.
Enter(a) ==
  /\ attempt[a].pc = "queued"
  /\ lane = NoAttempt
  /\ \A b \in Attempts : b < a => attempt[b].pc # "queued"
  /\ IF turn[attempt[a].of].signal
       THEN attempt' = Returned(a) /\ turn' = Resumed(a) /\ UNCHANGED lane
       ELSE attempt' = [attempt EXCEPT ![a].pc = "preparing"] /\ lane' = a /\ UNCHANGED turn
  /\ UNCHANGED <<maps, runs, stored, recovery>>

\* Deviation: the handle is attached to whatever became of the operation.
AttachBlindly(a) ==
  /\ attempt[a].pc = "preparing"
  /\ attempt' = [attempt EXCEPT ![a].pc = "running"]
  /\ embedded' = [embedded EXCEPT ![attempt[a].sid] = a]
  /\ embeddedSid' = attempt[a].sid
  /\ UNCHANGED <<maps, lane, stored, turn, recovery>>

\* attachBackend, then setActiveEmbeddedRun: the handle of an operation that
\* was aborted or failed meanwhile is cancelled, and registered all the same.
Attach(a) ==
  LET o == attempt[a].of IN
  /\ attempt[a].pc = "preparing"
  /\ turn' = IF o \in FollowUps /\ ~turn[o].result THEN [turn EXCEPT ![o].backend = a] ELSE turn
  /\ attempt' = [attempt EXCEPT ![a].pc =
                   IF turn[o].result \/ turn[o].signal THEN "cancelled" ELSE "running"]
  /\ embedded' = [embedded EXCEPT ![attempt[a].sid] = a]
  /\ embeddedSid' = attempt[a].sid
  /\ UNCHANGED <<maps, lane, stored, recovery>>

\* Deviation: the registration under the attempt's id goes, whoever has it.
ClearEmbeddedOfAny(a, t) ==
  LET s == attempt[a].sid IN
  /\ embedded' = [embedded EXCEPT ![s] = NoAttempt]
  /\ embeddedSid' = IF embeddedSid = s THEN None ELSE embeddedSid
  /\ turn' = ToldTurns(t, OnRun(s))
  /\ recovery' = ToldRecovery(recovery, OnRun(s))

\* clearActiveEmbeddedRun: only the handle that is registered clears the id.
ClearEmbedded(a, t) ==
  LET s == attempt[a].sid IN
  IF embedded[s] = a
    THEN /\ embedded' = [embedded EXCEPT ![s] = NoAttempt]
         /\ embeddedSid' = IF embeddedSid = s THEN None ELSE embeddedSid
         /\ turn' = ToldTurns(t, OnRun(s))
         /\ recovery' = ToldRecovery(recovery, OnRun(s))
    ELSE turn' = t /\ UNCHANGED <<runs, recovery>>

\* The timer of the attempt.
AttemptTimesOut(a) ==
  /\ attempt[a].pc = "running"
  /\ attempt' = Cancelled({a})
  /\ UNCHANGED <<maps, runs, lane, stored, turn, recovery>>

\* onBeforeLifecycleTerminal: the run is logically over, its code is not.
BeforeTerminal(a) ==
  /\ attempt[a].pc \in {"running", "cancelled"}
  /\ attempt' = [attempt EXCEPT ![a].pc = "closing"]
  /\ ClearEmbedded(a, turn)
  /\ UNCHANGED <<maps, lane, stored>>

AtModel(a) == attempt[a].pc \in {"preparing", "running", "cancelled", "closing"}

\* The attempt's finally block, and the lane that its end frees.
EndAttempt(a) ==
  /\ AtModel(a)
  /\ attempt' = Returned(a)
  /\ ClearEmbedded(a, Resumed(a))
  /\ lane' = IF lane = a THEN NoAttempt ELSE lane
  /\ UNCHANGED <<maps, stored>>

\* An attempt its turn no longer awaits.
Awaited(a) == AtModel(a) /\ turn[attempt[a].of].awaits = a
Late(a)    == AtModel(a) /\ turn[attempt[a].of].awaits # a

\* Deviation: the timer is dropped with the slot when the lane is reset.
LaneTimesOutHeld(a) ==
  /\ Awaited(a) /\ lane = a
  /\ turn' = [turn EXCEPT ![attempt[a].of].awaits = NoAttempt]
  /\ lane' = NoAttempt
  /\ UNCHANGED <<maps, runs, stored, attempt, recovery>>

\* The lane gives an attempt up, whatever it is at: it took too long, to get
\* ready, to compact or to unwind.  The turn goes on and the attempt is left to
\* itself.
LaneTimesOut(a) ==
  /\ Awaited(a)
  /\ turn' = [turn EXCEPT ![attempt[a].of].awaits = NoAttempt]
  /\ lane' = IF lane = a THEN NoAttempt ELSE lane
  /\ UNCHANGED <<maps, runs, stored, attempt, recovery>>

\* fail: the operation is cleared, and the turn does nothing more but return.
Fail(o) ==
  /\ AtWork(o)
  /\ ClearState(o, Leaves(turn, o, "returning"), recovery)
  /\ UNCHANGED <<runs, lane, stored, attempt>>

\* complete, in the finally block of every turn.
Finish(o) ==
  /\ AtWork(o) \/ turn[o].at = "returning"
  /\ ClearState(o, Leaves(turn, o, "over"), recovery)
  /\ UNCHANGED <<runs, lane, stored, attempt>>

--------------------------------------------------------------------------
(* Stop, restart and recovery                                              *)

\* abortSessionRunTarget: the operation by the session's key, and the handles
\* that the active and the stored id lead to.
UserAbort ==
  /\ AbortActive({embedded[ActiveSid], embedded[stored]}, turn, recovery)
  /\ UNCHANGED <<runs, lane, stored>>

\* abortEmbeddedPiRun(all): every handle and every operation, for a restart.
AbortAll ==
  /\ AbortActive({embedded[s] : s \in Sids}, turn, recovery)
  /\ UNCHANGED <<runs, lane, stored>>

\* The abort signal of the message itself, which gives the operation no result.
UpstreamAbort(o) ==
  /\ turn[o].at = "going" /\ ~turn[o].signal
  /\ turn' = Signalled(turn, o)
  /\ attempt' = Cancelled(Own(o))
  /\ UNCHANGED <<maps, runs, lane, stored, recovery>>

\* recoverStuckDiagnosticSession: the run of the session is aborted and
\* waited for.
Recover ==
  LET s == IF embeddedSid # None THEN embeddedSid ELSE ActiveSid IN
  /\ ~recovery.waiting /\ recovery.count < MaxRecoveries
  /\ RunActive(s)
  /\ AbortRun(s, turn, [waiting |-> TRUE, wait |-> WaitFor(s), sid |-> s,
                        of |-> IF embedded[s] = NoAttempt THEN active ELSE attempt[embedded[s]].of,
                        count |-> recovery.count + 1])
  /\ UNCHANGED <<runs, lane, stored>>

\* forceClearEmbeddedPiRun, then resetCommandLane: the run did not end in
\* time, its registrations go and its lane with them.
RecoveryExpires ==
  LET s    == recovery.sid
      idle == [recovery EXCEPT !.waiting = FALSE, !.wait = NoWait, !.sid = 1, !.of = None]
      t    == ToldTurns(turn, OnRun(s))
  IN  /\ recovery.waiting
      /\ embedded' = [embedded EXCEPT ![s] = NoAttempt]
      /\ embeddedSid' = IF embedded[s] # NoAttempt /\ embeddedSid = s THEN None ELSE embeddedSid
      /\ lane' = NoAttempt
      /\ IF s \in index /\ active # None
           THEN ClearState(active, Resulting(t, active), idle)
           ELSE turn' = t /\ recovery' = idle /\ UNCHANGED maps
      /\ UNCHANGED <<stored, attempt>>

--------------------------------------------------------------------------

TurnStep(o) ==
  \/ Arrive(o) \/ FollowUp(o) \/ WaitExpires(o) \/ Check(o) \/ Begin(o)
  \/ Advance(o) \/ Compact(o) \/ Ask(o) \/ Fail(o) \/ Finish(o) \/ UpstreamAbort(o)

AttemptStep(a) ==
  \/ Enter(a) \/ Attach(a) \/ AttemptTimesOut(a) \/ BeforeTerminal(a)
  \/ EndAttempt(a) \/ LaneTimesOut(a)

Next ==
  \/ \E o \in Turns : TurnStep(o)
  \/ \E a \in Attempts : AttemptStep(a)
  \/ UserAbort \/ AbortAll \/ Recover \/ RecoveryExpires

Spec == Init /\ [][Next]_vars

\* Timers fire, a turn that awaits nothing runs on to its end, and the lane
\* starts what waits for it; that an attempt ever attaches, ends or unwinds is
\* not assumed.
TurnProceeds(o) == WaitExpires(o) \/ Check(o) \/ Begin(o) \/ Finish(o)
LaneProceeds(a) == Enter(a) \/ LaneTimesOut(a)

FairSpec ==
  /\ Spec
  /\ \A o \in Turns : WF_vars(TurnProceeds(o))
  /\ \A a \in Attempts : WF_vars(LaneProceeds(a))

--------------------------------------------------------------------------

TypeOK ==
  /\ active \in Turns \cup {None}
  /\ index \subseteq Sids
  /\ embedded \in [Sids -> Attempts \cup {NoAttempt}]
  /\ embeddedSid \in Sids \cup {None}
  /\ lane \in Attempts \cup {NoAttempt}
  /\ stored \in Sids
  /\ \A o \in Turns :
       /\ turn[o].at \in {"idle", "waiting", "checking", "ready", "going", "returning", "over"}
       /\ (turn[o].at = "waiting") = (turn[o].wait # NoWait)
       /\ {turn[o].awaits, turn[o].backend} \subseteq Attempts \cup {NoAttempt}
       /\ turn[o].awaits # NoAttempt =>
            turn[o].at = "going" /\ attempt[turn[o].awaits].of = o
  /\ \A a \in Attempts :
       /\ attempt[a].pc = "queued" \/ AtModel(a) \/ attempt[a].of = None
       /\ attempt[a].of # None => turn[attempt[a].of].at \in {"going", "returning", "over"}

Registered(o) == turn[o].at = "going" /\ ~turn[o].cleared

\* The registry holds exactly the operation that has begun and has not been
\* cleared: a turn that ends late, after its operation was failed or forced
\* off, leaves the operation of its successor alone.
RegistryExact == \A o \in Turns : (active = o) = Registered(o)

\* Of the session's ids exactly the one the operation runs under leads to it,
\* through compactions, aborts and forced clears, and the session's entry for
\* its run never leads nowhere.
IndexExact ==
  /\ index = IF active = None THEN {} ELSE {turn[active].sid}
  /\ embeddedSid # None => embedded[embeddedSid] # NoAttempt

\* Nobody waits for an end that has passed.
WaitersLive ==
  LET Live(w) == CASE w.on = "run" -> embedded[w.sid] # NoAttempt
                   [] w.on = "reply" -> active # None
                   [] OTHER -> TRUE
  IN  Live(recovery.wait) /\ \A o \in Turns : Live(turn[o].wait)

\* An attempt is let run only for the registered operation: a turn that was
\* stopped, failed or forced off while its attempt was being prepared, even
\* one whose operation was cleared while it was still queued, does not get to
\* talk to the model beside its successor.
AttachedIsRegistered ==
  [][\A a \in Attempts :
       attempt[a].pc = "preparing" /\ attempt'[a].pc = "running" => active = attempt[a].of]_vars

\* A registered run leaves the registry by its own end, or by the force of the
\* recovery that waited for its id in vain: the late end of an attempt whose
\* place another run has taken, be it of a later turn or of the same, does not
\* unregister that run.
OnlyItsOwnEnd ==
  [][\A s \in Sids :
       embedded[s] # NoAttempt /\ embedded'[s] = NoAttempt =>
         \/ attempt'[embedded[s]].pc \in {"ended", "closing"}
         \/ RecoveryExpires /\ recovery.sid = s]_vars

\* A turn always ends, an operation never keeps its session for ever, and no
\* message waits for ever behind one, even when a cancelled attempt never
\* unwinds.
TurnsEnd == \A o \in Turns : (turn[o].at # "idle") ~> (turn[o].at = "over")

\* A forced clear takes its registrations from the turn that was aborted and
\* did not drain: a turn that nobody told to stop does not lose its session
\* while an attempt of it talks to the model.
ForceClearsItsRun ==
  [][(RecoveryExpires /\ \E a \in Own(active) : attempt[a].pc = "running")
       => active' = active \/ recovery.of = active]_vars
=============================================================================
