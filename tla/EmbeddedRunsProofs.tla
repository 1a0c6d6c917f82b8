------------------------- MODULE EmbeddedRunsProofs -------------------------
(***************************************************************************)
(* Proofs about agent runs on nested lanes.  Nothing about the command     *)
(* queue is proved again: QP is the module of its proofs, for the lanes    *)
(* and entries of the runs (LanesOfRuns discharges its assumptions), and   *)
(* its lemmas are cited by name.  What is added is that session lanes have *)
(* width one and what holds between a session entry and its turn: RunIInv. *)
(*                                                                         *)
(* One lemma about the pump (PumpedTurn) says what a turn of the code does *)
(* to the session lanes - each that serves nobody takes up its next entry, *)
(* TakesUp.  A first lemma per action of the lanes (...Keeps) shows the    *)
(* invariant and from which queues and active sets the sessions take up; a *)
(* second (...Serves) reads that as an action of SessionRuns.              *)
(***************************************************************************)
EXTENDS EmbeddedRuns, FiniteSetTheorems, TLAPS

\* The proofs about the command queue, for the lanes of the runs.
QP == INSTANCE CommandLanesProofs WITH
        Lanes <- AllLanes, ProbeLanes <- {}, Entries <- RunEntries,
        LaneOf <- EntryLane, TimedEntries <- TimedTurns,
        Waiters <- {RestartWait}, TimedWaiters <- {RestartWait},
        Widths <- GlobalWidths

-----------------------------------------------------------------------------
(* The lanes and entries of a run *)

\* The lanes of a run: the cron lane first for a manual cron run, then the
\* session, then a global lane.
LEMMA PathShape ==
  ASSUME NEW r \in Runs
  PROVE  /\ SessionOf[r] \in Sessions
         /\ GlobalLane(r) \in {"main", "cron-nested"}
         /\ r \in ManualCron =>
              /\ Len(Path(r)) = 3
              /\ Path(r)[1] = "cron" /\ Path(r)[2] = SessionOf[r]
              /\ Path(r)[3] = GlobalLane(r)
         /\ r \notin ManualCron =>
              /\ Len(Path(r)) = 2
              /\ Path(r)[1] = SessionOf[r] /\ Path(r)[2] = GlobalLane(r)
BY RunsAssumption DEF Path, GlobalLane, RunsAssumption

\* An entry is a run and a place on its path.
LEMMA EntryShape ==
  ASSUME NEW e \in RunEntries
  PROVE  /\ e[1] \in Runs /\ e[2] \in 1..Len(Path(e[1]))
         /\ e = <<e[1], e[2]>>
         /\ EntryLane[e] = Path(e[1])[e[2]]
         /\ EntryLane[e] \in AllLanes
PROOF
<1>a. PICK r \in Runs : \E i \in 1..Len(Path(r)) : e = <<r, i>>
  BY DEF RunEntries
<1>1. PICK i \in 1..Len(Path(r)) : e = <<r, i>>
  BY <1>a
<1>2. EntryLane[e] = Path(e[1])[e[2]]
  BY DEF EntryLane
<1>3. Path(r)[i] \in AllLanes
  BY PathShape DEF AllLanes, GlobalLanes
<1> QED BY <1>1, <1>2, <1>3

\* Conversely, every place on a path is an entry, on the lane of that place.
LEMMA EntryIs ==
  ASSUME NEW r \in Runs, NEW i \in 1..Len(Path(r))
  PROVE  <<r, i>> \in RunEntries /\ EntryLane[<<r, i>>] = Path(r)[i]
<1>1. <<r, i>> \in RunEntries
  BY DEF RunEntries
<1> QED BY <1>1 DEF EntryLane

\* Where the named entries of a run are.
LEMMA RunShape ==
  ASSUME NEW r \in Runs
  PROVE  /\ Root(r) \in RunEntries /\ Turn(r) \in RunEntries
         /\ SessionEntry(r) \in RunEntries
         /\ EntryLane[SessionEntry(r)] = SessionOf[r]
         /\ EntryLane[Turn(r)] \in GlobalLanes
         /\ Turn(r) = Child(SessionEntry(r))
         /\ Turn(r) # Root(r) /\ Turn(r) # SessionEntry(r)
         /\ SessionEntry(r)[1] = r /\ Turn(r)[1] = r /\ Root(r)[1] = r
         /\ r \notin ManualCron => Root(r) = SessionEntry(r)
         /\ r \in ManualCron => EntryLane[Root(r)] = "cron"
PROOF
<1>1. CASE r \in ManualCron
  <2>1. /\ Len(Path(r)) = 3
        /\ Path(r)[1] = "cron" /\ Path(r)[2] = SessionOf[r]
        /\ Path(r)[3] \in {"main", "cron-nested"}
    BY <1>1, PathShape
  <2>2. /\ <<r, 1>> \in RunEntries /\ EntryLane[<<r, 1>>] = "cron"
        /\ <<r, 2>> \in RunEntries /\ EntryLane[<<r, 2>>] = SessionOf[r]
        /\ <<r, 3>> \in RunEntries /\ EntryLane[<<r, 3>>] \in {"main", "cron-nested"}
    BY <2>1, EntryIs
  <2> QED BY <1>1, <2>1, <2>2 DEF Root, Turn, SessionEntry, Child, GlobalLanes
<1>2. CASE r \notin ManualCron
  <2>1. /\ Len(Path(r)) = 2
        /\ Path(r)[1] = SessionOf[r]
        /\ Path(r)[2] \in {"main", "cron-nested"}
    BY <1>2, PathShape
  <2>2. /\ <<r, 1>> \in RunEntries /\ EntryLane[<<r, 1>>] = SessionOf[r]
        /\ <<r, 2>> \in RunEntries /\ EntryLane[<<r, 2>>] \in {"main", "cron-nested"}
    BY <2>1, EntryIs
  <2> QED BY <1>2, <2>1, <2>2 DEF Root, Turn, SessionEntry, Child, GlobalLanes
<1> QED BY <1>1, <1>2

\* What is in a session lane is the session entry of a run of that session.
LEMMA SessionLanes ==
  ASSUME NEW e \in RunEntries
  PROVE  /\ EntryLane[e] \in Sessions <=> e = SessionEntry(e[1])
         /\ EntryLane[e] \in Sessions => EntryLane[e] = SessionOf[e[1]]
         /\ EntryLane[e] \in Sessions => ~ IsTurn(e)
         /\ e \in TimedTurns => IsTurn(e) /\ EntryLane[e] \notin Sessions
PROOF
<1> DEFINE r == e[1]
<1>1. r \in Runs /\ e[2] \in 1..Len(Path(r)) /\ e = <<r, e[2]>> /\ EntryLane[e] = Path(r)[e[2]]
  BY EntryShape
<1>2. Sessions \cap {"main", "cron", "cron-nested"} = {}
  BY RunsAssumption DEF RunsAssumption
<1>5. e \in TimedTurns => e[2] = Len(Path(r))
  BY DEF TimedTurns, Turn
<1> HIDE DEF r
<1>3. CASE r \in ManualCron
  <2>1. /\ Len(Path(r)) = 3
        /\ Path(r)[1] = "cron" /\ Path(r)[2] = SessionOf[r] /\ SessionOf[r] \in Sessions
        /\ Path(r)[3] \in {"main", "cron-nested"}
    BY <1>1, <1>3, PathShape
  <2>2. e[2] \in {1, 2, 3}
    BY <1>1, <2>1
  <2>3. EntryLane[e] \in Sessions <=> e[2] = 2
    BY <1>1, <1>2, <2>1, <2>2
  <2>4. SessionEntry(r) = <<r, 2>>
    BY <1>3 DEF SessionEntry
  <2>5. IsTurn(e) <=> e[2] = 3
    BY <2>1 DEF IsTurn, r
  <2>6. e = SessionEntry(r) <=> e[2] = 2
    BY <1>1, <2>4
  <2>7. e \in TimedTurns => e[2] = 3
    BY <1>1, <1>5, <2>1
  <2> QED BY <1>1, <2>1, <2>3, <2>5, <2>6, <2>7 DEF r
<1>4. CASE r \notin ManualCron
  <2>1. /\ Len(Path(r)) = 2
        /\ Path(r)[1] = SessionOf[r] /\ SessionOf[r] \in Sessions
        /\ Path(r)[2] \in {"main", "cron-nested"}
    BY <1>1, <1>4, PathShape
  <2>2. e[2] \in {1, 2}
    BY <1>1, <2>1
  <2>3. EntryLane[e] \in Sessions <=> e[2] = 1
    BY <1>1, <1>2, <2>1, <2>2
  <2>4. SessionEntry(r) = <<r, 1>>
    BY <1>4 DEF SessionEntry
  <2>5. IsTurn(e) <=> e[2] = 2
    BY <2>1 DEF IsTurn, r
  <2>6. e = SessionEntry(r) <=> e[2] = 1
    BY <1>1, <2>4
  <2>7. e \in TimedTurns => e[2] = 2
    BY <1>1, <1>5, <2>1
  <2> QED BY <1>1, <2>1, <2>3, <2>5, <2>6, <2>7 DEF r
<1> QED BY <1>3, <1>4

\* An entry that is not the turn has a next one.
LEMMA ChildShape ==
  ASSUME NEW e \in RunEntries, ~ IsTurn(e)
  PROVE  Child(e) \in RunEntries /\ Child(e)[1] = e[1] /\ Child(e) # Root(e[1])
PROOF
<1>1. e[1] \in Runs /\ e[2] \in 1..Len(Path(e[1]))
  BY EntryShape
<1>2. Len(Path(e[1])) \in {2, 3}
  BY <1>1, PathShape
<1>3. e[2] + 1 \in 1..Len(Path(e[1])) /\ e[2] + 1 # 1
  BY <1>1, <1>2 DEF IsTurn
<1> QED BY <1>1, <1>3, EntryIs DEF Child, Root

\* The assumptions the command lanes make hold for the lanes of the runs.
LEMMA LanesOfRuns ==
  /\ {} \subseteq AllLanes
  /\ EntryLane \in [RunEntries -> AllLanes]
  /\ TimedTurns \subseteq RunEntries
  /\ {RestartWait} \subseteq {RestartWait}
  /\ GlobalWidths \subseteq Nat
  /\ MaxGeneration \in Nat
  /\ QP!IsFiniteSet(RunEntries)
PROOF
<1>1. RunEntries \subseteq Runs \X (1..3)
  <2> SUFFICES ASSUME NEW e \in RunEntries PROVE e \in Runs \X (1..3)
    OBVIOUS
  <2>1. e[1] \in Runs /\ e[2] \in 1..Len(Path(e[1])) /\ e = <<e[1], e[2]>>
    BY EntryShape
  <2>2. Len(Path(e[1])) \in {2, 3}
    BY <2>1, PathShape
  <2>3. \A n \in {2, 3} : \A i \in 1..n : i \in 1..3
    OBVIOUS
  <2> QED BY <2>1, <2>2, <2>3
<1>2. IsFiniteSet(RunEntries)
  <2>1. IsFiniteSet(Runs) /\ IsFiniteSet(1..3)
    <3>1. \A n \in Int : IsFiniteSet(1..n)
      BY FS_Interval, 1 \in Int, ZenonT(30)
    <3>2. IsFiniteSet(1..3)
      BY <3>1, 3 \in Int, Zenon
    <3> QED BY <3>2, RunsAssumption DEF RunsAssumption
  <2>2. IsFiniteSet(Runs \X (1..3))
    BY <2>1, FS_Product
  <2> QED BY <1>1, <2>2, FS_Subset
<1>3. QP!IsFiniteSet(RunEntries)
  BY <1>2 DEF QP!IsFiniteSet, IsFiniteSet
<1>4. EntryLane \in [RunEntries -> AllLanes]
  <2>1. \A e \in RunEntries : EntryLane[e] \in AllLanes
    BY EntryShape
  <2> QED BY <2>1 DEF EntryLane
<1>5. TimedTurns \subseteq RunEntries
  BY RunShape, RunsAssumption DEF TimedTurns, RunsAssumption
<1> QED BY <1>3, <1>4, <1>5, RunsAssumption DEF RunsAssumption

-----------------------------------------------------------------------------
(* The invariant *)

\* The promise of an entry and the task functions, for promises and bodies in
\* the middle of a turn: a task function runs until its entry is answered, or
\* timed out; only turns have a timeout; while a turn's promise is open, the
\* task function that waits for it holds on.
TurnsSound(prom, bod) ==
  /\ \A e \in RunEntries :
       /\ bod[e] = "running" => prom[e] \in {"pending", "timedOut"}
       /\ prom[e] = "timedOut" => e \in TimedTurns
  /\ \A r \in Runs : prom[Turn(r)] = "pending" => bod[SessionEntry(r)] = "running"

\* Session lanes have width one and run at most one entry.
OneEach(max, act) ==
  \A s \in Sessions : max[s] = 1 /\ QP!AtMostOne(act[s])

RunIInv ==
  /\ QP!IInv
  /\ OneEach(maxConcurrent, active)
  /\ TurnsSound(promise, body)

\* Every session that serves nobody takes up its next entry, from the queues q
\* and the active sets act.
TakesUp(q, act) == \A s \in Sessions : QP!TakesNext(q, act, s)

\* Session lanes are lanes, other than the global ones.
LEMMA SessionsAreLanes == \A s \in Sessions : s \in AllLanes /\ s \notin GlobalLanes
BY RunsAssumption DEF AllLanes, GlobalLanes, RunsAssumption

\* What the lemmas of the command lanes say of the lanes of the runs.
LEMMA RunsPumpOfOne ==
  ASSUME NEW pumped \in SUBSET AllLanes, NEW q, NEW act, NEW max, NEW gen,
         NEW prom, NEW bod,
         QP!LaneInv(q, act, gen, prom, bod, startGen),
         QP!Pump(pumped, q, act, max, gen, bod),
         NEW l \in AllLanes, max[l] = 1,
         QP!AtMostOne(act[l]), QP!Pumpable(pumped, q, act, l)
  PROVE  QP!TakesNext(q, act, l)
BY QP!PumpOfOne, LanesOfRuns

\* pump() only ever starts entries that were waiting.
LEMMA RunsPumpRuns ==
  ASSUME NEW pumped \in SUBSET AllLanes, NEW q, NEW act, NEW max, NEW gen,
         NEW prom, NEW bod,
         QP!LaneInv(q, act, gen, prom, bod, startGen),
         QP!Pump(pumped, q, act, max, gen, bod),
         NEW e \in RunEntries
  PROVE  \/ body'[e] = bod[e]
         \/ body'[e] = "running" /\ bod[e] = "idle" /\ prom[e] = "pending"
BY QP!PumpRuns, LanesOfRuns

\* A turn that ends with a pump.
LEMMA PumpedTurn ==
  ASSUME NEW pumped \in SUBSET AllLanes, NEW q, NEW act, NEW bod,
         QP!LaneInv(q, act, generation', promise', bod, startGen),
         QP!Pump(pumped, q, act, maxConcurrent', generation', bod),
         OneEach(maxConcurrent', act),
         \A s \in Sessions : QP!Pumpable(pumped, q, act, s),
         TurnsSound(promise', bod)
  PROVE  /\ OneEach(maxConcurrent', active')
         /\ TurnsSound(promise', body')
         /\ TakesUp(q, act)
PROOF
<1>1. TakesUp(q, act)
  <2> SUFFICES ASSUME NEW s \in Sessions PROVE QP!TakesNext(q, act, s)
    BY DEF TakesUp
  <2>1. s \in AllLanes /\ maxConcurrent'[s] = 1 /\ QP!AtMostOne(act[s])
    BY SessionsAreLanes DEF OneEach
  <2> QED BY <2>1, RunsPumpOfOne
<1>2. OneEach(maxConcurrent', active')
  BY <1>1 DEF OneEach, TakesUp, QP!TakesNext, QP!AtMostOne
<1>3. \A e \in RunEntries :
        \/ body'[e] = bod[e]
        \/ body'[e] = "running" /\ bod[e] = "idle" /\ promise'[e] = "pending"
  BY RunsPumpRuns
<1>4. TurnsSound(promise', body')
  <2>1. ASSUME NEW e \in RunEntries
        PROVE  /\ body'[e] = "running" => promise'[e] \in {"pending", "timedOut"}
               /\ promise'[e] = "timedOut" => e \in TimedTurns
    BY <1>3 DEF TurnsSound
  <2>2. ASSUME NEW r \in Runs, promise'[Turn(r)] = "pending"
        PROVE  body'[SessionEntry(r)] = "running"
    <3>1. SessionEntry(r) \in RunEntries
      BY RunShape
    <3> QED BY <1>3, <2>2, <3>1 DEF TurnsSound
  <2> QED BY <2>1, <2>2 DEF TurnsSound
<1> QED BY <1>1, <1>2, <1>4

\* A turn that leaves the session lanes alone.
LEMMA NothingToTakeUp ==
  ASSUME RunIInv, NEW q, NEW act,
         \A s \in Sessions : q[s] = queue[s] /\ act[s] = active[s]
  PROVE  /\ TakesUp(q, act) <=>
              \A s \in Sessions : queue'[s] = queue[s] /\ active'[s] = active[s]
         /\ \A s \in Sessions : queue[s] = <<>> \/ active[s] # {}
PROOF
<1>1. \A s \in Sessions : queue[s] = <<>> \/ active[s] # {}
  BY SessionsAreLanes, QP!IdleOfOne, LanesOfRuns DEF RunIInv, OneEach
<1> QED BY <1>1 DEF TakesUp, QP!TakesNext

-----------------------------------------------------------------------------
(* The actions of the lanes, as the proofs about the lanes know them *)

\* The same pump, notification, completion and reset ...
LEMMA SamePump ==
  ASSUME NEW pumped, NEW q, NEW act, NEW max, NEW gen, NEW bod
  PROVE  Q!Pump(pumped, q, act, max, gen, bod) <=> QP!Pump(pumped, q, act, max, gen, bod)
BY DEF Q!Pump, QP!Pump, Q!PumpEndsAt, QP!PumpEndsAt, Q!PumpContinues, QP!PumpContinues,
       Q!Taken, QP!Taken, Q!Cardinality, QP!Cardinality

\* ... of the waiters, ...
LEMMA SameNotify ==
  ASSUME NEW states, NEW sets, NEW act
  PROVE  Q!NotifyWaiters(states, sets, act) <=> QP!NotifyWaiters(states, sets, act)
BY DEF Q!NotifyWaiters, QP!NotifyWaiters, Q!AllActive, QP!AllActive

\* ... of a task that ends, ...
LEMMA SameComplete ==
  ASSUME NEW e, NEW bod
  PROVE  Q!Complete(e, bod) <=> QP!Complete(e, bod)
BY SamePump, SameNotify DEF Q!Complete, QP!Complete, Q!IsCurrent, QP!IsCurrent

\* ... and of lanes that are reset.
LEMMA SameResetLanes ==
  ASSUME NEW ls
  PROVE  Q!ResetLanes(ls) <=> QP!ResetLanes(ls)
BY SamePump, SameNotify DEF Q!ResetLanes, QP!ResetLanes

\* Submissions, completions and timeouts.
LEMMA SameEntryActions ==
  ASSUME NEW e
  PROVE  /\ Q!Refuse(e) <=> QP!Refuse(e)
         /\ Q!Accept(e) <=> QP!Accept(e)
         /\ Q!Finish(e) <=> QP!Finish(e)
         /\ Q!TimeoutFires(e) <=> QP!TimeoutFires(e)
         /\ Q!FinishLate(e) <=> QP!FinishLate(e)
PROOF
<1>1. Q!Refuse(e) <=> QP!Refuse(e)
  BY DEF Q!Refuse, QP!Refuse, Q!waiterVars, QP!waiterVars, Q!laneVars, QP!laneVars
<1>2. Q!Accept(e) <=> QP!Accept(e)
  BY SamePump DEF Q!Accept, QP!Accept, Q!waiterVars, QP!waiterVars
<1>3. Q!Finish(e) <=> QP!Finish(e)
  BY SameComplete DEF Q!Finish, QP!Finish
<1>4. Q!TimeoutFires(e) <=> QP!TimeoutFires(e)
  BY SameComplete DEF Q!TimeoutFires, QP!TimeoutFires
<1>5. Q!FinishLate(e) <=> QP!FinishLate(e)
  BY DEF Q!FinishLate, QP!FinishLate, Q!waiterVars, QP!waiterVars, Q!laneVars, QP!laneVars
<1> QED BY <1>1, <1>2, <1>3, <1>4, <1>5

\* Clears, drains and waits.
LEMMA SameLaneActions ==
  /\ \A l : Q!ClearLane(l) <=> QP!ClearLane(l)
  /\ Q!MarkDraining <=> QP!MarkDraining
  /\ \A w : Q!WaitForActive(w) <=> QP!WaitForActive(w)
  /\ \A w : Q!WaitExpires(w) <=> QP!WaitExpires(w)
PROOF
<1>1. ASSUME NEW l PROVE Q!ClearLane(l) <=> QP!ClearLane(l)
  BY DEF Q!ClearLane, QP!ClearLane, Q!Taken, QP!Taken, Q!waiterVars, QP!waiterVars
<1>2. Q!MarkDraining <=> QP!MarkDraining
  BY DEF Q!MarkDraining, QP!MarkDraining, Q!entryVars, QP!entryVars, Q!waiterVars, QP!waiterVars
<1>3. ASSUME NEW w PROVE Q!WaitForActive(w) <=> QP!WaitForActive(w)
  BY SameNotify DEF Q!WaitForActive, QP!WaitForActive, Q!AllActive, QP!AllActive,
                    Q!laneVars, QP!laneVars, Q!entryVars, QP!entryVars
<1>4. ASSUME NEW w PROVE Q!WaitExpires(w) <=> QP!WaitExpires(w)
  BY DEF Q!WaitExpires, QP!WaitExpires, Q!laneVars, QP!laneVars, Q!entryVars, QP!entryVars
<1> QED BY <1>1, <1>2, <1>3, <1>4

-----------------------------------------------------------------------------
(* The steps: each keeps the invariant, and says what it does to the       *)
(* session lanes                                                           *)

\* enqueueCommandInLane, while the gateway drains.
LEMMA RefuseKeeps ==
  ASSUME RunIInv, NEW e \in RunEntries, QP!Refuse(e)
  PROVE  RunIInv' /\ TakesUp(queue, active)
PROOF
<1>1. QP!IInv'
  BY QP!RefuseStep, LanesOfRuns DEF RunIInv
<1>2. /\ promise' = [promise EXCEPT ![e] = "refused"] /\ promise[e] = "none"
      /\ queue' = queue /\ active' = active /\ maxConcurrent' = maxConcurrent /\ body' = body
  BY DEF QP!Refuse, QP!laneVars
<1>3. promise \in [RunEntries -> QP!PromiseState]
  BY DEF RunIInv, QP!IInv, QP!TypeOK
<1>4. TurnsSound(promise', body')
  <2>1. ASSUME NEW x \in RunEntries
        PROVE  /\ body'[x] = "running" => promise'[x] \in {"pending", "timedOut"}
               /\ promise'[x] = "timedOut" => x \in TimedTurns
    BY <1>2, <1>3 DEF RunIInv, TurnsSound
  <2>2. ASSUME NEW r \in Runs, promise'[Turn(r)] = "pending"
        PROVE  body'[SessionEntry(r)] = "running"
    BY <1>2, <1>3, <2>2, RunShape DEF RunIInv, TurnsSound
  <2> QED BY <2>1, <2>2 DEF TurnsSound
<1> QED BY <1>1, <1>2, <1>4, NothingToTakeUp DEF RunIInv, OneEach

\* enqueueCommandInLane: an entry of a session lane waits behind the others.
LEMMA AcceptKeeps ==
  ASSUME RunIInv, NEW e \in RunEntries, QP!Accept(e),
         \A r \in Runs : e = Turn(r) => body[SessionEntry(r)] = "running"
  PROVE  RunIInv' /\ TakesUp([queue EXCEPT ![EntryLane[e]] = Append(@, e)], active)
PROOF
<1> DEFINE lane == EntryLane[e]
           q == [queue EXCEPT ![lane] = Append(@, e)]
<1>1. QP!IInv'
  BY QP!AcceptStep, LanesOfRuns DEF RunIInv
<1>2. /\ promise[e] = "none" /\ promise' = [promise EXCEPT ![e] = "pending"]
      /\ QP!Pump({lane}, q, active, maxConcurrent', generation', body)
      /\ UNCHANGED <<maxConcurrent, generation>>
  BY DEF QP!Accept
<1>3. QP!LaneInv(q, active, generation', promise', body, startGen)
  BY <1>2, QP!AppendSound, LanesOfRuns DEF RunIInv
<1>4. lane \in AllLanes /\ {lane} \in SUBSET AllLanes
  BY EntryShape
<1>5. /\ queue \in [AllLanes -> Seq(RunEntries)]
      /\ promise \in [RunEntries -> QP!PromiseState]
  BY DEF RunIInv, QP!IInv, QP!TypeOK
<1>6. \A s \in Sessions : QP!Pumpable({lane}, q, active, s)
  BY <1>4, <1>5, NothingToTakeUp, SessionsAreLanes DEF QP!Pumpable
<1>7. OneEach(maxConcurrent', active)
  BY <1>2 DEF RunIInv, OneEach
<1>8. TurnsSound(promise', body)
  <2>1. ASSUME NEW x \in RunEntries
        PROVE  /\ body[x] = "running" => promise'[x] \in {"pending", "timedOut"}
               /\ promise'[x] = "timedOut" => x \in TimedTurns
    BY <1>2, <1>5 DEF RunIInv, TurnsSound
  <2>2. ASSUME NEW r \in Runs, promise'[Turn(r)] = "pending"
        PROVE  body[SessionEntry(r)] = "running"
    BY <1>2, <1>5, <2>2, RunShape DEF RunIInv, TurnsSound
  <2> QED BY <2>1, <2>2 DEF TurnsSound
<1> HIDE DEF lane, q
<1>9. OneEach(maxConcurrent', active') /\ TurnsSound(promise', body') /\ TakesUp(q, active)
  BY <1>2, <1>3, <1>4, <1>6, <1>7, <1>8, PumpedTurn
<1> QED BY <1>1, <1>9 DEF RunIInv, OneEach, TurnsSound, q, lane

\* The continuation of runQueueEntryTask: the entry leaves its lane, which goes
\* on.  A session's task function returns only when its turn was answered.
LEMMA CompleteKeeps ==
  ASSUME RunIInv, NEW e \in RunEntries, body[e] = "running", promise[e] = "pending",
         NEW bod \in {body, [body EXCEPT ![e] = "done"]},
         NEW p \in {"settled", "timedOut"},
         p = "settled" => bod = [body EXCEPT ![e] = "done"],
         p = "timedOut" => bod = body /\ e \in TimedTurns,
         \A r \in Runs : e = SessionEntry(r) => promise[Turn(r)] # "pending",
         promise' = [promise EXCEPT ![e] = p],
         QP!Complete(e, bod),
         UNCHANGED <<maxConcurrent, generation, gatewayDraining, waitSet>>
  PROVE  RunIInv' /\ TakesUp(queue, [active EXCEPT ![EntryLane[e]] = @ \ {e}])
PROOF
<1> DEFINE lane == EntryLane[e]
           act == [active EXCEPT ![lane] = @ \ {e}]
<1>1. QP!IInv'
  BY QP!CompleteStep, LanesOfRuns DEF RunIInv
<1>2. QP!LaneInv(queue, act, generation', promise', bod, startGen)
  BY QP!CompletedSound, LanesOfRuns DEF RunIInv
<1>3. IF startGen[e] = generation[lane]
      THEN QP!Pump({lane}, queue, act, maxConcurrent', generation', bod)
      ELSE body' = bod /\ queue' = queue /\ active' = active
  BY DEF QP!Complete, QP!IsCurrent
<1>4. lane \in AllLanes /\ {lane} \in SUBSET AllLanes
  BY EntryShape
<1>5. /\ active \in [AllLanes -> SUBSET RunEntries]
      /\ promise \in [RunEntries -> QP!PromiseState]
      /\ body \in [RunEntries -> QP!BodyState]
  BY DEF RunIInv, QP!IInv, QP!TypeOK
<1>6. \A s \in Sessions : QP!Pumpable({lane}, queue, act, s)
  <2>1. \A s \in Sessions : s # lane => act[s] = active[s]
    BY <1>5, SessionsAreLanes
  <2> HIDE DEF act
  <2> QED BY <2>1, NothingToTakeUp DEF QP!Pumpable
<1>7. OneEach(maxConcurrent', act)
  <2>1. \A s \in Sessions : act[s] \subseteq active[s]
    BY <1>4, <1>5, SessionsAreLanes
  <2> HIDE DEF act
  <2> QED BY <2>1 DEF RunIInv, OneEach, QP!AtMostOne
<1>8. TurnsSound(promise', bod)
  <2>1. ASSUME NEW x \in RunEntries
        PROVE  /\ bod[x] = "running" => promise'[x] \in {"pending", "timedOut"}
               /\ promise'[x] = "timedOut" => x \in TimedTurns
    BY <1>5 DEF RunIInv, TurnsSound
  <2>2. ASSUME NEW r \in Runs, promise'[Turn(r)] = "pending"
        PROVE  bod[SessionEntry(r)] = "running"
    <3>1. /\ Turn(r) \in RunEntries /\ SessionEntry(r) \in RunEntries
          /\ promise[Turn(r)] = "pending" /\ e # SessionEntry(r)
      BY <1>5, <2>2, RunShape
    <3> QED BY <1>5, <3>1 DEF RunIInv, TurnsSound
  <2> QED BY <2>1, <2>2 DEF TurnsSound
<1>9. CASE startGen[e] = generation[lane]
  <2>1. QP!Pump({lane}, queue, act, maxConcurrent', generation', bod)
    BY <1>3, <1>9
  <2> HIDE DEF act, lane
  <2>2. OneEach(maxConcurrent', active') /\ TurnsSound(promise', body') /\ TakesUp(queue, act)
    BY <1>2, <1>4, <1>6, <1>7, <1>8, <2>1, PumpedTurn
  <2> QED BY <1>1, <2>2 DEF RunIInv, OneEach, TurnsSound, act, lane
<1>10. CASE startGen[e] # generation[lane]
  <2>1. body' = bod /\ queue' = queue /\ active' = active
    BY <1>3, <1>10
  <2>2. e \notin active[lane]
    BY <1>4, <1>10 DEF RunIInv, QP!IInv, QP!LaneInv, QP!ActiveSound
  <2>3. act = active
    BY <1>4, <1>5, <2>2
  <2>4. TakesUp(queue, active)
    BY <2>1, NothingToTakeUp
  <2> QED BY <1>1, <1>7, <1>8, <2>1, <2>3, <2>4 DEF RunIInv, OneEach, TurnsSound
<1> QED BY <1>9, <1>10

\* clearCommandLane: the waiting entries of a session are answered.
LEMMA ClearKeeps ==
  ASSUME RunIInv, NEW s \in Sessions, QP!ClearLane(s)
  PROVE  RunIInv'
PROOF
<1>1. QP!IInv'
  BY QP!ClearLaneStep, LanesOfRuns, SessionsAreLanes DEF RunIInv
<1>2. /\ active' = active /\ maxConcurrent' = maxConcurrent /\ body' = body
      /\ promise' = [e \in RunEntries |-> IF e \in QP!Taken(queue[s], Len(queue[s]))
                                          THEN "cleared" ELSE promise[e]]
  BY DEF QP!ClearLane
<1>3. \A e \in QP!Taken(queue[s], Len(queue[s])) : body[e] = "idle"
  BY SessionsAreLanes DEF RunIInv, QP!IInv, QP!LaneInv, QP!QueuesSound, QP!Taken
<1>4. TurnsSound(promise', body')
  <2>1. ASSUME NEW x \in RunEntries
        PROVE  /\ body'[x] = "running" => promise'[x] \in {"pending", "timedOut"}
               /\ promise'[x] = "timedOut" => x \in TimedTurns
    BY <1>2, <1>3 DEF RunIInv, TurnsSound
  <2>2. ASSUME NEW r \in Runs, promise'[Turn(r)] = "pending"
        PROVE  body'[SessionEntry(r)] = "running"
    BY <1>2, <2>2, RunShape DEF RunIInv, TurnsSound
  <2> QED BY <2>1, <2>2 DEF TurnsSound
<1> QED BY <1>1, <1>2, <1>4 DEF RunIInv, OneEach

\* resetCommandLane and resetAllLanes.
LEMMA ResetKeeps ==
  ASSUME RunIInv, NEW ls \in SUBSET AllLanes, QP!ResetLanes(ls), gatewayDraining' \in BOOLEAN
  PROVE  RunIInv' /\ TakesUp(queue, [l \in AllLanes |-> IF l \in ls THEN {} ELSE active[l]])
PROOF
<1> DEFINE act == [l \in AllLanes |-> IF l \in ls THEN {} ELSE active[l]]
           pumped == {l \in ls : queue[l] # <<>>}
<1>1. QP!IInv'
  BY QP!ResetLanesStep, LanesOfRuns DEF RunIInv
<1>2. QP!LaneInv(queue, act, generation', promise', body, startGen)
  BY QP!ResetSound, LanesOfRuns DEF RunIInv
<1>3. /\ QP!Pump(pumped, queue, act, maxConcurrent', generation', body)
      /\ UNCHANGED <<maxConcurrent, promise>>
  BY DEF QP!ResetLanes
<1>4. pumped \in SUBSET AllLanes
  OBVIOUS
<1>5. \A s \in Sessions : QP!Pumpable(pumped, queue, act, s)
  <2> SUFFICES ASSUME NEW s \in Sessions PROVE QP!Pumpable(pumped, queue, act, s)
    OBVIOUS
  <2>1. CASE s \in ls
    BY <2>1 DEF QP!Pumpable
  <2>2. CASE s \notin ls
    <3>1. act[s] = active[s]
      BY <2>2, SessionsAreLanes
    <3> QED BY <3>1, NothingToTakeUp DEF QP!Pumpable
  <2> QED BY <2>1, <2>2
<1>6. OneEach(maxConcurrent', act)
  BY <1>3, SessionsAreLanes DEF RunIInv, OneEach, QP!AtMostOne
<1>7. TurnsSound(promise', body)
  BY <1>3 DEF RunIInv
<1> HIDE DEF act, pumped
<1>8. OneEach(maxConcurrent', active') /\ TurnsSound(promise', body') /\ TakesUp(queue, act)
  BY <1>2, <1>3, <1>4, <1>5, <1>6, <1>7, PumpedTurn
<1> QED BY <1>1, <1>8 DEF RunIInv, OneEach, TurnsSound, act

\* applyGatewayLaneConcurrency: what a pump that follows a change of widths keeps.
LEMMA RunsTurnEnds ==
  ASSUME QP!IInv,
         NEW pumped \in SUBSET AllLanes,
         QP!LaneInv(queue, active, generation', promise', body, startGen),
         maxConcurrent' \in [AllLanes -> Nat],
         gatewayDraining' \in BOOLEAN,
         waiter' \in [{RestartWait} -> QP!WaiterState],
         waitSet' = waitSet,
         QP!Pump(pumped, queue, active, maxConcurrent', generation', body),
         \A l \in AllLanes \ pumped :
           queue[l] # <<>> => QP!Cardinality(active[l]) >= maxConcurrent'[l],
         \A w \in {RestartWait} :
           /\ waiter'[w] = "waiting" => waitSet[w] \cap QP!AllActive(active) # {}
           /\ waiter'[w] = "drained" => waitSet[w] \cap QP!AllActive(active) = {}
  PROVE  QP!IInv'
PROOF
<1>1. /\ QP!TypeOK' /\ QP!NoIdleSlot' /\ QP!WaitSetsStarted'
      /\ QP!LaneInv(queue, active, generation, promise, body, startGen)'
  BY QP!TurnEndsWithPump, LanesOfRuns
<1>2. QP!WaitersExact'
  BY QP!TurnWaiters, LanesOfRuns
<1> QED BY <1>1, <1>2 DEF QP!IInv

\* The widths of the session lanes are not touched, and the pump of the global
\* lanes leaves the sessions as they are.
LEMMA ApplyKeeps ==
  ASSUME RunIInv, NEW main \in GlobalWidths, NEW cron \in GlobalWidths,
         ApplyConcurrency(main, cron)
  PROVE  RunIInv' /\ TakesUp(queue, active)
PROOF
<1> DEFINE pumped == {l \in GlobalLanes : queue[l] # <<>>}
<1>1. /\ maxConcurrent' = [l \in AllLanes |-> IF l = "main" THEN main
                                              ELSE IF l \in GlobalLanes THEN cron
                                              ELSE maxConcurrent[l]]
      /\ QP!Pump(pumped, queue, active, maxConcurrent', generation', body)
      /\ UNCHANGED <<generation, gatewayDraining, promise, waiter, waitSet>>
  BY SamePump DEF ApplyConcurrency
<1>2. /\ maxConcurrent \in [AllLanes -> Nat] /\ gatewayDraining \in BOOLEAN
      /\ waiter \in [{RestartWait} -> QP!WaiterState]
  BY DEF RunIInv, QP!IInv, QP!TypeOK
<1>3. maxConcurrent' \in [AllLanes -> Nat]
  BY <1>1, <1>2, RunsAssumption DEF RunsAssumption
<1>4. pumped \in SUBSET AllLanes
  BY DEF AllLanes
<1>5. \A l \in AllLanes \ pumped : queue[l] # <<>> => maxConcurrent'[l] = maxConcurrent[l]
  BY <1>1 DEF GlobalLanes
<1>6. QP!LaneInv(queue, active, generation', promise', body, startGen)
  BY <1>1 DEF RunIInv, QP!IInv
<1>7. QP!IInv'
  <2>1. \A l \in AllLanes \ pumped :
          queue[l] # <<>> => QP!Cardinality(active[l]) >= maxConcurrent'[l]
    BY <1>5 DEF RunIInv, QP!IInv, QP!NoIdleSlot
  <2>2. \A w \in {RestartWait} :
           /\ waiter'[w] = "waiting" => waitSet[w] \cap QP!AllActive(active) # {}
           /\ waiter'[w] = "drained" => waitSet[w] \cap QP!AllActive(active) = {}
    BY <1>1 DEF RunIInv, QP!IInv, QP!WaitersExact
  <2>3. /\ QP!Pump(pumped, queue, active, maxConcurrent', generation', body)
        /\ gatewayDraining' \in BOOLEAN /\ waitSet' = waitSet
        /\ waiter' \in [{RestartWait} -> QP!WaiterState]
    BY <1>1, <1>2
  <2>4. QP!IInv
    BY DEF RunIInv
  <2> HIDE DEF pumped
  <2> QED BY ONLY <1>3, <1>4, <1>6, <2>1, <2>2, <2>3, <2>4, RunsTurnEnds
<1>8. OneEach(maxConcurrent', active)
  BY <1>1, SessionsAreLanes DEF RunIInv, OneEach, GlobalLanes
<1>9. \A s \in Sessions : QP!Pumpable(pumped, queue, active, s)
  BY NothingToTakeUp DEF QP!Pumpable
<1>10. TurnsSound(promise', body)
  BY <1>1 DEF RunIInv
<1> HIDE DEF pumped
<1>11. /\ OneEach(maxConcurrent', active') /\ TurnsSound(promise', body')
       /\ TakesUp(queue, active)
  BY <1>1, <1>4, <1>6, <1>8, <1>9, <1>10, PumpedTurn
<1> QED BY <1>7, <1>11 DEF RunIInv, OneEach, TurnsSound

\* A timed-out turn ends: the session entries run on as they did.
LEMMA FinishLateKeeps ==
  ASSUME RunIInv, NEW e \in RunEntries, QP!FinishLate(e)
  PROVE  RunIInv' /\ TakesUp(queue, active)
PROOF
<1>1. QP!IInv'
  BY QP!FinishLateStep, LanesOfRuns DEF RunIInv
<1>2. /\ body' = [body EXCEPT ![e] = "done"] /\ promise[e] = "timedOut"
      /\ queue' = queue /\ active' = active /\ maxConcurrent' = maxConcurrent
      /\ promise' = promise
  BY DEF QP!FinishLate, QP!laneVars
<1>3. body \in [RunEntries -> QP!BodyState]
  BY DEF RunIInv, QP!IInv, QP!TypeOK
<1>4. TurnsSound(promise', body')
  <2>1. \A x \in RunEntries : body'[x] = "running" => body[x] = "running"
    BY <1>2, <1>3
  <2>2. \A r \in Runs : body'[SessionEntry(r)] = body[SessionEntry(r)]
    <3>1. e \in TimedTurns
      BY <1>2 DEF RunIInv, TurnsSound
    <3>2. EntryLane[e] \notin Sessions
      BY <3>1, SessionLanes
    <3>3. \A r \in Runs : SessionEntry(r) # e /\ SessionEntry(r) \in RunEntries
      BY <3>2, RunShape, PathShape
    <3> QED BY <1>2, <1>3, <3>3
  <2> QED BY <1>2, <2>1, <2>2 DEF RunIInv, TurnsSound
<1> QED BY <1>1, <1>2, <1>4, NothingToTakeUp DEF RunIInv, OneEach

\* Steps that are no business of the lanes.
LEMMA OthersKeep ==
  ASSUME RunIInv, QP!IInv', UNCHANGED <<queue, active, maxConcurrent, promise, body>>
  PROVE  RunIInv' /\ TakesUp(queue, active)
BY NothingToTakeUp DEF RunIInv, OneEach, TurnsSound

-----------------------------------------------------------------------------
(* The session lanes as their users see them *)

\* The runs of a sequence of entries.
RunsIn(es) == [i \in 1..Len(es) |-> es[i][1]]

Wait(q)    == [s \in Sessions |-> RunsIn(q[s])]
Serv(act)  == [s \in Sessions |-> {e[1] : e \in act[s]}]
Outc(prom) == [r \in Runs |-> CASE prom[SessionEntry(r)] = "none" -> "none"
                                [] prom[SessionEntry(r)] = "pending" -> "open"
                                [] OTHER -> "answered"]

\* Continue of SessionRuns, from the waiting runs w and the runs v served, to
\* the waiting runs w1 and the runs v1 served.
ContinuesTo(w, v, w1, v1) ==
  /\ w1 = [s \in Sessions |-> IF v[s] = {} /\ w[s] # <<>> THEN Tail(w[s]) ELSE w[s]]
  /\ v1 = [s \in Sessions |-> IF v[s] = {} /\ w[s] # <<>> THEN {Head(w[s])} ELSE v[s]]

\* The runs of a queue are a sequence of runs, taken and extended as the queue.
LEMMA RunsInSeq ==
  ASSUME NEW es \in Seq(RunEntries)
  PROVE  /\ RunsIn(es) \in Seq(Runs) /\ Len(RunsIn(es)) = Len(es)
         /\ \A i \in 1..Len(es) : RunsIn(es)[i] = es[i][1]
         /\ RunsIn(es) = <<>> <=> es = <<>>
         /\ es # <<>> => /\ Tail(RunsIn(es)) = RunsIn(Tail(es))
                         /\ Head(RunsIn(es)) = Head(es)[1]
         /\ \A e \in RunEntries : RunsIn(Append(es, e)) = Append(RunsIn(es), e[1])
PROOF
<1>0. ASSUME NEW x \in Seq(RunEntries)
      PROVE  /\ RunsIn(x) \in Seq(Runs) /\ Len(RunsIn(x)) = Len(x)
             /\ \A i \in 1..Len(x) : RunsIn(x)[i] = x[i][1]
  BY EntryShape DEF RunsIn
<1>1. /\ RunsIn(es) \in Seq(Runs) /\ Len(RunsIn(es)) = Len(es)
      /\ \A i \in 1..Len(es) : RunsIn(es)[i] = es[i][1]
  BY <1>0
<1>2. RunsIn(es) = <<>> <=> es = <<>>
  BY <1>1
<1>3. ASSUME es # <<>>
      PROVE  Tail(RunsIn(es)) = RunsIn(Tail(es)) /\ Head(RunsIn(es)) = Head(es)[1]
  <2> DEFINE t == RunsIn(es)
             u == RunsIn(Tail(es))
  <2>1. /\ Tail(es) \in Seq(RunEntries) /\ Len(Tail(es)) = Len(es) - 1 /\ Len(es) \in Nat \ {0}
        /\ \A i \in 1..Len(Tail(es)) : Tail(es)[i] = es[i + 1]
    BY <1>3
  <2>2. /\ u \in Seq(Runs) /\ Len(u) = Len(es) - 1
        /\ \A i \in 1..Len(u) : u[i] = es[i + 1][1]
    <3>1. /\ u \in Seq(Runs) /\ Len(u) = Len(Tail(es))
          /\ \A i \in 1..Len(Tail(es)) : u[i] = Tail(es)[i][1]
      BY <1>0, <2>1
    <3> HIDE DEF u
    <3> QED BY <2>1, <3>1
  <2>3. t \in Seq(Runs) /\ Len(t) = Len(es) /\ \A i \in 1..Len(t) : t[i] = es[i][1]
    BY <1>1
  <2> HIDE DEF t, u
  <2>4. \A i \in 1..Len(u) : u[i] = t[i + 1]
    BY <2>1, <2>2, <2>3
  <2>5. Tail(t) = u
    BY <2>1, <2>2, <2>3, <2>4
  <2>6. Head(t) = Head(es)[1]
    BY <1>3, <2>1, <2>3
  <2> QED BY <2>5, <2>6 DEF t, u
<1>4. ASSUME NEW e \in RunEntries
      PROVE  RunsIn(Append(es, e)) = Append(RunsIn(es), e[1])
  <2>1. /\ Append(es, e) \in Seq(RunEntries) /\ Len(Append(es, e)) = Len(es) + 1
        /\ \A i \in 1..(Len(es) + 1) :
             Append(es, e)[i] = IF i = Len(es) + 1 THEN e ELSE es[i]
    OBVIOUS
  <2>2. RunsIn(Append(es, e)) =
          [i \in 1..(Len(es) + 1) |-> IF i = Len(es) + 1 THEN e[1] ELSE es[i][1]]
    BY <2>1 DEF RunsIn
  <2>3. e[1] \in Runs
    BY EntryShape
  <2>4. Append(RunsIn(es), e[1]) =
          [i \in 1..(Len(es) + 1) |-> IF i = Len(es) + 1 THEN e[1] ELSE es[i][1]]
    BY <1>1, <2>3
  <2> QED BY <2>2, <2>4
<1> QED BY <1>1, <1>2, <1>3, <1>4

\* A turn that takes up what waits is a Continue of the sessions.
LEMMA ViewOfTurn ==
  ASSUME NEW q, NEW act, TakesUp(q, act),
         \A s \in Sessions : q[s] \in Seq(RunEntries)
  PROVE  ContinuesTo(Wait(q), Serv(act), Wait(queue'), Serv(active'))
PROOF
<1> SUFFICES ASSUME NEW s \in Sessions
    PROVE  /\ RunsIn(queue'[s]) =
                IF Serv(act)[s] = {} /\ Wait(q)[s] # <<>> THEN Tail(Wait(q)[s]) ELSE Wait(q)[s]
           /\ {e[1] : e \in active'[s]} =
                IF Serv(act)[s] = {} /\ Wait(q)[s] # <<>> THEN {Head(Wait(q)[s])} ELSE Serv(act)[s]
  BY Zenon DEF ContinuesTo, Wait, Serv
<1>1. IF act[s] = {} /\ q[s] # <<>>
      THEN queue'[s] = Tail(q[s]) /\ active'[s] = {Head(q[s])}
      ELSE queue'[s] = q[s] /\ active'[s] = act[s]
  BY DEF TakesUp, QP!TakesNext
<1>2. Serv(act)[s] = {e[1] : e \in act[s]} /\ Wait(q)[s] = RunsIn(q[s])
  BY DEF Serv, Wait
<1>3. Serv(act)[s] = {} <=> act[s] = {}
  BY <1>2
<1>4. Wait(q)[s] = <<>> <=> q[s] = <<>>
  BY <1>2, RunsInSeq
<1>5. CASE act[s] = {} /\ q[s] # <<>>
  <2> DEFINE h == Head(q[s])
  <2> HIDE DEF h
  <2>1. {e[1] : e \in {h}} = {h[1]}
    OBVIOUS
  <2>2. RunsIn(Tail(q[s])) = Tail(Wait(q)[s]) /\ Head(Wait(q)[s]) = Head(q[s])[1]
    BY <1>2, <1>5, RunsInSeq
  <2> QED BY <1>1, <1>3, <1>4, <1>5, <2>1, <2>2 DEF h
<1>6. CASE ~ (act[s] = {} /\ q[s] # <<>>)
  BY <1>1, <1>2, <1>3, <1>4, <1>6
<1> QED BY <1>5, <1>6

\* The actions of SessionRuns, on what their users see.
LEMMA AbstractActions ==
  ASSUME NEW r, NEW s, NEW ss
  PROVE  /\ /\ Outc(promise)[r] = "none"
            /\ Outc(promise') = [Outc(promise) EXCEPT ![r] = "open"]
            /\ ContinuesTo([Wait(queue) EXCEPT ![SessionOf[r]] = Append(@, r)], Serv(active),
                           Wait(queue'), Serv(active'))
            => S!Take(r)
         /\ /\ Outc(promise)[r] = "none"
            /\ Outc(promise') = [Outc(promise) EXCEPT ![r] = "answered"]
            /\ Wait(queue') = Wait(queue) /\ Serv(active') = Serv(active)
            => S!TurnAway(r)
         /\ /\ Outc(promise)[r] = "open"
            /\ Outc(promise') = [Outc(promise) EXCEPT ![r] = "answered"]
            /\ \A i \in DOMAIN Wait(queue)[SessionOf[r]] : Wait(queue)[SessionOf[r]][i] # r
            /\ ContinuesTo(Wait(queue), [Serv(active) EXCEPT ![SessionOf[r]] = @ \ {r}],
                           Wait(queue'), Serv(active'))
            => S!Answer(r)
         /\ /\ Wait(queue)[s] # <<>>
            /\ Wait(queue') = [Wait(queue) EXCEPT ![s] = <<>>]
            /\ Outc(promise') = [x \in Runs |-> IF \E i \in DOMAIN Wait(queue)[s] : Wait(queue)[s][i] = x
                                               THEN "answered" ELSE Outc(promise)[x]]
            /\ Serv(active') = Serv(active)
            => S!Dismiss(s)
         /\ /\ ContinuesTo(Wait(queue), [z \in Sessions |-> IF z \in ss THEN {} ELSE Serv(active)[z]],
                           Wait(queue'), Serv(active'))
            /\ Outc(promise') = Outc(promise)
            => S!TakeAway(ss)
         /\ /\ Wait(queue') = Wait(queue) /\ Serv(active') = Serv(active)
            /\ Outc(promise') = Outc(promise)
            => UNCHANGED S!abstractVars
PROOF
<1>1. /\ Outc(promise)[r] = "none"
      /\ Outc(promise') = [Outc(promise) EXCEPT ![r] = "open"]
      /\ ContinuesTo([Wait(queue) EXCEPT ![SessionOf[r]] = Append(@, r)], Serv(active),
                           Wait(queue'), Serv(active'))
      => S!Take(r)
  BY DEF S!Take, S!Continue, ContinuesTo, Outc, Wait, Serv, RunsIn
<1>2. /\ Outc(promise)[r] = "none"
      /\ Outc(promise') = [Outc(promise) EXCEPT ![r] = "answered"]
      /\ Wait(queue') = Wait(queue) /\ Serv(active') = Serv(active)
      => S!TurnAway(r)
  BY DEF S!TurnAway, Outc, Wait, Serv, RunsIn
<1>3. /\ Outc(promise)[r] = "open"
      /\ Outc(promise') = [Outc(promise) EXCEPT ![r] = "answered"]
      /\ \A i \in DOMAIN Wait(queue)[SessionOf[r]] : Wait(queue)[SessionOf[r]][i] # r
      /\ ContinuesTo(Wait(queue), [Serv(active) EXCEPT ![SessionOf[r]] = @ \ {r}],
                           Wait(queue'), Serv(active'))
      => S!Answer(r)
  BY DEF S!Answer, S!Continue, ContinuesTo, Outc, Wait, Serv, RunsIn
<1>4. /\ Wait(queue)[s] # <<>>
      /\ Wait(queue') = [Wait(queue) EXCEPT ![s] = <<>>]
      /\ Outc(promise') = [x \in Runs |-> IF \E i \in DOMAIN Wait(queue)[s] : Wait(queue)[s][i] = x
                                         THEN "answered" ELSE Outc(promise)[x]]
      /\ Serv(active') = Serv(active)
      => S!Dismiss(s)
  BY DEF S!Dismiss, Outc, Wait, Serv, RunsIn
<1>5. /\ ContinuesTo(Wait(queue), [z \in Sessions |-> IF z \in ss THEN {} ELSE Serv(active)[z]],
                           Wait(queue'), Serv(active'))
      /\ Outc(promise') = Outc(promise)
      => S!TakeAway(ss)
  BY DEF S!TakeAway, S!Continue, ContinuesTo, Outc, Wait, Serv, RunsIn
<1>6. /\ Wait(queue') = Wait(queue) /\ Serv(active') = Serv(active)
      /\ Outc(promise') = Outc(promise)
      => UNCHANGED S!abstractVars
  BY DEF S!abstractVars, Outc, Wait, Serv, RunsIn
<1> QED BY <1>1, <1>2, <1>3, <1>4, <1>5, <1>6

\* A turn that takes nothing up and answers nobody in a session lane.
LEMMA ViewStutters ==
  ASSUME RunIInv, TakesUp(queue, active),
         \A r \in Runs : promise'[SessionEntry(r)] = promise[SessionEntry(r)]
  PROVE  UNCHANGED S!abstractVars
PROOF
<1>1. \A s \in Sessions : queue'[s] = queue[s] /\ active'[s] = active[s]
  BY NothingToTakeUp
<1>2. Wait(queue') = Wait(queue) /\ Serv(active') = Serv(active)
  BY <1>1 DEF Wait, Serv
<1>3. Outc(promise') = Outc(promise)
  BY DEF Outc
<1> QED BY <1>2, <1>3, AbstractActions

-----------------------------------------------------------------------------
(* Every step keeps the invariant and serves the sessions *)

Serves == S!Next \/ UNCHANGED S!abstractVars

\* What is known of the session entry of a run and of its neighbours.
LEMMA InSessionLane ==
  ASSUME NEW e \in RunEntries, EntryLane[e] \in Sessions
  PROVE  /\ e[1] \in Runs /\ e = SessionEntry(e[1]) /\ SessionOf[e[1]] = EntryLane[e]
         /\ \A r \in Runs : r # e[1] => SessionEntry(r) # e
         /\ \A x \in RunEntries : EntryLane[x] = EntryLane[e] /\ x # e => x[1] # e[1]
PROOF
<1>1. e[1] \in Runs /\ e = SessionEntry(e[1]) /\ SessionOf[e[1]] = EntryLane[e]
  BY EntryShape, SessionLanes
<1>2. \A r \in Runs : r # e[1] => SessionEntry(r) # e
  BY RunShape
<1>3. \A x \in RunEntries : EntryLane[x] = EntryLane[e] /\ x # e => x[1] # e[1]
  BY <1>1, SessionLanes
<1> QED BY <1>1, <1>2, <1>3

\* An entry of another lane is no session entry.
LEMMA NotInSessionLane ==
  ASSUME NEW e \in RunEntries, EntryLane[e] \notin Sessions
  PROVE  \A r \in Runs : SessionEntry(r) # e
BY RunShape, PathShape

\* A submission: the session takes the run, turns it away, or is not concerned.
LEMMA EnqueueServes ==
  ASSUME RunIInv, NEW e \in RunEntries, Q!Enqueue(e),
         \A r \in Runs : e = Turn(r) => body[SessionEntry(r)] = "running"
  PROVE  RunIInv' /\ Serves
PROOF
<1> DEFINE r == e[1]
           lane == EntryLane[e]
           q == [queue EXCEPT ![lane] = Append(@, e)]
<1>1. /\ queue \in [AllLanes -> Seq(RunEntries)]
      /\ promise \in [RunEntries -> QP!PromiseState]
  BY DEF RunIInv, QP!IInv, QP!TypeOK
<1>2. \A x \in Runs : SessionEntry(x) \in RunEntries
  BY RunShape
<1>3. CASE QP!Refuse(e)
  <2>1. RunIInv' /\ TakesUp(queue, active)
    BY <1>3, RefuseKeeps
  <2>2. promise[e] = "none" /\ promise' = [promise EXCEPT ![e] = "refused"]
    BY <1>3 DEF QP!Refuse
  <2>3. CASE lane \in Sessions
    <3>1. /\ r \in Runs /\ e = SessionEntry(r)
          /\ \A x \in Runs : x # r => SessionEntry(x) # e
      BY <2>3, InSessionLane
    <3> HIDE DEF r
    <3>2. Outc(promise)[r] = "none" /\ Outc(promise') = [Outc(promise) EXCEPT ![r] = "answered"]
      BY <1>1, <1>2, <2>2, <3>1 DEF Outc
    <3>3. Wait(queue') = Wait(queue) /\ Serv(active') = Serv(active)
      BY <2>1, NothingToTakeUp DEF Wait, Serv
    <3>4. S!TurnAway(r)
      BY <3>2, <3>3, AbstractActions
    <3> QED BY <2>1, <3>1, <3>4 DEF Serves, S!Next
  <2>4. CASE lane \notin Sessions
    <3>1. \A x \in Runs : promise'[SessionEntry(x)] = promise[SessionEntry(x)]
      BY <1>1, <1>2, <2>2, <2>4, NotInSessionLane
    <3> QED BY <2>1, <3>1, ViewStutters DEF Serves
  <2> QED BY <2>3, <2>4
<1>4. CASE QP!Accept(e)
  <2>1. RunIInv' /\ TakesUp(q, active)
    BY <1>4, AcceptKeeps
  <2>2. promise[e] = "none" /\ promise' = [promise EXCEPT ![e] = "pending"]
    BY <1>4 DEF QP!Accept
  <2>3. CASE lane \in Sessions
    <3>1. /\ r \in Runs /\ e = SessionEntry(r) /\ SessionOf[r] = lane
          /\ \A x \in Runs : x # r => SessionEntry(x) # e
      BY <2>3, InSessionLane
    <3>2. Outc(promise)[r] = "none" /\ Outc(promise') = [Outc(promise) EXCEPT ![r] = "open"]
      <4> HIDE DEF r
      <4> QED BY <1>1, <1>2, <2>2, <3>1 DEF Outc
    <3>3. \A s \in Sessions : q[s] = (IF s = lane THEN Append(queue[s], e) ELSE queue[s])
                              /\ q[s] \in Seq(RunEntries) /\ queue[s] \in Seq(RunEntries)
      BY <1>1, SessionsAreLanes
    <3>4. Wait(q) = [Wait(queue) EXCEPT ![SessionOf[r]] = Append(@, r)]
      <4>1. \A s \in Sessions : Wait(q)[s] = IF s = lane THEN Append(Wait(queue)[s], r) ELSE Wait(queue)[s]
        <5> HIDE DEF q
        <5> SUFFICES ASSUME NEW s \in Sessions
            PROVE  RunsIn(q[s]) = IF s = lane THEN Append(RunsIn(queue[s]), r) ELSE RunsIn(queue[s])
          BY DEF Wait
        <5>1. RunsIn(Append(queue[s], e)) = Append(RunsIn(queue[s]), r)
          BY <3>3, RunsInSeq
        <5> QED BY <3>3, <5>1
      <4>2. DOMAIN Wait(queue) = Sessions /\ DOMAIN Wait(q) = Sessions
        BY DEF Wait
      <4>3. Wait(q) = [s \in Sessions |-> Wait(q)[s]] /\ Wait(queue) = [s \in Sessions |-> Wait(queue)[s]]
        BY DEF Wait
      <4> HIDE DEF q, lane, r
      <4> QED BY <2>3, <3>1, <4>1, <4>2, <4>3
    <3>5. ContinuesTo(Wait(q), Serv(active), Wait(queue'), Serv(active'))
      <4>1. TakesUp(q, active) /\ \A s \in Sessions : q[s] \in Seq(RunEntries)
        BY <2>1, <3>3
      <4> HIDE DEF q
      <4> QED BY ONLY <4>1, ViewOfTurn
    <3>6. S!Take(r)
      <4>1. ContinuesTo([Wait(queue) EXCEPT ![SessionOf[r]] = Append(@, r)], Serv(active),
                           Wait(queue'), Serv(active'))
        BY <3>4, <3>5, Zenon
      <4> HIDE DEF q, r
      <4> QED BY ONLY <3>2, <4>1, AbstractActions
    <3> QED BY <2>1, <3>1, <3>6 DEF Serves, S!Next
  <2>4. CASE lane \notin Sessions
    <3>1. \A x \in Runs : promise'[SessionEntry(x)] = promise[SessionEntry(x)]
      BY <1>1, <1>2, <2>2, <2>4, NotInSessionLane
    <3>2. \A s \in Sessions : q[s] = queue[s]
      BY <1>1, <2>4, SessionsAreLanes
    <3>3. \A s \in Sessions : queue'[s] = queue[s] /\ active'[s] = active[s]
      <4> HIDE DEF q
      <4> QED BY <2>1, <3>2, NothingToTakeUp
    <3>4. TakesUp(queue, active)
      BY <3>3, NothingToTakeUp
    <3> QED BY <2>1, <3>1, <3>4, ViewStutters DEF Serves
  <2> QED BY <2>3, <2>4
<1> QED BY <1>3, <1>4, SameEntryActions DEF Q!Enqueue

\* The task function of an entry returns, or its timeout fires: a session lane
\* answers the run, any other lane is no business of the sessions.
LEMMA CompleteServes ==
  ASSUME RunIInv, NEW e \in RunEntries, promise[e] = "pending", body[e] = "running",
         NEW p \in {"settled", "timedOut"},
         promise' = [promise EXCEPT ![e] = p],
         RunIInv', TakesUp(queue, [active EXCEPT ![EntryLane[e]] = @ \ {e}])
  PROVE  Serves
PROOF
<1> DEFINE r == e[1]
           lane == EntryLane[e]
           act == [active EXCEPT ![lane] = @ \ {e}]
<1>1. /\ queue \in [AllLanes -> Seq(RunEntries)] /\ active \in [AllLanes -> SUBSET RunEntries]
      /\ promise \in [RunEntries -> QP!PromiseState]
  BY DEF RunIInv, QP!IInv, QP!TypeOK
<1>2. \A x \in Runs : SessionEntry(x) \in RunEntries
  BY RunShape
<1>3. CASE lane \in Sessions
  <2>1. /\ r \in Runs /\ e = SessionEntry(r) /\ SessionOf[r] = lane
        /\ \A x \in Runs : x # r => SessionEntry(x) # e
        /\ \A x \in RunEntries : EntryLane[x] = lane /\ x # e => x[1] # r
    BY <1>3, InSessionLane
  <2>2. Outc(promise)[r] = "open" /\ Outc(promise') = [Outc(promise) EXCEPT ![r] = "answered"]
    <3> HIDE DEF r
    <3> QED BY <1>1, <1>2, <2>1 DEF Outc
  <2>3. \A i \in DOMAIN Wait(queue)[lane] : Wait(queue)[lane][i] # r
    <3>1. queue[lane] \in Seq(RunEntries) /\ Wait(queue)[lane] = RunsIn(queue[lane])
      BY <1>1, <1>3, SessionsAreLanes DEF Wait
    <3>2. \A i \in 1..Len(queue[lane]) : EntryLane[queue[lane][i]] = lane /\ queue[lane][i] # e
      BY <1>3, SessionsAreLanes DEF RunIInv, QP!IInv, QP!LaneInv, QP!QueuesSound
    <3>3. \A i \in 1..Len(queue[lane]) : queue[lane][i][1] # r
      <4> HIDE DEF r, lane
      <4> QED BY <2>1, <3>1, <3>2
    <3>4. DOMAIN RunsIn(queue[lane]) = 1..Len(queue[lane])
      BY DEF RunsIn
    <3> QED BY <3>1, <3>3, <3>4 DEF RunsIn
  <2>4. Serv(act) = [Serv(active) EXCEPT ![SessionOf[r]] = @ \ {r}]
    <3>1. \A s \in Sessions : act[s] = IF s = lane THEN active[s] \ {e} ELSE active[s]
      BY <1>1, SessionsAreLanes
    <3>2. \A x \in active[lane] : x \in RunEntries /\ EntryLane[x] = lane
      BY <1>1, <1>3, SessionsAreLanes DEF RunIInv, QP!IInv, QP!LaneInv, QP!ActiveSound
    <3>3. {x[1] : x \in active[lane] \ {e}} = {x[1] : x \in active[lane]} \ {r}
      BY <2>1, <3>2
    <3> HIDE DEF act, r
    <3>4. \A s \in Sessions : Serv(act)[s] = IF s = lane THEN Serv(active)[s] \ {r} ELSE Serv(active)[s]
      BY <3>1, <3>3 DEF Serv
    <3>5. /\ Serv(act) = [s \in Sessions |-> Serv(act)[s]]
          /\ Serv(active) = [s \in Sessions |-> Serv(active)[s]]
      BY DEF Serv
    <3> HIDE DEF lane
    <3> QED BY <1>3, <2>1, <3>4, <3>5
  <2>5. ContinuesTo(Wait(queue), Serv(act), Wait(queue'), Serv(active'))
    <3>1. TakesUp(queue, act) /\ \A s \in Sessions : queue[s] \in Seq(RunEntries)
      BY <1>1, SessionsAreLanes
    <3> HIDE DEF act
    <3> QED BY ONLY <3>1, ViewOfTurn
  <2>6. S!Answer(r)
    <3>1. ContinuesTo(Wait(queue), [Serv(active) EXCEPT ![SessionOf[r]] = @ \ {r}],
                      Wait(queue'), Serv(active'))
      BY <2>4, <2>5
    <3>2. \A i \in DOMAIN Wait(queue)[SessionOf[r]] : Wait(queue)[SessionOf[r]][i] # r
      BY <2>1, <2>3
    <3> HIDE DEF r
    <3> QED BY ONLY <2>2, <3>1, <3>2, AbstractActions
  <2> QED BY <2>1, <2>6 DEF Serves, S!Next
<1>4. CASE lane \notin Sessions
  <2>1. \A x \in Runs : promise'[SessionEntry(x)] = promise[SessionEntry(x)]
    BY <1>1, <1>2, <1>4, NotInSessionLane
  <2>2. \A s \in Sessions : act[s] = active[s]
    BY <1>1, <1>4, SessionsAreLanes
  <2>3. \A s \in Sessions : queue'[s] = queue[s] /\ active'[s] = active[s]
    <3>1. TakesUp(queue, act)
      OBVIOUS
    <3> HIDE DEF act
    <3> QED BY <2>2, <3>1, NothingToTakeUp
  <2>4. TakesUp(queue, active)
    BY <2>3, NothingToTakeUp
  <2> QED BY <2>1, <2>4, ViewStutters DEF Serves
<1> QED BY <1>3, <1>4

\* The queue mode "interrupt": what waits in the session is dismissed.
LEMMA InterruptServes ==
  ASSUME RunIInv, NEW s \in Sessions, Interrupt(s)
  PROVE  RunIInv' /\ Serves
PROOF
<1>1. QP!ClearLane(s)
  BY SameLaneActions DEF Interrupt
<1>2. RunIInv'
  BY <1>1, ClearKeeps
<1>3. /\ queue[s] # <<>> /\ queue' = [queue EXCEPT ![s] = <<>>]
      /\ promise' = [e \in RunEntries |-> IF e \in QP!Taken(queue[s], Len(queue[s]))
                                          THEN "cleared" ELSE promise[e]]
      /\ active' = active
  BY <1>1 DEF QP!ClearLane
<1>4. /\ queue \in [AllLanes -> Seq(RunEntries)] /\ s \in AllLanes
      /\ promise \in [RunEntries -> QP!PromiseState]
  BY SessionsAreLanes DEF RunIInv, QP!IInv, QP!TypeOK
<1>5. queue[s] \in Seq(RunEntries) /\ Wait(queue)[s] = RunsIn(queue[s])
  BY <1>4 DEF Wait
<1>6. Wait(queue)[s] # <<>>
  BY <1>3, <1>5, RunsInSeq
<1>7. Wait(queue') = [Wait(queue) EXCEPT ![s] = <<>>]
  <2>1. RunsIn(<<>>) = <<>>
    <3>1. <<>> \in Seq(RunEntries)
      OBVIOUS
    <3> QED BY <3>1, RunsInSeq
  <2>2. \A z \in Sessions : Wait(queue')[z] = IF z = s THEN <<>> ELSE Wait(queue)[z]
    <3>1. \A z \in Sessions : queue'[z] = IF z = s THEN <<>> ELSE queue[z]
      BY <1>3, <1>4, SessionsAreLanes
    <3> QED BY <2>1, <3>1 DEF Wait
  <2>3. /\ Wait(queue') = [z \in Sessions |-> Wait(queue')[z]]
        /\ Wait(queue) = [z \in Sessions |-> Wait(queue)[z]]
    BY DEF Wait
  <2> QED BY <2>2, <2>3
<1>8. Serv(active') = Serv(active)
  BY <1>3
<1>9. \A r \in Runs : SessionEntry(r) \in QP!Taken(queue[s], Len(queue[s]))
                        <=> \E i \in DOMAIN Wait(queue)[s] : Wait(queue)[s][i] = r
  <2>1. \A i \in 1..Len(queue[s]) : /\ queue[s][i] \in RunEntries
                                   /\ EntryLane[queue[s][i]] = s
    BY <1>4, <1>5 DEF RunIInv, QP!IInv, QP!LaneInv, QP!QueuesSound
  <2>2. \A i \in 1..Len(queue[s]) : queue[s][i] = SessionEntry(queue[s][i][1])
    BY <2>1, SessionLanes
  <2>3. \A r \in Runs : SessionEntry(r)[1] = r
    BY RunShape
  <2>4. DOMAIN Wait(queue)[s] = 1..Len(queue[s])
        /\ \A i \in 1..Len(queue[s]) : Wait(queue)[s][i] = queue[s][i][1]
    BY <1>5 DEF RunsIn
  <2> QED BY <2>2, <2>3, <2>4 DEF QP!Taken
<1>10. Outc(promise') =
         [r \in Runs |-> IF \E i \in DOMAIN Wait(queue)[s] : Wait(queue)[s][i] = r
                         THEN "answered" ELSE Outc(promise)[r]]
  <2>1. \A r \in Runs : promise'[SessionEntry(r)] =
          IF \E i \in DOMAIN Wait(queue)[s] : Wait(queue)[s][i] = r
          THEN "cleared" ELSE promise[SessionEntry(r)]
    BY <1>3, <1>9, RunShape
  <2> QED BY <2>1 DEF Outc
<1>11. S!Dismiss(s)
  BY ONLY <1>6, <1>7, <1>8, <1>10, AbstractActions
<1> QED BY <1>2, <1>11 DEF Serves, S!Next

\* A recovery of one session, or a restart of the gateway.
LEMMA ResetServes ==
  ASSUME RunIInv, NEW ls \in SUBSET AllLanes, QP!ResetLanes(ls), gatewayDraining' \in BOOLEAN,
         NEW ss, \A s \in Sessions : s \in ls <=> s \in ss
  PROVE  RunIInv' /\ S!TakeAway(ss)
PROOF
<1> DEFINE act == [l \in AllLanes |-> IF l \in ls THEN {} ELSE active[l]]
<1>1. RunIInv' /\ TakesUp(queue, act)
  BY ResetKeeps
<1>2. \A s \in Sessions : queue[s] \in Seq(RunEntries)
  BY SessionsAreLanes DEF RunIInv, QP!IInv, QP!TypeOK
<1>3. Outc(promise') = Outc(promise)
  BY DEF QP!ResetLanes
<1>4. Serv(act) = [z \in Sessions |-> IF z \in ss THEN {} ELSE Serv(active)[z]]
  <2>1. \A s \in Sessions : act[s] = IF s \in ss THEN {} ELSE active[s]
    BY SessionsAreLanes
  <2> HIDE DEF act
  <2>2. \A s \in Sessions : Serv(act)[s] = IF s \in ss THEN {} ELSE Serv(active)[s]
    BY <2>1 DEF Serv
  <2>3. Serv(act) = [z \in Sessions |-> Serv(act)[z]]
    BY DEF Serv
  <2> QED BY <2>2, <2>3
<1>5. ContinuesTo(Wait(queue), Serv(act), Wait(queue'), Serv(active'))
  <2> HIDE DEF act
  <2> QED BY ONLY <1>1, <1>2, ViewOfTurn
<1>6. S!TakeAway(ss)
  <2>1. ContinuesTo(Wait(queue), [z \in Sessions |-> IF z \in ss THEN {} ELSE Serv(active)[z]],
                    Wait(queue'), Serv(active'))
    BY <1>4, <1>5
  <2> QED BY ONLY <1>3, <2>1, AbstractActions
<1> QED BY <1>1, <1>6

\* The outermost entry of a run is never its turn.
LEMMA SubmitServes ==
  ASSUME RunIInv, NEW r \in Runs, Submit(r)
  PROVE  RunIInv' /\ Serves
PROOF
<1>1. Root(r) \in RunEntries /\ \A x \in Runs : Root(r) # Turn(x)
  BY RunShape
<1> QED BY <1>1, EnqueueServes DEF Submit

\* A task function submits the next entry of its run: the inner entry of a
\* session entry is the turn, and the session entry goes on running.
LEMMA DescendServes ==
  ASSUME RunIInv, NEW e \in RunEntries, Descend(e)
  PROVE  RunIInv' /\ Serves
PROOF
<1>1. Child(e) \in RunEntries
  BY ChildShape DEF Descend
<1>2. ASSUME NEW r \in Runs, Child(e) = Turn(r)
      PROVE  e = SessionEntry(r)
  <2>1. e[1] \in Runs /\ e[2] \in Nat /\ e = <<e[1], e[2]>>
    <3>1. e[1] \in Runs /\ e[2] \in 1..Len(Path(e[1])) /\ e = <<e[1], e[2]>>
      BY EntryShape
    <3>2. Len(Path(e[1])) \in {2, 3}
      BY <3>1, PathShape
    <3> QED BY <3>1, <3>2
  <2>2. SessionEntry(r) = <<r, SessionEntry(r)[2]>> /\ SessionEntry(r)[2] \in Nat
    BY DEF SessionEntry
  <2>3. Child(e) = Child(SessionEntry(r))
    BY <1>2, RunShape
  <2> QED BY <2>1, <2>2, <2>3 DEF Child
<1>3. \A r \in Runs : Child(e) = Turn(r) => body[SessionEntry(r)] = "running"
  BY <1>2 DEF Descend
<1> QED BY <1>1, <1>3, EnqueueServes DEF Descend

\* A task function ends; that of a session entry only once its turn is answered.
LEMMA ConcludeServes ==
  ASSUME RunIInv, NEW e \in RunEntries, Conclude(e)
  PROVE  RunIInv' /\ Serves
PROOF
<1>1. CASE QP!Finish(e)
  <2>1. /\ body[e] = "running" /\ promise[e] = "pending"
        /\ promise' = [promise EXCEPT ![e] = "settled"]
        /\ QP!Complete(e, [body EXCEPT ![e] = "done"])
        /\ UNCHANGED <<maxConcurrent, generation, gatewayDraining, waitSet>>
    BY <1>1 DEF QP!Finish
  <2>2. \A r \in Runs : e = SessionEntry(r) => promise[Turn(r)] # "pending"
    <3> SUFFICES ASSUME NEW r \in Runs, e = SessionEntry(r)
        PROVE  promise[Turn(r)] # "pending"
      OBVIOUS
    <3>1. ~ IsTurn(e) /\ Child(e) = Turn(r)
      BY RunShape, SessionLanes, PathShape
    <3> QED BY <3>1 DEF Conclude, MayConclude, Answered
  <2> DEFINE act == [active EXCEPT ![EntryLane[e]] = @ \ {e}]
  <2>3. RunIInv' /\ TakesUp(queue, act)
    BY <2>1, <2>2, CompleteKeeps
  <2> QED BY <2>1, <2>3, CompleteServes
<1>2. CASE QP!FinishLate(e)
  <2>1. RunIInv' /\ TakesUp(queue, active)
    BY <1>2, FinishLateKeeps
  <2>2. promise' = promise
    BY <1>2 DEF QP!FinishLate
  <2> QED BY <2>1, <2>2, ViewStutters DEF Serves
<1> QED BY <1>1, <1>2, SameEntryActions DEF Conclude

\* A lane timeout is a turn's, hence of a global lane.
LEMMA TimeoutServes ==
  ASSUME RunIInv, NEW e \in RunEntries, TimeoutFires(e)
  PROVE  RunIInv' /\ Serves
PROOF
<1>1. /\ e \in TimedTurns /\ body[e] = "running" /\ promise[e] = "pending"
      /\ promise' = [promise EXCEPT ![e] = "timedOut"]
      /\ QP!Complete(e, body)
      /\ UNCHANGED <<maxConcurrent, generation, gatewayDraining, waitSet>>
  BY SameEntryActions DEF TimeoutFires, QP!TimeoutFires
<1>2. \A r \in Runs : e # SessionEntry(r)
  BY <1>1, SessionLanes, RunShape, PathShape
<1> DEFINE act == [active EXCEPT ![EntryLane[e]] = @ \ {e}]
<1>3. RunIInv' /\ TakesUp(queue, act)
  BY <1>1, <1>2, CompleteKeeps
<1> QED BY <1>1, <1>3, CompleteServes

\* Interrupts, recoveries, reloads and restarts.
LEMMA GatewayServes ==
  ASSUME RunIInv, GatewayStep
  PROVE  RunIInv' /\ Serves
PROOF
<1>1. ASSUME NEW s \in Sessions, Recover(s) PROVE RunIInv' /\ Serves
  <2>1. QP!ResetLanes({s}) /\ gatewayDraining' = gatewayDraining
    BY <1>1, SameResetLanes DEF Recover, Q!ResetLane
  <2>2. gatewayDraining \in BOOLEAN
    BY DEF RunIInv, QP!IInv, QP!TypeOK
  <2>3. {s} \in SUBSET AllLanes
    BY SessionsAreLanes
  <2>4. RunIInv' /\ S!TakeAway({s})
    BY <2>1, <2>2, <2>3, ResetServes
  <2> QED BY <2>4 DEF Serves, S!Next
<1>2. CASE Restart
  <2>1. QP!ResetLanes(AllLanes) /\ gatewayDraining' \in BOOLEAN
    BY <1>2, SameResetLanes DEF Restart, Q!ResetAll
  <2>2. AllLanes \in SUBSET AllLanes /\ \A s \in Sessions : s \in AllLanes <=> s \in Sessions
    BY SessionsAreLanes
  <2>3. RunIInv' /\ S!TakeAway(Sessions)
    BY <2>1, <2>2, ResetServes
  <2> QED BY <2>3 DEF Serves, S!Next
<1>3. ASSUME NEW main \in GlobalWidths, NEW cron \in GlobalWidths, ApplyConcurrency(main, cron)
      PROVE  RunIInv' /\ Serves
  <2>1. RunIInv' /\ TakesUp(queue, active)
    BY <1>3, ApplyKeeps
  <2>2. promise' = promise
    BY <1>3 DEF ApplyConcurrency
  <2> QED BY <2>1, <2>2, ViewStutters DEF Serves
<1>4. ASSUME QP!IInv', UNCHANGED <<queue, active, maxConcurrent, promise, body>>
      PROVE  RunIInv' /\ Serves
  <2>1. RunIInv' /\ TakesUp(queue, active)
    BY <1>4, OthersKeep
  <2> QED BY <1>4, <2>1, ViewStutters DEF Serves
<1>5. CASE BeginDrain
  <2>1. QP!MarkDraining
    BY <1>5, SameLaneActions DEF BeginDrain
  <2>2. QP!IInv'
    BY <2>1, QP!MarkDrainingStep, LanesOfRuns DEF RunIInv
  <2>3. UNCHANGED <<queue, active, maxConcurrent, promise, body>>
    BY <2>1 DEF QP!MarkDraining, QP!entryVars
  <2> QED BY <1>4, <2>2, <2>3
<1>6. CASE AwaitDrain \/ DrainExpires
  <2>1. QP!WaitForActive(RestartWait) \/ QP!WaitExpires(RestartWait)
    BY <1>6, SameLaneActions DEF AwaitDrain, DrainExpires
  <2>2. QP!IInv'
    BY <2>1, QP!WaiterStep, LanesOfRuns DEF RunIInv
  <2>3. UNCHANGED <<queue, active, maxConcurrent, promise, body>>
    BY <2>1 DEF QP!WaitForActive, QP!WaitExpires, QP!entryVars, QP!laneVars
  <2> QED BY <1>4, <2>2, <2>3
<1> QED BY <1>1, <1>2, <1>3, <1>5, <1>6, InterruptServes DEF GatewayStep

\* A step that leaves the lanes alone.
LEMMA UnmovedServes ==
  ASSUME RunIInv, UNCHANGED <<queue, active, maxConcurrent, generation, gatewayDraining,
                              promise, body, startGen, waiter, waitSet>>
  PROVE  RunIInv' /\ Serves
PROOF
<1>1. QP!vars' = QP!vars
  BY DEF QP!vars, QP!laneVars, QP!entryVars, QP!waiterVars
<1>2. QP!IInv'
  BY <1>1, QP!NextPreserves, LanesOfRuns DEF RunIInv
<1>3. RunIInv' /\ TakesUp(queue, active)
  BY <1>2, OthersKeep
<1> QED BY <1>3, ViewStutters DEF Serves

\* Every step keeps the invariant and is a step of the sessions, or none.
LEMMA StepServes == RunIInv /\ [Next]_allVars => RunIInv' /\ Serves
PROOF
<1> SUFFICES ASSUME RunIInv, [Next]_allVars PROVE RunIInv' /\ Serves
  OBVIOUS
<1>1. ASSUME NEW r \in Runs, Abort(r) PROVE RunIInv' /\ Serves
  BY <1>1, UnmovedServes DEF Abort, laneVars
<1>2. CASE UNCHANGED allVars
  BY <1>2, UnmovedServes DEF allVars, laneVars
<1> QED BY <1>1, <1>2, SubmitServes, DescendServes, ConcludeServes, TimeoutServes, GatewayServes
        DEF Next, RunStep

\* The beginning.
LEMMA RunsBegin == Init => RunIInv /\ S!Init
PROOF
<1> SUFFICES ASSUME Init PROVE RunIInv /\ S!Init
  OBVIOUS
<1>1. QP!Init
  BY DEF Init, Q!Init, QP!Init
<1>2. QP!IInv
  BY <1>1, QP!InitEstablishes, LanesOfRuns
<1>3. OneEach(maxConcurrent, active) /\ TurnsSound(promise, body)
  BY <1>1, SessionsAreLanes, RunShape DEF QP!Init, OneEach, TurnsSound, QP!AtMostOne
<1>4. S!Init
  <2>1. /\ \A s \in Sessions : queue[s] = <<>> /\ active[s] = {}
        /\ \A r \in Runs : promise[SessionEntry(r)] = "none"
    BY <1>1, SessionsAreLanes, RunShape DEF QP!Init
  <2> QED BY <2>1 DEF S!Init
<1> QED BY <1>2, <1>3, <1>4 DEF RunIInv

-----------------------------------------------------------------------------
(* The theorems *)

\* run.ts "enqueueSession(() => enqueueGlobal(...))" on the command queue: the
\* invariant of the lanes holds for the lanes of the runs, session lanes run
\* one entry at a time, and a session entry runs as long as its turn is open.
THEOREM RunInvariance == Spec => []RunIInv
PROOF
<1>1. RunIInv /\ [Next]_allVars => RunIInv'
  BY StepServes
<1>2. Init => RunIInv
  BY RunsBegin
<1> QED BY <1>1, <1>2, PTL DEF Spec

\* run.ts: two turns of one session run side by side only if a lane of one of
\* them was released by its timeout or by a reset.
THEOREM SessionsAreSerial == Spec => []SessionSerial
PROOF
<1>1. RunIInv => SessionSerial
  <2> SUFFICES ASSUME RunIInv, NEW r1 \in Runs, NEW r2 \in Runs, r1 # r2,
                      SessionOf[r1] = SessionOf[r2],
                      body[Turn(r1)] = "running", body[Turn(r2)] = "running",
                      \A r \in {r1, r2} : \A i \in 1..Len(Path(r)) : ~ LetGo(<<r, i>>)
      PROVE  FALSE
    BY DEF SessionSerial
  <2>1. ASSUME NEW r \in {r1, r2}
        PROVE  SessionEntry(r) \in active[SessionOf[r]]
    <3>1. r \in Runs /\ body[Turn(r)] = "running"
      BY <2>1
    <3>2. /\ Turn(r) \in RunEntries /\ SessionEntry(r) \in RunEntries
          /\ EntryLane[SessionEntry(r)] = SessionOf[r] /\ SessionOf[r] \in Sessions
      BY <3>1, RunShape, PathShape
    <3>3. \A e \in RunEntries : e[1] = r => ~ LetGo(e)
      BY <2>1, EntryShape
    <3>4. ~ LetGo(Turn(r)) /\ ~ LetGo(SessionEntry(r))
      BY <3>1, <3>2, <3>3, RunShape
    <3>5. promise[Turn(r)] = "pending"
      BY <3>1, <3>2, <3>4 DEF RunIInv, TurnsSound, LetGo
    <3>6. body[SessionEntry(r)] = "running"
      BY <3>1, <3>5 DEF RunIInv, TurnsSound
    <3>7. promise[SessionEntry(r)] = "pending"
      BY <3>2, <3>4, <3>6 DEF RunIInv, TurnsSound, LetGo
    <3>8. startGen[SessionEntry(r)] = generation[SessionOf[r]]
      <4>1. /\ startGen[SessionEntry(r)] \in Nat /\ generation[SessionOf[r]] \in Nat
            /\ startGen[SessionEntry(r)] <= generation[SessionOf[r]]
        BY <3>2, SessionsAreLanes DEF RunIInv, QP!IInv, QP!TypeOK, QP!LaneInv, QP!ActiveSound
      <4> QED BY <3>2, <3>4, <4>1 DEF LetGo
    <3> QED BY <3>2, <3>6, <3>7, <3>8, SessionsAreLanes
            DEF RunIInv, QP!IInv, QP!LaneInv, QP!ActiveSound
  <2>2. SessionEntry(r1) = SessionEntry(r2)
    BY <2>1, PathShape DEF RunIInv, OneEach, QP!AtMostOne
  <2> QED BY <2>2, RunShape
<1> QED BY <1>1, RunInvariance, PTL

\* enqueueSession: the runs on their nested lanes implement SessionRuns - each
\* session serves its runs one at a time and in order, answers each once, and
\* changes hands early only by a recovery or a restart.
THEOREM SessionsAreServed == Spec => ServesSessions
PROOF
<1>1. RunIInv /\ [Next]_allVars => [S!Next]_(S!abstractVars)
  BY StepServes DEF Serves
<1>2. Init => S!Init
  BY RunsBegin
<1> QED BY <1>1, <1>2, RunInvariance, PTL DEF Spec, ServesSessions, S!Spec
=============================================================================
