---------------------------- MODULE FollowupQueue ----------------------------
(***************************************************************************)
(* The follow-up queue of one session: the messages that arrive while an   *)
(* agent turn of the session is running, what happens to them when the     *)
(* queue is full, and the drain that hands them to later turns.            *)
(*                                                                         *)
(* Source: src/src/auto-reply/reply/queue/{state,enqueue,drain,types,      *)
(* cleanup}.ts, the queue steps of src/src/utils/queue-helpers.ts, and     *)
(* what agent-runner.ts, followup-runner.ts and reply-run-registry.ts do   *)
(* to the queue and to the one reply operation of a session.               *)
(*                                                                         *)
(* An action is the code between two awaits.  A queue object may be        *)
(* replaced while its drain still runs (clearSessionQueues), so the module *)
(* keeps every object that the registry or a drain still refers to.  The   *)
(* fields lastRun, lastEnqueuedAt and the drain callbacks hold no control  *)
(* of their own: lastRun is set whenever there is something to summarise,  *)
(* the debounce is one wait of any length, and no caller in the gateway    *)
(* asks enqueueFollowupRun to restart an idle drain (restartIfIdle).       *)
(***************************************************************************)
EXTENDS Naturals, FiniteSets, SequencesExt

CONSTANTS
  Msgs,         \* the messages that may be queued
  RouteOf,      \* where a message came from (channel, peer, account, thread)
  Unroutable,   \* the route of a message whose channel cannot be answered
  SenderOf,     \* the authorization key of a message
  Solo,         \* messages with runtime-only metadata (lifecycle, abort signal)
  Abortable,    \* the ones whose abort signal may fire
  Redelivered,  \* messages a channel may deliver more than once
  Policies,     \* sets of the queue settings the messages of a session may
                \* carry: [mode, cap, drop]
  Queues,       \* the queue objects alive at once (a bound)
  Clears,       \* whether the session may be aborted or reset
  Foreign,      \* whether runs the reply agent did not start may be active
  MaxTurns,     \* the turns that start outside the queue (a bound)
  MaxFailures   \* the follow-up turns that throw (a bound)

ASSUME FollowupConstants ==
  /\ RouteOf \in [Msgs -> STRING] /\ SenderOf \in [Msgs -> STRING]
  /\ Solo \subseteq Msgs /\ Abortable \subseteq Solo
  /\ Redelivered \subseteq Msgs \ Solo
  /\ \A S \in Policies : S \subseteq [mode : {"followup", "collect"}, cap : Nat \ {0},
                                        drop : {"summarize", "old", "new"}]
  /\ Queues \subseteq Nat \ {0} /\ Clears \in BOOLEAN /\ Foreign \in BOOLEAN
  /\ MaxTurns \in Nat /\ MaxFailures \in Nat

VARIABLES
  registered,  \* the queue object the registry holds for the session, 0 if none
  queue,       \* the queue objects
  drain,       \* the drain of each queue object
  turn,        \* whether a turn of the reply agent holds the reply operation
  foreign,     \* whether another embedded run of the session is active
  policy,      \* the settings the messages of this session may carry
  aborted,     \* messages whose abort signal has fired
  recent,      \* message ids remembered for deduplication
  settled,     \* messages whose lifecycle callback onComplete has run
  fate,        \* history: what became of each message
  turns, failures

vars == <<registered, queue, drain, turn, foreign, policy, aborted, recent, settled,
          fate, turns, failures>>

-----------------------------------------------------------------------------
(* Queue objects and drains *)

NoQueue == 0

\* over: the messages dropped with drop = "summarize" since the last summary
\* (droppedCount is its length); lines: how many of the last ones still have a
\* summary line; sources: the ones whose lifecycle the summary will complete.
Blank == [items |-> <<>>, over |-> <<>>, lines |-> 0, sources |-> <<>>,
          mode |-> "followup", cap |-> 1, drop |-> "new"]

Idle == [pc |-> "off", at |-> 0, job |-> "none", hand |-> <<>>, rest |-> <<>>,
         told |-> <<>>, force |-> FALSE]

Empty(Q) == Q.items = <<>> /\ Q.over = <<>>

Behead(s, n) == SubSeq(s, n + 1, Len(s))

\* The reply operation of the session: one at a time, whoever holds it.
OpHeld == turn \/ \E q \in Queues : drain[q].pc = "running"

RunActive == OpHeld \/ foreign

\* A slot whose object neither the registry nor a drain refers to.
Unused == {q \in Queues : q # registered /\ drain[q].pc = "off"}

Without(Q) == [Q EXCEPT !.over = <<>>, !.lines = 0, !.sources = <<>>]

-----------------------------------------------------------------------------
(* What a drain does between two awaits *)

AbortedAt(Q, upTo) == {i \in 1..upTo : Q.items[i] \in aborted}

Discarding(Q, upTo, pc, force) ==
  LET i == Max(AbortedAt(Q, upTo)) IN
  [Idle EXCEPT !.pc = pc, !.at = i, !.hand = <<Q.items[i]>>, !.force = force]

\* The head of the while loop: leave it, or sweep and wait for the debounce.
Looped(Q, force) ==
  IF Empty(Q) THEN Idle
  ELSE IF AbortedAt(Q, Len(Q.items)) # {}
       THEN Discarding(Q, Len(Q.items), "sweep", force)
       ELSE [Idle EXCEPT !.pc = "debounce", !.force = force]

\* Messages of several routes, or any message whose channel has no route.
Cross(items) ==
  LET routes == {RouteOf[m] : m \in ToSet(items)} IN
  Unroutable \in routes \/ Cardinality(routes) > 1

Summary(Q) == IF Q.drop = "summarize" THEN Q.over ELSE <<>>

\* Deviation: a batch is not split by authorization.
OneGroup(items) == <<items>>

\* The places at which a stretch of messages with one authorization key begins,
\* and the members of a finite set of numbers in increasing order.
Starts(items) ==
  {i \in 1..Len(items) : i = 1 \/ SenderOf[items[i]] # SenderOf[items[i-1]]}

InOrder(S) ==
  CHOOSE c \in Bijection(1..Cardinality(S), S) :
    \A j, k \in 1..Cardinality(S) : j < k => c[j] < c[k]

\* Maximal stretches of messages with one authorization key.
AuthGroups(items) ==
  LET starts == InOrder(Starts(items))
      n      == Cardinality(Starts(items))
      end(k) == IF k = n THEN Len(items) ELSE starts[k+1] - 1
  IN  [k \in 1..n |-> SubSeq(items, starts[k], end(k))]

Turn(job, hand, rest, told, force) ==
  [Idle EXCEPT !.pc = "opening", !.job = job, !.hand = hand, !.rest = rest,
               !.told = told, !.force = force]

\* What the next follow-up turn carries; the drain starts over when nothing can
\* be run (the break of the loop, and the restart in its finally block).
Chosen(Q, force) ==
  LET individually == force \/ Cross(Q.items) \/ ToSet(Q.items) \cap Solo # {}
      groups == AuthGroups(Q.items)
  IN  CASE Q.items = <<>> /\ (Q.mode = "followup" \/ Summary(Q) = <<>>) ->
             Looped(Q, FALSE)
        [] Q.items = <<>> /\ Q.mode = "collect" /\ Summary(Q) # <<>> ->
             Turn("summary", <<>>, <<>>, Summary(Q), force)
        [] Q.items # <<>> /\ Q.mode = "collect" /\ individually ->
             Turn("item", <<Head(Q.items)>>, <<>>, <<>>, TRUE)
        [] Q.items # <<>> /\ Q.mode = "collect" /\ ~individually ->
             Turn("group", groups[1], Tail(groups), Summary(Q), force)
        [] Q.items # <<>> /\ Q.mode = "followup" /\ Summary(Q) # <<>> ->
             Turn("carry", <<Head(Q.items)>>, <<>>, Summary(Q), force)
        [] OTHER -> Turn("item", <<Head(Q.items)>>, <<>>, <<>>, force)

\* A sweep ran to its end: the first one is followed by the debounce, the
\* second one by the choice of the next turn.
Swept(Q, pc, force) ==
  IF Empty(Q) THEN Idle
  ELSE IF pc = "sweep" THEN [Idle EXCEPT !.pc = "debounce", !.force = force]
       ELSE Chosen(Q, force)

\* Deviation: the registry entry is deleted whatever object it holds.
DrainsAnyEntry(q, Q, D) ==
  /\ drain' = [drain EXCEPT ![q] = D]
  /\ registered' = IF D.pc = "off" THEN NoQueue ELSE registered
  /\ queue' = [queue EXCEPT ![q] = IF D.pc = "off" THEN Blank ELSE Q]

\* The drain of q goes on with contents Q to D.  A drain that ends finds its
\* queue empty, and deletes the registry entry only if it is still this object.
Drains(q, Q, D) ==
  /\ drain' = [drain EXCEPT ![q] = D]
  /\ registered' = IF D.pc = "off" /\ registered = q THEN NoQueue ELSE registered
  /\ queue' = [queue EXCEPT ![q] = IF D.pc = "off" THEN Blank ELSE Q]

\* scheduleFollowupDrain, when the registered object is q with contents Q.
Scheduled(q, Q) ==
  LET D == IF drain[q].pc = "off" THEN Looped(Q, FALSE) ELSE drain[q] IN
  /\ drain' = [drain EXCEPT ![q] = D]
  /\ registered' = IF D.pc = "off" THEN NoQueue ELSE q
  /\ queue' = [queue EXCEPT ![q] = IF D.pc = "off" THEN Blank ELSE Q]

\* Deviation: messages without a lifecycle are recorded as completed too.
SettleAll(ms) == settled' = settled \cup ms

Settle(ms) == settled' = settled \cup (ms \cap Solo)

Becomes(ms, what) == fate' = [m \in Msgs |-> IF m \in ms THEN what ELSE fate[m]]

Init ==
  /\ registered = NoQueue
  /\ queue = [q \in Queues |-> Blank] /\ drain = [q \in Queues |-> Idle]
  /\ turn = FALSE /\ foreign = FALSE /\ policy \in Policies
  /\ aborted = {} /\ recent = {} /\ settled = {}
  /\ fate = [m \in Msgs |-> "new"]
  /\ turns = 0 /\ failures = 0

-----------------------------------------------------------------------------
(* A message arrives behind a run *)

\* getFollowupQueue: the registered object with these settings, or a new one.
Configured(q, s) ==
  LET Q == IF q = registered THEN queue[q] ELSE Blank IN
  [Q EXCEPT !.mode = s.mode, !.cap = s.cap, !.drop = s.drop]

\* Deviation: only the remembered ids are checked, not the queue itself.
Remembered(Q, m) == m \in recent

Duplicate(Q, m) == m \in recent \/ m \in ToSet(Q.items)

\* Deviation: drop = "new" makes room like drop = "old".
NeverRefused(Q) == FALSE

\* applyQueueDropPolicy: whether the message is refused, and how many of the
\* oldest ones make room for it.
Refused(Q) == Len(Q.items) >= Q.cap /\ Q.drop = "new"
Overflow(Q) == IF Len(Q.items) >= Q.cap THEN Len(Q.items) - Q.cap + 1 ELSE 0

\* The messages whose summary line is no longer kept.
Trimmed(sources, lines) ==
  IF Len(sources) > lines THEN Len(sources) - lines ELSE 0

Accepted(Q, m) ==
  LET k == Overflow(Q)
      out == SubSeq(Q.items, 1, k)
      kept == Append(Behead(Q.items, k), m)
      lines == IF k = 0 THEN Q.lines ELSE Min({Q.lines + k, Q.cap})
      sources == Q.sources \o out
  IN  IF Q.drop # "summarize" THEN [Q EXCEPT !.items = kept]
      ELSE [Q EXCEPT !.items = kept, !.over = @ \o out, !.lines = lines,
                     !.sources = Behead(sources, Trimmed(sources, lines))]

\* The messages that leave for good when m is accepted: completed, untold.
Completed(Q, m) ==
  IF Q.drop = "summarize"
  THEN ToSet(Q.sources \o Q.items) \ ToSet(Accepted(Q, m).sources \o Accepted(Q, m).items)
  ELSE ToSet(SubSeq(Q.items, 1, Overflow(Q)))

\* enqueueFollowupRun, and the check right after it: the message was sent this
\* way because a run was active when it came in, which may no longer be so.
Enqueue(m, s) ==
  /\ turns > 0 \/ foreign
  /\ fate[m] = "new" \/ m \in Redelivered
  /\ \E q \in Queues :
       LET Q == Configured(q, s)
           ignored == m \in aborted
           full == ~ignored /\ ~Duplicate(Q, m) /\ Refused(Q)
           joins == ~ignored /\ ~Duplicate(Q, m) /\ ~Refused(Q)
           R == IF joins THEN Accepted(Q, m) ELSE IF ignored THEN queue[q] ELSE Q
       IN  /\ IF registered # NoQueue THEN q = registered
              ELSE Unused # {} /\ q = Min(Unused)
           /\ CASE ignored /\ registered = NoQueue ->
                     UNCHANGED <<registered, queue, drain>>
                [] RunActive /\ ~(ignored /\ registered = NoQueue) ->
                     /\ registered' = q
                     /\ queue' = [queue EXCEPT ![q] = R]
                     /\ UNCHANGED drain
                [] OTHER -> Scheduled(q, R)
           /\ recent' = IF joins THEN recent \cup ({m} \cap Redelivered) ELSE recent
           /\ IF joins THEN Settle(Completed(Q, m)) ELSE UNCHANGED settled
           /\ fate' = [n \in Msgs |->
                 IF n = m
                 THEN IF joins THEN "queued" ELSE IF fate[m] = "new" THEN "refused" ELSE fate[m]
                 ELSE IF joins /\ Q.drop = "old" /\ n \in Completed(Q, m)
                      THEN "gone" ELSE fate[n]]
  /\ UNCHANGED <<turn, foreign, aborted, policy, turns, failures>>

-----------------------------------------------------------------------------
(* The drain *)

\* A sweep removes what is now at the index of the message it has shown to the
\* runner, and forgets the summary with the last message.
SweptItems(Q, D) == IF D.at > Len(Q.items) THEN Q.items ELSE RemoveAt(Q.items, D.at)

AfterSweep(Q, D) ==
  IF SweptItems(Q, D) = <<>> THEN [Without(Q) EXCEPT !.items = <<>>]
  ELSE [Q EXCEPT !.items = SweptItems(Q, D)]

\* An aborted message has been shown to the runner, which only completes its
\* lifecycle.  The sweep goes on below its index.
Discard(q) ==
  LET D == drain[q]
      swept == SweptItems(queue[q], D)
      Q == AfterSweep(queue[q], D)
  IN  /\ D.pc \in {"sweep", "resweep"}
      /\ CASE D.at - 1 > Len(swept) ->
                \* no item at the next index: a TypeError, and the drain restarts
                Drains(q, queue[q], Looped(queue[q], FALSE))
           [] D.at - 1 <= Len(swept) /\ AbortedAt(Q, D.at - 1) # {} ->
                Drains(q, Q, Discarding(Q, D.at - 1, D.pc, D.force))
           [] OTHER -> Drains(q, Q, Swept(Q, D.pc, D.force))
      /\ Settle(ToSet(D.hand) \cup IF swept = <<>> THEN ToSet(queue[q].sources) ELSE {})
      /\ Becomes({m \in ToSet(D.hand) : fate[m] = "queued"}, "gone")
      /\ UNCHANGED <<turn, foreign, aborted, policy, recent, turns, failures>>

\* The debounce ends and the second sweep begins.
Debounced(q) ==
  LET Q == queue[q] IN
  /\ drain[q].pc = "debounce"
  /\ Drains(q, Q, IF AbortedAt(Q, Len(Q.items)) # {}
                  THEN Discarding(Q, Len(Q.items), "resweep", drain[q].force)
                  ELSE Swept(Q, "resweep", drain[q].force))
  /\ UNCHANGED <<turn, foreign, aborted, policy, recent, settled, fate, turns, failures>>

\* The runner gets the reply operation (createReplyOperation).
Open(q) ==
  /\ drain[q].pc = "opening" /\ ~OpHeld
  /\ drain' = [drain EXCEPT ![q].pc = "running"]
  /\ UNCHANGED <<registered, queue, turn, foreign, aborted, policy, recent, settled,
                 fate, turns, failures>>

\* Deviation: the runner leaves the lifecycle of its message open.
SettleSources(q) ==
  Settle(IF drain[q].told # <<>> THEN ToSet(queue[q].sources) ELSE {})

\* What the lifecycles of a turn that ends are told, however it ends: the
\* runner completes its message, the drain the sources of its summary.
SettleTurn(q) ==
  Settle(ToSet(drain[q].hand)
         \cup IF drain[q].told # <<>> THEN ToSet(queue[q].sources) ELSE {})

\* The turn ended well: what it was given leaves the head of the queue, and the
\* summary it was told is forgotten.
Served(Q, D) ==
  LET R == [Q EXCEPT !.items = Behead(@, Len(D.hand))] IN
  IF D.told # <<>> THEN Without(R) ELSE R

Finish(q) ==
  LET D == drain[q]
      Q == Served(queue[q], D)
      delivered == IF D.job = "carry" THEN {} ELSE ToSet(D.hand)
  IN  /\ D.pc = "running"
      /\ Drains(q, Q, IF D.rest # <<>>
                      THEN Turn("group", Head(D.rest), Tail(D.rest), <<>>, D.force)
                      ELSE Looped(Q, D.force))
      /\ SettleTurn(q)
      /\ fate' = [m \in Msgs |-> IF m \in delivered THEN "delivered"
                                 ELSE IF m \in ToSet(D.told) THEN "told" ELSE fate[m]]
      /\ UNCHANGED <<turn, foreign, aborted, policy, recent, turns, failures>>

\* Deviation: the message is taken off the queue even when its turn throws.
ThrowsAway(q) ==
  LET Q == Served(queue[q], drain[q])
  IN  /\ Drains(q, Q, Looped(Q, FALSE))
      /\ SettleTurn(q)
      /\ UNCHANGED <<turn, foreign, aborted, policy, recent, fate, turns>>

\* The turn throws: the drain gives up, and starts over with what is left.
Throws(q) ==
  LET D == drain[q]
      Q == IF D.told # <<>> THEN [queue[q] EXCEPT !.sources = <<>>] ELSE queue[q]
  IN  /\ Drains(q, Q, Looped(Q, FALSE))
      /\ SettleTurn(q)
      /\ UNCHANGED <<turn, foreign, aborted, policy, recent, fate, turns>>

\* ReplyRunAlreadyActiveError: another turn holds the reply operation.
Rejected(q) ==
  /\ drain[q].pc = "opening" /\ OpHeld
  /\ Throws(q)
  /\ UNCHANGED failures

Fail(q) ==
  /\ drain[q].pc = "running" /\ failures < MaxFailures
  /\ Throws(q)
  /\ failures' = failures + 1

-----------------------------------------------------------------------------
(* Turns, other runs, aborts and time *)

\* A message that found no run active starts a turn of its own.
StartTurn ==
  /\ ~OpHeld /\ turns < MaxTurns
  /\ turn' = TRUE /\ turns' = turns + 1
  /\ UNCHANGED <<registered, queue, drain, foreign, aborted, policy, recent, settled,
                 fate, failures>>

\* Deviation: a turn that ends drains nothing.
EndTurnOnly ==
  /\ turn /\ turn' = FALSE
  /\ UNCHANGED <<registered, queue, drain, foreign, aborted, policy, recent, settled,
                 fate, turns, failures>>

\* The turn ends: completeThen frees the reply operation, then drains.
EndTurn ==
  /\ turn /\ turn' = FALSE
  /\ IF registered = NoQueue THEN UNCHANGED <<registered, queue, drain>>
     ELSE Scheduled(registered, queue[registered])
  /\ UNCHANGED <<foreign, aborted, policy, recent, settled, fate, turns, failures>>

\* An embedded run that is not the reply agent's (a cron or command turn).
BeginForeign ==
  /\ Foreign /\ ~foreign /\ foreign' = TRUE
  /\ UNCHANGED <<registered, queue, drain, turn, aborted, policy, recent, settled,
                 fate, turns, failures>>

EndForeign ==
  /\ foreign /\ foreign' = FALSE
  /\ UNCHANGED <<registered, queue, drain, turn, aborted, policy, recent, settled,
                 fate, turns, failures>>

\* clearSessionQueues: a stop command, a session reset or a killed subagent.
Clear ==
  LET Q == queue[registered]
      left == {m \in ToSet(Q.items \o Q.over) : fate[m] = "queued"}
  IN  /\ Clears /\ registered # NoQueue
      /\ Settle(ToSet(Q.items \o Q.sources))
      /\ Becomes(left, "gone")
      /\ queue' = [queue EXCEPT ![registered] =
                     IF drain[registered].pc = "off" THEN Blank
                     ELSE [Without(Q) EXCEPT !.items = <<>>]]
      /\ registered' = NoQueue
      /\ UNCHANGED <<drain, turn, foreign, aborted, policy, recent, turns, failures>>

Abort(m) ==
  /\ m \in Abortable \ aborted
  /\ aborted' = aborted \cup {m}
  /\ UNCHANGED <<registered, queue, drain, turn, foreign, policy, recent, settled,
                 fate, turns, failures>>

\* A remembered message id expires.
Forget(m) ==
  /\ m \in recent
  /\ recent' = recent \ {m}
  /\ UNCHANGED <<registered, queue, drain, turn, foreign, aborted, policy, settled,
                 fate, turns, failures>>

Drain(q) == Discard(q) \/ Debounced(q) \/ Open(q) \/ Finish(q) \/ Rejected(q) \/ Fail(q)

Next ==
  \/ \E m \in Msgs, s \in policy : Enqueue(m, s)
  \/ \E q \in Queues : Drain(q)
  \/ StartTurn \/ EndTurn \/ BeginForeign \/ EndForeign \/ Clear
  \/ \E m \in Msgs : Abort(m) \/ Forget(m)

Spec == Init /\ [][Next]_vars

\* Every promise settles: timers fire, turns end (run.ts times them out).
Fairness ==
  /\ \A q \in Queues :
       WF_vars(Discard(q) \/ Debounced(q) \/ Open(q) \/ Finish(q) \/ Rejected(q))
  /\ WF_vars(EndTurn) /\ WF_vars(EndForeign)

FairSpec == Spec /\ Fairness

-----------------------------------------------------------------------------
(* Properties *)

Fates == {"new", "refused", "queued", "delivered", "told", "gone"}

TypeOK ==
  /\ registered \in Queues \cup {NoQueue}
  /\ \A q \in Queues :
       /\ queue[q].items \in Seq(Msgs) /\ queue[q].over \in Seq(Msgs)
       /\ queue[q].sources \in Seq(Msgs)
       /\ queue[q].lines \in 0..Len(queue[q].over)
       /\ drain[q].pc \in {"off", "sweep", "debounce", "resweep", "opening", "running"}
       /\ drain[q].job \in {"none", "item", "carry", "group", "summary"}
       /\ drain[q].hand \in Seq(Msgs) /\ drain[q].rest \in Seq(Seq(Msgs))
       /\ drain[q].told \in Seq(Msgs) /\ drain[q].force \in BOOLEAN
  /\ turn \in BOOLEAN /\ foreign \in BOOLEAN /\ policy \in Policies
  /\ aborted \subseteq Abortable /\ recent \subseteq Redelivered
  /\ settled \subseteq Solo /\ fate \in [Msgs -> Fates]
  /\ turns \in 0..MaxTurns /\ failures \in 0..MaxFailures

\* The messages the session still owes an answer to.
Pending ==
  IF registered = NoQueue THEN {}
  ELSE ToSet(queue[registered].items \o queue[registered].over)

\* A queue object that still holds messages is the registered one, so a drain
\* that restarts restarts its own queue, and a drain that ends after its queue
\* was replaced takes nothing of the new one with it (drain.ts:459-471).
RegisteredHolds ==
  \A q \in Queues : ~Empty(queue[q]) => registered = q

\* No accepted message is lost: until it is delivered, told in a summary, or let
\* go by an abort, a clear or drop = "old", the registered queue still has it.
Accounted == \A m \in Msgs : fate[m] = "queued" => m \in Pending

\* The groups follow one another in items, behind the first n messages.
Consecutive(items, n, groups) ==
  \E cut \in [0..Len(groups) -> 0..Len(items)] :
    /\ cut[0] = n
    /\ \A k \in 1..Len(groups) :
         cut[k-1] <= cut[k] /\ groups[k] = SubSeq(items, cut[k-1] + 1, cut[k])

\* What a turn carries is still at the head of the queue when the turn ends, and
\* what the later turns of the same batch will carry right behind it, so taking
\* that many messages off the head takes these (queue-helpers.ts:149-160,
\* drain.ts:413), unless the queue was cleared meanwhile.
HandIsHead ==
  \A q \in Queues : drain[q].pc \in {"opening", "running"} /\ registered = q =>
    /\ IsPrefix(drain[q].hand, queue[q].items)
    /\ Consecutive(queue[q].items, Len(drain[q].hand), drain[q].rest)

\* The messages of a turn and of the later turns of the same batch.
Batch(hand, rest) == ToSet(hand) \cup UNION {ToSet(rest[k]) : k \in 1..Len(rest)}

\* The messages handed to a turn come from one sender, and those of a batch from
\* one route, none with runtime-only metadata next to others.  A summary of
\* dropped messages, which may well be those of other senders and routes, goes
\* in collect mode only to a batch whose messages may all share a turn
\* (drain.ts:325-410).
MixedNeverMerged ==
  \A q \in Queues :
    LET D == drain[q]
        batch == Batch(D.hand, D.rest)
    IN  /\ \A m, n \in ToSet(D.hand) : SenderOf[m] = SenderOf[n]
        /\ \A m, n \in batch : m # n => RouteOf[m] = RouteOf[n] /\ {m, n} \cap Solo = {}
        /\ D.told # <<>> /\ D.job # "carry" =>
             \A m \in batch : m \notin Solo /\ RouteOf[m] # Unroutable

\* A redelivered message waits at most once (enqueue.ts:41-57).
OncePerQueue == \A q \in Queues : IsInjective(queue[q].items)

\* The lifecycle of a message that was accepted is completed once nobody is left
\* to complete it, so that its channel never waits for ever (types.ts:126-145).
LifecycleSettled ==
  \A m \in Solo : fate[m] \notin {"new", "refused"} => m \in settled \cup Pending

\* Somebody will drain the registered queue: its own drain, or the turn of the
\* reply agent, which schedules the drain when it ends.
Attended == turn \/ (registered # NoQueue /\ drain[registered].pc # "off")

Stranded == registered # NoQueue /\ ~Attended

\* A queue in followup mode whose last message was dropped into the summary: the
\* drain reschedules itself for ever and tells nobody (drain.ts:445-471).
OverflowOnly ==
  registered # NoQueue /\ queue[registered].mode = "followup"
  /\ queue[registered].items = <<>> /\ queue[registered].over # <<>>

\* Whatever ends, fails or is aborted at the same time, a queue that the reply
\* agent or a drain attends to is drained and its registry entry goes away
\* (drain.ts:457-471, agent-runner.ts:1206, 2186), unless only a summary is left
\* that followup mode never tells.  And a queue is left to nobody only by a
\* message that arrives behind a run the reply agent did not start, which
\* schedules no drain when it ends (attempt-execution.ts:595).
QueueDissolves ==
  /\ (registered # NoQueue /\ Attended) ~> (registered = NoQueue \/ OverflowOnly)
  /\ [][Stranded' => Stranded \/ foreign]_vars

=============================================================================
