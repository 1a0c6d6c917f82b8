------------------------- MODULE HeartbeatWakeProofs -------------------------
(***************************************************************************)
(* Proofs about the wake queue, for any targets, requests, delays, runners *)
(* and batches.  WakeInv is the inductive invariant: types, the two        *)
(* properties that are inductive beside them (NoStall, WakeKept), and what *)
(* keeps batches apart: a batch that is not the current handler's, or that *)
(* is at work although the running flag is down, was there when the        *)
(* current handler registered.                                             *)
(***************************************************************************)
EXTENDS HeartbeatWake, TLAPS

Wakes == [Targets -> Priorities \cup {NoWake}]
Timers == [kind : {"none", "normal", "retry"}, left : Nat, delay : Nat]
Batches == [by : Handlers, batch : Wakes, rest : SUBSET Targets, cur : Targets,
            void : BOOLEAN, delay : Nat, covers : SUBSET Requests]

Types ==
  /\ pending \in Wakes
  /\ timer \in Timers /\ timer.left <= timer.delay
  /\ scheduled \in BOOLEAN /\ running \in BOOLEAN
  /\ handler \in started \cup {0} /\ handler \notin stopped
  /\ started \subseteq Handlers /\ stopped \subseteq started
  /\ errors \in 0..MaxErrors
  /\ waiting \subseteq asked /\ asked \subseteq Requests
  /\ overlaid \subseteq started
  /\ loops \in [Slots -> Batches \cup {Free}]

BatchesSound ==
  \A l \in Busy : /\ loops[l].by \in started
                  /\ loops[l].cur \in loops[l].rest
                  /\ loops[l].rest \subseteq Queued(loops[l].batch)

\* A batch of an earlier handler, and any batch the flag does not show, makes
\* the present handler one that was laid over a running batch.
Overlays ==
  \A l \in Busy :
    handler # 0 /\ (loops[l].by # handler \/ ~ running) => handler \in overlaid

\* A timer is armed for a wake, and never forgotten when it was put off.
TimerHasWork ==
  /\ timer.kind # "none" => Queued(pending) # {}
  /\ scheduled => timer.kind # "none"

WakeInv ==
  Types /\ TimerHasWork /\ BatchesSound /\ Overlays /\ BatchesApart /\ NoStall /\ WakeKept

-----------------------------------------------------------------------------
(* The operators *)

\* A timer that is armed is a timer.
LEMMA ArmedType ==
  ASSUME NEW delay \in Nat, NEW k \in {"normal", "retry"}
  PROVE  /\ Armed(delay, k) \in Timers
         /\ Armed(delay, k).left <= Armed(delay, k).delay
         /\ Armed(delay, k).kind # "none"
BY DEF Armed, Timers

\* schedule leaves a timer armed whatever was there.
LEMMA ScheduledArms ==
  ASSUME NEW T \in Timers, T.left <= T.delay, NEW delay \in Nat, NEW k \in {"normal", "retry"}
  PROVE  /\ Scheduled(T, delay, k) \in Timers
         /\ Scheduled(T, delay, k).left <= Scheduled(T, delay, k).delay
         /\ Scheduled(T, delay, k).kind # "none"
BY ArmedType DEF Scheduled, Timers

\* Merging never lowers the priority of a wake, and queues the new one at
\* least at its own.
LEMMA MergeRaises ==
  ASSUME NEW wakes \in Wakes, NEW t \in Targets, NEW p \in Priorities
  PROVE  /\ Merge(wakes, t, p) \in Wakes
         /\ Merge(wakes, t, p)[t] >= p
         /\ \A u \in Targets : Merge(wakes, t, p)[u] >= wakes[u]
         /\ t \in Queued(Merge(wakes, t, p))
BY DEF Merge, Wakes, Priorities, NoWake, Queued

\* A batch is not a free slot.
LEMMA BatchIsNotFree == \A b \in Batches : b # Free
<1> SUFFICES ASSUME NEW b \in Batches, b = Free PROVE FALSE
  OBVIOUS
<1>1. b.by = 0
  BY DEF Free
<1>2. b.by \in Handlers
  BY DEF Batches
<1> QED BY <1>1, <1>2 DEF Handlers

\* A batch that goes on is a batch, of the same handler and with the same
\* wakes.
LEMMA OnwardBatch ==
  ASSUME NEW b \in Batches, NEW rest \in SUBSET Targets, NEW t \in rest
  PROVE  /\ Onward(b, rest, t) \in Batches /\ Onward(b, rest, t) # Free
         /\ Onward(b, rest, t).by = b.by /\ Onward(b, rest, t).batch = b.batch
         /\ Onward(b, rest, t).covers = b.covers
         /\ Onward(b, rest, t).rest = rest /\ Onward(b, rest, t).cur = t
<1>1. t \in Targets
  OBVIOUS
<1>2. /\ Onward(b, rest, t) \in Batches
      /\ Onward(b, rest, t).by = b.by /\ Onward(b, rest, t).batch = b.batch
      /\ Onward(b, rest, t).covers = b.covers
      /\ Onward(b, rest, t).rest = rest /\ Onward(b, rest, t).cur = t
  BY <1>1 DEF Batches, Onward
<1> QED BY <1>2, BatchIsNotFree

\* A batch goes on with one of the wakes that are left.
GoesOn(l, rest) ==
  /\ running' = running
  /\ \E c \in Batches :
       /\ loops' = [loops EXCEPT ![l] = c]
       /\ c # Free /\ c.by = loops[l].by /\ c.batch = loops[l].batch
       /\ c.covers = loops[l].covers /\ c.rest = rest /\ c.cur \in rest

\* It ends: its slot is free, the flag is down, and what is pending has a timer.
Ends(l, rest) ==
  /\ running' = FALSE /\ rest = {}
  /\ loops' = [loops EXCEPT ![l] = Free]
  /\ Queued(pending') # {} => timer'.kind # "none"

\* It does one or the other.
LEMMA Continued ==
  ASSUME Types, NEW l \in Busy, NEW rest \in SUBSET Targets, NEW wakes \in Wakes,
         NEW T \in Timers, T.left <= T.delay,
         Continue(l, rest, wakes, T)
  PROVE  /\ pending' = wakes
         /\ timer' \in Timers /\ timer'.left <= timer'.delay
         /\ T.kind # "none" => timer'.kind # "none"
         /\ timer'.kind # "none" => T.kind # "none" \/ Queued(wakes) # {} \/ scheduled
         /\ GoesOn(l, rest) \/ Ends(l, rest)
         /\ UNCHANGED <<handler, started, stopped, overlaid>>
<1>1. l \in Slots /\ loops[l] \in Batches /\ loops[l].delay \in Nat
  BY DEF Busy, Types, Batches
<1>2. CASE rest # {}
  <2>1. PICK t \in rest : loops' = [loops EXCEPT ![l] = Onward(loops[l], rest, t)]
    BY <1>2 DEF Continue
  <2>5. /\ Onward(loops[l], rest, t) \in Batches /\ Onward(loops[l], rest, t) # Free
        /\ Onward(loops[l], rest, t).by = loops[l].by
        /\ Onward(loops[l], rest, t).batch = loops[l].batch
        /\ Onward(loops[l], rest, t).covers = loops[l].covers
        /\ Onward(loops[l], rest, t).rest = rest /\ Onward(loops[l], rest, t).cur = t
    BY <1>1, OnwardBatch
  <2> QED BY <1>2, <2>1, <2>5 DEF Continue, GoesOn
<1>3. CASE rest = {}
  <2>1. Scheduled(T, loops[l].delay, "normal") \in Timers
        /\ Scheduled(T, loops[l].delay, "normal").left <= Scheduled(T, loops[l].delay, "normal").delay
        /\ Scheduled(T, loops[l].delay, "normal").kind # "none"
    BY <1>1, ScheduledArms
  <2> QED BY <1>3, <2>1 DEF Continue, Ends
<1> QED BY <1>2, <1>3

-----------------------------------------------------------------------------
(* The steps *)

\* What a batch does between two calls of the handler keeps the invariant, when
\* what it takes off its rest is answered or queued again.
LEMMA ContinueKeeps ==
  ASSUME WakeInv, NEW l \in Busy, NEW rest \in SUBSET loops[l].rest, NEW wakes \in Wakes,
         NEW T \in Timers, T.left <= T.delay,
         Continue(l, rest, wakes, T),
         \A u \in Targets : wakes[u] >= pending[u],
         timer.kind # "none" => T.kind # "none", T.kind # "none" => Queued(wakes) # {},
         waiting' \subseteq waiting, errors' \in 0..MaxErrors,
         \A r \in waiting' :
           r \in loops[l].covers /\ TargetOf[r] \in loops[l].rest \ rest
             => wakes[TargetOf[r]] >= loops[l].batch[TargetOf[r]]
  PROVE  WakeInv'
<1> USE DEF WakeInv
<1>1. l \in Slots /\ loops[l] \in Batches /\ rest \in SUBSET Targets
  BY DEF Busy, Types, Batches
<1>2. /\ pending' = wakes
      /\ timer' \in Timers /\ timer'.left <= timer'.delay
      /\ T.kind # "none" => timer'.kind # "none"
      /\ timer'.kind # "none" => T.kind # "none" \/ Queued(wakes) # {} \/ scheduled
      /\ GoesOn(l, rest) \/ Ends(l, rest)
      /\ UNCHANGED <<handler, started, stopped, overlaid>>
  BY <1>1, Continued
<1>3. scheduled' = scheduled /\ asked' = asked
  BY DEF Continue
<1>w. TimerHasWork'
  BY <1>2, <1>3 DEF TimerHasWork, Queued
<1>t. \A r \in waiting : TargetOf[r] \in Targets /\ PriorityOf[r] \in Int
  BY WakeConstants DEF WakeConstants, Types, Priorities
<1>v. \A u \in Targets : wakes[u] \in Int /\ pending[u] \in Int
  BY DEF Types, Wakes, Priorities, NoWake
<1>b. \A b \in Batches : \A u \in Targets : b.batch[u] \in Int
  BY DEF Batches, Wakes, Priorities, NoWake
<1>4. CASE GoesOn(l, rest)
  <2>1. PICK c \in Batches :
          /\ loops' = [loops EXCEPT ![l] = c]
          /\ c # Free /\ c.by = loops[l].by /\ c.batch = loops[l].batch
          /\ c.covers = loops[l].covers /\ c.rest = rest /\ c.cur \in rest
    BY <1>4 DEF GoesOn
  <2>2. /\ loops' \in [Slots -> Batches \cup {Free}]
        /\ loops'[l] = c /\ \A k \in Slots : k # l => loops'[k] = loops[k]
    BY <1>1, <2>1 DEF Types
  <2>3. Busy' = Busy
    BY <1>1, <2>1, <2>2 DEF Busy
  <2>r. running' = running
    BY <1>4 DEF GoesOn
  <2>4. Types'
    BY <1>2, <1>3, <2>r, <2>2 DEF Types
  <2>5. BatchesSound'
    BY <1>1, <1>2, <2>1, <2>2, <2>3 DEF BatchesSound, Queued, Busy
  <2>6. Overlays'
    BY <1>2, <2>r, <2>1, <2>2, <2>3 DEF Overlays, Busy
  <2>7. BatchesApart'
    BY <1>2, <2>1, <2>2, <2>3 DEF BatchesApart, Busy
  <2>8. NoStall'
    BY <2>3 DEF NoStall
  <2>9. WakeKept'
    <3> SUFFICES ASSUME NEW r \in waiting'
                 PROVE  \/ wakes[TargetOf[r]] >= PriorityOf[r]
                        \/ \E k \in Busy : /\ TargetOf[r] \in loops'[k].rest
                                           /\ r \in loops'[k].covers
                                           /\ loops'[k].batch[TargetOf[r]] >= PriorityOf[r]
      BY <1>2, <2>3 DEF WakeKept
    <3>1. CASE pending[TargetOf[r]] >= PriorityOf[r]
      BY <3>1, <1>t, <1>v
    <3>2. CASE \E k \in Busy : /\ TargetOf[r] \in loops[k].rest
                               /\ r \in loops[k].covers
                               /\ loops[k].batch[TargetOf[r]] >= PriorityOf[r]
      <4>1. PICK k \in Busy : /\ TargetOf[r] \in loops[k].rest
                              /\ r \in loops[k].covers
                              /\ loops[k].batch[TargetOf[r]] >= PriorityOf[r]
        BY <3>2
      <4>2. CASE k # l
        BY <4>1, <4>2, <2>2 DEF Busy
      <4>3. CASE k = l /\ TargetOf[r] \in rest
        BY <4>1, <4>3, <2>1, <2>2
      <4>4. CASE k = l /\ TargetOf[r] \notin rest
        <5>1. wakes[TargetOf[r]] >= loops[l].batch[TargetOf[r]]
          BY <4>1, <4>4
        <5> QED BY <4>1, <4>4, <5>1, <1>1, <1>t, <1>v, <1>b
      <4> QED BY <4>2, <4>3, <4>4
    <3> QED BY <3>1, <3>2 DEF WakeKept
  <2> QED BY <1>w, <2>4, <2>5, <2>6, <2>7, <2>8, <2>9
<1>5. CASE Ends(l, rest)
  <2> USE <1>5 DEF Ends
  <2>2. /\ loops' \in [Slots -> Batches \cup {Free}]
        /\ loops'[l] = Free /\ \A k \in Slots : k # l => loops'[k] = loops[k]
    BY <1>1, <1>5 DEF Types
  <2>3. Busy' = Busy \ {l}
    BY <1>1, <2>2 DEF Busy
  <2>4. Types'
    BY <1>2, <1>3, <1>5, <2>2 DEF Types
  <2>5. BatchesSound'
    BY <1>2, <2>2, <2>3 DEF BatchesSound, Queued, Busy
  <2>6. Overlays'
    <3> SUFFICES ASSUME NEW k \in Busy, k # l, handler # 0 PROVE handler \in overlaid
      BY <1>2, <2>2, <2>3 DEF Overlays, Busy
    <3>1. CASE loops[k].by # handler \/ loops[l].by # handler
      BY <3>1 DEF Overlays
    <3>2. CASE loops[k].by = handler /\ loops[l].by = handler
      BY <3>2 DEF BatchesApart
    <3> QED BY <3>1, <3>2
  <2>7. BatchesApart'
    BY <1>2, <2>2, <2>3 DEF BatchesApart, Busy
  <2>8. NoStall'
    BY <1>5 DEF NoStall
  <2>9. WakeKept'
    <3> SUFFICES ASSUME NEW r \in waiting'
                 PROVE  \/ wakes[TargetOf[r]] >= PriorityOf[r]
                        \/ \E k \in Busy \ {l} :
                             /\ TargetOf[r] \in loops'[k].rest
                             /\ r \in loops'[k].covers
                             /\ loops'[k].batch[TargetOf[r]] >= PriorityOf[r]
      BY <1>2, <2>3 DEF WakeKept
    <3>1. CASE pending[TargetOf[r]] >= PriorityOf[r]
      BY <3>1, <1>t, <1>v
    <3>2. CASE \E k \in Busy : /\ TargetOf[r] \in loops[k].rest
                               /\ r \in loops[k].covers
                               /\ loops[k].batch[TargetOf[r]] >= PriorityOf[r]
      <4>1. PICK k \in Busy : /\ TargetOf[r] \in loops[k].rest
                              /\ r \in loops[k].covers
                              /\ loops[k].batch[TargetOf[r]] >= PriorityOf[r]
        BY <3>2
      <4>2. CASE k # l
        BY <4>1, <4>2, <2>2 DEF Busy
      <4>4. CASE k = l
        <5>1. wakes[TargetOf[r]] >= loops[l].batch[TargetOf[r]]
          BY <4>1, <4>4, <1>5
        <5> QED BY <4>1, <4>4, <5>1, <1>1, <1>t, <1>v, <1>b
      <4> QED BY <4>2, <4>4
    <3> QED BY <3>1, <3>2 DEF WakeKept
  <2> QED BY <1>w, <2>4, <2>5, <2>6, <2>7, <2>8, <2>9
<1> QED BY <1>2, <1>4, <1>5

\* The wakes that are pending become a batch: each request still to be answered
\* passes from the one to the other.
LEMMA FireKeeps ==
  ASSUME WakeInv, NEW l \in Slots, NEW t \in Targets, Fire(l, t)
  PROVE  WakeInv'
<1> DEFINE b == [by |-> handler, batch |-> pending, rest |-> Queued(pending), cur |-> t,
                 void |-> FALSE, delay |-> timer.delay, covers |-> waiting]
<1> USE DEF WakeInv
<1>1. b \in Batches /\ b # Free
  <2>1. handler \in Handlers /\ timer.delay \in Nat /\ waiting \in SUBSET Requests
          /\ Queued(pending) \in SUBSET Targets /\ pending \in Wakes
    BY DEF Fire, Types, Timers, Queued
  <2>2. b \in Batches
    BY <2>1 DEF Batches
  <2> QED BY <2>2, BatchIsNotFree
<1>2. /\ loops' = [loops EXCEPT ![l] = b] /\ loops[l] = Free
      /\ b.by = handler /\ b.batch = pending /\ b.rest = Queued(pending)
      /\ b.covers = waiting /\ b.cur = t /\ t \in Queued(pending)
      /\ handler # 0 /\ ~ running /\ running' = TRUE
  BY DEF Fire
<1> HIDE DEF b
<1>3. /\ loops' \in [Slots -> Batches \cup {Free}]
      /\ loops'[l] = b /\ \A k \in Slots : k # l => loops'[k] = loops[k]
  BY <1>1, <1>2 DEF Types
<1>4. Busy' = Busy \cup {l} /\ l \notin Busy
  BY <1>1, <1>2, <1>3 DEF Busy
<1>5. /\ pending' = [u \in Targets |-> NoWake] /\ timer' = NoTimer
      /\ UNCHANGED <<handler, started, stopped, waiting, overlaid, errors, asked>>
      /\ scheduled' = FALSE
  BY DEF Fire
<1>6. Types'
  <2>1. pending' \in Wakes /\ timer' \in Timers /\ timer'.left <= timer'.delay
    BY <1>5 DEF Wakes, Timers, NoTimer
  <2> QED BY <1>2, <1>3, <1>5, <2>1 DEF Types
<1>7. BatchesSound'
  BY <1>2, <1>3, <1>4, <1>5 DEF BatchesSound, Types, Busy, Queued
<1>8. Overlays'
  BY <1>2, <1>3, <1>4, <1>5 DEF Overlays, Busy
<1>9. BatchesApart'
  BY <1>2, <1>3, <1>4, <1>5 DEF BatchesApart, Overlays, Busy
<1>10. NoStall'
  BY <1>4 DEF NoStall
<1>11. WakeKept'
  <2> SUFFICES ASSUME NEW r \in waiting
               PROVE  \E k \in Busy \cup {l} :
                        /\ TargetOf[r] \in loops'[k].rest
                        /\ r \in loops'[k].covers
                        /\ loops'[k].batch[TargetOf[r]] >= PriorityOf[r]
    BY <1>4, <1>5 DEF WakeKept
  <2>1. TargetOf[r] \in Targets /\ PriorityOf[r] \in Nat /\ pending[TargetOf[r]] \in Int
    BY WakeConstants DEF WakeConstants, Types, Priorities, Wakes, NoWake
  <2>2. CASE pending[TargetOf[r]] >= PriorityOf[r]
    BY <1>2, <1>3, <2>1, <2>2 DEF Queued, NoWake
  <2>3. CASE \E k \in Busy : /\ TargetOf[r] \in loops[k].rest
                             /\ r \in loops[k].covers
                             /\ loops[k].batch[TargetOf[r]] >= PriorityOf[r]
    BY <1>3, <1>4, <2>3 DEF Busy
  <2> QED BY <2>2, <2>3 DEF WakeKept
<1>12. TimerHasWork'
  BY <1>5 DEF TimerHasWork, NoTimer
<1> QED BY <1>6, <1>7, <1>8, <1>9, <1>10, <1>11, <1>12

\* The handler is done with a wake: the requests it answers are those its batch
\* covers.
LEMMA RanKeeps ==
  ASSUME WakeInv, NEW l \in Slots, Ran(l)
  PROVE  WakeInv'
<1> DEFINE rest == loops[l].rest \ {loops[l].cur}
<1>1. l \in Busy /\ Continue(l, rest, pending, timer) /\ errors' = errors
      /\ waiting' = waiting \ {r \in loops[l].covers : TargetOf[r] = loops[l].cur}
  BY DEF Ran
<1>2. pending \in Wakes /\ timer \in Timers /\ timer.left <= timer.delay
      /\ errors \in 0..MaxErrors
  BY DEF WakeInv, Types
<1>3. \A u \in Targets : pending[u] >= pending[u]
  BY <1>2 DEF Wakes, Priorities, NoWake
<1>4. waiting' \subseteq waiting /\ rest \in SUBSET loops[l].rest
  BY <1>1
<1>5. \A r \in waiting' :
        r \in loops[l].covers /\ TargetOf[r] \in loops[l].rest \ rest
          => pending[TargetOf[r]] >= loops[l].batch[TargetOf[r]]
  BY <1>1
<1>6. timer.kind # "none" => Queued(pending) # {}
  BY DEF WakeInv, TimerHasWork
<1> QED
  BY <1>1, <1>2, <1>3, <1>4, <1>5, <1>6, ContinueKeeps

\* The wake of a busy target goes back to the queue at its own priority.
LEMMA SkippedKeeps ==
  ASSUME WakeInv, NEW l \in Slots, SkippedBusy(l)
  PROVE  WakeInv'
<1> DEFINE cur == loops[l].cur
           rest == loops[l].rest \ {cur}
           wakes == Merge(pending, cur, loops[l].batch[cur])
           T == Scheduled(timer, DEFAULT_RETRY, "retry")
<1>1. l \in Busy /\ Continue(l, rest, wakes, T) /\ errors' = errors /\ waiting' = waiting
  BY DEF SkippedBusy
<1>2. /\ pending \in Wakes /\ timer \in Timers /\ timer.left <= timer.delay
      /\ errors \in 0..MaxErrors /\ loops[l] \in Batches /\ cur \in Queued(loops[l].batch)
  BY <1>1 DEF WakeInv, Types, BatchesSound, Busy
<1>3. cur \in Targets /\ loops[l].batch[cur] \in Priorities
  BY <1>2 DEF Queued, Batches, Wakes, NoWake
<1>4. /\ wakes \in Wakes /\ wakes[cur] >= loops[l].batch[cur] /\ Queued(wakes) # {}
      /\ \A u \in Targets : wakes[u] >= pending[u]
  BY <1>2, <1>3, MergeRaises
<1>5. T \in Timers /\ T.left <= T.delay /\ T.kind # "none"
  BY <1>2, ScheduledArms, WakeConstants DEF WakeConstants
<1>6. waiting' \subseteq waiting /\ rest \in SUBSET loops[l].rest
  BY <1>1
<1>7. \A r \in waiting' :
        r \in loops[l].covers /\ TargetOf[r] \in loops[l].rest \ rest
          => wakes[TargetOf[r]] >= loops[l].batch[TargetOf[r]]
  BY <1>4
<1> HIDE DEF wakes, T, rest, cur
<1> QED
  BY <1>1, <1>2, <1>4, <1>5, <1>6, <1>7, ContinueKeeps

\* After an error every wake of the batch goes back.
LEMMA ThrewKeeps ==
  ASSUME WakeInv, NEW l \in Slots, Threw(l)
  PROVE  WakeInv'
<1> DEFINE wakes == [t \in Targets |-> IF loops[l].batch[t] = NoWake THEN pending[t]
                                       ELSE Merge(pending, t, loops[l].batch[t])[t]]
           T == Scheduled(timer, DEFAULT_RETRY, "retry")
<1>1. l \in Busy /\ Continue(l, {}, wakes, T) /\ errors' \in 0..MaxErrors /\ waiting' = waiting
  BY WakeConstants DEF Threw, WakeConstants, WakeInv, Types
<1>2. /\ pending \in Wakes /\ timer \in Timers /\ timer.left <= timer.delay
      /\ loops[l] \in Batches /\ loops[l].rest \subseteq Queued(loops[l].batch)
  BY <1>1 DEF WakeInv, Types, BatchesSound, Busy
<1>3. \A t \in Targets :
        /\ loops[l].batch[t] # NoWake => loops[l].batch[t] \in Priorities
        /\ pending[t] \in Priorities \cup {NoWake}
  BY <1>2 DEF Batches, Wakes
<1>4. ASSUME NEW t \in Targets
      PROVE  /\ wakes[t] \in Priorities \cup {NoWake} /\ wakes[t] >= pending[t]
             /\ loops[l].batch[t] # NoWake => wakes[t] >= loops[l].batch[t]
  <2>1. CASE loops[l].batch[t] = NoWake
    BY <1>3, <2>1 DEF Priorities, NoWake
  <2>2. CASE loops[l].batch[t] # NoWake
    <3>1. /\ Merge(pending, t, loops[l].batch[t]) \in Wakes
          /\ Merge(pending, t, loops[l].batch[t])[t] >= loops[l].batch[t]
          /\ Merge(pending, t, loops[l].batch[t])[t] >= pending[t]
      BY <1>2, <1>3, <2>2, MergeRaises
    <3>2. wakes[t] = Merge(pending, t, loops[l].batch[t])[t]
      BY <2>2
    <3> QED BY <3>1, <3>2 DEF Wakes
  <2> QED BY <2>1, <2>2
<1>5. wakes \in Wakes /\ \A u \in Targets : wakes[u] >= pending[u]
  BY <1>4 DEF Wakes
<1>6. T \in Timers /\ T.left <= T.delay /\ T.kind # "none"
  BY <1>2, ScheduledArms, WakeConstants DEF WakeConstants
<1>7. waiting' \subseteq waiting /\ {} \in SUBSET loops[l].rest
  BY <1>1
<1>8. \A r \in waiting' :
        r \in loops[l].covers /\ TargetOf[r] \in loops[l].rest \ {}
          => wakes[TargetOf[r]] >= loops[l].batch[TargetOf[r]]
  BY <1>2, <1>4 DEF Queued
<1>9. Queued(wakes) # {}
  <2>1. loops[l].cur \in loops[l].rest
    BY <1>1 DEF WakeInv, BatchesSound
  <2>2. loops[l].cur \in Targets /\ loops[l].batch[loops[l].cur] # NoWake
    BY <1>2, <2>1 DEF Queued
  <2>3. loops[l].batch[loops[l].cur] \in 0..3
    BY <1>3, <2>2 DEF Priorities
  <2>4. wakes[loops[l].cur] >= loops[l].batch[loops[l].cur]
    BY <1>4, <2>2
  <2>5. wakes[loops[l].cur] \in (0..3) \cup {-1}
    BY <1>4, <2>2 DEF Priorities, NoWake
  <2> HIDE DEF wakes
  <2>6. wakes[loops[l].cur] # -1
    BY <2>3, <2>4, <2>5
  <2> QED BY <2>2, <2>6 DEF Queued, NoWake
<1> HIDE DEF wakes, T
<1> QED
  BY <1>1, <1>5, <1>6, <1>7, <1>8, <1>9, ContinueKeeps

\* A request is merged into what is pending and the timer is armed.
LEMMA RequestKeeps ==
  ASSUME WakeInv, NEW r \in Requests, Request(r)
  PROVE  WakeInv'
<1>1. /\ TargetOf[r] \in Targets /\ PriorityOf[r] \in Priorities /\ DelayOf[r] \in Nat
      /\ pending \in Wakes /\ timer \in Timers /\ timer.left <= timer.delay
  BY WakeConstants DEF WakeConstants, WakeInv, Types
<1>2. /\ pending' = Merge(pending, TargetOf[r], PriorityOf[r])
      /\ timer' = Scheduled(timer, DelayOf[r], "normal")
      /\ asked' = asked \cup {r} /\ waiting' = waiting \cup {r}
      /\ UNCHANGED <<scheduled, running, handler, loops, started, stopped, overlaid, errors>>
  BY DEF Request
<1>3. /\ pending' \in Wakes /\ pending'[TargetOf[r]] >= PriorityOf[r]
      /\ \A u \in Targets : pending'[u] >= pending[u]
  BY <1>1, <1>2, MergeRaises
<1>4. timer' \in Timers /\ timer'.left <= timer'.delay /\ timer'.kind # "none"
  BY <1>1, <1>2, ScheduledArms
<1>5. Types' /\ Busy' = Busy
  BY <1>2, <1>3, <1>4 DEF WakeInv, Types, Busy
<1>6. BatchesSound' /\ Overlays' /\ BatchesApart' /\ NoStall'
  BY <1>2, <1>4, <1>5 DEF WakeInv, BatchesSound, Overlays, BatchesApart, NoStall, Queued
<1>7. WakeKept'
  <2>1. \A q \in waiting : /\ TargetOf[q] \in Targets /\ PriorityOf[q] \in Int
                           /\ pending[TargetOf[q]] \in Int /\ pending'[TargetOf[q]] \in Int
    BY <1>3, WakeConstants DEF WakeConstants, WakeInv, Types, Priorities, Wakes, NoWake
  <2> QED BY <1>2, <1>3, <1>5, <2>1 DEF WakeInv, WakeKept
<1>8. TimerHasWork'
  BY <1>1, <1>2, <1>4, MergeRaises DEF TimerHasWork
<1> QED BY <1>5, <1>6, <1>7, <1>8 DEF WakeInv

\* The other steps of the timer leave wakes and batches alone.
LEMMA TimerKeeps ==
  ASSUME WakeInv, Tick \/ FireUnheard \/ FireBusy
  PROVE  WakeInv'
<1>1. UNCHANGED <<pending, running, handler, loops, started, stopped, waiting, overlaid,
                  errors, asked>>
  BY DEF Tick, FireUnheard, FireBusy
<1>2. timer \in Timers /\ timer.left <= timer.delay
  BY DEF WakeInv, Types
<1>3. timer' \in Timers /\ timer'.left <= timer'.delay /\ scheduled' \in BOOLEAN
  <2>1. CASE Tick
    <3>1. timer' = [kind |-> timer.kind, left |-> timer.left - 1, delay |-> timer.delay]
      BY <2>1, <1>2 DEF Tick, Timers
    <3>2. scheduled' = scheduled
      BY <2>1 DEF Tick
    <3>3. timer.left - 1 \in Nat /\ timer.left - 1 <= timer.delay
      BY <2>1, <1>2 DEF Tick, Timers
    <3>4. timer.kind \in {"none", "normal", "retry"} /\ timer.delay \in Nat
      BY <1>2 DEF Timers
    <3>5. timer' \in Timers
      BY <3>1, <3>3, <3>4 DEF Timers
    <3>6. timer'.left <= timer'.delay
      BY <3>1, <3>3
    <3>7. scheduled' \in BOOLEAN
      BY <3>2, Zenon DEF WakeInv, Types
    <3> QED BY <3>5, <3>6, <3>7
  <2>2. CASE FireUnheard
    <3>1. NoTimer \in Timers /\ NoTimer.left <= NoTimer.delay
      BY DEF NoTimer, Timers
    <3> QED BY <2>2, <3>1 DEF FireUnheard
  <2>3. CASE FireBusy
    <3>1. timer.delay \in Nat /\ timer.kind \in {"normal", "retry"}
      BY <2>3, <1>2 DEF FireBusy, Due, Timers
    <3> QED BY <2>3, <3>1, ArmedType DEF FireBusy
  <2> QED BY <2>1, <2>2, <2>3
<1>4. Types' /\ Busy' = Busy
  BY <1>1, <1>3 DEF WakeInv, Types, Busy
<1>5. BatchesSound' /\ Overlays' /\ BatchesApart' /\ WakeKept'
  BY <1>1, <1>4 DEF WakeInv, BatchesSound, Overlays, BatchesApart, WakeKept, Queued
<1>6. NoStall'
  <2>1. CASE Tick
    BY <1>1, <1>2, <1>4, <2>1 DEF Tick, NoStall, Timers, WakeInv, Queued
  <2>2. CASE FireUnheard
    BY <1>1, <2>2 DEF FireUnheard, NoStall, Queued
  <2>3. CASE FireBusy
    BY <1>1, <1>2, <2>3 DEF FireBusy, Due, Armed, NoStall, Timers
  <2> QED BY <2>1, <2>2, <2>3
<1>7. TimerHasWork'
  <2>1. CASE Tick
    <3>1. timer'.kind = timer.kind /\ scheduled' = scheduled
      BY <1>2, <2>1 DEF Tick, Timers
    <3> QED BY <1>1, <3>1 DEF WakeInv, TimerHasWork, Queued
  <2>2. CASE FireUnheard
    BY <2>2 DEF FireUnheard, TimerHasWork, NoTimer
  <2>3. CASE FireBusy
    BY <1>1, <1>2, <2>3 DEF FireBusy, Due, Armed, WakeInv, TimerHasWork, Timers, Queued
  <2> QED BY <2>1, <2>2, <2>3
<1> QED BY <1>4, <1>5, <1>6, <1>7 DEF WakeInv

\* A new runner arms the timer for what it finds, and remembers whether it was
\* laid over a running batch.
LEMMA StartKeeps ==
  ASSUME WakeInv, NEW h \in Handlers, Start(h)
  PROVE  WakeInv'
<1>1. /\ h \notin started /\ handler' = h /\ started' = started \cup {h}
      /\ running' = FALSE /\ scheduled' = FALSE
      /\ overlaid' = IF Busy # {} THEN overlaid \cup {h} ELSE overlaid
      /\ UNCHANGED <<pending, loops, stopped, waiting, errors, asked>>
      /\ timer' = IF Queued(pending) # {} THEN Armed(DEFAULT_COALESCE, "normal") ELSE NoTimer
  BY DEF Start
<1>2. /\ timer' \in Timers /\ timer'.left <= timer'.delay
      /\ Queued(pending) # {} <=> timer'.kind # "none"
  <2>1. NoTimer \in Timers /\ NoTimer.left <= NoTimer.delay /\ NoTimer.kind = "none"
    BY DEF NoTimer, Timers
  <2> QED BY <1>1, <2>1, ArmedType, WakeConstants DEF WakeConstants
<1>3. Types' /\ Busy' = Busy
  BY <1>1, <1>2 DEF WakeInv, Types, Busy
<1>4. BatchesSound' /\ Overlays' /\ BatchesApart' /\ WakeKept' /\ NoStall' /\ TimerHasWork'
  BY <1>1, <1>2, <1>3
     DEF WakeInv, BatchesSound, Overlays, BatchesApart, WakeKept, NoStall, TimerHasWork, Queued
<1> QED BY <1>3, <1>4 DEF WakeInv

\* A stopped runner takes back its own registration and nothing else.
LEMMA StopKeeps ==
  ASSUME WakeInv, NEW h \in Handlers, Stop(h)
  PROVE  WakeInv'
<1>1. /\ stopped' = stopped \cup {h} /\ h \in started
      /\ handler' = IF handler = h THEN 0 ELSE handler
      /\ UNCHANGED <<pending, timer, scheduled, running, loops, started, waiting, overlaid,
                     errors, asked>>
  BY DEF Stop
<1>2. Types' /\ Busy' = Busy
  BY <1>1 DEF WakeInv, Types, Busy, Handlers
<1>3. BatchesSound' /\ Overlays' /\ BatchesApart' /\ WakeKept' /\ NoStall' /\ TimerHasWork'
  BY <1>1, <1>2
     DEF WakeInv, BatchesSound, Overlays, BatchesApart, WakeKept, NoStall, TimerHasWork, Queued
<1> QED BY <1>2, <1>3 DEF WakeInv

\* Initially nothing is asked for and nobody is registered.
LEMMA WakeInit == Init => WakeInv
<1> SUFFICES ASSUME Init PROVE WakeInv
  OBVIOUS
<1>1. pending \in Wakes /\ timer \in Timers /\ timer.left <= timer.delay
  BY DEF Init, Wakes, Timers, NoTimer
<1>2. Types
  <2>1. loops \in [Slots -> Batches \cup {Free}]
    BY DEF Init
  <2>2. errors \in 0..MaxErrors
    BY WakeConstants DEF Init, WakeConstants
  <2>3. /\ scheduled = FALSE /\ running = FALSE /\ handler = 0
        /\ started = {} /\ stopped = {} /\ asked = {} /\ waiting = {} /\ overlaid = {}
    BY DEF Init
  <2> QED BY <1>1, <2>1, <2>2, <2>3 DEF Types
<1>3. Busy = {}
  BY DEF Init, Busy
<1> QED
  BY <1>2, <1>3
     DEF Init, WakeInv, BatchesSound, Overlays, BatchesApart, WakeKept, NoStall, TimerHasWork,
         NoTimer, Queued

\* Every step keeps the invariant.
LEMMA WakeStep == WakeInv /\ [Next]_vars => WakeInv'
<1> SUFFICES ASSUME WakeInv, [Next]_vars PROVE WakeInv'
  OBVIOUS
<1>1. CASE UNCHANGED vars
  BY <1>1 DEF vars, WakeInv, Types, BatchesSound, Overlays, BatchesApart, WakeKept, NoStall,
              TimerHasWork, Busy, Queued
<1>2. CASE \E r \in Requests : Request(r)
  BY <1>2, RequestKeeps
<1>3. CASE Tick \/ FireUnheard \/ FireBusy
  BY <1>3, TimerKeeps
<1>4. CASE \E l \in Slots : \E t \in Targets : Fire(l, t)
  BY <1>4, FireKeeps
<1>5. CASE \E l \in Slots : Ran(l) \/ SkippedBusy(l) \/ Threw(l)
  BY <1>5, RanKeeps, SkippedKeeps, ThrewKeeps
<1>6. CASE \E h \in Handlers : Start(h) \/ Stop(h)
  BY <1>6, StartKeeps, StopKeeps
<1> QED BY <1>1, <1>2, <1>3, <1>4, <1>5, <1>6 DEF Next

-----------------------------------------------------------------------------
(* The theorems *)

\* WakeInv holds in every state of the queue.
THEOREM WakeInvariance == Spec => []WakeInv
  BY WakeInit, WakeStep, PTL DEF Spec

\* Type correctness.
THEOREM WakeTypes == Spec => []TypeOK
<1>1. WakeInv => TypeOK
  BY DEF WakeInv, Types, TimerHasWork, BatchesSound, TypeOK, Timers, Wakes, Handlers
<1> QED BY <1>1, WakeInvariance, PTL

\* No wake is lost: merging, busy targets, errors, overlapping batches and
\* restarts of the runner keep every unanswered request at its priority.
THEOREM NoWakeIsLost == Spec => []WakeKept
<1>1. WakeInv => WakeKept
  BY DEF WakeInv
<1> QED BY <1>1, WakeInvariance, PTL

\* Pending wakes never wait beside a registered handler without a timer or a
\* batch that will arm one.
THEOREM QueueNeverStalls == Spec => []NoStall
<1>1. WakeInv => NoStall
  BY DEF WakeInv
<1> QED BY <1>1, WakeInvariance, PTL

\* Two batches of one handler run side by side only when an older handler's
\* batch was running when it registered.
THEOREM BatchesStayApart == Spec => []BatchesApart
<1>1. WakeInv => BatchesApart
  BY DEF WakeInv
<1> QED BY <1>1, WakeInvariance, PTL

\* An armed retry timer runs down undisturbed until a new handler registers.
THEOREM CooldownIsKept == Spec => CooldownKept
<1> DEFINE Kept == timer.kind = "retry" /\ timer.left > 0 /\ started' = started
                     => timer' = timer \/ timer' = [timer EXCEPT !.left = @ - 1]
<1>1. ASSUME WakeInv, [Next]_vars PROVE [Kept]_vars
  <2> SUFFICES ASSUME timer.kind = "retry", timer.left > 0, started' = started, Next
               PROVE  timer' = timer \/ timer' = [timer EXCEPT !.left = @ - 1]
    BY <1>1
  <2>0. \A d, k : Scheduled(timer, d, k) = timer
    BY DEF Scheduled
  <2>1. ~ Due
    BY DEF Due, WakeInv, Types, Timers
  <2>2. CASE \E r \in Requests : Request(r)
    BY <2>0, <2>2 DEF Request
  <2>3. CASE Tick \/ FireUnheard \/ FireBusy
    <3>1. CASE Tick
      BY <3>1, Zenon DEF Tick
    <3> QED BY <2>1, <2>3, <3>1 DEF FireUnheard, FireBusy
  <2>4. CASE \E l \in Slots : \E t \in Targets : Fire(l, t)
    BY <2>1, <2>4 DEF Fire
  <2>5. CASE \E l \in Slots : Ran(l) \/ SkippedBusy(l) \/ Threw(l)
    <3>1. ASSUME NEW l, NEW rest, NEW wakes, NEW T, T = timer, Continue(l, rest, wakes, T)
          PROVE  timer' = timer
      BY <3>1, <2>0 DEF Continue
    <3> QED BY <2>0, <2>5, <3>1 DEF Ran, SkippedBusy, Threw
  <2>6. CASE \E h \in Handlers : Start(h) \/ Stop(h)
    BY <2>6 DEF Start, Stop
  <2> QED BY <2>2, <2>3, <2>4, <2>5, <2>6 DEF Next
<1>2. Spec => [][Kept]_vars
  BY <1>1, WakeInvariance, PTL DEF Spec
<1> QED BY <1>2 DEF CooldownKept
=============================================================================
