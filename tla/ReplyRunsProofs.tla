---------------------------- MODULE ReplyRunsProofs ----------------------------
(***************************************************************************)
(* Proofs about the registries of a session, for any number of turns,      *)
(* session ids, attempts and recoveries.  The invariant has two parts,     *)
(* each an operator of the state's parts, so that the operations that the  *)
(* handlers share (cancel, clear, tell the waiters) have lemmas of their   *)
(* own that apply between two parts of a step as well as to a whole step:  *)
(* Sound relates the registries, the turns and the waiters, Owned the      *)
(* attempts and their turns.                                               *)
(***************************************************************************)
EXTENDS ReplyRuns, TLAPS

Waits    == {NoWait, OnReply} \cup {OnRun(s) : s \in Sids}
Handles  == Attempts \cup {NoAttempt}
Begun    == {"going", "returning", "over"}
Leaving  == {"returning", "over"}
TurnRecords ==
  [at : {"idle", "waiting", "checking", "ready", "going", "returning", "over"}, wait : Waits,
   step : 1..3, result : BOOLEAN, cleared : BOOLEAN, signal : BOOLEAN,
   sid : Sids, runSid : Sids, awaits : Handles, backend : Handles]
Recoveries ==
  [waiting : BOOLEAN, wait : Waits, sid : Sids, of : Turns \cup {None}, count : Nat]

Live == {"queued", "preparing", "running", "cancelled", "closing"}
AttemptRecords ==
  [pc : {"unused", "ended"} \cup Live, of : Turns \cup {None}, sid : Sids]

\* What holds of a turn by itself: only a turn that waits waits for something,
\* only one that goes on awaits an attempt, and only a turn with a result has
\* been cleared.
TurnOK(x) ==
  /\ x.at = "waiting" <=> x.wait # NoWait
  /\ x.awaits # NoAttempt => x.at = "going"
  /\ x.at \in {"returning", "over"} => x.cleared = TRUE
  /\ x.cleared = TRUE => x.at \in Begun /\ x.result = TRUE

\* What a waiter waits for is still to end.
Alive(w, act, emb) ==
  /\ w.on = "run" => emb[w.sid] # NoAttempt
  /\ w.on = "reply" => act # None

InRegistry(x) == x.at = "going" /\ x.cleared = FALSE

Sound(act, idx, emb, es, t, r) ==
  /\ act \in Turns \cup {None}
  /\ emb \in [Sids -> Handles]
  /\ es \in Sids \cup {None} /\ (es # None => emb[es] # NoAttempt)
  /\ t \in [Turns -> TurnRecords] /\ \A o \in Turns : TurnOK(t[o])
  /\ r \in Recoveries /\ (r.waiting = TRUE <=> r.wait # NoWait)
  /\ \A o \in Turns : act = o <=> InRegistry(t[o])
  /\ idx = IF act = None THEN {} ELSE {t[act].sid}
  /\ Alive(r.wait, act, emb) /\ \A o \in Turns : Alive(t[o].wait, act, emb)

\* An attempt that is queued or under way has a turn, which has begun, and a
\* turn awaits only an attempt of its own.
Owned(att, t) ==
  /\ att \in [Attempts -> AttemptRecords]
  /\ \A a \in Attempts : att[a].pc \in Live <=> att[a].of # None
  /\ \A a \in Attempts : att[a].of # None => t[att[a].of].at \in Begun
  /\ \A o \in Turns : t[o].awaits # NoAttempt => att[t[o].awaits].of = o

RegistryInv ==
  /\ Sound(active, index, embedded, embeddedSid, turn, recovery)
  /\ lane \in Handles /\ stored \in Sids

ReplyInv == RegistryInv /\ Owned(attempt, turn)

-----------------------------------------------------------------------------
(* The operators and the registries *)

LEMMA Basics ==
  /\ 1 \in Sids /\ NoAttempt \notin Attempts
  /\ None \notin Turns /\ \A o \in Turns : o # None
BY ReplyRunsAssumption DEF ReplyRunsAssumption, Sids, Attempts, NoAttempt

\* The kinds of waiting differ, and each is a wait.
LEMMA WaitKinds ==
  /\ NoWait \in Waits /\ OnReply \in Waits /\ \A s \in Sids : OnRun(s) \in Waits
  /\ NoWait # OnReply /\ \A s \in Sids : OnRun(s) # NoWait /\ OnRun(s) # OnReply
  /\ NoWait.on = "none" /\ OnReply.on = "reply"
  /\ \A s \in Sids : OnRun(s).on = "run" /\ OnRun(s).sid = s
  /\ \A w \in Waits : /\ w.on = "reply" => w = OnReply
                      /\ w.on = "run" => w.sid \in Sids /\ w = OnRun(w.sid)
<1>1. /\ NoWait.on = "none" /\ OnReply.on = "reply"
      /\ \A s \in Sids : OnRun(s).on = "run" /\ OnRun(s).sid = s
  BY DEF NoWait, OnReply, OnRun
<1>2. NoWait # OnReply /\ \A s \in Sids : OnRun(s) # NoWait /\ OnRun(s) # OnReply
  <2>1. ASSUME NoWait = OnReply PROVE FALSE
    BY <1>1, <2>1
  <2>2. ASSUME NEW s \in Sids, OnRun(s) = NoWait \/ OnRun(s) = OnReply PROVE FALSE
    BY <1>1, <2>2
  <2> QED BY <2>1, <2>2
<1>3. /\ NoWait \in Waits /\ OnReply \in Waits /\ \A s \in Sids : OnRun(s) \in Waits
  BY DEF Waits
<1>4. \A w \in Waits : w = NoWait \/ w = OnReply \/ \E s \in Sids : w = OnRun(s)
  BY DEF Waits
<1> QED BY <1>1, <1>2, <1>3, <1>4

\* Two turns are told apart by the registry, a waiter, or a clear; a change of
\* anything else keeps the registries sound.
Alike(x, y) == x.at = y.at /\ x.wait = y.wait /\ x.cleared = y.cleared /\ x.sid = y.sid

LEMMA AlikeSound ==
  ASSUME NEW act, NEW idx, NEW emb, NEW es, NEW t, NEW r,
         Sound(act, idx, emb, es, t, r),
         NEW u \in [Turns -> TurnRecords],
         \A o \in Turns : TurnOK(u[o]) /\ Alike(u[o], t[o])
  PROVE  Sound(act, idx, emb, es, u, r)
BY DEF Sound, Alike, InRegistry

LEMMA ChangeSound ==
  ASSUME NEW act, NEW idx, NEW emb, NEW es, NEW t, NEW r,
         Sound(act, idx, emb, es, t, r), NEW o \in Turns,
         NEW x \in TurnRecords, TurnOK(x), Alike(x, t[o])
  PROVE  Sound(act, idx, emb, es, [t EXCEPT ![o] = x], r)
<1> DEFINE u == [t EXCEPT ![o] = x]
<1>1. t \in [Turns -> TurnRecords] /\ \A p \in Turns : TurnOK(t[p])
  BY DEF Sound
<1>2. u \in [Turns -> TurnRecords] /\ u[o] = x /\ \A p \in Turns : p # o => u[p] = t[p]
  BY <1>1
<1> HIDE DEF u
<1>3. \A p \in Turns : TurnOK(u[p]) /\ Alike(u[p], t[p])
  BY <1>1, <1>2 DEF Alike
<1>4. Sound(act, idx, emb, es, u, r)
  BY <1>2, <1>3, AlikeSound
<1> QED BY <1>4 DEF u

\* A result, for a turn that is going on.
LEMMA ResultingSound ==
  ASSUME NEW act, NEW idx, NEW emb, NEW es, NEW t, NEW r,
         Sound(act, idx, emb, es, t, r), NEW o \in Turns, t[o].at = "going"
  PROVE  /\ Sound(act, idx, emb, es, Resulting(t, o), r)
         /\ Resulting(t, o)[o].result = TRUE
         /\ Alike(Resulting(t, o)[o], t[o])
<1> DEFINE x == [t[o] EXCEPT !.result = TRUE]
<1>0. t \in [Turns -> TurnRecords] /\ TurnOK(t[o])
  BY DEF Sound
<1>1. Resulting(t, o) = [t EXCEPT ![o] = x]
  BY DEF Resulting
<1>2. x \in TurnRecords /\ Alike(x, t[o]) /\ x.awaits = t[o].awaits /\ x.result = TRUE
  BY <1>0 DEF Alike, TurnRecords
<1> HIDE DEF x
<1>3. TurnOK(x)
  BY <1>0, <1>2 DEF TurnOK, Alike, Begun
<1>4. Resulting(t, o)[o] = x
  BY <1>0, <1>1
<1>5. Sound(act, idx, emb, es, [t EXCEPT ![o] = x], r)
  BY <1>2, <1>3, ChangeSound
<1> QED BY <1>1, <1>2, <1>4, <1>5

\* The abort signal of a turn.
LEMMA SignalSound ==
  ASSUME NEW act, NEW idx, NEW emb, NEW es, NEW t, NEW r,
         Sound(act, idx, emb, es, t, r), NEW o \in Turns
  PROVE  /\ Sound(act, idx, emb, es, Signalled(t, o), r)
         /\ Signalled(t, o)[o].result = t[o].result
         /\ Alike(Signalled(t, o)[o], t[o])
<1> DEFINE x == [t[o] EXCEPT !.signal = TRUE]
<1>0. t \in [Turns -> TurnRecords] /\ TurnOK(t[o])
  BY DEF Sound
<1>1. Signalled(t, o) = [t EXCEPT ![o] = x]
  BY DEF Signalled
<1>2. x \in TurnRecords /\ Alike(x, t[o]) /\ x.awaits = t[o].awaits /\ x.result = t[o].result
  BY <1>0 DEF Alike, TurnRecords
<1> HIDE DEF x
<1>3. TurnOK(x)
  BY <1>0, <1>2 DEF TurnOK, Alike
<1>4. Signalled(t, o)[o] = x
  BY <1>0, <1>1
<1>5. Sound(act, idx, emb, es, [t EXCEPT ![o] = x], r)
  BY <1>2, <1>3, ChangeSound
<1> QED BY <1>1, <1>2, <1>4, <1>5

\* Telling the waiters of w leaves nobody waiting for it and changes nothing
\* else.
LEMMA Told ==
  ASSUME NEW t \in [Turns -> TurnRecords], \A o \in Turns : TurnOK(t[o]),
         NEW w \in Waits \ {NoWait}
  PROVE  /\ ToldTurns(t, w) \in [Turns -> TurnRecords]
         /\ \A o \in Turns :
              LET x == ToldTurns(t, w)[o] IN
              /\ TurnOK(x) /\ x.wait # w /\ x.wait \in {t[o].wait, NoWait}
              /\ InRegistry(x) <=> InRegistry(t[o])
              /\ x.sid = t[o].sid
<1> DEFINE u == ToldTurns(t, w)
<1>1. \A o \in Turns : u[o] = IF t[o].at = "waiting" /\ t[o].wait = w
                              THEN [t[o] EXCEPT !.at = "checking", !.wait = NoWait]
                              ELSE t[o]
  BY DEF ToldTurns
<1>2. ASSUME NEW o \in Turns
      PROVE  /\ u[o] \in TurnRecords
             /\ TurnOK(u[o]) /\ u[o].wait # w /\ u[o].wait \in {t[o].wait, NoWait}
             /\ InRegistry(u[o]) <=> InRegistry(t[o])
             /\ u[o].sid = t[o].sid
  <2>1. t[o] \in TurnRecords /\ TurnOK(t[o]) /\ w # NoWait
    OBVIOUS
  <2>2. CASE t[o].at = "waiting" /\ t[o].wait = w
    <3>1. u[o] = [t[o] EXCEPT !.at = "checking", !.wait = NoWait]
      BY <1>1, <2>2
    <3> HIDE DEF u
    <3>4. NoWait \in Waits
      BY WaitKinds
    <3>5. u[o] \in TurnRecords
      BY <2>1, <3>1, <3>4 DEF TurnRecords
    <3>6. u[o].at = "checking" /\ u[o].wait = NoWait
      BY <2>1, <3>1 DEF TurnRecords
    <3>7. u[o].sid = t[o].sid /\ u[o].awaits = t[o].awaits
      BY <2>1, <3>1 DEF TurnRecords
    <3>8. u[o].cleared = t[o].cleared
      BY <2>1, <3>1 DEF TurnRecords
    <3>9. u[o].result = t[o].result
      BY <2>1, <3>1 DEF TurnRecords
    <3>3. TurnOK(u[o]) /\ ~ InRegistry(u[o]) /\ ~ InRegistry(t[o])
      BY <2>1, <2>2, <3>6, <3>7, <3>8, <3>9 DEF TurnOK, InRegistry, Begun
    <3> QED BY <2>1, <2>2, <3>3, <3>5, <3>6, <3>7
  <2>3. CASE ~ (t[o].at = "waiting" /\ t[o].wait = w)
    <3>1. u[o] = t[o]
      BY <1>1, <2>3
    <3>2. t[o].wait # w
      BY <2>1, <2>3 DEF TurnOK
    <3> QED BY <2>1, <3>1, <3>2
  <2> QED BY <2>2, <2>3
<1>3. u \in [Turns -> TurnRecords]
  <2>1. u = [o \in Turns |-> u[o]]
    BY DEF ToldTurns
  <2> QED BY <1>2, <2>1
<1> QED BY <1>2, <1>3

LEMMA ToldTheRecovery ==
  ASSUME NEW r \in Recoveries, r.waiting = TRUE <=> r.wait # NoWait,
         NEW w \in Waits \ {NoWait}
  PROVE  LET x == ToldRecovery(r, w) IN
         /\ x \in Recoveries /\ (x.waiting = TRUE <=> x.wait # NoWait)
         /\ x.wait # w /\ x.wait \in {r.wait, NoWait}
<1>1. CASE r.waiting = TRUE /\ r.wait = w
  <2>1. ToldRecovery(r, w) = [r EXCEPT !.waiting = FALSE, !.wait = NoWait, !.sid = 1, !.of = None]
    BY <1>1 DEF ToldRecovery
  <2> QED BY <1>1, <2>1, WaitKinds, Basics DEF Recoveries
<1>2. CASE ~ (r.waiting = TRUE /\ r.wait = w)
  <2>1. ToldRecovery(r, w) = r
    BY <1>2 DEF ToldRecovery, Recoveries
  <2> QED BY <1>2, <2>1
<1> QED BY <1>1, <1>2

\* A run leaves the registry and its waiters are told.
LEMMA RunEndSound ==
  ASSUME NEW act, NEW idx, NEW emb, NEW es, NEW t, NEW r,
         Sound(act, idx, emb, es, t, r), NEW s \in Sids
  PROVE  Sound(act, idx, [emb EXCEPT ![s] = NoAttempt], IF es = s THEN None ELSE es,
               ToldTurns(t, OnRun(s)), ToldRecovery(r, OnRun(s)))
<1> DEFINE u == ToldTurns(t, OnRun(s))
           x == ToldRecovery(r, OnRun(s))
           emb2 == [emb EXCEPT ![s] = NoAttempt]
           es2 == IF es = s THEN None ELSE es
<1>0. OnRun(s) \in Waits \ {NoWait}
  BY WaitKinds
<1>1. /\ u \in [Turns -> TurnRecords]
      /\ \A o \in Turns : /\ TurnOK(u[o]) /\ u[o].wait # OnRun(s)
                          /\ u[o].wait \in {t[o].wait, NoWait} /\ u[o].sid = t[o].sid
                          /\ InRegistry(u[o]) <=> InRegistry(t[o])
  BY <1>0, Told DEF Sound
<1>2. /\ x \in Recoveries /\ (x.waiting = TRUE <=> x.wait # NoWait)
      /\ x.wait # OnRun(s) /\ x.wait \in {r.wait, NoWait}
  BY <1>0, ToldTheRecovery DEF Sound
<1>3. /\ emb2 \in [Sids -> Handles] /\ emb2[s] = NoAttempt
      /\ \A q \in Sids : q # s => emb2[q] = emb[q]
  BY DEF Sound, Handles
<1>4. es2 \in Sids \cup {None} /\ (es2 # None => emb2[es2] # NoAttempt)
  BY <1>3 DEF Sound
<1>5. ASSUME NEW w \in Waits, NEW v \in {w, NoWait}, v # OnRun(s), Alive(w, act, emb)
      PROVE  Alive(v, act, emb2)
  BY <1>3, <1>5, WaitKinds DEF Alive
<1>6. \A o \in Turns : t[o].wait \in Waits
  BY DEF Sound, TurnRecords
<1>7. r.wait \in Waits
  BY DEF Sound, Recoveries
<1>8. Alive(x.wait, act, emb2) /\ \A o \in Turns : Alive(u[o].wait, act, emb2)
  BY <1>1, <1>2, <1>5, <1>6, <1>7 DEF Sound
<1> HIDE DEF u, x, emb2, es2
<1>9. Sound(act, idx, emb2, es2, u, x)
  BY <1>1, <1>2, <1>3, <1>4, <1>8 DEF Sound
<1> QED BY <1>9 DEF u, x, emb2, es2

\* The registered operation o ends.  It has its result; all other turns are as
\* they were for the registry.
LEMMA EndSound ==
  ASSUME NEW emb, NEW es, NEW t, NEW r, NEW o \in Turns,
         emb \in [Sids -> Handles],
         es \in Sids \cup {None}, es # None => emb[es] # NoAttempt,
         t \in [Turns -> TurnRecords], \A p \in Turns : TurnOK(t[p]),
         \A p \in Turns : p # o => ~ InRegistry(t[p]),
         t[o].at \in Begun, t[o].result = TRUE,
         r \in Recoveries, r.waiting = TRUE <=> r.wait # NoWait,
         Alive(r.wait, o, emb), \A p \in Turns : Alive(t[p].wait, o, emb)
  PROVE  Sound(None, {}, emb, es, ToldTurns(Off(t, o), OnReply), ToldRecovery(r, OnReply))
<1> DEFINE c == Off(t, o)
           u == ToldTurns(c, OnReply)
           x == ToldRecovery(r, OnReply)
<1>0. OnReply \in Waits \ {NoWait}
  BY WaitKinds
<1>d. [t[o] EXCEPT !.cleared = TRUE, !.sid = 1] \in TurnRecords
  BY Basics DEF TurnRecords
<1>1. c \in [Turns -> TurnRecords] /\ c[o] = [t[o] EXCEPT !.cleared = TRUE, !.sid = 1]
      /\ \A p \in Turns : p # o => c[p] = t[p]
  BY <1>d DEF Off
<1> HIDE DEF c
<1>2. /\ c[o].at = t[o].at /\ c[o].wait = t[o].wait /\ c[o].awaits = t[o].awaits
      /\ c[o].result = t[o].result /\ c[o].cleared = TRUE
  BY <1>1 DEF TurnRecords
<1>e. TurnOK(c[o]) /\ ~ InRegistry(c[o])
  BY <1>2 DEF TurnOK, InRegistry, Begun
<1>3. \A p \in Turns : TurnOK(c[p]) /\ ~ InRegistry(c[p]) /\ c[p].wait = t[p].wait
  BY <1>1, <1>2, <1>e
<1>4. /\ u \in [Turns -> TurnRecords]
      /\ \A p \in Turns : /\ TurnOK(u[p]) /\ u[p].wait # OnReply
                          /\ u[p].wait \in {t[p].wait, NoWait}
                          /\ ~ InRegistry(u[p])
  BY <1>0, <1>1, <1>3, Told
<1>5. /\ x \in Recoveries /\ (x.waiting = TRUE <=> x.wait # NoWait)
      /\ x.wait # OnReply /\ x.wait \in {r.wait, NoWait}
  BY <1>0, ToldTheRecovery
<1>6. ASSUME NEW w \in Waits, NEW v \in {w, NoWait}, v # OnReply, Alive(w, o, emb)
      PROVE  Alive(v, None, emb)
  BY <1>6, WaitKinds DEF Alive
<1>7. r.wait \in Waits /\ \A p \in Turns : t[p].wait \in Waits
  BY DEF TurnRecords, Recoveries
<1>8. Alive(x.wait, None, emb) /\ \A p \in Turns : Alive(u[p].wait, None, emb)
  BY <1>4, <1>5, <1>6, <1>7
<1> HIDE DEF u, x
<1>10. Sound(None, {}, emb, es, u, x)
  BY <1>4, <1>5, <1>8, Basics DEF Sound
<1> QED BY <1>10 DEF u, x, c

\* A turn before its message arrives.
LEMMA UnbornRecord ==
  /\ Unborn \in TurnRecords /\ TurnOK(Unborn) /\ ~ InRegistry(Unborn)
  /\ Unborn.wait = NoWait /\ Unborn.awaits = NoAttempt /\ Unborn.at = "idle"
<1>1. NoWait \in Waits /\ 1 \in Sids /\ NoAttempt \in Handles
  BY WaitKinds, Basics DEF Handles
<1>2. Unborn.wait = NoWait
  BY DEF Unborn, NoWait
<1>3. /\ Unborn.at = "idle" /\ Unborn.awaits = NoAttempt /\ Unborn.cleared = FALSE
  BY DEF Unborn
<1>4. Unborn = [at |-> "idle", wait |-> NoWait, step |-> 1, result |-> FALSE,
                cleared |-> FALSE, signal |-> FALSE, sid |-> 1, runSid |-> 1,
                awaits |-> NoAttempt, backend |-> NoAttempt]
  BY DEF Unborn, NoWait
<1>5. Unborn \in TurnRecords
  BY <1>1, <1>4 DEF TurnRecords
<1> QED BY <1>2, <1>3, <1>5 DEF TurnOK, InRegistry, Begun

\* A turn that returns: u is t but for o, which waits for nothing.
Left(t, o, at, u) ==
  /\ u \in [Turns -> TurnRecords]
  /\ TurnOK(u[o])
  /\ u[o].at = at
  /\ u[o].wait = NoWait
  /\ u[o].result = TRUE
  /\ u[o].awaits = NoAttempt
  /\ \A p \in Turns : p # o => u[p] = t[p]

LEMMA LeavesRecord ==
  ASSUME NEW t \in [Turns -> TurnRecords], NEW o \in Turns,
         NEW at \in Leaving
  PROVE  Left(t, o, at, Leaves(t, o, at))
<1> DEFINE x == [Unborn EXCEPT !.at = at, !.result = TRUE, !.cleared = TRUE]
<1>1. Leaves(t, o, at) = [t EXCEPT ![o] = x]
  BY DEF Leaves
<1>2. NoWait \in Waits /\ 1 \in Sids /\ NoAttempt \in Handles
  BY WaitKinds, Basics DEF Handles
<1>3. Unborn \in TurnRecords /\ Unborn.wait = NoWait /\ Unborn.awaits = NoAttempt
  BY UnbornRecord
<1>4. x \in TurnRecords
  BY <1>3 DEF TurnRecords, Leaving
<1>5. /\ x.at = at /\ x.wait = NoWait /\ x.result = TRUE /\ x.cleared = TRUE
      /\ x.awaits = NoAttempt
  BY <1>3 DEF TurnRecords
<1> HIDE DEF x
<1>6. TurnOK(x)
  BY <1>5 DEF TurnOK, Begun, Leaving
<1>7. Leaves(t, o, at) \in [Turns -> TurnRecords] /\ Leaves(t, o, at)[o] = x
      /\ \A p \in Turns : p # o => Leaves(t, o, at)[p] = t[p]
  BY <1>1, <1>4
<1> QED BY <1>5, <1>6, <1>7 DEF Left

\* What is not registered may change as it likes, if it waits for something
\* that is still to end.
LEMMA OtherSound ==
  ASSUME NEW act, NEW idx, NEW emb, NEW es, NEW t, NEW r,
         Sound(act, idx, emb, es, t, r),
         NEW u \in [Turns -> TurnRecords], NEW o \in Turns,
         ~ InRegistry(t[o]), ~ InRegistry(u[o]), TurnOK(u[o]),
         Alive(u[o].wait, act, emb),
         \A p \in Turns : p # o => u[p] = t[p]
  PROVE  Sound(act, idx, emb, es, u, r)
<1>1. act # o
  BY DEF Sound
<1> QED BY <1>1 DEF Sound

LEMMA LeavesSound ==
  ASSUME NEW act, NEW idx, NEW emb, NEW es, NEW t, NEW r,
         Sound(act, idx, emb, es, t, r), NEW o \in Turns, ~ InRegistry(t[o]),
         NEW at \in Leaving
  PROVE  Sound(act, idx, emb, es, Leaves(t, o, at), r)
<1>0. t \in [Turns -> TurnRecords]
  BY DEF Sound
<1>1. /\ Leaves(t, o, at) \in [Turns -> TurnRecords] /\ TurnOK(Leaves(t, o, at)[o])
      /\ Leaves(t, o, at)[o].at = at /\ Leaves(t, o, at)[o].wait = NoWait
      /\ \A p \in Turns : p # o => Leaves(t, o, at)[p] = t[p]
  <2>1. Left(t, o, at, Leaves(t, o, at))
    BY <1>0, LeavesRecord
  <2> QED BY <2>1 DEF Left
<1>2. ~ InRegistry(Leaves(t, o, at)[o]) /\ Alive(Leaves(t, o, at)[o].wait, act, emb)
  BY <1>1, WaitKinds DEF InRegistry, Alive, Leaving
<1> QED BY <1>1, <1>2, OtherSound

\* Another recovery, that waits for nothing or for what is still to end.
LEMMA RecoverySound ==
  ASSUME NEW act, NEW idx, NEW emb, NEW es, NEW t, NEW r,
         Sound(act, idx, emb, es, t, r),
         NEW x \in Recoveries, x.waiting = TRUE <=> x.wait # NoWait,
         Alive(x.wait, act, emb)
  PROVE  Sound(act, idx, emb, es, t, x)
BY DEF Sound

\* clearState, for a turn that goes on and has its result.
LEMMA ClearSound ==
  ASSUME NEW emb, NEW es, NEW t, NEW r, NEW o \in Turns,
         Sound(active, index, emb, es, t, r), t[o].at = "going", t[o].result = TRUE,
         t[o].cleared = turn[o].cleared, t[o].sid = turn[o].sid,
         ClearState(o, t, r)
  PROVE  Sound(active', index', emb, es, turn', recovery')
<1>0. t \in [Turns -> TurnRecords] /\ \A p \in Turns : TurnOK(t[p])
  BY DEF Sound
<1>b. turn[o].cleared \in BOOLEAN
  BY <1>0 DEF TurnRecords
<1>1. CASE turn[o].cleared = TRUE
  BY <1>1 DEF ClearState, maps
<1>2. CASE turn[o].cleared = FALSE
  <2>1. InRegistry(t[o]) /\ active = o
    BY <1>2 DEF InRegistry, Sound
  <2>2. index = {turn[o].sid} /\ active # None
    BY <2>1, Basics DEF Sound
  <2>3. /\ active' = None /\ index' = {}
        /\ turn' = ToldTurns(Off(t, o), OnReply)
        /\ recovery' = ToldRecovery(r, OnReply)
    BY <1>2, <2>2 DEF ClearState
  <2>5. t[o].at \in Begun
    BY DEF Begun
  <2>4. Sound(None, {}, emb, es, ToldTurns(Off(t, o), OnReply), ToldRecovery(r, OnReply))
    BY <2>1, <2>5, EndSound DEF Sound
  <2> QED BY <2>3, <2>4
<1> QED BY <1>b, <1>1, <1>2

\* clearState, for a turn that returns.
LEMMA LeaveSound ==
  ASSUME ReplyInv, NEW o \in Turns, NEW at \in Leaving,
         turn[o].at \in {"going", "returning"},
         ClearState(o, Leaves(turn, o, at), recovery)
  PROVE  Sound(active', index', embedded, embeddedSid, turn', recovery')
<1> DEFINE t == Leaves(turn, o, at)
<1>0. Sound(active, index, embedded, embeddedSid, turn, recovery)
  BY DEF ReplyInv, RegistryInv
<1>2. /\ turn \in [Turns -> TurnRecords] /\ (\A p \in Turns : TurnOK(turn[p]))
      /\ turn[o].cleared \in BOOLEAN
  BY <1>0 DEF Sound, TurnRecords
<1>3. CASE turn[o].cleared = TRUE
  <2>1. ~ InRegistry(turn[o])
    BY <1>3 DEF InRegistry
  <2>2. Sound(active, index, embedded, embeddedSid, t, recovery)
    BY <1>0, <2>1, LeavesSound
  <2>3. turn' = t /\ recovery' = recovery /\ UNCHANGED <<active, index>>
    BY <1>3 DEF ClearState, maps
  <2> QED BY <2>2, <2>3
<1>4. CASE turn[o].cleared = FALSE
  <2>1. InRegistry(turn[o]) /\ active = o
    BY <1>0, <1>2, <1>4 DEF InRegistry, Sound, TurnOK
  <2>3. /\ t \in [Turns -> TurnRecords] /\ TurnOK(t[o]) /\ t[o].at = at
        /\ t[o].wait = NoWait /\ t[o].result = TRUE
        /\ \A p \in Turns : p # o => t[p] = turn[p]
    <3>1. Left(turn, o, at, t)
      BY <1>2, LeavesRecord
    <3> QED BY <3>1 DEF Left
  <2>4. /\ active' = None /\ index' = index \ {turn[o].sid}
        /\ turn' = ToldTurns(Off(t, o), OnReply)
        /\ recovery' = ToldRecovery(recovery, OnReply)
    BY <1>4 DEF ClearState
  <2> HIDE DEF t
  <2>5. index' = {}
    BY <1>0, <2>1, <2>4, Basics DEF Sound
  <2>6. \A p \in Turns : TurnOK(t[p]) /\ (p # o => ~ InRegistry(t[p]))
    BY <1>0, <1>2, <2>1, <2>3 DEF Sound
  <2>7. \A p \in Turns : Alive(t[p].wait, o, embedded)
    <3>1. Alive(NoWait, o, embedded)
      BY WaitKinds DEF Alive
    <3> QED BY <1>0, <2>1, <2>3, <3>1 DEF Sound
  <2>8. /\ embedded \in [Sids -> Handles]
        /\ embeddedSid \in Sids \cup {None} /\ (embeddedSid # None => embedded[embeddedSid] # NoAttempt)
        /\ recovery \in Recoveries /\ (recovery.waiting = TRUE <=> recovery.wait # NoWait)
        /\ Alive(recovery.wait, o, embedded)
    BY <1>0, <2>1 DEF Sound
  <2>10. t[o].at \in Begun
    BY <2>3 DEF Begun, Leaving
  <2>9. Sound(None, {}, embedded, embeddedSid,
              ToldTurns(Off(t, o), OnReply), ToldRecovery(recovery, OnReply))
    BY <2>3, <2>6, <2>7, <2>8, <2>10, EndSound
  <2> QED BY <2>4, <2>5, <2>9
<1> QED BY <1>2, <1>3, <1>4

\* abortByUser, of the registered operation.
LEMMA AbortSound ==
  ASSUME NEW emb, NEW es, NEW t, NEW r, NEW o \in Turns, active = o,
         Sound(active, index, emb, es, t, r),
         t[o].cleared = turn[o].cleared, t[o].sid = turn[o].sid,
         AbortOperation(o, t, r)
  PROVE  Sound(active', index', emb, es, turn', recovery')
<1> DEFINE t1 == Resulting(t, o)
           t2 == IF o \in FollowUps THEN t1 ELSE Signalled(t1, o)
<1>1. t[o].at = "going"
  BY DEF Sound, InRegistry
<1>2. /\ Sound(active, index, emb, es, t1, r) /\ t1[o].result = TRUE
      /\ Alike(t1[o], t[o])
  BY <1>1, ResultingSound
<1>3. ClearState(o, t2, r) \/ (turn' = t2 /\ recovery' = r /\ UNCHANGED maps)
  BY DEF AbortOperation
<1> HIDE DEF t1
<1>4. /\ Sound(active, index, emb, es, t2, r) /\ t2[o].result = t1[o].result
      /\ Alike(t2[o], t1[o])
  BY <1>2, SignalSound DEF Alike
<1> HIDE DEF t2
<1>6. /\ t2[o].at = "going" /\ t2[o].result = TRUE
      /\ t2[o].cleared = turn[o].cleared /\ t2[o].sid = turn[o].sid
  BY <1>1, <1>2, <1>4 DEF Alike
<1>7. CASE ClearState(o, t2, r)
  BY <1>4, <1>6, <1>7, ClearSound
<1>8. CASE turn' = t2 /\ recovery' = r /\ UNCHANGED maps
  BY <1>4, <1>8 DEF maps
<1> QED BY <1>3, <1>7, <1>8

\* The operation in the registry, if there is one, and abortEmbeddedPiRun.
LEMMA AbortActiveSound ==
  ASSUME NEW these, NEW t, NEW r,
         Sound(active, index, embedded, embeddedSid, t, r),
         \A o \in Turns : t[o].cleared = turn[o].cleared /\ t[o].sid = turn[o].sid,
         AbortActive(these, t, r)
  PROVE  Sound(active', index', embedded, embeddedSid, turn', recovery')
<1>1. CASE active = None
  <2>1. turn' = t /\ recovery' = r /\ UNCHANGED maps
    BY <1>1 DEF AbortActive
  <2> QED BY <2>1 DEF maps
<1>2. CASE active # None
  <2>1. active \in Turns /\ AbortOperation(active, t, r)
    BY <1>2 DEF AbortActive, Sound
  <2> QED BY <2>1, AbortSound
<1> QED BY <1>1, <1>2

LEMMA AbortRunSound ==
  ASSUME NEW s \in Sids, NEW t, NEW r,
         Sound(active, index, embedded, embeddedSid, t, r),
         \A o \in Turns : t[o].cleared = turn[o].cleared /\ t[o].sid = turn[o].sid,
         AbortRun(s, t, r)
  PROVE  Sound(active', index', embedded, embeddedSid, turn', recovery')
<1>1. CASE AbortActive({}, t, r)
  BY <1>1, AbortActiveSound
<1>2. CASE turn' = t /\ recovery' = r /\ UNCHANGED maps
  BY <1>2 DEF maps
<1> QED BY <1>1, <1>2 DEF AbortRun

\* clearActiveEmbeddedRun.
LEMMA ClearEmbeddedSound ==
  ASSUME NEW a \in Attempts, NEW t, attempt[a].sid \in Sids,
         Sound(active, index, embedded, embeddedSid, t, recovery),
         ClearEmbedded(a, t)
  PROVE  Sound(active, index, embedded', embeddedSid', turn', recovery')
<1> DEFINE s == attempt[a].sid
<1>1. CASE embedded[s] = a
  <2>1. /\ embedded' = [embedded EXCEPT ![s] = NoAttempt]
        /\ embeddedSid' = IF embeddedSid = s THEN None ELSE embeddedSid
        /\ turn' = ToldTurns(t, OnRun(s)) /\ recovery' = ToldRecovery(recovery, OnRun(s))
    BY <1>1 DEF ClearEmbedded
  <2> QED BY <2>1, RunEndSound
<1>2. CASE embedded[s] # a
  BY <1>2 DEF ClearEmbedded, runs
<1> QED BY <1>1, <1>2

\* An attempt has returned: no turn awaits it.
LEMMA ResumedSound ==
  ASSUME ReplyInv, NEW a \in Attempts
  PROVE  /\ Sound(active, index, embedded, embeddedSid, Resumed(a), recovery)
         /\ \A o \in Turns : Resumed(a)[o].awaits =
                               IF turn[o].awaits = a THEN NoAttempt ELSE turn[o].awaits
         /\ \A o \in Turns : Resumed(a)[o].at = turn[o].at
<1>0. /\ Sound(active, index, embedded, embeddedSid, turn, recovery)
      /\ turn \in [Turns -> TurnRecords] /\ \A o \in Turns : TurnOK(turn[o])
  BY DEF ReplyInv, RegistryInv, Sound
<1>1. ASSUME NEW o \in Turns
      PROVE  /\ Resumed(a)[o] \in TurnRecords /\ TurnOK(Resumed(a)[o])
             /\ Alike(Resumed(a)[o], turn[o])
             /\ Resumed(a)[o].awaits = IF turn[o].awaits = a THEN NoAttempt ELSE turn[o].awaits
  <2> DEFINE v == IF turn[o].awaits = a THEN NoAttempt ELSE turn[o].awaits
             b == IF turn[o].backend = a THEN NoAttempt ELSE turn[o].backend
             x == Resumed(a)[o]
  <2>1. turn[o] \in TurnRecords /\ TurnOK(turn[o])
    BY <1>0
  <2>2. turn[o].awaits \in Handles /\ turn[o].backend \in Handles /\ NoAttempt \in Handles
    BY <2>1 DEF TurnRecords, Handles
  <2>3. v \in Handles /\ b \in Handles
    BY <2>2
  <2>4. x = [turn[o] EXCEPT !.awaits = v, !.backend = b]
    BY <2>1 DEF Resumed, TurnRecords
  <2>7. v # NoAttempt => turn[o].awaits # NoAttempt
    OBVIOUS
  <2> HIDE DEF v, b, x
  <2>5. x \in TurnRecords /\ Alike(x, turn[o]) /\ x.awaits = v /\ x.result = turn[o].result
    BY <2>1, <2>3, <2>4 DEF TurnRecords, Alike
  <2>6. TurnOK(x)
    BY <2>1, <2>5, <2>7 DEF TurnOK, Alike
  <2> QED BY <2>5, <2>6 DEF v, x
<1>2. Resumed(a) = [o \in Turns |-> Resumed(a)[o]]
  BY DEF Resumed
<1>3. Resumed(a) \in [Turns -> TurnRecords]
  BY <1>1, <1>2
<1>4. Sound(active, index, embedded, embeddedSid, Resumed(a), recovery)
  BY <1>0, <1>1, <1>3, AlikeSound
<1> QED BY <1>1, <1>4 DEF Alike

-----------------------------------------------------------------------------
(* The steps and the registries *)

LEMMA Fields ==
  ASSUME ReplyInv
  PROVE  /\ turn \in [Turns -> TurnRecords] /\ ActiveSid \in Sids
         /\ Sound(active, index, embedded, embeddedSid, turn, recovery)
         /\ \A o \in Turns : /\ turn[o].sid \in Sids /\ turn[o].runSid \in Sids
                             /\ turn[o] \in TurnRecords /\ TurnOK(turn[o])
         /\ attempt \in [Attempts -> AttemptRecords]
         /\ \A a \in Attempts : attempt[a].sid \in Sids
         /\ lane \in Handles /\ stored \in Sids /\ NoAttempt \in Handles
<1>1. turn \in [Turns -> TurnRecords] /\ embeddedSid \in Sids \cup {None} /\ stored \in Sids
      /\ active \in Turns \cup {None} /\ lane \in Handles
      /\ attempt \in [Attempts -> AttemptRecords] /\ \A o \in Turns : TurnOK(turn[o])
  BY DEF ReplyInv, RegistryInv, Sound, Owned
<1>2. \A o \in Turns : turn[o].sid \in Sids /\ turn[o].runSid \in Sids
  BY <1>1 DEF TurnRecords
<1>3. ActiveSid \in Sids
  BY <1>1, <1>2 DEF ActiveSid
<1>4. \A a \in Attempts : attempt[a].sid \in Sids
  BY <1>1 DEF AttemptRecords
<1>5. Sound(active, index, embedded, embeddedSid, turn, recovery)
  BY DEF ReplyInv, RegistryInv
<1>6. NoAttempt \in Handles
  BY DEF Handles
<1> QED BY <1>1, <1>2, <1>3, <1>4, <1>5, <1>6

\* A turn that has not begun moves on, without a wait or into one that is still
\* to end.
LEMMA PlacedSound ==
  ASSUME ReplyInv, NEW o \in Turns, turn[o].at \in {"idle", "waiting", "checking"},
         NEW at \in {"checking", "ready", "waiting"}, NEW w \in Waits, NEW s \in Sids,
         at = "waiting" <=> w # NoWait, Alive(w, active, embedded)
  PROVE  /\ Sound(active, index, embedded, embeddedSid, Placed(o, at, w, s), recovery)
         /\ \A p \in Turns : /\ Placed(o, at, w, s)[p].cleared = turn[p].cleared
                             /\ Placed(o, at, w, s)[p].sid = turn[p].sid
<1> DEFINE u == Placed(o, at, w, s)
           x == [turn[o] EXCEPT !.at = at, !.wait = w, !.runSid = s]
<1>1. turn \in [Turns -> TurnRecords] /\ \A p \in Turns : TurnOK(turn[p])
  BY Fields
<1>e. x \in TurnRecords
  BY <1>1 DEF TurnRecords
<1>2. u \in [Turns -> TurnRecords] /\ u[o] = x /\ \A p \in Turns : p # o => u[p] = turn[p]
  BY <1>1, <1>e DEF Placed
<1> HIDE DEF u
<1>3. /\ x.at = at /\ x.wait = w /\ x.awaits = turn[o].awaits
      /\ x.cleared = turn[o].cleared /\ x.sid = turn[o].sid
  BY <1>1 DEF TurnRecords
<1> HIDE DEF x
<1>6. turn[o].awaits = NoAttempt /\ turn[o].cleared # TRUE
  BY <1>1 DEF TurnOK, Begun
<1>4. ~ InRegistry(turn[o]) /\ ~ InRegistry(x) /\ TurnOK(x)
  BY <1>3, <1>6 DEF InRegistry, TurnOK
<1>5. Sound(active, index, embedded, embeddedSid, u, recovery)
  <2>1. Alive(u[o].wait, active, embedded)
    BY <1>2, <1>3
  <2> QED BY <1>2, <1>4, <2>1, Fields, OtherSound
<1> QED BY <1>2, <1>3, <1>5 DEF u

LEMMA ArriveKeeps ==
  ASSUME ReplyInv, NEW o \in Turns, Arrive(o)
  PROVE  RegistryInv'
<1> DEFINE s == ActiveSid
           t == Placed(o, "waiting", WaitFor(s), turn[o].runSid)
<1>1. /\ s \in Sids /\ turn[o].runSid \in Sids
      /\ stored \in Sids /\ lane \in Handles
  BY Fields
<1>2. UNCHANGED <<embedded, embeddedSid, lane, stored>> /\ turn[o].at = "idle"
  BY DEF Arrive, runs
<1>3. CASE RunActive(s) /\ (AbortRun(s, t, recovery)
                            \/ (turn' = t /\ UNCHANGED <<active, index, recovery>>))
  <2>2. WaitFor(s) \in Waits /\ WaitFor(s) # NoWait /\ Alive(WaitFor(s), active, embedded)
    BY <1>1, <1>3, WaitKinds DEF WaitFor, RunActive, Alive
  <2>3. AbortRun(s, t, recovery) \/ (turn' = t /\ UNCHANGED <<active, index, recovery>>)
    BY <1>3
  <2> HIDE DEF s
  <2>4. /\ Sound(active, index, embedded, embeddedSid, t, recovery)
        /\ \A p \in Turns : t[p].cleared = turn[p].cleared /\ t[p].sid = turn[p].sid
    BY <1>1, <1>2, <2>2, PlacedSound
  <2> HIDE DEF t
  <2>5. Sound(active', index', embedded, embeddedSid, turn', recovery')
    <3>1. CASE AbortRun(s, t, recovery)
      BY <1>1, <2>4, <3>1, AbortRunSound
    <3>2. CASE turn' = t /\ UNCHANGED <<active, index, recovery>>
      BY <2>4, <3>2
    <3> QED BY <2>3, <3>1, <3>2
  <2> QED BY <1>1, <1>2, <2>5 DEF RegistryInv
<1>4. CASE turn' = Placed(o, "ready", NoWait, stored) /\ UNCHANGED <<active, index, recovery>>
  <2>4. Alive(NoWait, active, embedded) /\ NoWait \in Waits
    BY WaitKinds DEF Alive
  <2>5. Sound(active, index, embedded, embeddedSid, turn', recovery)
    BY <1>1, <1>2, <1>4, <2>4, PlacedSound
  <2> QED BY <1>1, <1>2, <1>4, <2>5 DEF RegistryInv
<1> QED BY <1>3, <1>4 DEF Arrive, maps

\* The steps of a turn that has not begun and waits no longer.
LEMMA MoveKeeps ==
  ASSUME ReplyInv, NEW o \in Turns, FollowUp(o) \/ WaitExpires(o) \/ Check(o)
  PROVE  RegistryInv'
<1>1. stored \in Sids /\ turn[o].runSid \in Sids /\ lane \in Handles
  BY Fields
<1>2. UNCHANGED <<active, index, embedded, embeddedSid, lane, stored, recovery>>
  BY DEF FollowUp, WaitExpires, Check, runs, maps
<1>3. Alive(NoWait, active, embedded) /\ NoWait \in Waits
  BY WaitKinds DEF Alive
<1>4. CASE turn' = Placed(o, "ready", NoWait, stored) /\ turn[o].at \in {"idle", "checking"}
  <2>3. Sound(active, index, embedded, embeddedSid, turn', recovery)
    BY <1>1, <1>3, <1>4, PlacedSound
  <2> QED BY <1>1, <1>2, <2>3 DEF RegistryInv
<1>5. CASE WaitExpires(o)
  <2>1. turn' = Placed(o, "checking", NoWait, turn[o].runSid) /\ turn[o].at = "waiting"
    BY <1>5 DEF WaitExpires
  <2>3. Sound(active, index, embedded, embeddedSid, turn', recovery)
    BY <1>1, <1>3, <2>1, PlacedSound
  <2> QED BY <1>1, <1>2, <2>3 DEF RegistryInv
<1>6. CASE turn' = Leaves(turn, o, "over") /\ turn[o].at = "checking"
  <2>1. ~ InRegistry(turn[o])
    BY <1>6 DEF InRegistry
  <2>2. Sound(active, index, embedded, embeddedSid, turn', recovery)
    BY <1>6, <2>1, Fields, LeavesSound DEF Leaving
  <2> QED BY <1>1, <1>2, <2>2 DEF RegistryInv
<1> QED BY <1>4, <1>5, <1>6 DEF FollowUp, Check

LEMMA BeginKeeps ==
  ASSUME ReplyInv, NEW o \in Turns, Begin(o)
  PROVE  RegistryInv'
<1>1. /\ turn \in [Turns -> TurnRecords] /\ turn[o].runSid \in Sids
      /\ (\A p \in Turns : TurnOK(turn[p])) /\ lane \in Handles /\ stored \in Sids
      /\ Sound(active, index, embedded, embeddedSid, turn, recovery)
  BY Fields
<1>2. UNCHANGED <<embedded, embeddedSid, lane, stored, recovery>> /\ turn[o].at = "ready"
  BY DEF Begin, runs
<1>3. CASE active # None
  <2>1. turn' = Leaves(turn, o, "over") /\ active' = active /\ index' = index
    BY <1>3 DEF Begin, maps
  <2>2. ~ InRegistry(turn[o])
    BY <1>2 DEF InRegistry
  <2>3. Sound(active, index, embedded, embeddedSid, turn', recovery)
    BY <1>1, <2>1, <2>2, LeavesSound DEF Leaving
  <2> QED BY <1>1, <1>2, <2>1, <2>3 DEF RegistryInv
<1>4. CASE active = None
  <2> DEFINE x == [turn[o] EXCEPT !.at = "going", !.sid = turn[o].runSid]
  <2>1. /\ active' = o /\ index' = index \cup {turn[o].runSid}
        /\ turn' = [turn EXCEPT ![o] = x]
    BY <1>4 DEF Begin
  <2>e. x \in TurnRecords
    BY <1>1 DEF TurnRecords
  <2>2. turn' \in [Turns -> TurnRecords] /\ turn'[o] = x
        /\ \A p \in Turns : p # o => turn'[p] = turn[p]
    BY <1>1, <2>1, <2>e
  <2>3. /\ x.at = "going" /\ x.wait = turn[o].wait /\ x.sid = turn[o].runSid
        /\ x.awaits = turn[o].awaits /\ x.cleared = turn[o].cleared
        /\ turn[o].cleared \in BOOLEAN
    BY <1>1 DEF TurnRecords
  <2> HIDE DEF x
  <2>4. turn[o].cleared = FALSE /\ turn[o].wait = NoWait
    BY <1>1, <1>2, <2>3 DEF TurnOK, Begun
  <2>5. TurnOK(x) /\ InRegistry(x)
    BY <2>3, <2>4 DEF TurnOK, InRegistry
  <2>6. index' = {turn'[o].sid}
    <3>1. index = {}
      BY <1>1, <1>4 DEF Sound
    <3> QED BY <2>1, <2>2, <2>3, <3>1
  <2>8. \A p \in Turns : active' = p <=> InRegistry(turn'[p])
    BY <1>1, <1>4, <2>1, <2>2, <2>5, Basics DEF Sound
  <2>9. \A w : Alive(w, None, embedded) => Alive(w, o, embedded)
    BY Basics DEF Alive
  <2>10. \A p \in Turns : Alive(turn'[p].wait, o, embedded)
    BY <1>1, <1>4, <2>2, <2>3, <2>9 DEF Sound
  <2>11. Alive(recovery.wait, o, embedded)
    BY <1>1, <1>4, <2>9 DEF Sound
  <2>12. /\ embedded \in [Sids -> Handles]
         /\ embeddedSid \in Sids \cup {None} /\ (embeddedSid # None => embedded[embeddedSid] # NoAttempt)
         /\ recovery \in Recoveries /\ (recovery.waiting = TRUE <=> recovery.wait # NoWait)
    BY <1>1 DEF Sound
  <2>13. \A p \in Turns : TurnOK(turn'[p])
    BY <1>1, <2>2, <2>5
  <2>14. Sound(o, index', embedded, embeddedSid, turn', recovery)
    BY <2>1, <2>2, <2>6, <2>8, <2>10, <2>11, <2>12, <2>13, Basics DEF Sound
  <2> QED BY <1>1, <1>2, <2>1, <2>14 DEF RegistryInv
<1> QED BY <1>3, <1>4

\* A later part of the turn.
LEMMA AdvanceKeeps ==
  ASSUME ReplyInv, NEW o \in Turns, Advance(o)
  PROVE  RegistryInv'
<1>1. turn[o] \in TurnRecords /\ TurnOK(turn[o]) /\ lane \in Handles /\ stored \in Sids
      /\ Sound(active, index, embedded, embeddedSid, turn, recovery)
  BY Fields
<1>2. UNCHANGED <<active, index, embedded, embeddedSid, lane, stored, recovery>>
  BY DEF Advance, runs, maps
<1>3. PICK n \in (turn[o].step + 1)..Len(Steps) : turn' = [turn EXCEPT ![o].step = n]
  BY DEF Advance
<1>4. n \in 1..3
  <2>1. turn[o].step \in 1..3 /\ Len(Steps) = 3
    BY <1>1 DEF TurnRecords, Steps
  <2> QED BY <2>1
<1> DEFINE x == [turn[o] EXCEPT !.step = n]
<1>5. x \in TurnRecords /\ Alike(x, turn[o]) /\ x.awaits = turn[o].awaits
      /\ x.result = turn[o].result
  BY <1>1, <1>4 DEF TurnRecords, Alike
<1>6. turn' = [turn EXCEPT ![o] = x]
  BY <1>3
<1> HIDE DEF x
<1>9. TurnOK(x)
  BY <1>1, <1>5 DEF TurnOK, Alike
<1>8. Sound(active, index, embedded, embeddedSid, [turn EXCEPT ![o] = x], recovery)
  BY <1>1, <1>5, <1>9, ChangeSound
<1> QED BY <1>1, <1>2, <1>6, <1>8 DEF RegistryInv

\* A compaction moves the operation, and what leads to it, to the next id.
LEMMA CompactKeeps ==
  ASSUME ReplyInv, NEW o \in Turns, Compact(o)
  PROVE  RegistryInv'
<1> DEFINE next == stored + 1
<1>1. /\ turn \in [Turns -> TurnRecords] /\ (\A p \in Turns : TurnOK(turn[p]))
      /\ Sound(active, index, embedded, embeddedSid, turn, recovery)
      /\ lane \in Handles /\ stored \in Sids
  BY Fields
<1>2. UNCHANGED <<active, embedded, embeddedSid, lane, recovery>> /\ turn[o].at = "going"
  BY DEF Compact, AtWork, runs
<1>3. next \in Sids /\ stored' = next
  <2>1. stored \in Nat /\ stored >= 1 /\ stored < MaxSids /\ MaxSids \in Nat
    BY <1>1, ReplyRunsAssumption DEF Compact, Sids, ReplyRunsAssumption
  <2>2. stored + 1 \in Sids
    BY <2>1 DEF Sids
  <2> QED BY <2>2 DEF Compact
<1>4. CASE turn[o].result = TRUE
  <2> DEFINE x == [turn[o] EXCEPT !.runSid = next]
  <2>1. turn' = [turn EXCEPT ![o] = x] /\ index' = index
    BY <1>4 DEF Compact
  <2> HIDE DEF next
  <2>2. x \in TurnRecords /\ Alike(x, turn[o]) /\ x.awaits = turn[o].awaits
        /\ x.result = turn[o].result
    BY <1>1, <1>3 DEF TurnRecords, Alike
  <2> HIDE DEF x
  <2>4. TurnOK(x)
    BY <1>1, <2>2 DEF TurnOK, Alike
  <2>6. Sound(active, index, embedded, embeddedSid, [turn EXCEPT ![o] = x], recovery)
    BY <1>1, <2>2, <2>4, ChangeSound
  <2> QED BY <1>1, <1>2, <1>3, <2>1, <2>6 DEF RegistryInv
<1>5. CASE turn[o].result # TRUE
  <2> DEFINE x == [turn[o] EXCEPT !.runSid = next, !.sid = next]
  <2>0. turn[o].cleared = FALSE /\ InRegistry(turn[o]) /\ active = o
    <3>1. turn[o].cleared \in BOOLEAN
      BY <1>1 DEF TurnRecords
    <3>2. turn[o].cleared = FALSE
      BY <1>1, <1>5, <3>1 DEF TurnOK
    <3> QED BY <1>1, <1>2, <3>2 DEF InRegistry, Sound
  <2>1. turn' = [turn EXCEPT ![o] = x] /\ index' = (index \ {turn[o].sid}) \cup {next}
    BY <1>5 DEF Compact
  <2> HIDE DEF next
  <2>e. x \in TurnRecords
    BY <1>1, <1>3 DEF TurnRecords
  <2>2. turn' \in [Turns -> TurnRecords] /\ turn'[o] = x
        /\ \A p \in Turns : p # o => turn'[p] = turn[p]
    BY <1>1, <2>1, <2>e
  <2>3. /\ x.at = turn[o].at /\ x.wait = turn[o].wait /\ x.cleared = turn[o].cleared
        /\ x.result = turn[o].result /\ x.awaits = turn[o].awaits /\ x.sid = next
    BY <1>1 DEF TurnRecords
  <2> HIDE DEF x
  <2>4. TurnOK(x) /\ InRegistry(x)
    BY <1>1, <2>0, <2>3 DEF TurnOK, InRegistry
  <2>6. index' = {turn'[o].sid}
    BY <1>1, <2>0, <2>1, <2>2, <2>3, Basics DEF Sound
  <2>7. \A p \in Turns : TurnOK(turn'[p]) /\ turn'[p].wait = turn[p].wait
    BY <1>1, <2>2, <2>3, <2>4
  <2>8. \A p \in Turns : active = p <=> InRegistry(turn'[p])
    BY <1>1, <2>0, <2>2, <2>4 DEF Sound
  <2>9. \A p \in Turns : Alive(turn'[p].wait, active, embedded)
    BY <1>1, <2>7 DEF Sound
  <2>10. Sound(active, index', embedded, embeddedSid, turn', recovery)
    BY <1>1, <2>0, <2>2, <2>6, <2>7, <2>8, <2>9, Basics DEF Sound
  <2> QED BY <1>1, <1>2, <1>3, <2>10 DEF RegistryInv
<1> QED BY <1>4, <1>5

\* A turn that awaits something else, or that has another backend.
LEMMA AwaitSound ==
  ASSUME ReplyInv, NEW o \in Turns, NEW a \in Handles, a # NoAttempt => turn[o].at = "going"
  PROVE  Sound(active, index, embedded, embeddedSid, [turn EXCEPT ![o].awaits = a], recovery)
<1> DEFINE x == [turn[o] EXCEPT !.awaits = a]
<1>1. turn[o] \in TurnRecords /\ TurnOK(turn[o])
      /\ Sound(active, index, embedded, embeddedSid, turn, recovery)
  BY Fields
<1>2. x \in TurnRecords /\ Alike(x, turn[o]) /\ x.awaits = a /\ x.result = turn[o].result
  BY <1>1 DEF TurnRecords, Alike
<1> HIDE DEF x
<1>3. TurnOK(x)
  BY <1>1, <1>2 DEF TurnOK, Alike
<1>4. Sound(active, index, embedded, embeddedSid, [turn EXCEPT ![o] = x], recovery)
  BY <1>1, <1>2, <1>3, ChangeSound
<1> QED BY <1>4 DEF x

LEMMA BackendSound ==
  ASSUME ReplyInv, NEW o \in Turns, NEW a \in Handles
  PROVE  Sound(active, index, embedded, embeddedSid, [turn EXCEPT ![o].backend = a], recovery)
<1> DEFINE x == [turn[o] EXCEPT !.backend = a]
<1>1. turn[o] \in TurnRecords /\ TurnOK(turn[o])
      /\ Sound(active, index, embedded, embeddedSid, turn, recovery)
  BY Fields
<1>2. x \in TurnRecords /\ Alike(x, turn[o]) /\ x.awaits = turn[o].awaits
      /\ x.result = turn[o].result
  BY <1>1 DEF TurnRecords, Alike
<1> HIDE DEF x
<1>3. TurnOK(x)
  BY <1>1, <1>2 DEF TurnOK, Alike
<1>4. Sound(active, index, embedded, embeddedSid, [turn EXCEPT ![o] = x], recovery)
  BY <1>1, <1>2, <1>3, ChangeSound
<1> QED BY <1>4 DEF x

\* An attempt under way has a turn.
LEMMA HasTurn ==
  ASSUME ReplyInv, NEW a \in Attempts, AtModel(a) \/ attempt[a].pc = "queued"
  PROVE  attempt[a].of \in Turns /\ attempt[a].pc \in Live /\ turn[attempt[a].of].at \in Begun
<1>1. attempt[a].pc \in Live
  BY DEF AtModel, Live
<1>2. attempt[a] \in AttemptRecords /\ attempt[a].of # None
      /\ turn[attempt[a].of].at \in Begun
  BY <1>1 DEF ReplyInv, Owned
<1> QED BY <1>1, <1>2 DEF AttemptRecords

LEMMA AskKeeps ==
  ASSUME ReplyInv, NEW o \in Turns, Ask(o)
  PROVE  RegistryInv'
<1>1. PICK a \in Attempts : /\ turn' = [turn EXCEPT ![o].awaits = a]
                            /\ lane' \in {a, lane}
  BY DEF Ask
<1>2. UNCHANGED <<active, index, embedded, embeddedSid, stored, recovery>>
      /\ turn[o].at = "going"
  BY DEF Ask, AtWork, runs, maps
<1>3. a \in Handles /\ lane \in Handles /\ stored \in Sids
  BY Fields DEF Handles
<1>4. Sound(active, index, embedded, embeddedSid, turn', recovery)
  BY <1>1, <1>2, <1>3, AwaitSound
<1> QED BY <1>1, <1>2, <1>3, <1>4 DEF RegistryInv

LEMMA EnterKeeps ==
  ASSUME ReplyInv, NEW a \in Attempts, Enter(a)
  PROVE  RegistryInv'
<1>1. UNCHANGED <<active, index, embedded, embeddedSid, stored, recovery>>
      /\ turn' \in {turn, Resumed(a)} /\ lane' \in {a, lane}
  BY DEF Enter, runs, maps
<1>3. a \in Handles /\ lane \in Handles /\ stored \in Sids
  BY Fields DEF Handles
<1>4. Sound(active, index, embedded, embeddedSid, turn', recovery)
  BY <1>1, Fields, ResumedSound
<1> QED BY <1>1, <1>3, <1>4 DEF RegistryInv

\* A handle is registered.
LEMMA AttachKeeps ==
  ASSUME ReplyInv, NEW a \in Attempts, Attach(a)
  PROVE  RegistryInv'
<1> DEFINE s == attempt[a].sid
           o == attempt[a].of
<1>1. /\ turn' \in {turn, [turn EXCEPT ![o].backend = a]}
      /\ embedded' = [embedded EXCEPT ![s] = a] /\ embeddedSid' = s
      /\ UNCHANGED <<active, index, lane, stored, recovery>>
      /\ AtModel(a)
  BY DEF Attach, maps, AtModel
<1>2. a \in Handles /\ a # NoAttempt /\ lane \in Handles /\ stored \in Sids
  BY Fields, Basics DEF Handles
<1>3. s \in Sids /\ o \in Turns
  BY <1>1, Fields, HasTurn
<1> HIDE DEF s, o
<1>4. Sound(active, index, embedded, embeddedSid, turn', recovery)
  BY <1>1, <1>2, <1>3, BackendSound, Fields
<1>6. /\ embedded' \in [Sids -> Handles] /\ embedded'[s] = a
      /\ \A q \in Sids : q # s => embedded'[q] = embedded[q]
  BY <1>1, <1>2, <1>3, <1>4 DEF Sound
<1>7. \A w \in Waits : Alive(w, active, embedded) => Alive(w, active, embedded')
  BY <1>2, <1>3, <1>6, WaitKinds DEF Alive
<1>8. recovery.wait \in Waits /\ \A p \in Turns : turn'[p].wait \in Waits
  BY <1>4 DEF Sound, TurnRecords, Recoveries
<1>9. Alive(recovery.wait, active, embedded') /\ \A p \in Turns : Alive(turn'[p].wait, active, embedded')
  BY <1>4, <1>7, <1>8 DEF Sound
<1>10. embeddedSid' \in Sids /\ embedded'[embeddedSid'] # NoAttempt
  BY <1>1, <1>2, <1>3, <1>6
<1>11. Sound(active, index, embedded', embeddedSid', turn', recovery)
  BY <1>4, <1>6, <1>9, <1>10 DEF Sound
<1> QED BY <1>1, <1>2, <1>11 DEF RegistryInv

\* The attempt begins to unwind, is closed, ends, or is left behind.
LEMMA AttemptKeeps ==
  ASSUME ReplyInv, NEW a \in Attempts,
         AttemptTimesOut(a) \/ BeforeTerminal(a) \/ EndAttempt(a)
  PROVE  RegistryInv'
<1>1. /\ Sound(active, index, embedded, embeddedSid, turn, recovery)
      /\ attempt[a].sid \in Sids /\ lane \in Handles /\ stored \in Sids
      /\ NoAttempt \in Handles
  BY Fields
<1>2. CASE AttemptTimesOut(a)
  BY <1>1, <1>2 DEF AttemptTimesOut, maps, runs, RegistryInv
<1>3. CASE BeforeTerminal(a)
  <2>1. ClearEmbedded(a, turn) /\ UNCHANGED <<active, index, lane, stored>>
    BY <1>3 DEF BeforeTerminal, maps
  <2>3. Sound(active, index, embedded', embeddedSid', turn', recovery')
    BY <1>1, <2>1, ClearEmbeddedSound
  <2> QED BY <1>1, <2>1, <2>3 DEF RegistryInv
<1>4. CASE EndAttempt(a)
  <2>1. /\ ClearEmbedded(a, Resumed(a)) /\ UNCHANGED <<active, index, stored>>
        /\ lane' = (IF lane = a THEN NoAttempt ELSE lane)
    BY <1>4 DEF EndAttempt, maps
  <2>2. Sound(active, index, embedded, embeddedSid, Resumed(a), recovery)
    BY ResumedSound
  <2>5. Sound(active, index, embedded', embeddedSid', turn', recovery')
    BY <1>1, <2>1, <2>2, ClearEmbeddedSound
  <2>6. lane' \in Handles
    BY <1>1, <2>1
  <2> QED BY <1>1, <2>1, <2>5, <2>6 DEF RegistryInv
<1> QED BY <1>2, <1>3, <1>4

LEMMA LaneTimesOutKeeps ==
  ASSUME ReplyInv, NEW a \in Attempts, LaneTimesOut(a)
  PROVE  RegistryInv'
<1> DEFINE o == attempt[a].of
<1>1. /\ UNCHANGED <<active, index, embedded, embeddedSid, stored, recovery>>
      /\ lane' = (IF lane = a THEN NoAttempt ELSE lane)
      /\ turn' = [turn EXCEPT ![o].awaits = NoAttempt] /\ AtModel(a)
  BY DEF LaneTimesOut, Awaited, runs, maps
<1>2. o \in Turns
  BY <1>1, HasTurn
<1>3. NoAttempt \in Handles /\ lane \in Handles /\ stored \in Sids
  BY Fields
<1> HIDE DEF o
<1>4. Sound(active, index, embedded, embeddedSid, turn', recovery)
  BY <1>1, <1>2, <1>3, AwaitSound
<1>5. lane' \in Handles
  BY <1>1, <1>3
<1> QED BY <1>1, <1>3, <1>4, <1>5 DEF RegistryInv

\* The operation fails, or its turn returns.
LEMMA LeaveKeeps ==
  ASSUME ReplyInv, NEW o \in Turns, Fail(o) \/ Finish(o)
  PROVE  RegistryInv'
<1>1. UNCHANGED <<embedded, embeddedSid, lane, stored>>
      /\ turn[o].at \in {"going", "returning"}
  BY DEF Fail, Finish, AtWork, runs
<1>2. PICK at \in Leaving : ClearState(o, Leaves(turn, o, at), recovery)
  BY DEF Fail, Finish, Leaving
<1>3. Sound(active', index', embedded, embeddedSid, turn', recovery')
  BY <1>1, <1>2, LeaveSound
<1>4. lane \in Handles /\ stored \in Sids
  BY Fields
<1> QED BY <1>1, <1>3, <1>4 DEF RegistryInv

\* The aborts that come from outside the turn.
LEMMA AbortKeeps ==
  ASSUME ReplyInv, UserAbort \/ AbortAll \/ \E o \in Turns : UpstreamAbort(o)
  PROVE  RegistryInv'
<1>0. /\ Sound(active, index, embedded, embeddedSid, turn, recovery)
      /\ lane \in Handles /\ stored \in Sids
  BY Fields
<1>1. UNCHANGED <<embedded, embeddedSid, lane, stored>>
  BY DEF UserAbort, AbortAll, UpstreamAbort, runs
<1>2. CASE UserAbort \/ AbortAll
  <2>1. PICK these : AbortActive(these, turn, recovery)
    BY <1>2 DEF UserAbort, AbortAll
  <2>2. Sound(active', index', embedded, embeddedSid, turn', recovery')
    BY <1>0, <2>1, AbortActiveSound
  <2> QED BY <1>0, <1>1, <2>2 DEF RegistryInv
<1>3. CASE \E o \in Turns : UpstreamAbort(o)
  <2>1. PICK o \in Turns : UpstreamAbort(o)
    BY <1>3
  <2>2. turn' = Signalled(turn, o) /\ UNCHANGED <<active, index, recovery>>
    BY <2>1 DEF UpstreamAbort, maps
  <2>3. Sound(active, index, embedded, embeddedSid, Signalled(turn, o), recovery)
    BY <1>0, SignalSound
  <2> QED BY <1>0, <1>1, <2>2, <2>3 DEF RegistryInv
<1> QED BY <1>2, <1>3

\* The recovery aborts what it found and waits for it.
LEMMA RecoverKeeps ==
  ASSUME ReplyInv, Recover
  PROVE  RegistryInv'
<1> DEFINE s == IF embeddedSid # None THEN embeddedSid ELSE ActiveSid
           f == IF embedded[s] = NoAttempt THEN active ELSE attempt[embedded[s]].of
           x == [waiting |-> TRUE, wait |-> WaitFor(s), sid |-> s, of |-> f,
                 count |-> recovery.count + 1]
<1>0. /\ Sound(active, index, embedded, embeddedSid, turn, recovery)
      /\ lane \in Handles /\ stored \in Sids
      /\ attempt \in [Attempts -> AttemptRecords]
  BY Fields
<1>1. /\ RunActive(s) /\ AbortRun(s, turn, x)
      /\ UNCHANGED <<embedded, embeddedSid, lane, stored>>
  BY DEF Recover, runs
<1>2. s \in Sids
  BY <1>0, Fields DEF Sound
<1> HIDE DEF s
<1>3. WaitFor(s) \in Waits /\ WaitFor(s) # NoWait /\ Alive(WaitFor(s), active, embedded)
  BY <1>1, <1>2, WaitKinds DEF WaitFor, RunActive, Alive
<1>4. recovery.count + 1 \in Nat
  BY <1>0 DEF Sound, Recoveries
<1>9. f \in Turns \cup {None}
  <2>1. embedded[s] \in Handles /\ active \in Turns \cup {None}
    BY <1>0, <1>2 DEF Sound
  <2>2. \A b \in Attempts : attempt[b].of \in Turns \cup {None}
    BY <1>0 DEF AttemptRecords
  <2> QED BY <2>1, <2>2 DEF Handles
<1> HIDE DEF f
<1>5. x \in Recoveries /\ x.waiting = TRUE /\ x.wait = WaitFor(s)
  BY <1>2, <1>3, <1>4, <1>9 DEF Recoveries
<1> HIDE DEF x
<1>6. Alive(x.wait, active, embedded) /\ x.wait # NoWait
  BY <1>3, <1>5
<1>7. Sound(active, index, embedded, embeddedSid, turn, x)
  BY <1>0, <1>5, <1>6, RecoverySound
<1>8. Sound(active', index', embedded, embeddedSid, turn', recovery')
  BY <1>1, <1>2, <1>7, AbortRunSound
<1> QED BY <1>0, <1>1, <1>8 DEF RegistryInv

\* The recovery gives up: the run's registrations go, and the operation's.
LEMMA ExpiresKeeps ==
  ASSUME ReplyInv, RecoveryExpires
  PROVE  RegistryInv'
<1> DEFINE s == recovery.sid
           idle == [recovery EXCEPT !.waiting = FALSE, !.wait = NoWait, !.sid = 1, !.of = None]
           t == ToldTurns(turn, OnRun(s))
           t2 == Resulting(t, active)
           emb == [embedded EXCEPT ![s] = NoAttempt]
           es == IF embeddedSid = s THEN None ELSE embeddedSid
<1>0. /\ Sound(active, index, embedded, embeddedSid, turn, recovery)
      /\ NoAttempt \in Handles /\ stored \in Sids
  BY Fields
<1>1. s \in Sids /\ idle \in Recoveries /\ idle.waiting = FALSE /\ idle.wait = NoWait
  <2>1. recovery \in Recoveries /\ NoWait \in Waits /\ 1 \in Sids
    BY <1>0, WaitKinds, Basics DEF Sound
  <2> QED BY <2>1 DEF Recoveries
<1>2. /\ embedded' = emb
      /\ embeddedSid' = IF embedded[s] # NoAttempt /\ embeddedSid = s THEN None ELSE embeddedSid
      /\ lane' = NoAttempt /\ stored' = stored
      /\ IF s \in index /\ active # None
           THEN ClearState(active, t2, idle)
           ELSE turn' = t /\ recovery' = idle /\ UNCHANGED maps
  BY DEF RecoveryExpires
<1>3. embeddedSid' = es
  BY <1>0, <1>2 DEF Sound
<1>4. Sound(active, index, emb, es, t, ToldRecovery(recovery, OnRun(s)))
  BY <1>0, <1>1, RunEndSound
<1>5. Alive(NoWait, active, emb)
  BY WaitKinds DEF Alive
<1>6. \A p \in Turns : InRegistry(t[p]) <=> InRegistry(turn[p])
  BY <1>0, <1>1, Told, WaitKinds DEF Sound
<1>7. \A p \in Turns : t[p].sid = turn[p].sid
  BY <1>0, <1>1, Told, WaitKinds DEF Sound
<1> HIDE DEF t, emb, es, idle, s
<1>8. Sound(active, index, emb, es, t, idle)
  BY <1>1, <1>4, <1>5, RecoverySound
<1>9. CASE s \in index /\ active # None
  <2>1. active \in Turns /\ InRegistry(t[active]) /\ InRegistry(turn[active])
    BY <1>0, <1>6, <1>9 DEF Sound
  <2>2. t[active].at = "going" /\ t[active].cleared = turn[active].cleared
    BY <2>1 DEF InRegistry
  <2>3. /\ Sound(active, index, emb, es, t2, idle) /\ t2[active].result = TRUE
        /\ Alike(t2[active], t[active])
    BY <1>8, <2>1, <2>2, ResultingSound
  <2>6. ClearState(active, t2, idle)
    BY <1>2, <1>9
  <2> HIDE DEF t2
  <2>4. /\ t2[active].at = "going" /\ t2[active].cleared = turn[active].cleared
        /\ t2[active].sid = turn[active].sid
    BY <1>7, <2>1, <2>2, <2>3 DEF Alike
  <2>5. Sound(active', index', emb, es, turn', recovery')
    BY <2>1, <2>3, <2>4, <2>6, ClearSound
  <2> QED BY <1>0, <1>2, <1>3, <2>5 DEF RegistryInv
<1>10. CASE ~ (s \in index /\ active # None)
  <2>1. turn' = t /\ recovery' = idle /\ active' = active /\ index' = index
    BY <1>2, <1>10 DEF maps
  <2> QED BY <1>0, <1>2, <1>3, <1>8, <2>1 DEF RegistryInv
<1> QED BY <1>9, <1>10

-----------------------------------------------------------------------------
(* The steps and the attempts *)

\* From t to u no turn is taken back, and none awaits another attempt.
Ages(t, u) ==
  /\ u \in [Turns -> TurnRecords]
  /\ \A o \in Turns : t[o].at \in Begun => u[o].at \in Begun
  /\ \A o \in Turns : u[o].awaits \in {t[o].awaits, NoAttempt}

LEMMA AgesTwice ==
  ASSUME NEW t, NEW u, NEW v, Ages(t, u), Ages(u, v)
  PROVE  Ages(t, v)
BY DEF Ages

\* One turn changes.
LEMMA OneAges ==
  ASSUME NEW t \in [Turns -> TurnRecords], NEW o \in Turns, NEW x \in TurnRecords,
         t[o].at \in Begun => x.at \in Begun, x.awaits \in {t[o].awaits, NoAttempt}
  PROVE  Ages(t, [t EXCEPT ![o] = x])
BY DEF Ages

LEMMA FlagsAge ==
  ASSUME NEW t \in [Turns -> TurnRecords], NEW o \in Turns
  PROVE  Ages(t, Resulting(t, o)) /\ Ages(t, Signalled(t, o)) /\ Ages(t, Off(t, o))
<1> DEFINE x == [t[o] EXCEPT !.result = TRUE]
           y == [t[o] EXCEPT !.signal = TRUE]
           z == [t[o] EXCEPT !.cleared = TRUE, !.sid = 1]
<1>0. t[o] \in TurnRecords
  OBVIOUS
<1>1. x \in TurnRecords /\ x.at = t[o].at /\ x.awaits = t[o].awaits
  BY <1>0 DEF TurnRecords
<1>2. y \in TurnRecords /\ y.at = t[o].at /\ y.awaits = t[o].awaits
  BY <1>0 DEF TurnRecords
<1>3. z \in TurnRecords /\ z.at = t[o].at /\ z.awaits = t[o].awaits
  BY <1>0, Basics DEF TurnRecords
<1>4. /\ Resulting(t, o) = [t EXCEPT ![o] = x] /\ Signalled(t, o) = [t EXCEPT ![o] = y]
      /\ Off(t, o) = [t EXCEPT ![o] = z]
  BY DEF Resulting, Signalled, Off
<1> HIDE DEF x, y, z
<1>5. Ages(t, [t EXCEPT ![o] = x])
  BY <1>1, OneAges
<1>6. Ages(t, [t EXCEPT ![o] = y])
  BY <1>2, OneAges
<1>7. Ages(t, [t EXCEPT ![o] = z])
  BY <1>3, OneAges
<1> QED BY <1>4, <1>5, <1>6, <1>7

LEMMA ToldAge ==
  ASSUME NEW t \in [Turns -> TurnRecords], NEW w
  PROVE  Ages(t, ToldTurns(t, w))
<1>1. ASSUME NEW o \in Turns
      PROVE  /\ ToldTurns(t, w)[o] \in TurnRecords
             /\ ToldTurns(t, w)[o].awaits = t[o].awaits
             /\ t[o].at \in Begun => ToldTurns(t, w)[o].at \in Begun
  <2> DEFINE x == [t[o] EXCEPT !.at = "checking", !.wait = NoWait]
  <2>1. t[o] \in TurnRecords /\ NoWait \in Waits
    BY WaitKinds
  <2>2. x \in TurnRecords /\ x.awaits = t[o].awaits
    BY <2>1 DEF TurnRecords
  <2>3. ToldTurns(t, w)[o] = IF t[o].at = "waiting" /\ t[o].wait = w THEN x ELSE t[o]
    BY DEF ToldTurns
  <2> HIDE DEF x
  <2>4. t[o].at = "waiting" => t[o].at \notin Begun
    BY DEF Begun
  <2> QED BY <2>1, <2>2, <2>3, <2>4
<1>2. ToldTurns(t, w) = [o \in Turns |-> ToldTurns(t, w)[o]]
  BY DEF ToldTurns
<1>3. ToldTurns(t, w) \in [Turns -> TurnRecords]
  BY <1>1, <1>2
<1> QED BY <1>1, <1>3 DEF Ages

LEMMA LeavesAge ==
  ASSUME NEW t \in [Turns -> TurnRecords], NEW o \in Turns, NEW at \in Leaving
  PROVE  Ages(t, Leaves(t, o, at))
<1>1. Left(t, o, at, Leaves(t, o, at))
  BY LeavesRecord
<1>2. at \in Begun
  BY DEF Leaving, Begun
<1> QED BY <1>1, <1>2 DEF Left, Ages

LEMMA ClearAge ==
  ASSUME NEW t \in [Turns -> TurnRecords], NEW r, NEW o \in Turns, ClearState(o, t, r)
  PROVE  Ages(t, turn')
<1>1. Ages(t, t)
  BY DEF Ages
<1>2. Ages(t, Off(t, o)) /\ Off(t, o) \in [Turns -> TurnRecords]
  BY FlagsAge DEF Ages
<1>3. Ages(Off(t, o), ToldTurns(Off(t, o), OnReply))
  BY <1>2, ToldAge
<1>4. Ages(t, ToldTurns(Off(t, o), OnReply))
  BY <1>2, <1>3, AgesTwice
<1> QED BY <1>1, <1>4 DEF ClearState

\* No step but those that begin, end or let run an attempt: some attempts are
\* cancelled at most.
Calm(t) == Ages(t, turn') /\ (attempt' = attempt \/ \E these : attempt' = Cancelled(these))

LEMMA AbortActiveCalm ==
  ASSUME ReplyInv, NEW these, NEW t \in [Turns -> TurnRecords], NEW r,
         AbortActive(these, t, r)
  PROVE  Calm(t)
<1>1. CASE active = None
  <2>1. turn' = t /\ attempt' = Cancelled(these)
    BY <1>1 DEF AbortActive
  <2> QED BY <2>1 DEF Ages, Calm
<1>2. CASE active # None
  <2> DEFINE u == Resulting(t, active)
             v == IF active \in FollowUps THEN u ELSE Signalled(u, active)
  <2>0. active \in Turns
    BY <1>2, Fields DEF Sound
  <2>1. attempt' = Cancelled(these \cup Reached(active)) /\ AbortOperation(active, t, r)
    BY <1>2 DEF AbortActive
  <2>2. Ages(t, u) /\ u \in [Turns -> TurnRecords]
    BY <2>0, FlagsAge DEF Ages
  <2>5. ClearState(active, v, r) \/ turn' = v
    BY <2>1 DEF AbortOperation
  <2> HIDE DEF u
  <2>3. Ages(u, v) /\ v \in [Turns -> TurnRecords]
    BY <2>0, <2>2, FlagsAge DEF Ages
  <2>4. Ages(t, v)
    BY <2>2, <2>3, AgesTwice
  <2> HIDE DEF v
  <2>6. Ages(t, turn')
    BY <2>0, <2>3, <2>4, <2>5, ClearAge, AgesTwice
  <2> QED BY <2>1, <2>6 DEF Calm
<1> QED BY <1>1, <1>2

LEMMA AbortRunCalm ==
  ASSUME ReplyInv, NEW s, NEW t \in [Turns -> TurnRecords], NEW r, AbortRun(s, t, r)
  PROVE  Calm(t)
<1>1. CASE AbortActive({}, t, r)
  BY <1>1, AbortActiveCalm
<1>2. CASE turn' = t /\ attempt' = Cancelled({embedded[s]})
  BY <1>2 DEF Calm, Ages
<1> QED BY <1>1, <1>2 DEF AbortRun

LEMMA PlacedAge ==
  ASSUME ReplyInv, NEW o \in Turns, turn[o].at \in {"idle", "waiting", "checking"},
         NEW at \in {"checking", "ready", "waiting"}, NEW w \in Waits, NEW s \in Sids
  PROVE  Ages(turn, Placed(o, at, w, s)) /\ Placed(o, at, w, s) \in [Turns -> TurnRecords]
<1> DEFINE x == [turn[o] EXCEPT !.at = at, !.wait = w, !.runSid = s]
<1>1. turn \in [Turns -> TurnRecords] /\ turn[o] \in TurnRecords
  BY Fields
<1>2. x \in TurnRecords /\ x.awaits = turn[o].awaits
  BY <1>1 DEF TurnRecords
<1>3. turn[o].at \notin Begun
  BY DEF Begun
<1>4. Placed(o, at, w, s) = [turn EXCEPT ![o] = x]
  BY DEF Placed
<1> HIDE DEF x
<1>5. Ages(turn, [turn EXCEPT ![o] = x])
  BY <1>1, <1>2, <1>3, OneAges
<1> QED BY <1>4, <1>5 DEF Ages

LEMMA TurnCalm ==
  ASSUME ReplyInv, NEW o \in Turns, TurnStep(o), ~ Ask(o)
  PROVE  Calm(turn)
<1>0. /\ turn \in [Turns -> TurnRecords] /\ turn[o] \in TurnRecords
      /\ turn[o].runSid \in Sids /\ stored \in Sids /\ ActiveSid \in Sids
      /\ NoWait \in Waits /\ OnReply \in Waits /\ \A s \in Sids : OnRun(s) \in Waits
  BY Fields, WaitKinds
<1>1. CASE Arrive(o)
  <2> DEFINE t == Placed(o, "waiting", WaitFor(ActiveSid), turn[o].runSid)
  <2>1. WaitFor(ActiveSid) \in Waits
    BY <1>0 DEF WaitFor
  <2>2. turn[o].at = "idle"
    BY <1>1 DEF Arrive
  <2>3. \/ AbortRun(ActiveSid, t, recovery)
        \/ turn' = t /\ attempt' = attempt
        \/ turn' = Placed(o, "ready", NoWait, stored) /\ attempt' = attempt
    BY <1>1 DEF Arrive
  <2>4. Ages(turn, t) /\ t \in [Turns -> TurnRecords]
    BY <1>0, <2>1, <2>2, PlacedAge
  <2> HIDE DEF t
  <2>5. Ages(turn, Placed(o, "ready", NoWait, stored))
    BY <1>0, <2>2, PlacedAge
  <2>6. CASE AbortRun(ActiveSid, t, recovery)
    <3>1. Calm(t)
      BY <2>4, <2>6, AbortRunCalm
    <3> QED BY <2>4, <3>1, AgesTwice DEF Calm
  <2> QED BY <2>3, <2>4, <2>5, <2>6 DEF Calm
<1>2. CASE FollowUp(o) \/ WaitExpires(o) \/ Check(o)
  <2>1. /\ turn[o].at \in {"idle", "waiting", "checking"} /\ attempt' = attempt
        /\ \/ turn' = Placed(o, "ready", NoWait, stored)
           \/ turn' = Placed(o, "checking", NoWait, turn[o].runSid)
           \/ turn' = Leaves(turn, o, "over")
    BY <1>2 DEF FollowUp, WaitExpires, Check
  <2>2. Ages(turn, Leaves(turn, o, "over"))
    BY <1>0, LeavesAge DEF Leaving
  <2> QED BY <1>0, <2>1, <2>2, PlacedAge DEF Calm
<1>3. CASE Begin(o)
  <2> DEFINE x == [turn[o] EXCEPT !.at = "going", !.sid = turn[o].runSid]
  <2>1. attempt' = attempt /\ turn' \in {Leaves(turn, o, "over"), [turn EXCEPT ![o] = x]}
    BY <1>3 DEF Begin
  <2>2. x \in TurnRecords /\ x.at = "going" /\ x.awaits = turn[o].awaits
    BY <1>0 DEF TurnRecords
  <2> HIDE DEF x
  <2>3. Ages(turn, [turn EXCEPT ![o] = x])
    BY <1>0, <2>2, OneAges DEF Begun
  <2>4. Ages(turn, Leaves(turn, o, "over"))
    BY <1>0, LeavesAge DEF Leaving
  <2> QED BY <2>1, <2>3, <2>4 DEF Calm
<1>4. CASE Advance(o)
  <2>1. PICK n \in (turn[o].step + 1)..Len(Steps) : turn' = [turn EXCEPT ![o].step = n]
    BY <1>4 DEF Advance
  <2>2. n \in 1..3
    <3>1. turn[o].step \in 1..3 /\ Len(Steps) = 3
      BY <1>0 DEF TurnRecords, Steps
    <3> QED BY <3>1
  <2> DEFINE x == [turn[o] EXCEPT !.step = n]
  <2>3. x \in TurnRecords /\ x.at = turn[o].at /\ x.awaits = turn[o].awaits
    BY <1>0, <2>2 DEF TurnRecords
  <2>4. turn' = [turn EXCEPT ![o] = x] /\ attempt' = attempt
    BY <1>4, <2>1 DEF Advance
  <2> HIDE DEF x
  <2>5. Ages(turn, [turn EXCEPT ![o] = x])
    BY <1>0, <2>3, OneAges
  <2> QED BY <2>4, <2>5 DEF Calm
<1>5. CASE Compact(o)
  <2> DEFINE x == [turn[o] EXCEPT !.runSid = stored + 1]
             y == [turn[o] EXCEPT !.runSid = stored + 1, !.sid = stored + 1]
  <2>1. attempt' = attempt /\ turn' \in {[turn EXCEPT ![o] = x], [turn EXCEPT ![o] = y]}
    BY <1>5 DEF Compact
  <2>2. stored + 1 \in Sids
    <3>1. stored \in Nat /\ stored >= 1 /\ stored < MaxSids /\ MaxSids \in Nat
      BY <1>0, <1>5, ReplyRunsAssumption DEF Compact, Sids, ReplyRunsAssumption
    <3> QED BY <3>1 DEF Sids
  <2>3. /\ x \in TurnRecords /\ x.at = turn[o].at /\ x.awaits = turn[o].awaits
        /\ y \in TurnRecords /\ y.at = turn[o].at /\ y.awaits = turn[o].awaits
    BY <1>0, <2>2 DEF TurnRecords
  <2> HIDE DEF x, y
  <2>4. Ages(turn, [turn EXCEPT ![o] = x])
    BY <1>0, <2>3, OneAges
  <2>5. Ages(turn, [turn EXCEPT ![o] = y])
    BY <1>0, <2>3, OneAges
  <2> QED BY <2>1, <2>4, <2>5 DEF Calm
<1>6. CASE Fail(o) \/ Finish(o)
  <2>1. PICK at \in Leaving : ClearState(o, Leaves(turn, o, at), recovery)
    BY <1>6 DEF Fail, Finish, Leaving
  <2>2. Ages(turn, Leaves(turn, o, at)) /\ Leaves(turn, o, at) \in [Turns -> TurnRecords]
    BY <1>0, LeavesAge DEF Ages
  <2>3. Ages(Leaves(turn, o, at), turn')
    BY <2>1, <2>2, ClearAge
  <2>4. attempt' = attempt
    BY <1>6 DEF Fail, Finish
  <2> QED BY <2>2, <2>3, <2>4, AgesTwice DEF Calm
<1>7. CASE UpstreamAbort(o)
  BY <1>0, <1>7, FlagsAge DEF UpstreamAbort, Calm
<1> QED BY <1>1, <1>2, <1>3, <1>4, <1>5, <1>6, <1>7 DEF TurnStep

LEMMA OtherCalm ==
  ASSUME ReplyInv,
         \/ UserAbort \/ AbortAll \/ Recover \/ RecoveryExpires
         \/ \E a \in Attempts : AttemptTimesOut(a) \/ LaneTimesOut(a)
  PROVE  Calm(turn)
<1>0. turn \in [Turns -> TurnRecords]
  BY Fields
<1>1. CASE UserAbort \/ AbortAll
  <2>1. PICK these : AbortActive(these, turn, recovery)
    BY <1>1 DEF UserAbort, AbortAll
  <2> QED BY <1>0, <2>1, AbortActiveCalm
<1>2. CASE Recover
  <2>1. PICK s, r : AbortRun(s, turn, r)
    BY <1>2 DEF Recover
  <2> QED BY <1>0, <2>1, AbortRunCalm
<1>3. CASE RecoveryExpires
  <2> DEFINE t == ToldTurns(turn, OnRun(recovery.sid))
             u == Resulting(t, active)
  <2>1. active \in Turns \cup {None}
    BY Fields DEF Sound
  <2>2. Ages(turn, t) /\ t \in [Turns -> TurnRecords]
    BY <1>0, ToldAge DEF Ages
  <2>3. attempt' = attempt
        /\ (turn' = t \/ (active # None /\ \E r : ClearState(active, u, r)))
    BY <1>3 DEF RecoveryExpires
  <2> HIDE DEF t
  <2>4. CASE active # None /\ \E r : ClearState(active, u, r)
    <3>1. Ages(t, u) /\ u \in [Turns -> TurnRecords]
      BY <2>1, <2>2, <2>4, FlagsAge DEF Ages
    <3>4. PICK r : ClearState(active, u, r)
      BY <2>4
    <3> HIDE DEF u
    <3>2. Ages(u, turn')
      BY <2>1, <2>4, <3>1, <3>4, ClearAge
    <3>3. Ages(turn, u)
      BY <2>2, <3>1, AgesTwice
    <3> QED BY <2>3, <3>2, <3>3, AgesTwice DEF Calm
  <2> QED BY <2>2, <2>3, <2>4 DEF Calm
<1>4. ASSUME NEW a \in Attempts, AttemptTimesOut(a)
      PROVE  Calm(turn)
  BY <1>0, <1>4 DEF AttemptTimesOut, Calm, Ages
<1>5. ASSUME NEW a \in Attempts, LaneTimesOut(a)
      PROVE  Calm(turn)
  <2> DEFINE o == attempt[a].of
             x == [turn[o] EXCEPT !.awaits = NoAttempt]
  <2>1. o \in Turns /\ turn' = [turn EXCEPT ![o] = x] /\ attempt' = attempt
    BY <1>5, HasTurn DEF LaneTimesOut, Awaited
  <2> HIDE DEF o
  <2>2. x \in TurnRecords /\ x.at = turn[o].at /\ x.awaits = NoAttempt
    <3>1. turn[o] \in TurnRecords /\ NoAttempt \in Handles
      BY <2>1, Fields
    <3> QED BY <3>1 DEF TurnRecords
  <2> HIDE DEF x
  <2>3. Ages(turn, [turn EXCEPT ![o] = x])
    BY <1>0, <2>1, <2>2, OneAges
  <2> QED BY <2>1, <2>3 DEF Calm
<1> QED BY <1>1, <1>2, <1>3, <1>4, <1>5

\* The attempts a step lets run: none but those that ran before.
NoneStarted == \A a \in Attempts : attempt'[a].pc = "running" => attempt[a].pc = "running"

LEMMA CalmOwned ==
  ASSUME ReplyInv, Calm(turn)
  PROVE  Owned(attempt', turn') /\ NoneStarted
<1>0. /\ Owned(attempt, turn) /\ attempt \in [Attempts -> AttemptRecords]
      /\ Ages(turn, turn')
  BY DEF ReplyInv, Owned, Calm
<1>1. ASSUME NEW a \in Attempts
      PROVE  /\ attempt'[a] \in AttemptRecords /\ attempt'[a].of = attempt[a].of
             /\ attempt'[a].pc \in Live <=> attempt[a].pc \in Live
             /\ attempt'[a].pc = "running" => attempt[a].pc = "running"
  <2>1. attempt[a] \in AttemptRecords
    BY <1>0
  <2>2. attempt'[a] = attempt[a]
        \/ (attempt[a].pc = "running" /\ attempt'[a] = [attempt[a] EXCEPT !.pc = "cancelled"])
    BY DEF Calm, Cancelled
  <2>3. CASE attempt'[a] = attempt[a]
    BY <2>1, <2>3
  <2>4. CASE attempt[a].pc = "running" /\ attempt'[a] = [attempt[a] EXCEPT !.pc = "cancelled"]
    BY <2>1, <2>4 DEF AttemptRecords, Live
  <2> QED BY <2>2, <2>3, <2>4
<1>2. attempt' = [a \in Attempts |-> attempt'[a]]
  BY <1>0 DEF Calm, Cancelled
<1>3. attempt' \in [Attempts -> AttemptRecords]
  BY <1>1, <1>2
<1>4. \A a \in Attempts : attempt'[a].pc \in Live <=> attempt'[a].of # None
  BY <1>0, <1>1 DEF Owned
<1>5. \A a \in Attempts : attempt'[a].of # None => turn'[attempt'[a].of].at \in Begun
  <2>1. \A a \in Attempts : attempt[a].of \in Turns \cup {None}
    BY <1>0 DEF AttemptRecords
  <2> QED BY <1>0, <1>1, <2>1 DEF Owned, Ages
<1>6. \A o \in Turns : turn'[o].awaits # NoAttempt => attempt'[turn'[o].awaits].of = o
  <2> SUFFICES ASSUME NEW o \in Turns, turn'[o].awaits # NoAttempt
               PROVE  attempt'[turn'[o].awaits].of = o
    OBVIOUS
  <2>1. turn'[o].awaits = turn[o].awaits
    BY <1>0 DEF Ages
  <2>2. turn[o].awaits \in Handles
    BY Fields DEF TurnRecords
  <2>3. turn[o].awaits \in Attempts
    BY <2>1, <2>2 DEF Handles
  <2> QED BY <1>0, <1>1, <2>1, <2>3 DEF Owned
<1> QED BY <1>1, <1>3, <1>4, <1>5, <1>6 DEF Owned, NoneStarted

\* One attempt that has its turn goes on.
LEMMA GoesOn ==
  ASSUME ReplyInv, Ages(turn, turn'), NEW a \in Attempts, attempt[a].pc \in Live,
         NEW pc \in Live, attempt' = [attempt EXCEPT ![a].pc = pc]
  PROVE  Owned(attempt', turn')
<1>0. Owned(attempt, turn) /\ attempt \in [Attempts -> AttemptRecords]
  BY DEF ReplyInv, Owned
<1> DEFINE x == [attempt[a] EXCEPT !.pc = pc]
<1>1. x \in AttemptRecords /\ x.of = attempt[a].of /\ x.pc = pc
  BY <1>0 DEF AttemptRecords
<1>2. attempt' = [attempt EXCEPT ![a] = x]
  OBVIOUS
<1> HIDE DEF x
<1>3. /\ attempt' \in [Attempts -> AttemptRecords]
      /\ \A b \in Attempts : attempt'[b].of = attempt[b].of
      /\ \A b \in Attempts : attempt'[b].pc \in Live <=> attempt[b].pc \in Live
  BY <1>0, <1>1, <1>2
<1>5. \A b \in Attempts : attempt'[b].of # None => turn'[attempt'[b].of].at \in Begun
  <2>1. \A b \in Attempts : attempt[b].of \in Turns \cup {None}
    BY <1>0 DEF AttemptRecords
  <2> QED BY <1>0, <1>3, <2>1 DEF Owned, Ages
<1>6. \A o \in Turns : turn'[o].awaits # NoAttempt => attempt'[turn'[o].awaits].of = o
  <2> SUFFICES ASSUME NEW o \in Turns, turn'[o].awaits # NoAttempt
               PROVE  attempt'[turn'[o].awaits].of = o
    OBVIOUS
  <2>1. turn'[o].awaits = turn[o].awaits
    BY DEF Ages
  <2>2. turn[o].awaits \in Handles
    BY Fields DEF TurnRecords
  <2>3. turn[o].awaits \in Attempts
    BY <2>1, <2>2 DEF Handles
  <2> QED BY <1>0, <1>3, <2>1, <2>3 DEF Owned
<1> QED BY <1>0, <1>3, <1>5, <1>6 DEF Owned

\* One attempt returns: its turn goes on without it.
LEMMA ResumedAge ==
  ASSUME ReplyInv, NEW a \in Attempts
  PROVE  /\ Ages(turn, Resumed(a)) /\ Resumed(a) \in [Turns -> TurnRecords]
         /\ \A o \in Turns : Resumed(a)[o].awaits # a
<1>1. /\ Sound(active, index, embedded, embeddedSid, Resumed(a), recovery)
      /\ \A o \in Turns : Resumed(a)[o].awaits =
                            IF turn[o].awaits = a THEN NoAttempt ELSE turn[o].awaits
      /\ \A o \in Turns : Resumed(a)[o].at = turn[o].at
  BY ResumedSound
<1>2. Resumed(a) \in [Turns -> TurnRecords]
  BY <1>1 DEF Sound
<1>3. a # NoAttempt
  BY Basics
<1> QED BY <1>1, <1>2, <1>3 DEF Ages

LEMMA ReturnedOwned ==
  ASSUME ReplyInv, NEW a \in Attempts, attempt' = Returned(a),
         Ages(Resumed(a), turn')
  PROVE  Owned(attempt', turn') /\ NoneStarted /\ attempt'[a].pc = "ended"
<1>0. Owned(attempt, turn) /\ attempt \in [Attempts -> AttemptRecords]
  BY DEF ReplyInv, Owned
<1> DEFINE x == [pc |-> "ended", of |-> None, sid |-> 1]
<1>1. x \in AttemptRecords /\ x.of = None /\ x.pc = "ended"
  BY Basics DEF AttemptRecords
<1>2. attempt' = [attempt EXCEPT ![a] = x]
  BY DEF Returned
<1> HIDE DEF x
<1>3. /\ attempt' \in [Attempts -> AttemptRecords] /\ attempt'[a] = x
      /\ \A b \in Attempts : b # a => attempt'[b] = attempt[b]
  BY <1>0, <1>1, <1>2
<1>4. Ages(turn, turn') /\ \A o \in Turns : turn'[o].awaits # a
  <2>1. Ages(turn, Resumed(a)) /\ \A o \in Turns : Resumed(a)[o].awaits # a
    BY ResumedAge
  <2>2. Ages(turn, turn')
    BY <2>1, AgesTwice
  <2>3. a # NoAttempt
    BY Basics
  <2> QED BY <2>1, <2>2, <2>3 DEF Ages
<1>5. "ended" \notin Live
  BY DEF Live
<1>6. \A b \in Attempts : attempt'[b].of # None => turn'[attempt'[b].of].at \in Begun
  <2>1. \A b \in Attempts : attempt[b].of \in Turns \cup {None}
    BY <1>0 DEF AttemptRecords
  <2> QED BY <1>0, <1>1, <1>3, <1>4, <2>1 DEF Owned, Ages
<1>7. \A o \in Turns : turn'[o].awaits # NoAttempt => attempt'[turn'[o].awaits].of = o
  <2> SUFFICES ASSUME NEW o \in Turns, turn'[o].awaits # NoAttempt
               PROVE  attempt'[turn'[o].awaits].of = o
    OBVIOUS
  <2>1. turn'[o].awaits = turn[o].awaits /\ turn'[o].awaits # a
    BY <1>4 DEF Ages
  <2>2. turn[o].awaits \in Handles
    BY Fields DEF TurnRecords
  <2>3. turn[o].awaits \in Attempts
    BY <2>1, <2>2 DEF Handles
  <2> QED BY <1>0, <1>3, <2>1, <2>3 DEF Owned
<1>8. \A b \in Attempts : attempt'[b].pc \in Live <=> attempt'[b].of # None
  BY <1>0, <1>1, <1>3, <1>5 DEF Owned
<1>9. NoneStarted
  BY <1>1, <1>3 DEF NoneStarted
<1> QED BY <1>1, <1>3, <1>6, <1>7, <1>8, <1>9 DEF Owned

\* clearActiveEmbeddedRun changes no turn but those that waited for the run.
LEMMA ClearEmbeddedAge ==
  ASSUME NEW a, NEW t \in [Turns -> TurnRecords], ClearEmbedded(a, t)
  PROVE  Ages(t, turn')
<1>1. turn' = t \/ turn' = ToldTurns(t, OnRun(attempt[a].sid))
  BY DEF ClearEmbedded
<1>2. Ages(t, t)
  BY DEF Ages
<1> QED BY <1>1, <1>2, ToldAge

LEMMA AskOwned ==
  ASSUME ReplyInv, NEW o \in Turns, Ask(o)
  PROVE  Owned(attempt', turn') /\ NoneStarted
<1>0. /\ Owned(attempt, turn) /\ attempt \in [Attempts -> AttemptRecords]
      /\ turn \in [Turns -> TurnRecords] /\ turn[o].runSid \in Sids /\ turn[o].at = "going"
  BY Fields DEF ReplyInv, Owned, Ask, AtWork
<1>1. PICK a \in Attempts, pc \in {"preparing", "queued"} :
           /\ attempt[a].pc = "unused"
           /\ attempt' = [attempt EXCEPT ![a] = [pc |-> pc, of |-> o, sid |-> turn[o].runSid]]
           /\ turn' = [turn EXCEPT ![o].awaits = a]
  BY DEF Ask
<1> DEFINE x == [pc |-> pc, of |-> o, sid |-> turn[o].runSid]
<1>2. x \in AttemptRecords /\ x.of = o /\ x.pc = pc
  BY <1>0 DEF AttemptRecords, Live
<1>3. attempt' = [attempt EXCEPT ![a] = x]
  BY <1>1
<1> HIDE DEF x
<1>4. /\ attempt' \in [Attempts -> AttemptRecords] /\ attempt'[a] = x
      /\ \A b \in Attempts : b # a => attempt'[b] = attempt[b]
  BY <1>0, <1>2, <1>3
<1>5. /\ \A p \in Turns : turn'[p].at = turn[p].at
      /\ turn'[o].awaits = a /\ \A p \in Turns : p # o => turn'[p].awaits = turn[p].awaits
  BY <1>0, <1>1 DEF TurnRecords
<1>6. attempt[a].of = None
  BY <1>0, <1>1 DEF Owned, Live
<1>7. \A b \in Attempts : attempt'[b].pc \in Live <=> attempt'[b].of # None
  <2>1. pc \in Live /\ o # None
    BY Basics DEF Live
  <2> QED BY <1>0, <1>2, <1>4, <2>1 DEF Owned
<1>8. \A b \in Attempts : attempt'[b].of # None => turn'[attempt'[b].of].at \in Begun
  <2>1. \A b \in Attempts : attempt[b].of \in Turns \cup {None}
    BY <1>0 DEF AttemptRecords
  <2>2. turn[o].at \in Begun
    BY <1>0 DEF Begun
  <2> QED BY <1>0, <1>2, <1>4, <1>5, <2>1, <2>2 DEF Owned
<1>9. \A p \in Turns : turn'[p].awaits # NoAttempt => attempt'[turn'[p].awaits].of = p
  <2> SUFFICES ASSUME NEW p \in Turns, p # o, turn[p].awaits # NoAttempt
               PROVE  attempt'[turn[p].awaits].of = p
    BY <1>2, <1>4, <1>5
  <2>1. turn[p].awaits \in Handles
    BY <1>0 DEF TurnRecords
  <2>2. turn[p].awaits \in Attempts /\ attempt[turn[p].awaits].of = p
    BY <1>0, <2>1 DEF Owned, Handles
  <2>3. turn[p].awaits # a
    BY <1>6, <2>2, Basics
  <2> QED BY <1>4, <2>2, <2>3
<1>10. NoneStarted
  BY <1>2, <1>4 DEF NoneStarted
<1> QED BY <1>4, <1>7, <1>8, <1>9, <1>10 DEF Owned

\* What an attempt does, its turn awaiting it or not.
LEMMA AttemptOwned ==
  ASSUME ReplyInv, NEW a \in Attempts, AttemptStep(a)
  PROVE  Owned(attempt', turn') /\ (NoneStarted \/ Attach(a))
<1>0. /\ attempt \in [Attempts -> AttemptRecords] /\ turn \in [Turns -> TurnRecords]
      /\ Ages(turn, turn) /\ Ages(Resumed(a), Resumed(a))
      /\ Resumed(a) \in [Turns -> TurnRecords]
  BY Fields, ResumedAge DEF Ages
<1>1. CASE Enter(a)
  <2>1. CASE attempt' = Returned(a) /\ turn' = Resumed(a)
    BY <1>0, <2>1, ReturnedOwned
  <2>2. CASE attempt' = [attempt EXCEPT ![a].pc = "preparing"] /\ turn' = turn
    <3>1. attempt[a].pc \in Live /\ "preparing" \in Live
      BY <1>1 DEF Enter, Live
    <3>2. Owned(attempt', turn')
      BY <1>0, <2>2, <3>1, GoesOn
    <3>3. NoneStarted
      BY <1>0, <2>2 DEF NoneStarted, AttemptRecords
    <3> QED BY <3>2, <3>3
  <2> QED BY <1>1, <2>1, <2>2 DEF Enter
<1>2. CASE Attach(a)
  <2> DEFINE o == attempt[a].of
             x == [turn[o] EXCEPT !.backend = a]
  <2>1. /\ \E pc \in {"cancelled", "running"} : attempt' = [attempt EXCEPT ![a].pc = pc]
        /\ turn' = turn \/ turn' = [turn EXCEPT ![o] = x]
        /\ AtModel(a)
    BY <1>2 DEF Attach, AtModel
  <2>2. o \in Turns /\ attempt[a].pc \in Live
    BY <2>1, HasTurn
  <2> HIDE DEF o
  <2>3. x \in TurnRecords /\ x.at = turn[o].at /\ x.awaits = turn[o].awaits
    <3>1. a \in Handles /\ turn[o] \in TurnRecords
      BY <1>0, <2>2 DEF Handles
    <3> QED BY <3>1 DEF TurnRecords
  <2> HIDE DEF x
  <2>4. Ages(turn, [turn EXCEPT ![o] = x])
    BY <1>0, <2>2, <2>3, OneAges
  <2>5. Ages(turn, turn')
    BY <1>0, <2>1, <2>4
  <2>6. PICK pc \in Live : attempt' = [attempt EXCEPT ![a].pc = pc]
    BY <2>1 DEF Live
  <2> QED BY <1>2, <2>2, <2>5, <2>6, GoesOn
<1>3. CASE AttemptTimesOut(a) \/ LaneTimesOut(a)
  BY <1>3, OtherCalm, CalmOwned
<1>4. CASE BeforeTerminal(a)
  <2>1. /\ attempt[a].pc \in Live /\ "closing" \in Live
        /\ attempt' = [attempt EXCEPT ![a].pc = "closing"] /\ ClearEmbedded(a, turn)
    BY <1>4 DEF BeforeTerminal, Live
  <2>2. Ages(turn, turn')
    BY <1>0, <2>1, ClearEmbeddedAge
  <2>3. Owned(attempt', turn')
    BY <2>1, <2>2, GoesOn
  <2>4. NoneStarted
    BY <1>0, <2>1 DEF NoneStarted, AttemptRecords
  <2> QED BY <2>3, <2>4
<1>5. CASE EndAttempt(a)
  <2>1. attempt' = Returned(a) /\ ClearEmbedded(a, Resumed(a))
    BY <1>5 DEF EndAttempt
  <2>2. Ages(Resumed(a), turn')
    BY <1>0, <2>1, ClearEmbeddedAge
  <2> QED BY <2>1, <2>2, ReturnedOwned
<1> QED BY <1>1, <1>2, <1>3, <1>4, <1>5 DEF AttemptStep

\* Every step keeps the attempts with their turns, and only the step that
\* attaches a handle lets an attempt run.
LEMMA StepOwned ==
  ASSUME ReplyInv, [Next]_vars
  PROVE  Owned(attempt', turn') /\ (NoneStarted \/ \E a \in Attempts : Attach(a))
<1>1. CASE UNCHANGED vars
  <2>1. turn' = turn /\ attempt' = attempt
    BY <1>1 DEF vars
  <2> QED BY <2>1 DEF ReplyInv, NoneStarted
<1>2. ASSUME NEW o \in Turns, TurnStep(o)
      PROVE  Owned(attempt', turn') /\ NoneStarted
  BY <1>2, AskOwned, TurnCalm, CalmOwned
<1>3. ASSUME NEW a \in Attempts, AttemptStep(a)
      PROVE  Owned(attempt', turn') /\ (NoneStarted \/ Attach(a))
  BY <1>3, AttemptOwned
<1>4. CASE UserAbort \/ AbortAll \/ Recover \/ RecoveryExpires
  BY <1>4, OtherCalm, CalmOwned
<1> QED BY <1>1, <1>2, <1>3, <1>4 DEF Next

-----------------------------------------------------------------------------
(* The invariant *)

\* Initially nothing is registered, nobody waits and no attempt is made.
LEMMA ReplyInit == Init => ReplyInv
<1> SUFFICES ASSUME Init PROVE ReplyInv
  OBVIOUS
<1>1. /\ active = None /\ index = {} /\ embedded = [s \in Sids |-> NoAttempt]
      /\ embeddedSid = None /\ lane = NoAttempt /\ stored = 1
      /\ turn = [o \in Turns |-> Unborn]
      /\ attempt = [a \in Attempts |-> [pc |-> "unused", of |-> None, sid |-> 1]]
      /\ recovery = [waiting |-> FALSE, wait |-> NoWait, sid |-> 1, of |-> None, count |-> 0]
  BY DEF Init
<1>2. recovery \in Recoveries /\ recovery.wait = NoWait /\ recovery.waiting = FALSE
  BY <1>1, WaitKinds, Basics DEF Recoveries
<1>3. Alive(NoWait, active, embedded)
  BY WaitKinds DEF Alive
<1>4. turn \in [Turns -> TurnRecords] /\ \A o \in Turns : turn[o] = Unborn
  BY <1>1, UnbornRecord
<1>5. embedded \in [Sids -> Handles] /\ lane \in Handles /\ stored \in Sids
  BY <1>1, Basics DEF Handles
<1>6. Sound(active, index, embedded, embeddedSid, turn, recovery)
  <2>1. \A o \in Turns : active = o <=> InRegistry(turn[o])
    BY <1>1, <1>4, UnbornRecord, Basics
  <2>2. \A o \in Turns : TurnOK(turn[o]) /\ Alive(turn[o].wait, active, embedded)
    BY <1>3, <1>4, UnbornRecord
  <2> QED BY <1>1, <1>2, <1>3, <1>4, <1>5, <2>1, <2>2 DEF Sound
<1>7. Owned(attempt, turn)
  <2> DEFINE x == [pc |-> "unused", of |-> None, sid |-> 1]
  <2>1. x \in AttemptRecords /\ x.of = None /\ x.pc \notin Live
    BY Basics DEF AttemptRecords, Live
  <2>2. attempt = [a \in Attempts |-> x]
    BY <1>1
  <2> HIDE DEF x
  <2>3. attempt \in [Attempts -> AttemptRecords] /\ \A a \in Attempts : attempt[a] = x
    BY <2>1, <2>2
  <2> QED BY <1>4, <2>1, <2>3, UnbornRecord DEF Owned
<1> QED BY <1>5, <1>6, <1>7 DEF ReplyInv, RegistryInv

\* Every step keeps the invariant.
LEMMA ReplyStep == ReplyInv /\ [Next]_vars => ReplyInv'
<1> SUFFICES ASSUME ReplyInv, [Next]_vars PROVE ReplyInv'
  OBVIOUS
<1>0. Owned(attempt', turn')
  BY StepOwned
<1>1. CASE UNCHANGED vars
  BY <1>1 DEF vars, maps, runs, ReplyInv, RegistryInv
<1>2. ASSUME NEW o \in Turns, TurnStep(o)
      PROVE  RegistryInv'
  BY <1>2, ArriveKeeps, MoveKeeps, BeginKeeps, AdvanceKeeps, CompactKeeps, AskKeeps,
     LeaveKeeps, AbortKeeps
     DEF TurnStep
<1>3. ASSUME NEW a \in Attempts, AttemptStep(a)
      PROVE  RegistryInv'
  BY <1>3, EnterKeeps, AttachKeeps, AttemptKeeps, LaneTimesOutKeeps DEF AttemptStep
<1>4. ASSUME UserAbort \/ AbortAll
      PROVE  RegistryInv'
  BY <1>4, AbortKeeps
<1>5. ASSUME Recover
      PROVE  RegistryInv'
  BY <1>5, RecoverKeeps
<1>6. ASSUME RecoveryExpires
      PROVE  RegistryInv'
  BY <1>6, ExpiresKeeps
<1>7. CASE Next
  <2>1. RegistryInv'
    BY <1>2, <1>3, <1>4, <1>5, <1>6, <1>7 DEF Next
  <2> QED BY <1>0, <2>1 DEF ReplyInv
<1> QED BY <1>1, <1>7

\* A registration is taken away by the end of its own attempt, or by the
\* recovery, under the id it waited for.
LEMMA WhoUnregisters ==
  ASSUME ReplyInv, [Next]_vars, NEW s \in Sids, embedded[s] # NoAttempt,
         embedded'[s] = NoAttempt
  PROVE  \/ \E a \in Attempts : embedded[s] = a /\ (BeforeTerminal(a) \/ EndAttempt(a))
         \/ RecoveryExpires /\ recovery.sid = s
<1>0. embedded \in [Sids -> Handles]
  BY Fields DEF Sound
<1>1. embedded' # embedded
  OBVIOUS
<1>2. ASSUME NEW a \in Attempts, Attach(a)
      PROVE  FALSE
  <2>1. embedded' = [embedded EXCEPT ![attempt[a].sid] = a] /\ a # NoAttempt
    BY <1>2, Basics DEF Attach
  <2> QED BY <1>0, <2>1
<1>3. ASSUME NEW a \in Attempts, BeforeTerminal(a) \/ EndAttempt(a)
      PROVE  embedded[s] = a
  <2>1. PICK t : ClearEmbedded(a, t)
    BY <1>3 DEF BeforeTerminal, EndAttempt
  <2>2. embedded' = embedded \/ (embedded[attempt[a].sid] = a
          /\ embedded' = [embedded EXCEPT ![attempt[a].sid] = NoAttempt])
    BY <2>1 DEF ClearEmbedded, runs
  <2> QED BY <1>0, <2>2
<1>4. ASSUME NEW o \in Turns, TurnStep(o)
      PROVE  FALSE
  BY <1>1, <1>4
     DEF TurnStep, Arrive, FollowUp, WaitExpires, Check, Begin, Advance, Compact, Ask,
         Fail, Finish, UpstreamAbort, runs
<1>5. ASSUME NEW a \in Attempts, Enter(a) \/ AttemptTimesOut(a) \/ LaneTimesOut(a)
      PROVE  FALSE
  BY <1>1, <1>5 DEF Enter, AttemptTimesOut, LaneTimesOut, runs
<1>6. ~ UserAbort /\ ~ AbortAll /\ ~ Recover /\ ~ UNCHANGED vars
  BY <1>1 DEF UserAbort, AbortAll, Recover, vars, runs
<1>7. ASSUME RecoveryExpires
      PROVE  recovery.sid = s
  BY <1>0, <1>7 DEF RecoveryExpires
<1> QED BY <1>2, <1>3, <1>4, <1>5, <1>6, <1>7 DEF Next, AttemptStep

-----------------------------------------------------------------------------
(* The theorems *)

\* ReplyInv holds in every state.
THEOREM ReplyInvariance == Spec => []ReplyInv
  BY ReplyInit, ReplyStep, PTL DEF Spec

\* Type correctness: a turn awaits only an attempt of its own, and an attempt
\* that is under way, awaited or late, belongs to a turn that has begun.
THEOREM ReplyTypes == Spec => []TypeOK
<1>1. ASSUME ReplyInv PROVE TypeOK
  <2>1. index \subseteq Sids
    BY <1>1, Fields DEF Sound
  <2>2. /\ active \in Turns \cup {None} /\ embeddedSid \in Sids \cup {None}
        /\ embedded \in [Sids -> Attempts \cup {NoAttempt}]
        /\ lane \in Attempts \cup {NoAttempt} /\ stored \in Sids
    BY <1>1, Fields DEF Sound, Handles
  <2>3. ASSUME NEW o \in Turns
        PROVE  /\ turn[o].at \in {"idle", "waiting", "checking", "ready", "going", "returning", "over"}
               /\ (turn[o].at = "waiting") = (turn[o].wait # NoWait)
               /\ {turn[o].awaits, turn[o].backend} \subseteq Attempts \cup {NoAttempt}
    BY <1>1, Fields DEF TurnRecords, TurnOK, Handles
  <2>4. ASSUME NEW o \in Turns, turn[o].awaits # NoAttempt
        PROVE  turn[o].at = "going" /\ attempt[turn[o].awaits].of = o
    BY <1>1, <2>4, Fields DEF TurnOK, ReplyInv, Owned
  <2>5. ASSUME NEW a \in Attempts
        PROVE  /\ attempt[a].pc = "queued" \/ AtModel(a) \/ attempt[a].of = None
               /\ attempt[a].of # None => turn[attempt[a].of].at \in {"going", "returning", "over"}
    BY <1>1 DEF ReplyInv, Owned, Live, AtModel, Begun
  <2> QED BY <2>1, <2>2, <2>3, <2>4, <2>5 DEF TypeOK
<1> QED BY <1>1, ReplyInvariance, PTL

\* The registry holds exactly the operation that has begun and is not cleared,
\* whatever aborts, failures, forced clears and late ends there are.
THEOREM RegistryIsExact == Spec => []RegistryExact
<1>1. ASSUME ReplyInv PROVE RegistryExact
  <2>1. \A o \in Turns : turn[o].cleared \in BOOLEAN /\ (active = o <=> InRegistry(turn[o]))
    BY <1>1 DEF ReplyInv, RegistryInv, Sound, TurnRecords
  <2> QED BY <2>1 DEF RegistryExact, Registered, InRegistry
<1> QED BY <1>1, ReplyInvariance, PTL

\* The one id of the operation leads to it, and no entry leads nowhere.
THEOREM IndexIsExact == Spec => []IndexExact
<1>1. ReplyInv => IndexExact
  BY DEF ReplyInv, RegistryInv, Sound, IndexExact
<1> QED BY <1>1, ReplyInvariance, PTL

\* Nobody waits for an end that has passed.
THEOREM NobodyWaitsInVain == Spec => []WaitersLive
<1>1. ReplyInv => WaitersLive
  BY DEF ReplyInv, RegistryInv, Sound, WaitersLive, Alive
<1> QED BY <1>1, ReplyInvariance, PTL

\* An attempt is let run only for the registered operation, however many
\* attempts of however many turns are being prepared or left behind.
THEOREM AttemptsAreRegistered == Spec => AttachedIsRegistered
<1> DEFINE Let == \A a \in Attempts :
                    attempt[a].pc = "preparing" /\ attempt'[a].pc = "running" =>
                      active = attempt[a].of
<1>1. ASSUME ReplyInv, [Next]_vars PROVE [Let]_vars
  <2> SUFFICES ASSUME NEW a \in Attempts, attempt[a].pc = "preparing",
                      attempt'[a].pc = "running"
               PROVE  active = attempt[a].of
    BY <1>1
  <2> DEFINE o == attempt[a].of
  <2>1. PICK b \in Attempts : Attach(b)
    BY <1>1, StepOwned DEF NoneStarted
  <2>2. attempt \in [Attempts -> AttemptRecords]
    BY <1>1, Fields
  <2>3. b = a
    BY <2>1, <2>2 DEF Attach
  <2>4. o \in Turns /\ turn[o].at \in Begun
    BY <1>1, HasTurn DEF AtModel
  <2>5. turn[o].result # TRUE
    BY <2>1, <2>2, <2>3 DEF Attach, AttemptRecords
  <2> HIDE DEF o
  <2>6. turn[o].cleared \in BOOLEAN /\ TurnOK(turn[o])
    BY <1>1, <2>4, Fields DEF TurnRecords
  <2>7. turn[o].cleared = FALSE /\ turn[o].at = "going"
    BY <2>4, <2>5, <2>6 DEF TurnOK, Begun
  <2>8. active = o
    BY <1>1, <2>4, <2>7, Fields DEF Sound, InRegistry
  <2> QED BY <2>8 DEF o
<1>2. Spec => [][Let]_vars
  BY <1>1, ReplyInvariance, PTL DEF Spec
<1> QED BY <1>2 DEF AttachedIsRegistered

\* A registered run leaves the registry by its own end, or by the force of the
\* recovery that waited for its id.
THEOREM RunsLeaveByThemselves == Spec => OnlyItsOwnEnd
<1> DEFINE Leave == \A s \in Sids :
                      embedded[s] # NoAttempt /\ embedded'[s] = NoAttempt =>
                        \/ attempt'[embedded[s]].pc \in {"ended", "closing"}
                        \/ RecoveryExpires /\ recovery.sid = s
<1>1. ASSUME ReplyInv, [Next]_vars PROVE [Leave]_vars
  <2> SUFFICES ASSUME NEW s \in Sids, embedded[s] # NoAttempt, embedded'[s] = NoAttempt
               PROVE  \/ attempt'[embedded[s]].pc \in {"ended", "closing"}
                      \/ RecoveryExpires /\ recovery.sid = s
    BY <1>1
  <2>1. attempt \in [Attempts -> AttemptRecords]
    BY <1>1, Fields
  <2>2. ASSUME NEW a \in Attempts, BeforeTerminal(a)
        PROVE  attempt'[a].pc = "closing"
    BY <2>1, <2>2 DEF BeforeTerminal, AttemptRecords
  <2>3. ASSUME NEW a \in Attempts, EndAttempt(a)
        PROVE  attempt'[a].pc = "ended"
    BY <2>1, <2>3 DEF EndAttempt, Returned
  <2>4. \/ \E a \in Attempts : embedded[s] = a /\ (BeforeTerminal(a) \/ EndAttempt(a))
        \/ RecoveryExpires /\ recovery.sid = s
    BY <1>1, WhoUnregisters
  <2> QED BY <2>2, <2>3, <2>4
<1>2. Spec => [][Leave]_vars
  BY <1>1, ReplyInvariance, PTL DEF Spec
<1> QED BY <1>2 DEF OnlyItsOwnEnd
=============================================================================
