------------------------- MODULE DeliveryQueueProofs -------------------------
(***************************************************************************)
(* Proofs about the queue of outbound messages, for any messages, kinds,   *)
(* drains, crashes and faults.  The invariant says of each actor what its  *)
(* position implies for the message it works on, and of each message what  *)
(* its history implies for its entry.  An actor touches one message at a   *)
(* time, and the claim keeps the others from relying on it: OwnStep proves *)
(* this once for all the steps that an actor makes.                        *)
(*                                                                         *)
(* A second invariant, RetryInv, bounds how often an entry is tried.  The  *)
(* owner of an entry counts its own failure and gives the entry up, and a  *)
(* deferral counts one, without the claim, in each life of the process:    *)
(* the count is bounded by the deferrals that are over, not by the owner.  *)
(***************************************************************************)
EXTENDS DeliveryQueue, TLAPS

Pcs == OnFile \cup {"new", "direct", "done", "off", "scanning", "reading"}
Jobs == [pc : Pcs, msg : Msgs \cup {"none"}, held : Entries, todo : SUBSET Msgs,
         marked : BOOLEAN]
GivenUp == {"dropped", "suppressed", "swallowed"}
Fates == {"logged", "marked", "overwritten"} \cup GivenUp
Deferrals == [pc : {"off", "read", "write"}, held : Entries]

\* The message was sent under a mark that nothing has undone.
Sent(h) == "marked" \in h /\ "overwritten" \notin h

\* The message is accounted for even without its entry.
Settled(n, h) == n > 0 \/ h \cap GivenUp # {}

LiveOnly == {"new", "direct", "claiming", "marking", "noting", "done"}

\* What the job J of a implies, under the entries f, the claims c, and the
\* histories n and h.
JobOK(a, J, f, c, n, h) ==
  /\ a \in Msgs => J.msg = a
  /\ a \in Workers => J.marked = FALSE /\ J.pc \notin LiveOnly
  /\ J.pc \in Claiming => J.msg \in Msgs /\ J.msg \in c
  /\ J.held # Absent => J.held.mark # "absent"
  /\ J.pc \in {"new", "claiming", "preparing", "marking"} => J.marked = FALSE
  /\ J.pc = "taken" => n[J.msg] > 0
  /\ J.pc \in {"noting", "acking"} => Settled(n[J.msg], h[J.msg])
  /\ J.pc \in Claiming /\ Sent(h[J.msg]) =>
       J.pc \notin {"preparing", "sending"} /\ (J.held # Absent => J.held.mark # "none")
  /\ a \in Msgs /\ Sent(h[a]) => J.pc \in {"taken", "noting", "acking", "failing", "done"}
  /\ a \in Msgs /\ J.pc = "sending" /\ J.marked = TRUE =>
       f[a].mark # "none" \/ "overwritten" \in h[a]

\* What the history of a message implies for its entry F.
MsgOK(m, F, buried, n, h) ==
  /\ Sent(h) => F.mark # "none" /\ n > 0
  /\ "logged" \in h => F.mark # "absent" \/ m \in buried \/ Settled(n, h)

QueueTypes ==
  /\ file \in [Msgs -> Entries] /\ claims \subseteq Msgs
  /\ accepted \in [Msgs -> Nat] /\ how \in [Msgs -> SUBSET Fates]
  /\ job \in [Actors -> Jobs] /\ deferral \in [Msgs -> Deferrals]

JobsOK == \A a \in Actors : JobOK(a, job[a], file, claims, accepted, how)
MsgsOK == \A m \in Msgs : MsgOK(m, file[m], failed, accepted[m], how[m])
DeferralsOK == \A m \in Msgs : deferral[m].pc = "write" => deferral[m].held.mark # "absent"

QueueInv == QueueTypes /\ JobsOK /\ MsgsOK /\ DeferralsOK /\ OneOwner

Owns(a, m) == job[a].pc \in Claiming /\ job[a].msg = m

-----------------------------------------------------------------------------
(* Jobs and entries *)

LEMMA EntryTypes ==
  /\ Absent \in Entries /\ Absent.mark = "absent"
  /\ Fresh \in Entries /\ Fresh.mark = "none" /\ Fresh # Absent
<1>1. Absent \in Entries /\ Absent.mark = "absent" /\ Fresh \in Entries /\ Fresh.mark = "none"
  BY DEF Absent, Fresh, Entries
<1> QED BY <1>1

LEMMA BumpedEntry ==
  ASSUME NEW e \in Entries
  PROVE  Bumped(e) \in Entries /\ Bumped(e).mark = e.mark
  BY DEF Bumped, Entries

\* A job that goes on.
LEMMA HoldingJob ==
  ASSUME QueueTypes, NEW a \in Actors, NEW pc \in Pcs, NEW e \in Entries, Holding(a, pc, e)
  PROVE  \E J \in Jobs : /\ job' = [job EXCEPT ![a] = J]
                         /\ J.pc = pc /\ J.held = e /\ J.msg = job[a].msg
                         /\ J.marked = job[a].marked
<1> DEFINE J == [job[a] EXCEPT !.pc = pc, !.held = e]
<1>1. job[a] \in Jobs
  BY DEF QueueTypes
<1>2. /\ J \in Jobs /\ J.pc = pc /\ J.held = e /\ J.msg = job[a].msg
      /\ J.marked = job[a].marked
  BY <1>1 DEF Jobs
<1>3. job' = [job EXCEPT ![a] = J]
  BY DEF Holding
<1> QED BY <1>2, <1>3

\* A job that rests.
Resting(a, J) ==
  /\ J.held = Absent /\ J.pc \in {"done", "off", "scanning"}
  /\ a \in Msgs => J.msg = a /\ J.pc = "done"
  /\ a \in Workers => J.marked = FALSE /\ J.pc # "done"

LEMMA RestingOK ==
  ASSUME NEW a, NEW J, Resting(a, J), NEW f, NEW c, NEW n, NEW h
  PROVE  JobOK(a, J, f, c, n, h)
  BY DEF Resting, JobOK, Claiming, OnFile, LiveOnly

LEMMA ScanningJob ==
  ASSUME NEW todo \in SUBSET Msgs
  PROVE  /\ Scanning(todo) \in Jobs
         /\ Scanning(todo).held = Absent /\ Scanning(todo).pc \in {"off", "scanning"}
         /\ Scanning(todo).marked = FALSE
<1>1. NoJob \in Jobs /\ NoJob.held = Absent /\ NoJob.pc = "off" /\ NoJob.marked = FALSE
  BY EntryTypes DEF NoJob, Jobs, Pcs
<1>2. CASE todo = {}
  BY <1>1, <1>2 DEF Scanning
<1>3. CASE todo # {}
  <2> DEFINE J == [NoJob EXCEPT !.pc = "scanning", !.todo = todo]
  <2>1. /\ J \in Jobs /\ J.held = Absent /\ J.pc = "scanning" /\ J.marked = FALSE
    BY <1>1 DEF Jobs, Pcs
  <2> QED BY <1>3, <2>1 DEF Scanning
<1> QED BY <1>2, <1>3

LEMMA Apart == \A a \in Actors : a \in Msgs <=> a \notin Workers
  BY DeliveryConstants DEF DeliveryConstants, Actors, Workers

LEMMA ReleasedJob ==
  ASSUME QueueInv, NEW a \in Actors, Release(a)
  PROVE  /\ claims' = claims \ {job[a].msg}
         /\ \E J \in Jobs : job' = [job EXCEPT ![a] = J] /\ Resting(a, J)
<1>1. job[a] \in Jobs /\ (a \in Msgs => job[a].msg = a)
  BY DEF QueueInv, QueueTypes, JobsOK, JobOK
<1>2. job' = [job EXCEPT ![a] = Released(a)] /\ claims' = claims \ {job[a].msg}
  BY DEF Release
<1>3. Released(a) \in Jobs /\ Resting(a, Released(a))
  <2>1. CASE a \in Msgs
    <3> DEFINE J == [job[a] EXCEPT !.pc = "done", !.held = Absent]
    <3>1. J \in Jobs /\ J.pc = "done" /\ J.held = Absent /\ J.msg = a
      BY <1>1, <2>1, EntryTypes DEF Jobs, Pcs
    <3>2. Released(a) = J
      BY <2>1 DEF Released
    <3> HIDE DEF J
    <3> QED BY <2>1, <3>1, <3>2, Apart DEF Resting
  <2>2. CASE a \notin Msgs
    <3>1. job[a].todo \in SUBSET Msgs
      BY <1>1 DEF Jobs
    <3>2. Released(a) = Scanning(job[a].todo)
      BY <2>2 DEF Released
    <3> QED BY <2>2, <3>1, <3>2, ScanningJob DEF Resting
  <2> QED BY <2>1, <2>2
<1> QED BY <1>2, <1>3

-----------------------------------------------------------------------------
(* Steps of one actor on one message, and steps that only end jobs *)

LEMMA OwnStep ==
  ASSUME QueueInv, NEW a \in Actors, NEW J \in Jobs, NEW m \in Msgs,
         job' = [job EXCEPT ![a] = J],
         JobOK(a, J, file', claims', accepted', how'),
         file' \in [Msgs -> Entries], claims' \subseteq Msgs,
         accepted' \in [Msgs -> Nat], how' \in [Msgs -> SUBSET Fates],
         \A p \in Msgs : p # m =>
           /\ file'[p] = file[p] /\ accepted'[p] = accepted[p] /\ how'[p] = how[p]
           /\ p \in claims <=> p \in claims'
           /\ p \in failed => p \in failed',
         accepted'[m] >= accepted[m], how[m] \subseteq how'[m],
         Sent(how'[m]) => Sent(how[m]) \/ a = m,
         \/ Owns(a, m)
         \/ /\ m \in claims => m \in claims'
            /\ Sent(how'[m]) => Sent(how[m])
            /\ a = m \/ file'[m] = file[m],
         J.pc \in Claiming => J.msg = m /\ (Owns(a, m) \/ m \notin claims),
         MsgOK(m, file'[m], failed', accepted'[m], how'[m]),
         deferral' = deferral
  PROVE  QueueInv'
<1>1. job' \in [Actors -> Jobs] /\ job'[a] = J /\ \A b \in Actors : b # a => job'[b] = job[b]
  BY DEF QueueInv, QueueTypes
<1>2. QueueTypes'
  BY <1>1 DEF QueueInv, QueueTypes
<1>3. DeferralsOK'
  BY DEF QueueInv, DeferralsOK
<1>4. MsgsOK'
  <2> SUFFICES ASSUME NEW p \in Msgs, p # m
               PROVE  MsgOK(p, file'[p], failed', accepted'[p], how'[p])
    BY DEF MsgsOK
  <2> QED BY DEF QueueInv, MsgsOK, MsgOK
<1>5. ASSUME NEW b \in Actors, b # a
      PROVE  JobOK(b, job[b], file', claims', accepted', how')
  <2>0. /\ JobOK(b, job[b], file, claims, accepted, how) /\ job[b] \in Jobs
        /\ accepted[m] \in Nat /\ accepted'[m] \in Nat
    BY DEF QueueInv, JobsOK, QueueTypes
  <2>1. ASSUME Owns(a, m), job[b].pc \in Claiming, job[b].msg = m
        PROVE  FALSE
    BY <1>5, <2>1 DEF QueueInv, OneOwner, Owns
  <2>2. job[b].pc \in Claiming => job[b].msg \in Msgs /\ job[b].msg \in claims'
    BY <2>0, <2>1 DEF JobOK
  <2>3. /\ job[b].pc = "taken" => accepted'[job[b].msg] > 0
        /\ job[b].pc \in {"noting", "acking"} => Settled(accepted'[job[b].msg], how'[job[b].msg])
    <3>1. job[b].pc \in {"taken", "noting", "acking"} => job[b].pc \in Claiming
      BY DEF Claiming, OnFile
    <3> QED BY <2>0, <2>2, <3>1 DEF JobOK, Settled
  <2>4. job[b].pc \in Claiming /\ Sent(how'[job[b].msg]) =>
          job[b].pc \notin {"preparing", "sending"} /\ (job[b].held # Absent => job[b].held.mark # "none")
    BY <2>0, <2>1, <2>2 DEF JobOK
  <2>5. b \in Msgs => /\ job[b].msg = b
                      /\ job[b].pc = "sending" => job[b].pc \in Claiming
    BY <2>0 DEF JobOK, Claiming, OnFile
  <2>6. b \in Msgs /\ job[b].pc = "sending" /\ job[b].marked = TRUE =>
          file'[b].mark # "none" \/ "overwritten" \in how'[b]
    BY <1>5, <2>0, <2>1, <2>5 DEF JobOK
  <2>7. b \in Msgs /\ Sent(how'[b]) =>
          job[b].pc \in {"taken", "noting", "acking", "failing", "done"}
    BY <1>5, <2>0 DEF JobOK
  <2> QED BY <2>0, <2>2, <2>3, <2>4, <2>5, <2>6, <2>7 DEF JobOK
<1>6. JobsOK'
  BY <1>1, <1>5 DEF JobsOK
<1>7. OneOwner'
  <2> SUFFICES ASSUME NEW b \in Actors, NEW c \in Actors, b # c,
                      job'[b].pc \in Claiming, job'[c].pc \in Claiming,
                      job'[b].msg = job'[c].msg
               PROVE  FALSE
    BY DEF OneOwner
  <2>1. ASSUME NEW d \in Actors, d # a, job[d].pc \in Claiming, job[d].msg = m,
               J.pc \in Claiming
        PROVE  FALSE
    <3>1. m \in claims
      BY <2>1 DEF QueueInv, JobsOK, JobOK
    <3> QED BY <2>1, <3>1 DEF QueueInv, OneOwner, Owns
  <2>2. CASE b = a
    BY <1>1, <2>1, <2>2
  <2>3. CASE c = a
    BY <1>1, <2>1, <2>3
  <2>4. CASE b # a /\ c # a
    BY <1>1, <2>4 DEF QueueInv, OneOwner
  <2> QED BY <2>2, <2>3, <2>4
<1> QED BY <1>2, <1>3, <1>4, <1>6, <1>7 DEF QueueInv

\* What the invariant says of an actor that holds a claim.
LEMMA OwnerFacts ==
  ASSUME QueueInv, NEW a \in Actors, job[a].pc \in Claiming
  PROVE  /\ job[a] \in Jobs /\ job[a].msg \in Msgs /\ Owns(a, job[a].msg)
         /\ JobOK(a, job[a], file, claims, accepted, how)
         /\ MsgOK(job[a].msg, file[job[a].msg], failed, accepted[job[a].msg], how[job[a].msg])
         /\ file[job[a].msg] \in Entries /\ accepted[job[a].msg] \in Nat
         /\ how[job[a].msg] \in SUBSET Fates
<1>1. job[a] \in Jobs /\ JobOK(a, job[a], file, claims, accepted, how)
  BY DEF QueueInv, QueueTypes, JobsOK
<1>2. job[a].msg \in Msgs
  BY <1>1 DEF JobOK
<1> QED BY <1>1, <1>2 DEF QueueInv, QueueTypes, MsgsOK, Owns

\* An owner goes on with its message, whose entry stays as it is.
LEMMA OwnerGoes ==
  ASSUME QueueInv, NEW a \in Actors, NEW pc \in Claiming, NEW e \in Entries,
         job[a].pc \in Claiming, Holding(a, pc, e),
         UNCHANGED <<file, failed, claims, deferral, accepted>>,
         how' \in [Msgs -> SUBSET Fates],
         \A p \in Msgs : p # job[a].msg => how'[p] = how[p],
         how[job[a].msg] \subseteq how'[job[a].msg],
         how'[job[a].msg] \subseteq how[job[a].msg] \cup GivenUp,
         a \in Workers => pc \notin LiveOnly,
         e # Absent => e.mark # "absent",
         pc \in {"preparing", "marking"} \/ (pc = "sending" /\ a \in Msgs)
           => job[a].marked = FALSE,
         pc = "taken" => accepted[job[a].msg] > 0,
         pc \in {"noting", "acking"} => Settled(accepted[job[a].msg], how'[job[a].msg]),
         Sent(how[job[a].msg]) =>
           /\ pc \notin {"preparing", "sending"} /\ (e # Absent => e.mark # "none")
           /\ a \in Msgs => pc \in {"taken", "noting", "acking", "failing"}
  PROVE  QueueInv'
<1> DEFINE m == job[a].msg
<1>1. /\ m \in Msgs /\ Owns(a, m) /\ JobOK(a, job[a], file, claims, accepted, how)
      /\ MsgOK(m, file[m], failed, accepted[m], how[m])
      /\ how \in [Msgs -> SUBSET Fates] /\ accepted[m] \in Nat
  BY OwnerFacts DEF QueueInv, QueueTypes
<1>2. pc \in Pcs
  BY DEF Claiming, Pcs
<1>3. PICK J \in Jobs : /\ job' = [job EXCEPT ![a] = J]
                        /\ J.pc = pc /\ J.held = e /\ J.msg = m
                        /\ J.marked = job[a].marked
  BY <1>2, HoldingJob DEF QueueInv
<1>4. /\ how' \in [Msgs -> SUBSET Fates] /\ how[m] \subseteq how'[m]
      /\ how'[m] \subseteq how[m] \cup GivenUp
      /\ \A p \in Msgs : p # m => how'[p] = how[p]
  OBVIOUS
<1>5. Sent(how'[m]) => Sent(how[m])
  BY <1>4 DEF Sent, GivenUp
<1>6. JobOK(a, J, file', claims', accepted', how')
  <2>1. /\ a \in Msgs => m = a
        /\ a \in Workers => job[a].marked = FALSE
        /\ m \in claims
    BY <1>1 DEF JobOK, Owns
  <2>2. pc # "new" /\ pc # "claiming" /\ pc # "done"
    BY DEF Claiming, OnFile
  <2>3. J.pc \in Claiming /\ Sent(how'[J.msg]) =>
          J.pc \notin {"preparing", "sending"} /\ (J.held # Absent => J.held.mark # "none")
    BY <1>3, <1>5
  <2>4. a \in Msgs /\ Sent(how'[a]) =>
          J.pc \in {"taken", "noting", "acking", "failing", "done"}
    BY <1>3, <1>5, <2>1
  <2>5. /\ J.pc = "taken" => accepted'[J.msg] > 0
        /\ J.pc \in {"noting", "acking"} => Settled(accepted'[J.msg], how'[J.msg])
    BY <1>3, <1>4
  <2>6. /\ J.pc \in {"new", "claiming", "preparing", "marking"} => J.marked = FALSE
        /\ a \in Msgs /\ J.pc = "sending" => J.marked = FALSE
        /\ a \in Workers => J.marked = FALSE /\ J.pc \notin LiveOnly
    BY <1>3, <2>1, <2>2
  <2>7. /\ a \in Msgs => J.msg = a
        /\ J.pc \in Claiming => J.msg \in Msgs /\ J.msg \in claims'
        /\ J.held # Absent => J.held.mark # "absent"
    BY <1>1, <1>3, <2>1
  <2> HIDE DEF m
  <2> QED BY <2>3, <2>4, <2>5, <2>6, <2>7 DEF JobOK
<1>7. MsgOK(m, file'[m], failed', accepted'[m], how'[m])
  <2>1. Settled(accepted[m], how[m]) => Settled(accepted'[m], how'[m])
    BY <1>4 DEF Settled
  <2>2. "logged" \in how'[m] => "logged" \in how[m]
    BY <1>4 DEF GivenUp
  <2> QED BY <1>1, <1>5, <2>1, <2>2 DEF MsgOK
<1>8. /\ file' \in [Msgs -> Entries] /\ claims' \subseteq Msgs
      /\ accepted' \in [Msgs -> Nat] /\ accepted'[m] >= accepted[m]
  BY <1>1 DEF QueueInv, QueueTypes
<1> HIDE DEF m
<1> QED BY <1>1, <1>3, <1>4, <1>5, <1>6, <1>7, <1>8, OwnStep

\* An owner ends its work: the entry of its message is as it leaves it.
LEMMA OwnerEnds ==
  ASSUME QueueInv, NEW a \in Actors, job[a].pc \in Claiming,
         NEW J \in Jobs, job' = [job EXCEPT ![a] = J], Resting(a, J),
         claims' = claims \ {job[a].msg},
         NEW F \in Entries, file' = [file EXCEPT ![job[a].msg] = F],
         \A p \in Msgs : p \in failed => p \in failed',
         MsgOK(job[a].msg, F, failed', accepted[job[a].msg], how[job[a].msg]),
         UNCHANGED <<deferral, accepted, how>>
  PROVE  QueueInv'
<1> DEFINE m == job[a].msg
<1>1. m \in Msgs /\ Owns(a, m) /\ accepted[m] \in Nat
  BY OwnerFacts
<1>2. /\ file' \in [Msgs -> Entries] /\ file'[m] = F
      /\ \A p \in Msgs : p # m => file'[p] = file[p] /\ (p \in claims <=> p \in claims')
      /\ claims' \subseteq Msgs /\ accepted' \in [Msgs -> Nat]
      /\ how' \in [Msgs -> SUBSET Fates]
  BY <1>1 DEF QueueInv, QueueTypes
<1>3. JobOK(a, J, file', claims', accepted', how')
  BY RestingOK
<1>4. J.pc \notin Claiming
  BY DEF Resting, Claiming, OnFile
<1> HIDE DEF m
<1>5. MsgOK(m, file'[m], failed', accepted'[m], how'[m])
  BY <1>2 DEF m
<1>6. accepted'[m] >= accepted[m] /\ how[m] \subseteq how'[m] /\ (Sent(how'[m]) => Sent(how[m]))
  BY <1>1
<1> QED BY <1>1, <1>2, <1>3, <1>4, <1>5, <1>6, OwnStep

\* An owner ends its work and leaves the entry as it is.
LEMMA OwnerLeaves ==
  ASSUME QueueInv, NEW a \in Actors, job[a].pc \in Claiming, Release(a),
         UNCHANGED <<file, failed, deferral, accepted, how>>
  PROVE  QueueInv'
<1>1. PICK J \in Jobs : job' = [job EXCEPT ![a] = J] /\ Resting(a, J)
  BY ReleasedJob
<1>2. claims' = claims \ {job[a].msg}
  BY ReleasedJob
<1>3. file' = [file EXCEPT ![job[a].msg] = file[job[a].msg]]
  BY DEF QueueInv, QueueTypes
<1>4. file[job[a].msg] \in Entries
  BY OwnerFacts
<1>5. MsgOK(job[a].msg, file[job[a].msg], failed', accepted[job[a].msg], how[job[a].msg])
  BY OwnerFacts DEF MsgOK
<1> QED BY <1>1, <1>2, <1>3, <1>4, <1>5, OwnerEnds

\* Jobs end and nothing else changes.
LEMMA QuietStep ==
  ASSUME QueueInv, UNCHANGED <<file, failed, accepted, how>>,
         job' \in [Actors -> Jobs], claims' \subseteq Msgs,
         \A b \in Actors :
           \/ Resting(b, job'[b])
           \/ /\ job'[b] = job[b]
              /\ job[b].pc \in Claiming => job[b].msg \in claims',
         deferral' \in [Msgs -> Deferrals], DeferralsOK'
  PROVE  QueueInv'
<1>1. QueueTypes' /\ MsgsOK'
  BY DEF QueueInv, QueueTypes, MsgsOK
<1>2. JobsOK'
  <2> SUFFICES ASSUME NEW b \in Actors
               PROVE  JobOK(b, job'[b], file', claims', accepted', how')
    BY DEF JobsOK
  <2>1. CASE Resting(b, job'[b])
    BY <2>1, RestingOK
  <2>2. CASE job'[b] = job[b] /\ (job[b].pc \in Claiming => job[b].msg \in claims')
    <3>1. JobOK(b, job[b], file, claims, accepted, how)
      BY DEF QueueInv, JobsOK
    <3> QED BY <2>2, <3>1 DEF JobOK
  <2> QED BY <2>1, <2>2
<1>3. OneOwner'
  <2>1. \A b \in Actors : job'[b].pc \in Claiming => job'[b] = job[b]
    BY DEF Resting, Claiming, OnFile
  <2> QED BY <2>1 DEF QueueInv, OneOwner
<1> QED BY <1>1, <1>2, <1>3 DEF QueueInv

-----------------------------------------------------------------------------
(* The steps of a live send *)

\* What the invariant says of a live send that owns nothing yet.
LEMMA LiveFacts ==
  ASSUME QueueInv, NEW m \in Msgs
  PROVE  /\ m \in Actors /\ m \notin Workers /\ job[m] \in Jobs /\ job[m].msg = m
         /\ JobOK(m, job[m], file, claims, accepted, how)
         /\ MsgOK(m, file[m], failed, accepted[m], how[m])
         /\ file[m] \in Entries /\ accepted[m] \in Nat /\ how[m] \in SUBSET Fates
<1>1. m \in Actors /\ m \notin Workers
  BY Apart DEF Actors
<1> QED BY <1>1 DEF QueueInv, QueueTypes, JobsOK, MsgsOK, JobOK

\* A live send that holds no claim goes on, and still holds none.
LEMMA Unclaimed ==
  ASSUME QueueInv, NEW m \in Msgs, NEW pc \in {"claiming", "direct", "done"},
         Goto(m, pc), job[m].pc \in {"new", "direct", "claiming"},
         pc = "claiming" => job[m].pc = "new",
         file' \in [Msgs -> Entries], accepted' \in [Msgs -> Nat],
         how' \in [Msgs -> SUBSET Fates],
         \A p \in Msgs : p # m => /\ file'[p] = file[p] /\ accepted'[p] = accepted[p]
                                  /\ how'[p] = how[p],
         accepted'[m] >= accepted[m],
         how[m] \subseteq how'[m], how'[m] \subseteq how[m] \cup {"logged"},
         (file'[m] = file[m] /\ how'[m] = how[m]) \/ file'[m].mark = "none",
         UNCHANGED <<failed, claims, deferral>>
  PROVE  QueueInv'
<1>1. /\ m \in Actors /\ m \notin Workers /\ job[m] \in Jobs /\ job[m].msg = m
      /\ JobOK(m, job[m], file, claims, accepted, how)
      /\ MsgOK(m, file[m], failed, accepted[m], how[m])
      /\ file[m] \in Entries /\ accepted[m] \in Nat /\ how[m] \in SUBSET Fates
  BY LiveFacts
<1>2. PICK J \in Jobs : /\ job' = [job EXCEPT ![m] = J]
                        /\ J.pc = pc /\ J.held = Absent /\ J.msg = m
                        /\ J.marked = job[m].marked
  <2>1. pc \in Pcs /\ Absent \in Entries
    BY EntryTypes DEF Pcs, OnFile
  <2> QED BY <1>1, <2>1, HoldingJob DEF QueueInv, Goto
<1>3. ~ Sent(how[m]) /\ (job[m].pc = "new" => job[m].marked = FALSE)
  BY <1>1 DEF JobOK
<1>4. claims' \subseteq Msgs
  BY DEF QueueInv, QueueTypes
<1>5. ~ Sent(how'[m])
  BY <1>3 DEF Sent
<1>6. J.pc \notin Claiming /\ J.pc # "sending"
  BY <1>2 DEF Claiming, OnFile
<1>7. JobOK(m, J, file', claims', accepted', how')
  BY <1>1, <1>2, <1>3, <1>5, <1>6 DEF JobOK
<1>8. MsgOK(m, file'[m], failed', accepted'[m], how'[m])
  <2>1. Settled(accepted[m], how[m]) => Settled(accepted'[m], how'[m])
    BY <1>1 DEF Settled
  <2>2. CASE file'[m] = file[m] /\ how'[m] = how[m]
    BY <1>1, <1>5, <2>1, <2>2 DEF MsgOK
  <2>3. CASE file'[m].mark = "none"
    BY <1>5, <2>3 DEF MsgOK
  <2> QED BY <2>2, <2>3
<1>9. claims' = claims /\ failed' = failed /\ deferral' = deferral
  OBVIOUS
<1>10. /\ \A p \in Msgs : p # m =>
            /\ file'[p] = file[p] /\ accepted'[p] = accepted[p] /\ how'[p] = how[p]
            /\ p \in claims <=> p \in claims'
            /\ p \in failed => p \in failed'
       /\ m \in claims => m \in claims'
       /\ Sent(how'[m]) => Sent(how[m])
  BY <1>5, <1>9
<1> QED BY <1>1, <1>2, <1>4, <1>6, <1>7, <1>8, <1>9, <1>10, OwnStep

LEMMA EnqueueStep ==
  ASSUME QueueInv, NEW m \in Msgs, Enqueue(m)
  PROVE  QueueInv'
<1>1. /\ job[m].pc = "new" /\ UNCHANGED <<failed, claims, deferral, accepted>>
  BY DEF Enqueue, At
<1>2. accepted' \in [Msgs -> Nat] /\ accepted'[m] >= accepted[m]
  BY <1>1 DEF QueueInv, QueueTypes
<1>3. CASE /\ file' = [file EXCEPT ![m] = Fresh]
           /\ Goto(m, "claiming") /\ Happened(m, "logged")
  <2>1. /\ file' \in [Msgs -> Entries] /\ how' \in [Msgs -> SUBSET Fates]
        /\ \A p \in Msgs : p # m => file'[p] = file[p] /\ how'[p] = how[p]
        /\ file'[m].mark = "none" /\ how'[m] = how[m] \cup {"logged"}
    BY <1>3, EntryTypes DEF Happened, QueueInv, QueueTypes, Fates
  <2> QED BY <1>1, <1>2, <1>3, <2>1, Unclaimed
<1>4. CASE Goto(m, IF "required" \in kind[m] THEN "done" ELSE "direct") /\ UNCHANGED <<file, how>>
  <2>1. PICK pc \in {"done", "direct"} : Goto(m, pc)
    BY <1>4
  <2>2. file' \in [Msgs -> Entries] /\ how' \in [Msgs -> SUBSET Fates]
    BY <1>4 DEF QueueInv, QueueTypes
  <2> QED BY <1>1, <1>2, <1>4, <2>1, <2>2, Unclaimed
<1> QED BY <1>3, <1>4 DEF Enqueue

LEMMA SendDirectlyStep ==
  ASSUME QueueInv, NEW m \in Msgs, SendDirectly(m)
  PROVE  QueueInv'
<1>1. /\ job[m].pc = "direct" /\ Goto(m, "done")
      /\ UNCHANGED <<failed, claims, deferral, file, how>>
  BY DEF SendDirectly, At
<1>2. PICK n \in {0, 1} : accepted' = [accepted EXCEPT ![m] = @ + n]
  BY DEF SendDirectly
<1>3. /\ accepted \in [Msgs -> Nat] /\ file' \in [Msgs -> Entries]
      /\ how' \in [Msgs -> SUBSET Fates]
  BY <1>1 DEF QueueInv, QueueTypes
<1>4. /\ accepted' \in [Msgs -> Nat] /\ accepted'[m] >= accepted[m]
      /\ \A p \in Msgs : p # m => accepted'[p] = accepted[p]
  BY <1>2, <1>3
<1> QED BY <1>1, <1>3, <1>4, Unclaimed

LEMMA ClaimLiveStep ==
  ASSUME QueueInv, NEW m \in Msgs, ClaimLive(m)
  PROVE  QueueInv'
<1>1. At(m, "claiming") /\ UNCHANGED <<file, failed, deferral, accepted, how>>
  BY DEF ClaimLive
<1>2. /\ how' \in [Msgs -> SUBSET Fates] /\ file' \in [Msgs -> Entries]
      /\ accepted' \in [Msgs -> Nat] /\ accepted'[m] >= accepted[m]
  BY <1>1 DEF QueueInv, QueueTypes
<1>3. CASE m \in claims
  <2>1. Goto(m, "done") /\ UNCHANGED claims
    BY <1>3 DEF ClaimLive
  <2> QED BY <1>1, <1>2, <2>1, Unclaimed DEF At
<1>4. CASE m \notin claims
  <2>1. claims' = claims \cup {m} /\ Goto(m, "preparing")
    BY <1>4 DEF ClaimLive
  <2>2. /\ m \in Actors /\ m \notin Workers /\ job[m] \in Jobs /\ job[m].msg = m
        /\ JobOK(m, job[m], file, claims, accepted, how)
        /\ MsgOK(m, file[m], failed, accepted[m], how[m])
        /\ accepted[m] \in Nat
    BY LiveFacts
  <2>3. PICK J \in Jobs : /\ job' = [job EXCEPT ![m] = J]
                          /\ J.pc = "preparing" /\ J.held = Absent /\ J.msg = m
                          /\ J.marked = job[m].marked
    <3>1. "preparing" \in Pcs /\ Absent \in Entries
      BY EntryTypes DEF Pcs, OnFile
    <3> QED BY <2>1, <2>2, <3>1, HoldingJob DEF QueueInv, Goto
  <2>4. ~ Sent(how[m]) /\ job[m].marked = FALSE
    BY <1>1, <2>2 DEF JobOK, At
  <2>5. JobOK(m, J, file', claims', accepted', how')
    BY <1>1, <2>1, <2>2, <2>3, <2>4 DEF JobOK
  <2>6. /\ file' \in [Msgs -> Entries] /\ claims' \subseteq Msgs
        /\ accepted' \in [Msgs -> Nat] /\ how' \in [Msgs -> SUBSET Fates]
    BY <1>1, <2>1 DEF QueueInv, QueueTypes
  <2>7. MsgOK(m, file'[m], failed', accepted'[m], how'[m])
    BY <1>1, <2>2 DEF MsgOK
  <2>8. accepted'[m] >= accepted[m]
    BY <1>1, <2>2
  <2>9. \A p \in Msgs : p # m => (p \in claims <=> p \in claims')
    BY <2>1
  <2>10. m \in claims'
    BY <2>1
  <2> QED BY <1>1, <1>4, <2>2, <2>3, <2>5, <2>6, <2>7, <2>8, <2>9, <2>10, OwnStep
<1> QED BY <1>3, <1>4

\* An owner goes on and nothing else happens.
LEMMA OwnerContinues ==
  ASSUME QueueInv, NEW a \in Actors, NEW pc \in Claiming, NEW e \in Entries,
         job[a].pc \in Claiming, Holding(a, pc, e),
         UNCHANGED <<file, failed, claims, deferral, accepted, how>>,
         a \in Workers => pc \notin LiveOnly,
         e # Absent => e.mark # "absent",
         pc \in {"preparing", "marking"} \/ (pc = "sending" /\ a \in Msgs)
           => job[a].marked = FALSE,
         pc = "taken" => accepted[job[a].msg] > 0,
         pc \in {"noting", "acking"} => Settled(accepted[job[a].msg], how[job[a].msg]),
         Sent(how[job[a].msg]) =>
           /\ pc \notin {"preparing", "sending"} /\ (e # Absent => e.mark # "none")
           /\ a \in Msgs => pc \in {"taken", "noting", "acking", "failing"}
  PROVE  QueueInv'
<1>1. how' \in [Msgs -> SUBSET Fates]
  BY DEF QueueInv, QueueTypes
<1> QED BY <1>1, OwnerGoes

\* A send that will not reach the platform goes on as if it had.
LEMMA OwnerGivesUp ==
  ASSUME QueueInv, NEW a \in Actors, NEW pc \in {"noting", "acking"}, NEW fate \in GivenUp,
         job[a].pc \in Claiming, Goto(a, pc), Happened(job[a].msg, fate),
         UNCHANGED <<file, failed, claims, deferral, accepted>>,
         a \in Workers => pc = "acking"
  PROVE  QueueInv'
<1> DEFINE m == job[a].msg
<1>1. m \in Msgs /\ how \in [Msgs -> SUBSET Fates]
  BY OwnerFacts DEF QueueInv, QueueTypes
<1>2. fate \in Fates
  BY DEF Fates
<1> HIDE DEF m
<1>3. how' = [how EXCEPT ![m] = @ \cup {fate}]
  BY DEF Happened, m
<1>4. /\ how' \in [Msgs -> SUBSET Fates] /\ how'[m] = how[m] \cup {fate}
      /\ \A p \in Msgs : p # m => how'[p] = how[p]
  BY <1>1, <1>2, <1>3
<1>5. Settled(accepted[m], how'[m]) /\ how'[m] \subseteq how[m] \cup GivenUp
  BY <1>4 DEF Settled
<1>6. pc \in Claiming /\ (a \in Workers => pc \notin LiveOnly) /\ Absent \in Entries
  BY EntryTypes DEF Claiming, OnFile, LiveOnly
<1>7. Holding(a, pc, Absent)
  BY DEF Goto
<1> QED BY <1>4, <1>5, <1>6, <1>7, OwnerGoes DEF m

LEMMA ErrorPcs ==
  ASSUME NEW a \in Actors
  PROVE  /\ AfterError(a) \cup AfterThrow(a) \subseteq {"acking", "failing", "burying"}
         /\ a \in Msgs => AfterError(a) \cup AfterThrow(a) = {"failing"}
  BY DEF AfterError, AfterThrow

\* The core of a send ends with an error.
LEMMA OwnerErrs ==
  ASSUME QueueInv, NEW a \in Actors, NEW ends \in SUBSET (AfterError(a) \cup AfterThrow(a)),
         job[a].pc \in Claiming, Fails(a, ends),
         UNCHANGED <<file, failed, claims, deferral, accepted>>
  PROVE  QueueInv'
<1>1. PICK pc \in ends :
        /\ Goto(a, pc)
        /\ IF pc = "acking" THEN Happened(job[a].msg, "swallowed") ELSE UNCHANGED how
  BY DEF Fails
<1>2. pc \in {"acking", "failing", "burying"} /\ (a \in Msgs => pc = "failing")
  BY ErrorPcs
<1>3. CASE pc = "acking"
  <2>1. Goto(a, "acking") /\ Happened(job[a].msg, "swallowed") /\ "swallowed" \in GivenUp
    BY <1>1, <1>3 DEF GivenUp
  <2> QED BY <2>1, OwnerGivesUp
<1>4. CASE pc # "acking"
  <2>1. Holding(a, pc, Absent) /\ how' = how
    BY <1>1, <1>4 DEF Goto
  <2>2. pc \in Claiming /\ pc \notin LiveOnly /\ Absent \in Entries
    BY <1>2, EntryTypes DEF Claiming, OnFile, LiveOnly
  <2> QED BY <1>2, <1>4, <2>1, <2>2, OwnerContinues
<1> QED BY <1>3, <1>4

LEMMA PrepareStep ==
  ASSUME QueueInv, NEW a \in Actors, Prepare(a)
  PROVE  QueueInv'
<1>1. /\ job[a].pc = "preparing" /\ job[a].pc \in Claiming
      /\ UNCHANGED <<file, failed, claims, deferral, accepted>>
  BY DEF Prepare, At, Claiming, OnFile
<1>2. job[a].marked = FALSE /\ ~ Sent(how[job[a].msg])
  BY <1>1, OwnerFacts DEF JobOK
<1>3. CASE Goto(a, IF a \in Msgs THEN "marking" ELSE "sending") /\ UNCHANGED how
  <2>1. PICK pc \in {"marking", "sending"} :
          /\ Holding(a, pc, Absent)
          /\ a \notin Msgs => pc = "sending"
    BY <1>3 DEF Goto
  <2>2. a \in Workers => pc = "sending"
    BY <2>1, Apart
  <2>3. pc \in Claiming /\ Absent \in Entries /\ (a \in Workers => pc \notin LiveOnly)
    BY <2>2, EntryTypes DEF Claiming, OnFile, LiveOnly
  <2> QED BY <1>1, <1>2, <1>3, <2>1, <2>3, OwnerContinues
<1>4. CASE Goto(a, "acking") /\ Happened(job[a].msg, "dropped")
  <2>1. "dropped" \in GivenUp
    BY DEF GivenUp
  <2> QED BY <1>1, <1>4, <2>1, OwnerGivesUp
<1>5. CASE Fails(a, AfterError(a) \cup AfterThrow(a))
  BY <1>1, <1>5, OwnerErrs
<1> QED BY <1>3, <1>4, <1>5 DEF Prepare

LEMMA ReadStep ==
  ASSUME QueueInv, NEW a \in Actors, NEW pc \in {"marking", "noting", "failing"},
         a \in Workers => pc = "failing", ReadEntry(a, pc)
  PROVE  QueueInv'
<1>1. /\ job[a].pc = pc /\ Present(job[a].msg) /\ Holding(a, pc, file[job[a].msg])
      /\ UNCHANGED <<file, failed, claims, deferral, accepted, how>>
  BY DEF ReadEntry, At
<1>2. pc \in Claiming
  BY DEF Claiming, OnFile
<1>3. /\ file[job[a].msg] \in Entries
      /\ JobOK(a, job[a], file, claims, accepted, how)
      /\ MsgOK(job[a].msg, file[job[a].msg], failed, accepted[job[a].msg], how[job[a].msg])
  BY <1>1, <1>2, OwnerFacts
<1>4. /\ file[job[a].msg].mark # "absent"
      /\ Sent(how[job[a].msg]) => file[job[a].msg].mark # "none"
  BY <1>1, <1>3 DEF Present, MsgOK
<1>5. /\ a \in Workers => pc \notin LiveOnly
      /\ pc = "marking" => job[a].marked = FALSE
      /\ pc = "noting" => Settled(accepted[job[a].msg], how[job[a].msg])
      /\ a \in Msgs /\ Sent(how[job[a].msg]) => pc \in {"noting", "failing"}
  BY <1>1, <1>3 DEF JobOK, LiveOnly
<1> QED BY <1>1, <1>2, <1>3, <1>4, <1>5, OwnerContinues

\* An owner goes on after it has written the entry of its message, which then
\* says that the send may have started.
LEMMA OwnerWrites ==
  ASSUME QueueInv, NEW m \in Msgs, job[m].pc \in Claiming,
         NEW J \in Jobs, job' = [job EXCEPT ![m] = J], J.msg = m, J.held = Absent,
         (J.pc = "sending" /\ ~ Sent(how[m])) \/ (J.pc = "acking" /\ Settled(accepted[m], how[m])),
         NEW F \in Entries, file' = [file EXCEPT ![m] = F],
         F.mark \in {"started", "unknown"},
         UNCHANGED <<failed, claims, deferral, accepted, how>>
  PROVE  QueueInv'
<1>1. /\ m \in Actors /\ m \notin Workers /\ job[m].msg = m
      /\ JobOK(m, job[m], file, claims, accepted, how)
      /\ MsgOK(m, file[m], failed, accepted[m], how[m])
      /\ accepted[m] \in Nat
  BY LiveFacts
<1>2. Owns(m, m) /\ m \in claims
  BY <1>1 DEF Owns, JobOK
<1>3. /\ file' \in [Msgs -> Entries] /\ file'[m] = F
      /\ \A p \in Msgs : p # m => file'[p] = file[p]
      /\ claims' \subseteq Msgs /\ accepted' \in [Msgs -> Nat]
      /\ how' \in [Msgs -> SUBSET Fates] /\ accepted'[m] >= accepted[m]
  BY <1>1 DEF QueueInv, QueueTypes
<1>4. J.pc = "acking" => Settled(accepted'[m], how'[m])
  BY DEF Settled
<1>5. JobOK(m, J, file', claims', accepted', how')
  BY <1>1, <1>2, <1>3, <1>4 DEF JobOK
<1>6. MsgOK(m, file'[m], failed', accepted'[m], how'[m])
  BY <1>1, <1>3 DEF MsgOK
<1> QED BY <1>1, <1>2, <1>3, <1>5, <1>6, OwnStep

LEMMA MarkStep ==
  ASSUME QueueInv, NEW m \in Msgs, Mark(m)
  PROVE  QueueInv'
<1>1. job[m].pc = "marking" /\ job[m].pc \in Claiming
  BY DEF Mark, ReadEntry, WriteMark, CannotUpdate, At, Claiming, OnFile
<1>2. /\ m \in Actors /\ m \notin Workers /\ job[m] \in Jobs /\ job[m].msg = m
      /\ job[m].marked = FALSE /\ ~ Sent(how[m])
  BY <1>1, LiveFacts DEF JobOK
<1>3. CASE ReadEntry(m, "marking")
  BY <1>2, <1>3, ReadStep
<1>4. CASE /\ WriteMark(m, "marking", "started")
           /\ job' = [job EXCEPT ![m] = [@ EXCEPT !.pc = "sending", !.held = Absent, !.marked = TRUE]]
           /\ UNCHANGED <<kind, failed, claims, deferral, scanned, crashes, faults, accepted, how>>
  <2> DEFINE J == [job[m] EXCEPT !.pc = "sending", !.held = Absent, !.marked = TRUE]
             F == [job[m].held EXCEPT !.mark = "started"]
  <2>1. /\ J \in Jobs /\ J.pc = "sending" /\ J.held = Absent /\ J.msg = m
    BY <1>2, EntryTypes DEF Jobs, Pcs, OnFile
  <2>2. job[m].held \in Entries
    BY <1>2 DEF Jobs
  <2>3. F \in Entries /\ F.mark = "started"
    BY <2>2 DEF Entries
  <2>4. job' = [job EXCEPT ![m] = J] /\ file' = [file EXCEPT ![m] = F]
    BY <1>2, <1>4 DEF WriteMark
  <2> HIDE DEF J, F
  <2>5. F.mark \in {"started", "unknown"}
    BY <2>3
  <2>6. UNCHANGED <<failed, claims, deferral, accepted, how>>
    BY <1>4
  <2>7. (J.pc = "sending" /\ ~ Sent(how[m])) \/ (J.pc = "acking" /\ Settled(accepted[m], how[m]))
    BY <1>2, <2>1
  <2> QED BY <1>1, <2>1, <2>3, <2>4, <2>5, <2>6, <2>7, OwnerWrites
<1>5. CASE /\ Goto(m, IF "required" \in kind[m] THEN "failing" ELSE "sending")
           /\ UNCHANGED <<kind, file, failed, claims, deferral, scanned, crashes, accepted, how>>
  <2>1. PICK pc \in {"failing", "sending"} : Goto(m, pc)
    BY <1>5
  <2>2. pc \in Claiming /\ Absent \in Entries
    BY EntryTypes DEF Claiming, OnFile
  <2> QED BY <1>1, <1>2, <1>5, <2>1, <2>2, OwnerContinues DEF Goto
<1> QED BY <1>3, <1>4, <1>5 DEF Mark

LEMMA NoteStep ==
  ASSUME QueueInv, NEW m \in Msgs, Note(m)
  PROVE  QueueInv'
<1>1. job[m].pc = "noting" /\ job[m].pc \in Claiming
  BY DEF Note, ReadEntry, WriteMark, CannotUpdate, At, Claiming, OnFile
<1>2. /\ m \in Actors /\ m \notin Workers /\ job[m] \in Jobs /\ job[m].msg = m
      /\ Settled(accepted[m], how[m])
  BY <1>1, LiveFacts DEF JobOK
<1>3. Absent \in Entries /\ "acking" \in Claiming
  BY EntryTypes DEF Claiming, OnFile
<1>4. CASE ReadEntry(m, "noting")
  BY <1>2, <1>4, ReadStep
<1>5. CASE /\ WriteMark(m, "noting", "unknown")
           /\ Goto(m, "acking")
           /\ UNCHANGED <<kind, failed, claims, deferral, scanned, crashes, faults, accepted, how>>
  <2> DEFINE J == [job[m] EXCEPT !.pc = "acking", !.held = Absent]
             F == [job[m].held EXCEPT !.mark = "unknown"]
  <2>1. /\ J \in Jobs /\ J.pc = "acking" /\ J.held = Absent /\ J.msg = m
    BY <1>2, EntryTypes DEF Jobs, Pcs, OnFile
  <2>2. job[m].held \in Entries
    BY <1>2 DEF Jobs
  <2>3. F \in Entries /\ F.mark \in {"started", "unknown"}
    BY <2>2 DEF Entries
  <2>4. job' = [job EXCEPT ![m] = J] /\ file' = [file EXCEPT ![m] = F]
    BY <1>2, <1>5 DEF WriteMark, Goto, Holding
  <2> HIDE DEF J, F
  <2> QED BY <1>1, <1>2, <1>5, <2>1, <2>3, <2>4, OwnerWrites
<1>6. CASE /\ IF "required" \in kind[m] THEN Release(m)
              ELSE Goto(m, "acking") /\ UNCHANGED claims
           /\ UNCHANGED <<kind, file, failed, deferral, scanned, crashes, accepted, how>>
  <2>1. CASE "required" \in kind[m]
    BY <1>1, <1>2, <1>6, <2>1, OwnerLeaves
  <2>2. CASE "required" \notin kind[m]
    BY <1>1, <1>2, <1>3, <1>6, <2>2, OwnerContinues DEF Goto
  <2> QED BY <2>1, <2>2
<1> QED BY <1>4, <1>5, <1>6 DEF Note

LEMMA AbortSendStep ==
  ASSUME QueueInv, NEW m \in Msgs, AbortSend(m)
  PROVE  QueueInv'
<1>1. /\ job[m].pc \in {"preparing", "sending", "taken"} /\ job[m].pc \in Claiming
      /\ UNCHANGED <<file, failed, claims, deferral, accepted>>
  BY DEF AbortSend, Claiming, OnFile
<1>2. m \in Actors /\ m \notin Workers /\ job[m].msg = m
  BY LiveFacts
<1>3. CASE Goto(m, "failing") /\ UNCHANGED how
  <2>1. "failing" \in Claiming /\ Absent \in Entries
    BY EntryTypes DEF Claiming, OnFile
  <2> QED BY <1>1, <1>2, <1>3, <2>1, OwnerContinues DEF Goto
<1>4. CASE Goto(m, "acking") /\ Happened(m, "dropped")
  <2>1. "dropped" \in GivenUp
    BY DEF GivenUp
  <2> QED BY <1>1, <1>2, <1>4, <2>1, OwnerGivesUp
<1> QED BY <1>3, <1>4 DEF AbortSend

-----------------------------------------------------------------------------
(* The platform *)

LEMMA AcceptsStep ==
  ASSUME QueueInv, NEW a \in Actors, Accepts(a)
  PROVE  QueueInv'
<1> DEFINE m == job[a].msg
<1>1. job[a].pc = "sending" /\ job[a].pc \in Claiming /\ Goto(a, "taken")
  BY DEF Accepts, At, Claiming, OnFile
<1>2. /\ job[a] \in Jobs /\ m \in Msgs /\ Owns(a, m)
      /\ JobOK(a, job[a], file, claims, accepted, how)
      /\ MsgOK(m, file[m], failed, accepted[m], how[m])
      /\ accepted[m] \in Nat
  BY <1>1, OwnerFacts
<1>3. PICK J \in Jobs : /\ job' = [job EXCEPT ![a] = J]
                        /\ J.pc = "taken" /\ J.held = Absent /\ J.msg = m
                        /\ J.marked = job[a].marked
  <2>1. "taken" \in Pcs /\ Absent \in Entries
    BY EntryTypes DEF Pcs, OnFile
  <2> QED BY <1>1, <2>1, HoldingJob DEF QueueInv, Goto
<1>4. /\ accepted' = [accepted EXCEPT ![m] = @ + 1]
      /\ how' = IF job[a].marked THEN [how EXCEPT ![m] = @ \cup {"marked"}] ELSE how
      /\ UNCHANGED <<file, failed, claims, deferral>>
  BY DEF Accepts
<1> HIDE DEF m
<1>5. /\ accepted' \in [Msgs -> Nat] /\ accepted'[m] = accepted[m] + 1
      /\ \A p \in Msgs : p # m => accepted'[p] = accepted[p]
  BY <1>2, <1>4 DEF QueueInv, QueueTypes
<1>6. /\ how' \in [Msgs -> SUBSET Fates] /\ how[m] \subseteq how'[m]
      /\ \A p \in Msgs : p # m => how'[p] = how[p]
      /\ how'[m] \subseteq how[m] \cup {"marked"}
      /\ job[a].marked # TRUE => how'[m] = how[m]
  BY <1>2, <1>4, Zenon DEF QueueInv, QueueTypes, Fates
<1>7. /\ a \in Msgs => m = a
      /\ a \in Workers => job[a].marked = FALSE
      /\ m \in claims /\ ~ Sent(how[m])
      /\ a \in Msgs /\ job[a].marked = TRUE => file[m].mark # "none" \/ "overwritten" \in how[m]
  BY <1>1, <1>2 DEF JobOK, Owns, m
<1>8. Sent(how'[m]) => a = m /\ file[m].mark # "none"
  <2>1. job[a].marked \in BOOLEAN
    BY <1>2 DEF Jobs
  <2>2. a \in Msgs \/ a \in Workers
    BY Apart
  <2>3. Sent(how'[m]) => job[a].marked = TRUE /\ "overwritten" \notin how[m]
    BY <1>6, <1>7, <2>1 DEF Sent
  <2> QED BY <1>7, <2>2, <2>3
<1>9. JobOK(a, J, file', claims', accepted', how')
  BY <1>2, <1>3, <1>4, <1>5, <1>7 DEF JobOK, LiveOnly
<1>10. MsgOK(m, file'[m], failed', accepted'[m], how'[m])
  BY <1>2, <1>4, <1>5, <1>8 DEF MsgOK, Settled
<1>11. /\ file' \in [Msgs -> Entries] /\ claims' \subseteq Msgs
       /\ accepted'[m] >= accepted[m]
  BY <1>2, <1>4, <1>5 DEF QueueInv, QueueTypes
<1>12. /\ claims' = claims /\ failed' = failed /\ deferral' = deferral /\ file' = file
  BY <1>4
<1>13. /\ \A p \in Msgs : p # m =>
            /\ file'[p] = file[p] /\ accepted'[p] = accepted[p] /\ how'[p] = how[p]
            /\ p \in claims <=> p \in claims'
            /\ p \in failed => p \in failed'
       /\ Sent(how'[m]) => Sent(how[m]) \/ a = m
  BY <1>5, <1>6, <1>8, <1>12
<1> QED BY <1>2, <1>3, <1>5, <1>6, <1>9, <1>10, <1>11, <1>12, <1>13, OwnStep

LEMMA RefusesStep ==
  ASSUME QueueInv, NEW a \in Actors, Refuses(a)
  PROVE  QueueInv'
<1>1. /\ job[a].pc \in Claiming /\ Fails(a, AfterError(a))
      /\ UNCHANGED <<file, failed, claims, deferral, accepted>>
  BY DEF Refuses, At, Claiming, OnFile
<1> QED BY <1>1, OwnerErrs

\* Only a live send writes the mark.
LEMMA AnswerPcs ==
  ASSUME QueueInv, NEW a \in Actors, job[a].pc \in Claiming, Answered(a)
  PROVE  \E pc \in {"noting", "acking"} : Goto(a, pc) /\ (a \in Workers => pc = "acking")
<1>1. job[a].marked \in BOOLEAN /\ (a \in Workers => job[a].marked = FALSE)
  BY OwnerFacts DEF Jobs, JobOK
<1> QED BY <1>1 DEF Answered

LEMMA SuppressesStep ==
  ASSUME QueueInv, NEW a \in Actors, Suppresses(a)
  PROVE  QueueInv'
<1>1. /\ job[a].pc \in Claiming /\ Answered(a) /\ Happened(job[a].msg, "suppressed")
      /\ UNCHANGED <<file, failed, claims, deferral, accepted>>
  BY DEF Suppresses, At, Claiming, OnFile
<1>2. PICK pc \in {"noting", "acking"} : Goto(a, pc) /\ (a \in Workers => pc = "acking")
  BY <1>1, AnswerPcs
<1>3. "suppressed" \in GivenUp
  BY DEF GivenUp
<1> QED BY <1>1, <1>2, <1>3, OwnerGivesUp

LEMMA ReturnsStep ==
  ASSUME QueueInv, NEW a \in Actors, Returns(a)
  PROVE  QueueInv'
<1>1. /\ job[a].pc = "taken" /\ job[a].pc \in Claiming
      /\ UNCHANGED <<file, failed, claims, deferral, accepted>>
  BY DEF Returns, At, Claiming, OnFile
<1>2. Settled(accepted[job[a].msg], how[job[a].msg])
  BY <1>1, OwnerFacts DEF JobOK, Settled
<1>3. CASE Answered(a) /\ UNCHANGED how
  <2>1. PICK pc \in {"noting", "acking"} : Goto(a, pc) /\ (a \in Workers => pc = "acking")
    BY <1>1, <1>3, AnswerPcs
  <2>2. /\ pc \in Claiming /\ Absent \in Entries /\ Holding(a, pc, Absent)
        /\ a \in Workers => pc \notin LiveOnly
    BY <2>1, EntryTypes DEF Claiming, OnFile, LiveOnly, Goto
  <2> QED BY <1>1, <1>2, <1>3, <2>1, <2>2, OwnerContinues
<1>4. CASE Fails(a, AfterError(a) \cup AfterThrow(a))
  BY <1>1, <1>4, OwnerErrs
<1> QED BY <1>3, <1>4 DEF Returns

-----------------------------------------------------------------------------
(* How the work on an entry ends *)

\* An owner releases the entry after it has removed it.
LEMMA OwnerRemoves ==
  ASSUME QueueInv, NEW a \in Actors, job[a].pc \in Claiming, Release(a),
         file' = [file EXCEPT ![job[a].msg] = Absent],
         \A p \in Msgs : p \in failed => p \in failed',
         \/ job[a].msg \in failed'
         \/ Settled(accepted[job[a].msg], how[job[a].msg]),
         UNCHANGED <<deferral, accepted, how>>
  PROVE  QueueInv'
<1>1. PICK J \in Jobs : job' = [job EXCEPT ![a] = J] /\ Resting(a, J)
  BY ReleasedJob
<1>2. claims' = claims \ {job[a].msg}
  BY ReleasedJob
<1>3. MsgOK(job[a].msg, Absent, failed', accepted[job[a].msg], how[job[a].msg])
  BY OwnerFacts, EntryTypes DEF MsgOK
<1> QED BY <1>1, <1>2, <1>3, EntryTypes, OwnerEnds

LEMMA AckStep ==
  ASSUME QueueInv, NEW a \in Actors, Ack(a)
  PROVE  QueueInv'
<1>1. /\ job[a].pc = "acking" /\ job[a].pc \in Claiming
      /\ UNCHANGED <<failed, deferral, accepted, how>>
  BY DEF Ack, At, Claiming, OnFile
<1>2. Settled(accepted[job[a].msg], how[job[a].msg])
  BY <1>1, OwnerFacts DEF JobOK
<1>3. CASE file' = [file EXCEPT ![job[a].msg] = Absent] /\ Release(a)
  BY <1>1, <1>2, <1>3, OwnerRemoves
<1>4. CASE file' = file /\ Release(a)
  BY <1>1, <1>4, OwnerLeaves
<1>5. CASE file' = file /\ a \notin Msgs /\ Goto(a, "failing") /\ UNCHANGED claims
  <2>1. "failing" \in Claiming /\ "failing" \notin LiveOnly /\ Absent \in Entries
    BY EntryTypes DEF Claiming, OnFile, LiveOnly
  <2> QED BY <1>1, <1>5, <2>1, OwnerContinues DEF Goto
<1> QED BY <1>3, <1>4, <1>5 DEF Ack

LEMMA FailStep ==
  ASSUME QueueInv, NEW a \in Actors, Fail(a)
  PROVE  QueueInv'
<1>1. job[a].pc = "failing" /\ job[a].pc \in Claiming
  BY DEF Fail, ReadEntry, CannotUpdate, At, Claiming, OnFile
<1>2. CASE ReadEntry(a, "failing")
  BY <1>2, ReadStep
<1>3. CASE /\ job[a].held # Absent
           /\ file' = [file EXCEPT ![job[a].msg] = Bumped(job[a].held)]
           /\ Release(a)
           /\ UNCHANGED <<kind, failed, deferral, scanned, crashes, faults, accepted, how>>
  <2>1. PICK J \in Jobs : job' = [job EXCEPT ![a] = J] /\ Resting(a, J)
    BY <1>3, ReleasedJob
  <2>2. claims' = claims \ {job[a].msg}
    BY <1>3, ReleasedJob
  <2>3. /\ job[a] \in Jobs /\ JobOK(a, job[a], file, claims, accepted, how)
        /\ MsgOK(job[a].msg, file[job[a].msg], failed, accepted[job[a].msg], how[job[a].msg])
    BY <1>1, OwnerFacts
  <2>4. job[a].held \in Entries
    BY <2>3 DEF Jobs
  <2>5. /\ Bumped(job[a].held) \in Entries
        /\ Bumped(job[a].held).mark = job[a].held.mark
    BY <2>4, BumpedEntry
  <2>6. /\ job[a].held.mark # "absent"
        /\ Sent(how[job[a].msg]) => job[a].held.mark # "none"
    BY <1>1, <1>3, <2>3 DEF JobOK
  <2>7. MsgOK(job[a].msg, Bumped(job[a].held), failed', accepted[job[a].msg], how[job[a].msg])
    BY <1>3, <2>3, <2>5, <2>6 DEF MsgOK
  <2> QED BY <1>1, <1>3, <2>1, <2>2, <2>5, <2>7, OwnerEnds
<1>4. CASE Release(a) /\ UNCHANGED <<kind, file, failed, deferral, scanned, crashes, accepted, how>>
  BY <1>1, <1>4, OwnerLeaves
<1> QED BY <1>2, <1>3, <1>4 DEF Fail

\* A worker leaves its scan, and the entry as it is.
LEMMA WorkerThrows ==
  ASSUME QueueInv, NEW w \in Workers, job[w].pc \in Claiming, ScanThrows(w),
         UNCHANGED <<file, failed, deferral, accepted, how>>
  PROVE  QueueInv'
<1> DEFINE m == job[w].msg
<1>0. w \in Actors
  BY DEF Actors
<1>1. /\ m \in Msgs /\ file[m] \in Entries
      /\ MsgOK(m, file[m], failed, accepted[m], how[m])
  BY <1>0, OwnerFacts
<1>2. job' = [job EXCEPT ![w] = NoJob] /\ claims' = claims \ {m}
  BY DEF ScanThrows
<1>3. NoJob \in Jobs /\ Resting(w, NoJob)
  <2>1. NoJob \in Jobs
    BY EntryTypes DEF NoJob, Jobs, Pcs
  <2>2. NoJob.held = Absent /\ NoJob.pc = "off" /\ NoJob.marked = FALSE
    BY DEF NoJob
  <2>3. w \notin Msgs
    BY <1>0, Apart
  <2> QED BY <2>1, <2>2, <2>3 DEF Resting
<1>4. file' = [file EXCEPT ![m] = file[m]]
  BY <1>1 DEF QueueInv, QueueTypes
<1>5. MsgOK(m, file[m], failed', accepted[m], how[m])
  BY <1>1
<1>6. \A p \in Msgs : p \in failed => p \in failed'
  OBVIOUS
<1> HIDE DEF NoJob
<1> QED BY <1>0, <1>1, <1>2, <1>3, <1>4, <1>5, <1>6, OwnerEnds

LEMMA BuryStep ==
  ASSUME QueueInv, NEW w \in Workers, Bury(w)
  PROVE  QueueInv'
<1> DEFINE m == job[w].msg
<1>1. /\ job[w].pc \in {"pruning", "burying"} /\ job[w].pc \in Claiming
      /\ UNCHANGED <<deferral, accepted, how>> /\ w \in Actors
  BY DEF Bury, Claiming, OnFile, Actors
<1>2. /\ m \in Msgs /\ file[m] \in Entries
      /\ MsgOK(m, file[m], failed, accepted[m], how[m])
  BY <1>1, OwnerFacts
<1>3. CASE file' = [file EXCEPT ![m] = Absent] /\ failed' = failed \cup {m} /\ Release(w)
  <2>1. m \in failed' /\ \A p \in Msgs : p \in failed => p \in failed'
    BY <1>3
  <2> QED BY <1>1, <1>3, <2>1, OwnerRemoves
<1>4. CASE Release(w) /\ UNCHANGED <<file, failed>>
  BY <1>1, <1>4, OwnerLeaves
<1>5. CASE ScanThrows(w) /\ UNCHANGED <<file, failed>>
  BY <1>1, <1>5, WorkerThrows
<1> QED BY <1>3, <1>4, <1>5 DEF Bury

-----------------------------------------------------------------------------
(* Recovery and drains *)

\* A worker that works on nothing takes up a job.
LEMMA WorkerFacts ==
  ASSUME QueueInv, NEW w \in Workers
  PROVE  /\ w \in Actors /\ w \notin Msgs /\ job[w] \in Jobs
         /\ JobOK(w, job[w], file, claims, accepted, how)
<1>1. w \in Actors
  BY DEF Actors
<1> QED BY <1>1, Apart DEF QueueInv, QueueTypes, JobsOK

LEMMA WorkerRests ==
  ASSUME QueueInv, NEW w \in Workers, job[w].pc \notin Claiming,
         NEW todo \in SUBSET Msgs, job' = [job EXCEPT ![w] = Scanning(todo)],
         UNCHANGED <<file, failed, claims, accepted, how, deferral>>
  PROVE  QueueInv'
<1>1. w \in Actors /\ w \notin Msgs
  BY WorkerFacts
<1>2. Scanning(todo) \in Jobs /\ Resting(w, Scanning(todo))
  BY <1>1, ScanningJob DEF Resting
<1>3. /\ job' \in [Actors -> Jobs] /\ job'[w] = Scanning(todo)
      /\ \A b \in Actors : b # w => job'[b] = job[b]
  BY <1>1, <1>2 DEF QueueInv, QueueTypes
<1>4. \A b \in Actors : job[b].pc \in Claiming => job[b].msg \in claims'
  BY DEF QueueInv, JobsOK, JobOK
<1>5. claims' \subseteq Msgs /\ deferral' \in [Msgs -> Deferrals] /\ DeferralsOK'
  BY DEF QueueInv, QueueTypes, DeferralsOK
<1> QED BY <1>2, <1>3, <1>4, <1>5, QuietStep

LEMMA ScanStep ==
  ASSUME QueueInv, NEW w \in Workers, Scan(w)
  PROVE  QueueInv'
<1> DEFINE found == {m \in Msgs : Present(m)}
<1>1. /\ job[w].pc = "off" /\ job' = [job EXCEPT ![w] = Scanning(found)]
      /\ UNCHANGED <<file, failed, claims, accepted, how, deferral>>
  BY DEF Scan, At
<1>2. job[w].pc \notin Claiming
  BY <1>1 DEF Claiming, OnFile
<1>3. found \in SUBSET Msgs
  OBVIOUS
<1> QED BY <1>1, <1>2, <1>3, WorkerRests

LEMMA ClaimStep ==
  ASSUME QueueInv, NEW w \in Workers, Claim(w)
  PROVE  QueueInv'
<1>1. /\ job[w].pc = "scanning" /\ job[w].pc \notin Claiming
      /\ UNCHANGED <<file, failed, accepted, how, deferral>>
  BY DEF Claim, At, Claiming, OnFile
<1>2. w \in Actors /\ w \notin Msgs /\ job[w].todo \in SUBSET Msgs
  BY WorkerFacts DEF Jobs
<1>3. PICK m \in job[w].todo :
        IF m \in claims
        THEN /\ job' = [job EXCEPT ![w] = Scanning(job[w].todo \ {m})]
             /\ UNCHANGED claims
        ELSE /\ job' = [job EXCEPT ![w] = [NoJob EXCEPT !.pc = "reading", !.msg = m,
                                              !.todo = job[w].todo \ {m}]]
             /\ claims' = claims \cup {m}
  BY DEF Claim
<1>4. m \in Msgs /\ job[w].todo \ {m} \in SUBSET Msgs
  BY <1>2
<1>5. CASE m \in claims
  BY <1>1, <1>3, <1>4, <1>5, WorkerRests
<1>6. CASE m \notin claims
  <2> DEFINE J == [NoJob EXCEPT !.pc = "reading", !.msg = m, !.todo = job[w].todo \ {m}]
  <2>1. NoJob \in Jobs /\ NoJob.held = Absent /\ NoJob.marked = FALSE
    BY EntryTypes DEF NoJob, Jobs, Pcs
  <2>2. /\ J \in Jobs /\ J.pc = "reading" /\ J.msg = m /\ J.held = Absent
        /\ J.marked = FALSE
    BY <1>4, <2>1 DEF Jobs, Pcs
  <2>3. job' = [job EXCEPT ![w] = J] /\ claims' = claims \cup {m}
    BY <1>3, <1>6
  <2> HIDE DEF J
  <2>4. JobOK(w, J, file', claims', accepted', how')
    BY <1>2, <1>4, <2>2, <2>3 DEF JobOK, LiveOnly
  <2>5. /\ MsgOK(m, file[m], failed, accepted[m], how[m])
        /\ accepted[m] \in Nat
    BY <1>4 DEF QueueInv, MsgsOK, QueueTypes
  <2>6. MsgOK(m, file'[m], failed', accepted'[m], how'[m])
    BY <1>1, <2>5 DEF MsgOK
  <2>7. /\ file' \in [Msgs -> Entries] /\ claims' \subseteq Msgs
        /\ accepted' \in [Msgs -> Nat] /\ how' \in [Msgs -> SUBSET Fates]
        /\ accepted'[m] >= accepted[m]
    BY <1>1, <1>4, <2>3, <2>5 DEF QueueInv, QueueTypes
  <2>8. /\ \A p \in Msgs : p # m =>
             /\ file'[p] = file[p] /\ accepted'[p] = accepted[p] /\ how'[p] = how[p]
             /\ p \in claims <=> p \in claims'
             /\ p \in failed => p \in failed'
        /\ m \in claims => m \in claims'
        /\ Sent(how'[m]) => Sent(how[m])
        /\ file'[m] = file[m] /\ how[m] \subseteq how'[m]
    BY <1>1, <2>3
  <2> QED BY <1>1, <1>2, <1>4, <1>6, <2>2, <2>3, <2>4, <2>6, <2>7, <2>8, OwnStep
<1> QED BY <1>5, <1>6

LEMMA LoadStep ==
  ASSUME QueueInv, NEW w \in Workers, Load(w)
  PROVE  QueueInv'
<1> DEFINE entry == file[job[w].msg]
<1>1. /\ job[w].pc = "reading" /\ job[w].pc \in Claiming /\ w \in Actors
      /\ UNCHANGED <<file, failed, deferral, accepted, how>>
  BY WorkerFacts DEF Load, At, Claiming, OnFile
<1>2. /\ entry \in Entries
      /\ MsgOK(job[w].msg, entry, failed, accepted[job[w].msg], how[job[w].msg])
  BY <1>1, OwnerFacts
<1>3. w \notin Msgs
  BY WorkerFacts
<1>4. "pruning" \in Claiming \ LiveOnly /\ "due" \in Claiming \ LiveOnly /\ Absent \in Entries
  BY EntryTypes DEF Claiming, OnFile, LiveOnly
<1>5. CASE Release(w)
  BY <1>1, <1>5, OwnerLeaves
<1>6. CASE Goto(w, "pruning") /\ UNCHANGED claims
  BY <1>1, <1>3, <1>4, <1>6, OwnerContinues DEF Goto
<1>7. CASE Present(job[w].msg) /\ Holding(w, "due", entry) /\ UNCHANGED claims
  <2>1. entry.mark # "absent" /\ (Sent(how[job[w].msg]) => entry.mark # "none")
    BY <1>2, <1>7 DEF Present, MsgOK
  <2> QED BY <1>1, <1>2, <1>3, <1>4, <1>7, <2>1, OwnerContinues
<1>8. CASE ScanThrows(w)
  BY <1>1, <1>8, WorkerThrows
<1> QED BY <1>5, <1>6, <1>7, <1>8 DEF Load

LEMMA DrainStep ==
  ASSUME QueueInv, NEW w \in Workers, Drain(w)
  PROVE  QueueInv'
<1>1. /\ job[w].pc = "due" /\ job[w].pc \in Claiming /\ w \in Actors
      /\ UNCHANGED <<file, failed, claims, deferral, accepted, how>>
  BY WorkerFacts DEF Drain, At, Claiming, OnFile
<1>2. w \notin Msgs
  BY WorkerFacts
<1>3. JobOK(w, job[w], file, claims, accepted, how)
  BY WorkerFacts
<1>4. /\ "preparing" \in Claiming \ LiveOnly /\ "reconciling" \in Claiming \ LiveOnly
      /\ Absent \in Entries
  BY EntryTypes DEF Claiming, OnFile, LiveOnly
<1>5. CASE job[w].held.mark = "none"
  <2>1. ~ Sent(how[job[w].msg])
    BY <1>1, <1>3, <1>5, EntryTypes DEF JobOK
  <2>2. Goto(w, "preparing") /\ job[w].marked = FALSE
    BY <1>3, <1>5 DEF Drain, JobOK
  <2> QED BY <1>1, <1>2, <1>4, <2>1, <2>2, OwnerContinues DEF Goto
<1>6. CASE job[w].held.mark # "none"
  <2>1. Goto(w, "reconciling")
    BY <1>6 DEF Drain
  <2> QED BY <1>1, <1>2, <1>4, <2>1, OwnerContinues DEF Goto
<1> QED BY <1>5, <1>6

LEMMA ReconcileStep ==
  ASSUME QueueInv, NEW w \in Workers, Reconcile(w)
  PROVE  QueueInv'
<1>1. /\ job[w].pc = "reconciling" /\ job[w].pc \in Claiming /\ w \in Actors
      /\ UNCHANGED <<file, failed, claims, deferral, accepted, how>>
  BY WorkerFacts DEF Reconcile, At, Claiming, OnFile
<1>2. w \notin Msgs
  BY WorkerFacts
<1>3. MsgOK(job[w].msg, file[job[w].msg], failed, accepted[job[w].msg], how[job[w].msg])
  BY <1>1, OwnerFacts
<1>4. PICK pc \in {"acking", "preparing", "failing", "burying"} :
        /\ Goto(w, pc)
        /\ pc = "acking" => accepted[job[w].msg] > 0
        /\ pc = "preparing" => ~ (accepted[job[w].msg] > 0)
  BY DEF Reconcile
<1>5. pc \in Claiming /\ pc \notin LiveOnly /\ Absent \in Entries
  BY EntryTypes DEF Claiming, OnFile, LiveOnly
<1>6. /\ Sent(how[job[w].msg]) => pc # "preparing"
      /\ job[w].marked = FALSE
      /\ pc = "acking" => Settled(accepted[job[w].msg], how[job[w].msg])
  BY <1>3, <1>4, WorkerFacts DEF MsgOK, JobOK, Settled
<1>7. Holding(w, pc, Absent)
  BY <1>4 DEF Goto
<1> QED BY <1>1, <1>2, <1>4, <1>5, <1>6, <1>7, OwnerContinues

-----------------------------------------------------------------------------
(* Deferrals and crashes *)

LEMMA NotDeferredOK == NotDeferred \in Deferrals /\ NotDeferred.pc # "write"
  BY EntryTypes DEF NotDeferred, Deferrals

\* A claim that an actor holds is in entriesInProgress.
LEMMA ClaimsCover ==
  ASSUME QueueInv, NEW b \in Actors, job[b].pc \in Claiming
  PROVE  job[b].msg \in claims
  BY DEF QueueInv, JobsOK, JobOK

LEMMA DeferStep ==
  ASSUME QueueInv, Defer
  PROVE  QueueInv'
<1> DEFINE r == "recovery"
           D == [pc |-> "read", held |-> Absent]
<1>1. /\ job' = [job EXCEPT ![r] = NoJob]
      /\ deferral' = [m \in Msgs |-> IF m \in job[r].todo THEN D ELSE deferral[m]]
      /\ UNCHANGED <<file, failed, claims, accepted, how>>
  BY DEF Defer
<1>2. NoJob = Scanning({}) /\ r \in Workers /\ {} \in SUBSET Msgs
  BY DEF Scanning, Workers
<1>3. NoJob \in Jobs /\ Resting(r, NoJob)
  BY <1>2, ScanningJob, WorkerFacts DEF Resting
<1>4. r \in Actors
  BY <1>2 DEF Actors
<1> HIDE DEF r
<1>5. /\ job' \in [Actors -> Jobs] /\ job'[r] = NoJob
      /\ \A b \in Actors : b # r => job'[b] = job[b]
  BY <1>1, <1>3, <1>4 DEF QueueInv, QueueTypes
<1>6. D \in Deferrals /\ D.pc # "write"
  BY EntryTypes DEF Deferrals
<1> HIDE DEF D
<1>7. deferral' \in [Msgs -> Deferrals]
  BY <1>1, <1>6 DEF QueueInv, QueueTypes
<1>8. DeferralsOK'
  BY <1>1, <1>6 DEF QueueInv, DeferralsOK
<1>9. claims' \subseteq Msgs
  BY <1>1 DEF QueueInv, QueueTypes
<1>10. \A b \in Actors : job[b].pc \in Claiming => job[b].msg \in claims'
  BY <1>1, ClaimsCover
<1>11. UNCHANGED <<file, failed, accepted, how>>
  BY <1>1
<1> QED BY <1>3, <1>5, <1>7, <1>8, <1>9, <1>10, <1>11, QuietStep

LEMMA DeferReadStep ==
  ASSUME QueueInv, NEW m \in Msgs, DeferRead(m)
  PROVE  QueueInv'
<1> DEFINE D == IF Present(m) THEN [pc |-> "write", held |-> file[m]] ELSE NotDeferred
<1>1. /\ deferral' = [deferral EXCEPT ![m] = D]
      /\ UNCHANGED <<file, failed, claims, accepted, how, job>>
  BY DEF DeferRead
<1>2. D \in Deferrals /\ (D.pc = "write" => D.held.mark # "absent")
  BY NotDeferredOK DEF Present, QueueInv, QueueTypes, Deferrals
<1> HIDE DEF D
<1>3. deferral' \in [Msgs -> Deferrals] /\ DeferralsOK'
  BY <1>1, <1>2 DEF QueueInv, QueueTypes, DeferralsOK
<1>4. job' \in [Actors -> Jobs] /\ claims' \subseteq Msgs
  BY <1>1 DEF QueueInv, QueueTypes
<1>5. \A b \in Actors : job'[b] = job[b] /\ (job[b].pc \in Claiming => job[b].msg \in claims')
  BY <1>1, ClaimsCover
<1>6. UNCHANGED <<file, failed, accepted, how>>
  BY <1>1
<1> QED BY <1>3, <1>4, <1>5, <1>6, QuietStep

LEMMA DeferWriteStep ==
  ASSUME QueueInv, NEW m \in Msgs, DeferWrite(m)
  PROVE  QueueInv'
<1> DEFINE F == Bumped(deferral[m].held)
<1>1. /\ deferral[m].pc = "write"
      /\ file' = [file EXCEPT ![m] = F]
      /\ deferral' = [deferral EXCEPT ![m] = NotDeferred]
      /\ UNCHANGED <<failed, claims, job, accepted>>
  BY DEF DeferWrite
<1>2. /\ deferral[m].held \in Entries /\ deferral[m].held.mark # "absent"
      /\ file[m] \in Entries
  BY <1>1 DEF QueueInv, QueueTypes, Deferrals, DeferralsOK
<1>3. F \in Entries /\ F.mark = deferral[m].held.mark
  BY <1>2, BumpedEntry
<1>4. /\ how' \in [Msgs -> SUBSET Fates] /\ how[m] \subseteq how'[m]
      /\ how'[m] \subseteq how[m] \cup {"overwritten"}
      /\ \A p \in Msgs : p # m => how'[p] = how[p]
      /\ F.mark = file[m].mark \/ "overwritten" \in how'[m]
  <2>1. CASE file[m] # deferral[m].held
    <3>1. how' = [how EXCEPT ![m] = @ \cup {"overwritten"}]
      BY <2>1 DEF DeferWrite, Happened
    <3> QED BY <3>1 DEF QueueInv, QueueTypes, Fates
  <2>2. CASE file[m] = deferral[m].held
    <3>1. how' = how
      BY <2>2 DEF DeferWrite
    <3> QED BY <1>3, <2>2, <3>1 DEF QueueInv, QueueTypes
  <2> QED BY <2>1, <2>2
<1> HIDE DEF F
<1>5. /\ file' \in [Msgs -> Entries] /\ file'[m] = F
      /\ \A p \in Msgs : p # m => file'[p] = file[p]
      /\ deferral' \in [Msgs -> Deferrals] /\ deferral'[m] = NotDeferred
      /\ \A p \in Msgs : p # m => deferral'[p] = deferral[p]
  BY <1>1, <1>3, NotDeferredOK DEF QueueInv, QueueTypes
<1>6. QueueTypes' /\ DeferralsOK' /\ OneOwner'
  <2>1. QueueTypes'
    BY <1>1, <1>4, <1>5 DEF QueueInv, QueueTypes
  <2>2. DeferralsOK'
    BY <1>5, NotDeferredOK DEF QueueInv, DeferralsOK
  <2>3. OneOwner'
    BY <1>1 DEF QueueInv, OneOwner
  <2> QED BY <2>1, <2>2, <2>3
<1>7. \A p \in Msgs : /\ Sent(how'[p]) => Sent(how[p])
                      /\ Sent(how'[p]) => file'[p].mark = file[p].mark
                      /\ Settled(accepted[p], how[p]) => Settled(accepted'[p], how'[p])
                      /\ "overwritten" \in how[p] => "overwritten" \in how'[p]
  BY <1>1, <1>4, <1>5 DEF Sent, Settled
<1>8. MsgsOK'
  <2> SUFFICES ASSUME NEW p \in Msgs
               PROVE  MsgOK(p, file'[p], failed', accepted'[p], how'[p])
    BY DEF MsgsOK
  <2>1. MsgOK(p, file[p], failed, accepted[p], how[p])
    BY DEF QueueInv, MsgsOK
  <2>2. CASE p = m
    BY <1>1, <1>2, <1>3, <1>5, <1>7, <2>1, <2>2 DEF MsgOK
  <2>3. CASE p # m
    BY <1>1, <1>4, <1>5, <2>1, <2>3 DEF MsgOK
  <2> QED BY <2>2, <2>3
<1>9. JobsOK'
  <2> SUFFICES ASSUME NEW b \in Actors
               PROVE  JobOK(b, job[b], file', claims', accepted', how')
    BY <1>1 DEF JobsOK
  <2>1. JobOK(b, job[b], file, claims, accepted, how)
    BY DEF QueueInv, JobsOK
  <2>2. job[b].pc \in Claiming => job[b].msg \in Msgs
    BY <2>1 DEF JobOK
  <2>3. job[b].pc \in {"noting", "acking"} => job[b].pc \in Claiming
    BY DEF Claiming, OnFile
  <2>4. b \in Msgs => file'[b].mark = file[b].mark \/ "overwritten" \in how'[b]
    BY <1>4, <1>5
  <2> QED BY <1>1, <1>7, <2>1, <2>2, <2>3, <2>4 DEF JobOK
<1> QED BY <1>6, <1>8, <1>9 DEF QueueInv

LEMMA CrashStep ==
  ASSUME QueueInv, Crash
  PROVE  QueueInv'
<1> DEFINE Ended(a) == [job[a] EXCEPT !.pc = "done", !.held = Absent]
           After(a) == IF a \in Workers THEN NoJob
                       ELSE IF At(a, "new") THEN job[a] ELSE Ended(a)
<1>1. /\ job' = [a \in Actors |-> After(a)] /\ claims' = {}
      /\ deferral' = [m \in Msgs |-> NotDeferred]
      /\ UNCHANGED <<file, failed, accepted, how>>
  BY DEF Crash
<1>2. ASSUME NEW a \in Actors
      PROVE  /\ After(a) \in Jobs
             /\ \/ Resting(a, After(a))
                \/ After(a) = job[a] /\ job[a].pc \notin Claiming
  <2>1. job[a] \in Jobs /\ (a \in Msgs => job[a].msg = a)
    BY DEF QueueInv, QueueTypes, JobsOK, JobOK
  <2>2. CASE a \in Workers
    <3>1. NoJob = Scanning({}) /\ {} \in SUBSET Msgs
      BY DEF Scanning
    <3>2. After(a) = NoJob
      BY <2>2
    <3> QED BY <2>2, <3>1, <3>2, ScanningJob, WorkerFacts DEF Resting
  <2>3. CASE a \notin Workers /\ At(a, "new")
    <3>1. After(a) = job[a]
      BY <2>3
    <3> QED BY <2>1, <2>3, <3>1 DEF At, Claiming, OnFile
  <2>4. CASE a \notin Workers /\ ~ At(a, "new")
    <3>1. After(a) = Ended(a)
      BY <2>4
    <3>2. /\ Ended(a) \in Jobs /\ Ended(a).pc = "done" /\ Ended(a).held = Absent
          /\ Ended(a).msg = job[a].msg
      BY <2>1, EntryTypes DEF Jobs, Pcs
    <3> HIDE DEF Ended, After
    <3> QED BY <2>1, <2>4, <3>1, <3>2, Apart DEF Resting
  <2> QED BY <2>2, <2>3, <2>4
<1> HIDE DEF After
<1>3. /\ job' \in [Actors -> Jobs]
      /\ \A b \in Actors : \/ Resting(b, job'[b])
                           \/ job'[b] = job[b] /\ job[b].pc \notin Claiming
  BY <1>1, <1>2
<1>4. deferral' \in [Msgs -> Deferrals] /\ DeferralsOK' /\ claims' \subseteq Msgs
  BY <1>1, NotDeferredOK DEF DeferralsOK
<1>5. UNCHANGED <<file, failed, accepted, how>>
  BY <1>1
<1> QED BY <1>3, <1>4, <1>5, QuietStep

-----------------------------------------------------------------------------
(* The invariant *)

LEMMA QueueInit == Init => QueueInv
<1> SUFFICES ASSUME Init PROVE QueueInv
  OBVIOUS
<1>1. /\ file = [m \in Msgs |-> Absent] /\ failed = {} /\ claims = {}
      /\ job = [a \in Actors |-> IF a \in Msgs THEN LiveJob(a) ELSE NoJob]
      /\ deferral = [m \in Msgs |-> NotDeferred]
      /\ accepted = [m \in Msgs |-> 0] /\ how = [m \in Msgs |-> {}]
  BY DEF Init
<1>2. /\ NoJob \in Jobs /\ NoJob.held = Absent /\ NoJob.pc = "off" /\ NoJob.marked = FALSE
  BY EntryTypes DEF NoJob, Jobs, Pcs
<1>3. ASSUME NEW m \in Msgs
      PROVE  /\ LiveJob(m) \in Jobs /\ LiveJob(m).held = Absent /\ LiveJob(m).pc = "new"
             /\ LiveJob(m).msg = m /\ LiveJob(m).marked = FALSE
  <2> DEFINE J == [NoJob EXCEPT !.pc = "new", !.msg = m]
  <2>1. /\ J \in Jobs /\ J.held = Absent /\ J.pc = "new" /\ J.msg = m /\ J.marked = FALSE
    BY <1>2 DEF Jobs, Pcs
  <2> QED BY <2>1 DEF LiveJob
<1>4. \A m \in Msgs : ~ Sent(how[m]) /\ how[m] \in SUBSET Fates
  BY <1>1 DEF Sent
<1>5. \A a \in Actors : /\ job[a] \in Jobs /\ job[a].pc \notin Claiming
                        /\ JobOK(a, job[a], file, claims, accepted, how)
  <2> SUFFICES ASSUME NEW a \in Actors
               PROVE  /\ job[a] \in Jobs /\ job[a].pc \notin Claiming
                      /\ JobOK(a, job[a], file, claims, accepted, how)
    OBVIOUS
  <2>1. CASE a \in Msgs
    <3>1. job[a] = LiveJob(a) /\ a \notin Workers
      BY <1>1, <2>1, Apart
    <3>2. "new" \notin Claiming
      BY DEF Claiming, OnFile
    <3> QED BY <1>3, <1>4, <2>1, <3>1, <3>2 DEF JobOK
  <2>2. CASE a \notin Msgs
    <3>1. job[a] = NoJob
      BY <1>1, <2>2
    <3>2. "off" \notin Claiming \cup LiveOnly
      BY DEF Claiming, OnFile, LiveOnly
    <3> QED BY <1>2, <2>2, <3>1, <3>2 DEF JobOK
  <2> QED BY <2>1, <2>2
<1>6. QueueTypes
  <2>1. job \in [Actors -> Jobs]
    BY <1>1, <1>5
  <2> QED BY <1>1, <2>1, EntryTypes, NotDeferredOK DEF QueueTypes
<1>7. MsgsOK
  BY <1>1, <1>4 DEF MsgsOK, MsgOK
<1>8. DeferralsOK
  BY <1>1, NotDeferredOK DEF DeferralsOK
<1>9. OneOwner
  BY <1>5 DEF OneOwner
<1> QED BY <1>5, <1>6, <1>7, <1>8, <1>9 DEF QueueInv, JobsOK

LEMMA QueueStep == QueueInv /\ [Next]_vars => QueueInv'
<1> SUFFICES ASSUME QueueInv, [Next]_vars PROVE QueueInv'
  OBVIOUS
<1>1. CASE \E m \in Msgs : LiveStep(m)
  BY <1>1, EnqueueStep, SendDirectlyStep, ClaimLiveStep, MarkStep, NoteStep,
     AbortSendStep DEF LiveStep
<1>2. CASE \E m \in Msgs : DeferRead(m) \/ DeferWrite(m)
  BY <1>2, DeferReadStep, DeferWriteStep
<1>3. CASE \E a \in Actors : SendStep(a)
  BY <1>3, PrepareStep, AcceptsStep, RefusesStep, SuppressesStep, ReturnsStep, AckStep, FailStep
     DEF SendStep
<1>4. CASE \E w \in Workers : WorkerStep(w)
  BY <1>4, ScanStep, ClaimStep, LoadStep, DrainStep, ReconcileStep, BuryStep DEF WorkerStep
<1>5. CASE Defer \/ Crash
  BY <1>5, DeferStep, CrashStep
<1>6. CASE UNCHANGED vars
  BY <1>6 DEF vars, QueueInv, QueueTypes, JobsOK, MsgsOK, DeferralsOK, OneOwner
<1> QED BY <1>1, <1>2, <1>3, <1>4, <1>5, <1>6 DEF Next

\* Whatever is sent, lost, crashed or scanned, what the position of each actor says
\* of the entry it has claimed, and the history of a message of its entry, is true.
THEOREM QueueInvariance == Spec => []QueueInv
  BY QueueInit, QueueStep, PTL DEF Spec

\* entriesInProgress keeps the live send, the recovery and the drains of a process
\* apart: one at most is at work on the entry of a message.
THEOREM OneAtWork == Spec => []OneOwner
<1>1. QueueInv => OneOwner
  BY DEF QueueInv
<1> QED BY <1>1, QueueInvariance, PTL

\* A message that enqueueDelivery logged leaves the queue only for failed/, after
\* the platform took it, or because it was given up or its error swallowed.
THEOREM LoggedIsKept == Spec => []NothingLost
<1>1. QueueInv => NothingLost
  BY DEF QueueInv, MsgsOK, MsgOK, NothingLost, Present, Settled, GivenUp
<1> QED BY <1>1, QueueInvariance, PTL

\* No recovery, drain or restart sends a message again that the platform has taken
\* under the mark of its live send, unless a deferral has overwritten the entry.
THEOREM MarkedIsSentOnce == Spec => MarkedSentOnce
<1> DEFINE Once == \A m \in Msgs :
                     "marked" \in how[m] /\ "overwritten" \notin how[m]
                       => accepted'[m] = accepted[m]
<1>1. ASSUME QueueInv, [Next]_vars PROVE [Once]_vars
  <2> SUFFICES ASSUME NEW m \in Msgs, Sent(how[m]), Next
               PROVE  accepted'[m] = accepted[m]
    BY <1>1 DEF Sent
  <2>1. CASE \E p \in Msgs : LiveStep(p)
    <3> SUFFICES ASSUME NEW p \in Msgs, SendDirectly(p) PROVE accepted'[m] = accepted[m]
      BY <2>1 DEF LiveStep, Enqueue, ClaimLive, Mark, Note, AbortSend, ReadEntry
    <3>1. p # m
      BY <1>1, LiveFacts DEF SendDirectly, At, JobOK
    <3> QED BY <1>1, <3>1 DEF SendDirectly, QueueInv, QueueTypes
  <2>2. CASE \E a \in Actors : SendStep(a)
    <3> SUFFICES ASSUME NEW a \in Actors, Accepts(a) PROVE accepted'[m] = accepted[m]
      BY <2>2 DEF SendStep, Prepare, Refuses, Suppresses, Returns, Ack, Fail, ReadEntry
    <3>1. job[a].pc = "sending" /\ job[a].pc \in Claiming
      BY DEF Accepts, At, Claiming, OnFile
    <3>2. job[a].msg # m
      BY <1>1, <3>1, OwnerFacts DEF JobOK
    <3> QED BY <1>1, <3>2 DEF Accepts, QueueInv, QueueTypes
  <2>3. CASE \E p \in Msgs : DeferRead(p) \/ DeferWrite(p)
    BY <2>3 DEF DeferRead, DeferWrite
  <2>4. CASE \E w \in Workers : WorkerStep(w)
    BY <2>4 DEF WorkerStep, Scan, Claim, Load, Drain, Reconcile, Bury
  <2>5. CASE Defer \/ Crash
    BY <2>5 DEF Defer, Crash
  <2> QED BY <2>1, <2>2, <2>3, <2>4, <2>5 DEF Next
<1>2. Spec => [][Once]_vars
  BY <1>1, QueueInvariance, PTL DEF Spec
<1> QED BY <1>2 DEF MarkedSentOnce

-----------------------------------------------------------------------------
(* How often an entry is tried *)

\* The deferrals of m that are over, at most one in the life of a process: it
\* writes before the next crash, or never.
Spent == [m \in Msgs |-> IF scanned /\ job["recovery"].pc = "off" /\ deferral[m].pc = "off"
                         THEN crashes + 1 ELSE crashes]

\* Whether the live send of m has ended, and may have counted its failure.
Ended == [m \in Msgs |-> IF job[m].pc = "done" THEN 1 ELSE 0]

\* A worker replays an entry that has not reached MAX_RETRIES.
Allowed(a) == IF a \in Msgs THEN MAX_RETRIES ELSE MAX_RETRIES - 1

Replaying == Claiming \ {"reading", "pruning"}

\* What the job J of a implies for the counts of the entries f, when s deferrals
\* are over and k crashes have happened.  Until the deferral of this life is over
\* the owner alone writes the entry.
ReplayOK(a, J, f, s, k) ==
  J.pc \in Replaying =>
    /\ f[J.msg].retry <= Allowed(a) + s[J.msg]
    /\ J.held # Absent =>
         /\ J.held.retry <= Allowed(a) + s[J.msg]
         /\ s[J.msg] = k => J.held.retry = f[J.msg].retry
    /\ a \in Workers \/ J.held # Absent => f[J.msg].mark # "absent"

CountOK(F, D, s, e) ==
  /\ F.retry <= MAX_RETRIES + s + e
  /\ D.pc = "write" => /\ D.held.retry <= MAX_RETRIES + s + e
                       /\ F.mark # "absent" => D.held.retry <= F.retry

Bounds ==
  /\ kind \in [Msgs -> Kinds] /\ failed \subseteq Msgs
  /\ scanned \in BOOLEAN /\ crashes \in 0..MaxCrashes /\ faults \in 0..MaxFaults

ReplaysOK == \A a \in Actors : ReplayOK(a, job[a], file, Spent, crashes)
CountsOK == \A m \in Msgs : CountOK(file[m], deferral[m], Spent[m], Ended[m])
NewOK == \A m \in Msgs : job[m].pc = "new" => file[m].mark = "absent" /\ deferral[m].pc # "write"
LateOK ==
  /\ job["recovery"].pc # "off" => scanned
  /\ \A m \in Msgs : deferral[m].pc # "off" => scanned /\ job["recovery"].pc = "off"

RetryInv == Bounds /\ ReplaysOK /\ CountsOK /\ NewOK /\ LateOK

LEMMA RetryFacts ==
  ASSUME QueueInv, RetryInv
  PROVE  /\ MAX_RETRIES \in Nat \ {0} /\ MaxCrashes \in Nat /\ crashes \in Nat
         /\ \A m \in Msgs : /\ Spent[m] \in {crashes, crashes + 1} /\ Ended[m] \in {0, 1}
                            /\ file[m] \in Entries /\ file[m].retry \in Nat
                            /\ deferral[m].held \in Entries /\ deferral[m].held.retry \in Nat
         /\ \A a \in Actors : /\ Allowed(a) \in Nat /\ job[a] \in Jobs
                              /\ job[a].held \in Entries /\ job[a].held.retry \in Nat
                              /\ job[a].pc \in Claiming => job[a].msg \in Msgs
         /\ \A m \in Msgs : m \in Actors /\ job[m].msg = m
         /\ "recovery" \in Actors /\ "recovery" \notin Msgs
<1>1. MAX_RETRIES \in Nat \ {0} /\ MaxCrashes \in Nat /\ crashes \in Nat
  BY DeliveryConstants DEF RetryInv, Bounds
<1>2. \A m \in Msgs : Spent[m] \in {crashes, crashes + 1} /\ Ended[m] \in {0, 1}
  BY DEF Spent, Ended
<1>3. \A m \in Msgs : /\ file[m] \in Entries /\ file[m].retry \in Nat
                      /\ deferral[m].held \in Entries /\ deferral[m].held.retry \in Nat
  BY DEF QueueInv, QueueTypes, Deferrals, Entries
<1>4. \A a \in Actors : /\ job[a] \in Jobs /\ job[a].held \in Entries
                        /\ job[a].held.retry \in Nat
  BY DEF QueueInv, QueueTypes, Jobs, Entries
<1>5. \A a \in Actors : Allowed(a) \in Nat
  BY <1>1 DEF Allowed
<1>6. \A a \in Actors : job[a].pc \in Claiming => job[a].msg \in Msgs
  BY DEF QueueInv, JobsOK, JobOK
<1>7. \A m \in Msgs : m \in Actors /\ job[m].msg = m
  BY DEF QueueInv, JobsOK, JobOK, Actors
<1>8. "recovery" \in Actors /\ "recovery" \notin Msgs
  BY DeliveryConstants DEF Actors, Workers
<1> QED BY <1>1, <1>2, <1>3, <1>4, <1>5, <1>6, <1>7, <1>8

\* A step of a to the job J within one life of the process.
Within(a, J) ==
  /\ job' = [job EXCEPT ![a] = J]
  /\ crashes' = crashes /\ deferral' = deferral
  /\ scanned => scanned'
  /\ a = "recovery" /\ job[a].pc = "off" => J.pc = "off" \/ (~ scanned /\ scanned')
  /\ a \in Msgs => /\ job[a].pc = "done" => J.pc = "done"
                   /\ J.pc = "new" => job[a].pc = "new"

\* Deferrals go over once, and live sends end once.
LEMMA LifeGoesOn ==
  ASSUME QueueInv, RetryInv, NEW a \in Actors, NEW J \in Jobs, Within(a, J)
  PROVE  /\ job'[a] = J /\ \A b \in Actors : b # a => job'[b] = job[b]
         /\ scanned /\ job["recovery"].pc = "off" => scanned' /\ job'["recovery"].pc = "off"
         /\ \A p \in Msgs : /\ Spent'[p] \in {crashes, crashes + 1}
                            /\ Spent[p] <= Spent'[p]
                            /\ Spent'[p] = crashes => Spent[p] = crashes
                            /\ Ended'[p] \in {0, 1} /\ Ended[p] <= Ended'[p]
                            /\ a = p /\ J.pc = "done" => Ended'[p] = 1
<1> DEFINE s1 == Spent'
           e1 == Ended'
<1>1. job'[a] = J /\ \A b \in Actors : b # a => job'[b] = job[b]
  BY DEF QueueInv, QueueTypes, Within
<1>2. scanned /\ job["recovery"].pc = "off" => scanned' /\ job'["recovery"].pc = "off"
  BY <1>1, RetryFacts DEF Within
<1>3. ASSUME NEW p \in Msgs
      PROVE  /\ s1[p] \in {crashes, crashes + 1}
             /\ Spent[p] <= s1[p]
             /\ s1[p] = crashes => Spent[p] = crashes
  <2>1. s1[p] = IF scanned' /\ job'["recovery"].pc = "off" /\ deferral[p].pc = "off"
                THEN crashes + 1 ELSE crashes
    BY DEF Spent, Within
  <2>2. Spent[p] = IF scanned /\ job["recovery"].pc = "off" /\ deferral[p].pc = "off"
                   THEN crashes + 1 ELSE crashes
    BY DEF Spent
  <2>3. crashes \in Nat
    BY RetryFacts
  <2> HIDE DEF s1
  <2> QED BY <1>2, <2>1, <2>2, <2>3
<1>4. ASSUME NEW p \in Msgs
      PROVE  /\ e1[p] \in {0, 1} /\ Ended[p] <= e1[p]
             /\ a = p /\ J.pc = "done" => e1[p] = 1
  <2>1. job[p].pc = "done" => job'[p].pc = "done"
    BY <1>1, RetryFacts DEF Within
  <2> QED BY <1>1, <2>1 DEF Ended
<1> QED BY <1>1, <1>2, <1>3, <1>4

\* Such a step keeps the counts when the job it leads to is allowed and a entry it
\* writes is its own.
LEMMA CountStep ==
  ASSUME QueueInv, RetryInv, NEW a \in Actors, NEW J \in Jobs, Within(a, J), Bounds',
         file' \in [Msgs -> Entries],
         ReplayOK(a, J, file', Spent', crashes),
         \A p \in Msgs :
           \/ file'[p] = file[p]
           \/ /\ Owns(a, p) \/ (a = p /\ job[p].pc = "new")
              /\ job'[p].pc # "new" \/ file'[p].mark = "absent"
              /\ CountOK(file'[p], deferral[p], Spent'[p], Ended'[p])
  PROVE  RetryInv'
<1> DEFINE s1 == Spent'
           e1 == Ended'
<1>0. crashes' = crashes /\ deferral' = deferral
  BY DEF Within
<1>1. job'[a] = J /\ \A b \in Actors : b # a => job'[b] = job[b]
  BY LifeGoesOn
<1>2. scanned /\ job["recovery"].pc = "off" => scanned' /\ job'["recovery"].pc = "off"
  BY LifeGoesOn
<1>3. \A p \in Msgs : /\ s1[p] \in {crashes, crashes + 1}
                      /\ Spent[p] <= s1[p]
                      /\ s1[p] = crashes => Spent[p] = crashes
                      /\ e1[p] \in {0, 1} /\ Ended[p] <= e1[p]
  BY LifeGoesOn
<1> HIDE DEF s1, e1
<1>5. ASSUME NEW b \in Actors, b # a
      PROVE  ReplayOK(b, job[b], file', s1, crashes)
  <2> SUFFICES ASSUME job[b].pc \in Replaying
               PROVE  ReplayOK(b, job[b], file', s1, crashes)
    BY DEF ReplayOK
  <2> DEFINE m == job[b].msg
  <2>1. job[b].pc \in Claiming /\ m \in Msgs
    BY RetryFacts DEF Replaying
  <2>2. ReplayOK(b, job[b], file, Spent, crashes)
    BY DEF RetryInv, ReplaysOK
  <2>3. file'[m] = file[m]
    <3>1. ~ Owns(a, m)
      BY <1>5, <2>1 DEF QueueInv, OneOwner, Owns
    <3>2. ~ (a = m /\ job[m].pc = "new")
      <4> SUFFICES ASSUME a = m, job[m].pc = "new"
                   PROVE  FALSE
        OBVIOUS
      <4>1. b \in Workers
        <5>1. b \in Msgs => b = m
          BY RetryFacts
        <5> QED BY <1>5, <5>1 DEF Actors
      <4>2. file[m].mark # "absent"
        BY <2>2, <4>1 DEF ReplayOK
      <4> QED BY <2>1, <4>2 DEF RetryInv, NewOK
    <3> QED BY <2>1, <3>1, <3>2
  <2>4. /\ Allowed(b) \in Nat /\ job[b].held.retry \in Nat /\ file[m].retry \in Nat
        /\ s1[m] \in Nat /\ Spent[m] \in Nat /\ Spent[m] <= s1[m]
        /\ s1[m] = crashes => Spent[m] = crashes
    BY <1>3, <2>1, RetryFacts
  <2> HIDE DEF m
  <2> QED BY <2>2, <2>3, <2>4 DEF ReplayOK, m
<1>6. ReplaysOK'
  BY <1>0, <1>1, <1>5 DEF ReplaysOK, s1
<1>7. CountsOK'
  <2> SUFFICES ASSUME NEW p \in Msgs
               PROVE  CountOK(file'[p], deferral'[p], s1[p], e1[p])
    BY <1>0 DEF CountsOK, s1, e1
  <2>1. CASE file'[p] = file[p]
    <3>1. CountOK(file[p], deferral[p], Spent[p], Ended[p])
      BY DEF RetryInv, CountsOK
    <3>2. /\ Spent[p] \in Nat /\ s1[p] \in Nat /\ Ended[p] \in Nat /\ e1[p] \in Nat
          /\ Spent[p] <= s1[p] /\ Ended[p] <= e1[p] /\ MAX_RETRIES \in Nat
          /\ file[p].retry \in Nat /\ deferral[p].held.retry \in Nat
      BY <1>3, RetryFacts
    <3> QED BY <1>0, <2>1, <3>1, <3>2 DEF CountOK
  <2>2. CASE file'[p] # file[p]
    BY <1>0, <2>2 DEF s1, e1
  <2> QED BY <2>1, <2>2
<1>8. NewOK'
  <2> SUFFICES ASSUME NEW p \in Msgs, job'[p].pc = "new"
               PROVE  file'[p].mark = "absent" /\ deferral'[p].pc # "write"
    BY DEF NewOK
  <2>1. job[p].pc = "new"
    BY <1>1, RetryFacts DEF Within
  <2>2. file[p].mark = "absent" /\ deferral[p].pc # "write"
    BY <2>1 DEF RetryInv, NewOK
  <2>3. file'[p].mark = "absent"
    BY <2>2
  <2> QED BY <1>0, <2>2, <2>3
<1>9. LateOK'
  <2>1. job'["recovery"].pc # "off" => scanned'
    <3>1. CASE a = "recovery"
      BY <1>1, <3>1 DEF Within, RetryInv, LateOK
    <3>2. CASE a # "recovery"
      BY <1>1, <3>2, RetryFacts DEF Within, RetryInv, LateOK
    <3> QED BY <3>1, <3>2
  <2> QED BY <1>0, <1>2, <2>1 DEF RetryInv, LateOK
<1> QED BY <1>6, <1>7, <1>8, <1>9 DEF RetryInv

-----------------------------------------------------------------------------
(* The kinds of steps *)

\* Every step stays within the bounds.
LEMMA BoundsStep ==
  ASSUME QueueInv, Bounds, [Next]_vars
  PROVE  Bounds'
<1>1. MaxCrashes \in Nat /\ MaxFaults \in Nat
  BY DeliveryConstants
<1> USE DEF Bounds
<1>2. CASE \E m \in Msgs : LiveStep(m)
  BY <1>1, <1>2 DEF LiveStep, Enqueue, SendDirectly, ClaimLive, Mark, Note, AbortSend,
                    ReadEntry, CannotUpdate, Fault
<1>3. CASE \E m \in Msgs : DeferRead(m) \/ DeferWrite(m)
  BY <1>3 DEF DeferRead, DeferWrite
<1>4. CASE \E a \in Actors : SendStep(a)
  <2> SUFFICES ASSUME NEW a \in Actors, SendStep(a)
               PROVE  Bounds'
    BY <1>4
  <2>1. CASE Prepare(a) \/ Accepts(a) \/ Refuses(a) \/ Suppresses(a) \/ Returns(a)
    BY <2>1 DEF Prepare, Accepts, Refuses, Suppresses, Returns
  <2>2. CASE Ack(a)
    BY <1>1, <2>2 DEF Ack, Fault
  <2>3. CASE Fail(a)
    BY <1>1, <2>3 DEF Fail, ReadEntry, CannotUpdate, Fault
  <2> QED BY <2>1, <2>2, <2>3 DEF SendStep
<1>5. CASE \E w \in Workers : WorkerStep(w)
  <2> SUFFICES ASSUME NEW w \in Workers, WorkerStep(w)
               PROVE  Bounds'
    BY <1>5
  <2>1. CASE Bury(w)
    <3>1. job[w].msg \in Msgs
      BY <2>1, WorkerFacts DEF Bury, JobOK, Claiming, OnFile
    <3> QED BY <1>1, <2>1, <3>1 DEF Bury, Fault
  <2>2. CASE Load(w)
    BY <1>1, <2>2 DEF Load, Fault
  <2>3. CASE ~ Bury(w) /\ ~ Load(w)
    BY <2>3 DEF WorkerStep, Scan, Claim, Drain, Reconcile
  <2> QED BY <2>1, <2>2, <2>3
<1>6. CASE Defer
  BY <1>6 DEF Defer
<1>7. CASE Crash
  <2>1. /\ crashes < MaxCrashes /\ crashes' = crashes + 1 /\ scanned' = FALSE
        /\ kind' = kind /\ failed' = failed /\ faults' = faults
    BY <1>7, Zenon DEF Crash
  <2>2. crashes' \in 0..MaxCrashes
    BY <1>1, <2>1
  <2>3. scanned' \in BOOLEAN
    BY <2>1
  <2> QED BY <2>1, <2>2, <2>3
<1>8. CASE UNCHANGED vars
  BY <1>8 DEF vars
<1> QED BY <1>2, <1>3, <1>4, <1>5, <1>6, <1>7, <1>8 DEF Next

\* The entry of a replay, and of a live send that goes on, has tries left.
LEMMA TriesLeft ==
  ASSUME QueueInv, RetryInv, NEW a \in Actors, job[a].msg \in Msgs,
         job[a].pc \in Replaying \/ (a \in Msgs /\ job[a].pc # "done")
  PROVE  file[job[a].msg].retry <= Allowed(a) + Spent[job[a].msg]
<1>1. CASE job[a].pc \in Replaying
  BY <1>1 DEF RetryInv, ReplaysOK, ReplayOK
<1>2. CASE a \in Msgs /\ job[a].pc # "done"
  <2>1. job[a].msg = a /\ Ended[a] = 0
    BY <1>2, RetryFacts DEF Ended
  <2>2. CountOK(file[a], deferral[a], Spent[a], Ended[a])
    BY <1>2 DEF RetryInv, CountsOK
  <2>3. MAX_RETRIES \in Nat /\ Spent[a] \in Nat
    BY <1>2, RetryFacts
  <2> QED BY <1>2, <2>1, <2>2, <2>3 DEF CountOK, Allowed
<1> QED BY <1>1, <1>2

\* A step that writes no entry and has read none.
LEMMA CountQuiet ==
  ASSUME QueueInv, RetryInv, NEW a \in Actors, NEW J \in Jobs, Within(a, J), Bounds',
         file' = file,
         J.pc \in Replaying =>
           /\ J.held = Absent /\ J.msg = job[a].msg /\ J.msg \in Msgs
           /\ job[a].pc \in Replaying \/ (a \in Msgs /\ job[a].pc # "done")
  PROVE  RetryInv'
<1>1. file' \in [Msgs -> Entries]
  BY DEF QueueInv, QueueTypes
<1>2. ReplayOK(a, J, file', Spent', crashes)
  <2> SUFFICES ASSUME J.pc \in Replaying
               PROVE  ReplayOK(a, J, file', Spent', crashes)
    BY DEF ReplayOK
  <2> DEFINE m == J.msg
             s1 == Spent'
  <2>1. file[m].retry <= Allowed(a) + Spent[m]
    BY TriesLeft
  <2>2. /\ s1[m] \in Nat /\ Spent[m] \in Nat /\ Spent[m] <= s1[m]
        /\ Allowed(a) \in Nat /\ file[m].retry \in Nat
    BY RetryFacts, LifeGoesOn
  <2>3. a \in Workers => file[m].mark # "absent"
    BY Apart DEF RetryInv, ReplaysOK, ReplayOK
  <2> HIDE DEF s1
  <2>4. file[m].retry <= Allowed(a) + s1[m]
    BY <2>1, <2>2
  <2> QED BY <2>3, <2>4 DEF ReplayOK, s1
<1> QED BY <1>1, <1>2, CountStep

\* A job that goes on in the code of a, with an entry it has read or none.
LEMMA HoldingWithin ==
  ASSUME QueueInv, RetryInv, NEW a \in Actors, NEW pc \in Pcs, NEW e \in Entries,
         Holding(a, pc, e), job[a].pc \notin {"off", "done"}, pc # "new",
         crashes' = crashes, deferral' = deferral, scanned' = scanned
  PROVE  \E J \in Jobs : /\ Within(a, J)
                         /\ J.pc = pc /\ J.held = e /\ J.msg = job[a].msg
<1>1. PICK J \in Jobs : /\ job' = [job EXCEPT ![a] = J]
                        /\ J.pc = pc /\ J.held = e /\ J.msg = job[a].msg
  BY HoldingJob DEF QueueInv
<1> QED BY <1>1 DEF Within

\* It goes on without having read one.
LEMMA GotoKeeps ==
  ASSUME QueueInv, RetryInv, Bounds', NEW a \in Actors, NEW pc \in Pcs, Goto(a, pc),
         job[a].pc \notin {"off", "done"}, pc # "new",
         UNCHANGED <<file, crashes, deferral, scanned>>,
         pc \in Replaying => job[a].msg \in Msgs /\ (a \in Msgs \/ job[a].pc \in Replaying)
  PROVE  RetryInv'
<1>1. Absent \in Entries
  BY EntryTypes
<1>2. PICK J \in Jobs : /\ Within(a, J)
                        /\ J.pc = pc /\ J.held = Absent /\ J.msg = job[a].msg
  BY <1>1, HoldingWithin DEF Goto
<1> QED BY <1>2, CountQuiet

\* It ends, or the actor visits its next entry.
LEMMA ReleaseWithin ==
  ASSUME QueueInv, RetryInv, NEW a \in Actors, Release(a), job[a].pc # "off",
         UNCHANGED <<crashes, deferral, scanned>>
  PROVE  \E J \in Jobs : /\ Within(a, J) /\ J.pc \notin Replaying
                         /\ a \in Msgs => J.pc = "done"
<1>1. PICK J \in Jobs : job' = [job EXCEPT ![a] = J] /\ Resting(a, J)
  BY ReleasedJob
<1>2. J.pc \notin Replaying /\ J.pc # "new"
  BY <1>1 DEF Resting, Replaying, Claiming, OnFile
<1> QED BY <1>1, <1>2 DEF Within, Resting

LEMMA ReleaseKeeps ==
  ASSUME QueueInv, RetryInv, Bounds', NEW a \in Actors, Release(a), job[a].pc # "off",
         UNCHANGED <<file, crashes, deferral, scanned>>
  PROVE  RetryInv'
<1>1. PICK J \in Jobs : Within(a, J) /\ J.pc \notin Replaying
  BY ReleaseWithin
<1> QED BY <1>1, CountQuiet

\* The read of an update.
LEMMA ReadKeeps ==
  ASSUME QueueInv, RetryInv, Bounds', NEW a \in Actors, NEW pc \in Replaying, ReadEntry(a, pc)
  PROVE  RetryInv'
<1> DEFINE m == job[a].msg
           e == file[m]
<1>1. /\ job[a].pc = pc /\ pc \in Claiming /\ pc \in Pcs /\ pc \notin {"off", "done", "new"}
      /\ Present(m) /\ Holding(a, pc, e)
      /\ UNCHANGED <<file, crashes, deferral, scanned>>
  BY DEF ReadEntry, At, Replaying, Claiming, OnFile, Pcs
<1>2. m \in Msgs /\ e \in Entries
  BY <1>1, RetryFacts
<1> HIDE DEF e
<1>3. PICK J \in Jobs : Within(a, J) /\ J.pc = pc /\ J.held = e /\ J.msg = m
  BY <1>1, <1>2, HoldingWithin
<1>4. e.retry <= Allowed(a) + Spent[m]
  BY <1>1, <1>2, TriesLeft DEF e
<1> DEFINE s1 == Spent'
<1>5. /\ s1[m] \in Nat /\ Spent[m] \in Nat /\ Spent[m] <= s1[m]
      /\ Allowed(a) \in Nat /\ e.retry \in Nat
  BY <1>2, <1>3, RetryFacts, LifeGoesOn DEF e
<1> HIDE DEF s1
<1>6. e.retry <= Allowed(a) + s1[m]
  BY <1>4, <1>5
<1>7. ReplayOK(a, J, file', s1, crashes)
  BY <1>1, <1>3, <1>6 DEF ReplayOK, Present, e
<1>8. file' \in [Msgs -> Entries]
  BY <1>1 DEF QueueInv, QueueTypes
<1> QED BY <1>1, <1>3, <1>7, <1>8, CountStep DEF s1

\* The write of an update by a live send.
LEMMA MarkKeeps ==
  ASSUME QueueInv, RetryInv, Bounds', NEW m \in Msgs, NEW pc \in Replaying,
         NEW mark \in {"started", "unknown"}, WriteMark(m, pc, mark),
         NEW J \in Jobs, Within(m, J), J.held = Absent, J.msg = m, J.pc # "new"
  PROVE  RetryInv'
<1> DEFINE e == job[m].held
           f == [e EXCEPT !.mark = mark]
           s1 == Spent'
           e1 == Ended'
<1>1. /\ job[m].pc = pc /\ pc \in Claiming /\ job[m].msg = m /\ e # Absent
      /\ file' = [file EXCEPT ![m] = f] /\ m \in Actors
  BY RetryFacts DEF WriteMark, At, Replaying
<1>2. e \in Entries /\ e.retry \in Nat
  BY <1>1, RetryFacts
<1>3. f \in Entries /\ f.retry = e.retry /\ f.mark # "absent"
  BY <1>2 DEF Entries
<1> HIDE DEF f
<1>4. /\ file' \in [Msgs -> Entries] /\ file'[m] = f
      /\ \A p \in Msgs : p # m => file'[p] = file[p]
  BY <1>1, <1>3 DEF QueueInv, QueueTypes
<1>5. /\ e.retry <= Allowed(m) + Spent[m] /\ file[m].mark # "absent"
      /\ Spent[m] = crashes => e.retry = file[m].retry
  BY <1>1 DEF RetryInv, ReplaysOK, ReplayOK
<1>6. /\ s1[m] \in Nat /\ Spent[m] \in Nat /\ Spent[m] <= s1[m] /\ MAX_RETRIES \in Nat
      /\ e1[m] \in Nat /\ Ended[m] \in Nat /\ Ended[m] <= e1[m]
      /\ deferral[m].held.retry \in Nat
  BY <1>1, RetryFacts, LifeGoesOn
<1>7. /\ deferral[m].pc = "write" => Spent[m] = crashes
      /\ CountOK(file[m], deferral[m], Spent[m], Ended[m])
  BY DEF RetryInv, CountsOK, Spent
<1>8. Allowed(m) = MAX_RETRIES
  BY DEF Allowed
<1> HIDE DEF s1, e1
<1>9. CountOK(f, deferral[m], s1[m], e1[m])
  <2>1. f.retry <= MAX_RETRIES + s1[m] + e1[m]
    BY <1>2, <1>3, <1>5, <1>6, <1>8
  <2>2. ASSUME deferral[m].pc = "write"
        PROVE  /\ deferral[m].held.retry <= MAX_RETRIES + s1[m] + e1[m]
               /\ deferral[m].held.retry <= f.retry
    BY <2>2, <1>2, <1>3, <1>5, <1>6, <1>7 DEF CountOK
  <2> QED BY <2>1, <2>2 DEF CountOK
<1>10. ReplayOK(m, J, file', s1, crashes)
  <2>1. f.retry <= Allowed(m) + s1[m]
    BY <1>2, <1>3, <1>5, <1>6, <1>8
  <2> QED BY <2>1, <1>3, <1>4 DEF ReplayOK
<1>11. Owns(m, m) /\ job'[m].pc # "new"
  BY <1>1, LifeGoesOn DEF Owns
<1> QED BY <1>1, <1>4, <1>9, <1>10, <1>11, CountStep DEF s1, e1

\* The write of failDelivery: a failure more, and the work is over.
LEMMA BumpKeeps ==
  ASSUME QueueInv, RetryInv, Bounds', NEW a \in Actors, job[a].pc \in Replaying,
         job[a].held # Absent, file' = [file EXCEPT ![job[a].msg] = Bumped(job[a].held)],
         Release(a), UNCHANGED <<crashes, deferral, scanned>>
  PROVE  RetryInv'
<1> DEFINE m == job[a].msg
           e == job[a].held
           f == Bumped(e)
           s1 == Spent'
           e1 == Ended'
<1>1. /\ m \in Msgs /\ job[a].pc \in Claiming /\ e \in Entries /\ e.retry \in Nat
      /\ job[a].pc # "off"
  BY RetryFacts DEF Replaying, Claiming, OnFile
<1>2. f \in Entries /\ f.mark = e.mark /\ f.retry = e.retry + 1
  BY <1>1, BumpedEntry DEF Bumped, Entries
<1> HIDE DEF f
<1>3. PICK J \in Jobs : /\ Within(a, J) /\ J.pc \notin Replaying
                        /\ a \in Msgs => J.pc = "done"
  BY <1>1, ReleaseWithin
<1>4. /\ file' \in [Msgs -> Entries] /\ file'[m] = f
      /\ \A p \in Msgs : p # m => file'[p] = file[p]
  BY <1>1, <1>2 DEF QueueInv, QueueTypes, f
<1>5. /\ e.retry <= Allowed(a) + Spent[m] /\ file[m].mark # "absent"
      /\ Spent[m] = crashes => e.retry = file[m].retry
  BY DEF RetryInv, ReplaysOK, ReplayOK
<1>6. /\ s1[m] \in Nat /\ Spent[m] \in Nat /\ Spent[m] <= s1[m] /\ MAX_RETRIES \in Nat \ {0}
      /\ e1[m] \in Nat /\ Ended[m] \in Nat /\ Ended[m] <= e1[m]
      /\ deferral[m].held.retry \in Nat
  BY <1>1, <1>3, RetryFacts, LifeGoesOn
<1>7. Allowed(a) + 1 <= MAX_RETRIES + e1[m]
  <2>1. CASE a \in Msgs
    <3>1. a = m
      BY <2>1, RetryFacts
    <3>2. e1[m] = 1
      BY <1>1, <1>3, <2>1, <3>1, LifeGoesOn
    <3> QED BY <1>6, <2>1, <3>2 DEF Allowed
  <2>2. CASE a \notin Msgs
    BY <1>6, <2>2 DEF Allowed
  <2> QED BY <2>1, <2>2
<1>8. /\ deferral[m].pc = "write" => Spent[m] = crashes
      /\ CountOK(file[m], deferral[m], Spent[m], Ended[m])
  BY <1>1 DEF RetryInv, CountsOK, Spent
<1>9. Allowed(a) \in Nat
  BY RetryFacts
<1> HIDE DEF s1, e1, m, e
<1>10. CountOK(f, deferral[m], s1[m], e1[m])
  <2>1. f.retry <= MAX_RETRIES + s1[m] + e1[m]
    BY <1>1, <1>2, <1>5, <1>6, <1>7, <1>9
  <2>2. ASSUME deferral[m].pc = "write"
        PROVE  /\ deferral[m].held.retry <= MAX_RETRIES + s1[m] + e1[m]
               /\ deferral[m].held.retry <= f.retry
    BY <2>2, <1>1, <1>2, <1>5, <1>6, <1>8 DEF CountOK
  <2> QED BY <2>1, <2>2 DEF CountOK
<1>11. ReplayOK(a, J, file', s1, crashes)
  BY <1>3 DEF ReplayOK
<1>12. Owns(a, m) /\ (job'[m].pc # "new" \/ file'[m].mark = "absent")
  <2>1. Owns(a, m)
    BY <1>1 DEF Owns, m
  <2>2. job[m].pc # "new"
    BY <1>1, <1>5 DEF RetryInv, NewOK
  <2>3. job'[m].pc # "new"
    <3>1. CASE a = m
      BY <3>1, <1>1, <1>3, LifeGoesOn
    <3>2. CASE a # m
      <4>1. m \in Actors
        BY <1>1 DEF Actors
      <4> QED BY <2>2, <3>2, <4>1, <1>3, LifeGoesOn
    <3> QED BY <3>1, <3>2
  <2> QED BY <2>1, <2>3
<1> QED BY <1>3, <1>4, <1>10, <1>11, <1>12, CountStep DEF s1, e1

\* The entry is removed, and the work is over.
LEMMA RemoveKeeps ==
  ASSUME QueueInv, RetryInv, Bounds', NEW a \in Actors, job[a].pc \in Claiming,
         file' = [file EXCEPT ![job[a].msg] = Absent],
         Release(a), UNCHANGED <<crashes, deferral, scanned>>
  PROVE  RetryInv'
<1> DEFINE m == job[a].msg
           s1 == Spent'
           e1 == Ended'
<1>1. m \in Msgs /\ job[a].pc # "off" /\ Absent \in Entries /\ Absent.mark = "absent"
      /\ Absent.retry = 0
  BY RetryFacts, EntryTypes DEF Claiming, OnFile, Absent
<1>2. PICK J \in Jobs : Within(a, J) /\ J.pc \notin Replaying
  BY <1>1, ReleaseWithin
<1>3. /\ file' \in [Msgs -> Entries] /\ file'[m] = Absent
      /\ \A p \in Msgs : p # m => file'[p] = file[p]
  BY <1>1 DEF QueueInv, QueueTypes
<1>4. /\ s1[m] \in Nat /\ Spent[m] \in Nat /\ Spent[m] <= s1[m] /\ MAX_RETRIES \in Nat \ {0}
      /\ e1[m] \in Nat /\ Ended[m] \in Nat /\ Ended[m] <= e1[m]
      /\ deferral[m].held.retry \in Nat
  BY <1>1, <1>2, RetryFacts, LifeGoesOn
<1>5. CountOK(file[m], deferral[m], Spent[m], Ended[m])
  BY <1>1 DEF RetryInv, CountsOK
<1>6. Owns(a, m)
  BY DEF Owns
<1> HIDE DEF s1, e1, m
<1>7. CountOK(Absent, deferral[m], s1[m], e1[m])
  BY <1>1, <1>4, <1>5 DEF CountOK
<1>8. ReplayOK(a, J, file', s1, crashes)
  BY <1>2 DEF ReplayOK
<1> QED BY <1>1, <1>2, <1>3, <1>6, <1>7, <1>8, CountStep DEF s1, e1

-----------------------------------------------------------------------------
(* Every action keeps the counts *)

LEMMA LiveRetries ==
  ASSUME QueueInv, RetryInv, Bounds', NEW m \in Msgs, LiveStep(m)
  PROVE  RetryInv'
<1>0. m \in Actors /\ job[m].msg = m
  BY RetryFacts
<1> DEFINE Still == crashes' = crashes /\ deferral' = deferral /\ scanned' = scanned
<1>1. CASE Enqueue(m)
  <2>1. job[m].pc = "new" /\ Still
    BY <1>1 DEF Enqueue, At
  <2>2. CASE Goto(m, IF "required" \in kind[m] THEN "done" ELSE "direct") /\ file' = file
    <3>1. PICK pc \in {"done", "direct"} : Goto(m, pc)
      BY <2>2
    <3>2. pc \in Pcs /\ pc \notin Replaying /\ pc # "new"
      BY DEF Pcs, OnFile, Replaying, Claiming
    <3> QED BY <1>0, <2>1, <2>2, <3>1, <3>2, GotoKeeps
  <2>3. CASE file' = [file EXCEPT ![m] = Fresh] /\ Goto(m, "claiming")
    <3>1. "claiming" \in Pcs /\ "claiming" \notin Replaying /\ Absent \in Entries
      BY EntryTypes DEF Pcs, OnFile, Replaying, Claiming
    <3>2. PICK J \in Jobs : Within(m, J) /\ J.pc = "claiming"
      BY <1>0, <2>1, <2>3, <3>1, HoldingWithin DEF Goto
    <3>3. /\ file' \in [Msgs -> Entries] /\ file'[m] = Fresh
          /\ \A p \in Msgs : p # m => file'[p] = file[p]
      BY <2>3, EntryTypes DEF QueueInv, QueueTypes
    <3>4. deferral[m].pc # "write"
      BY <2>1 DEF RetryInv, NewOK
    <3> DEFINE s1 == Spent'
               e1 == Ended'
    <3>5. s1[m] \in Nat /\ e1[m] \in Nat /\ MAX_RETRIES \in Nat
      BY <1>0, <3>2, RetryFacts, LifeGoesOn
    <3>6. Fresh.retry = 0
      BY DEF Fresh
    <3>7. job'[m].pc # "new"
      BY <1>0, <3>2, LifeGoesOn
    <3> HIDE DEF s1, e1
    <3>8. CountOK(Fresh, deferral[m], s1[m], e1[m])
      BY <3>4, <3>5, <3>6 DEF CountOK
    <3>9. ReplayOK(m, J, file', s1, crashes)
      BY <3>1, <3>2 DEF ReplayOK
    <3> QED BY <1>0, <2>1, <3>2, <3>3, <3>7, <3>8, <3>9, CountStep DEF s1, e1
  <2> QED BY <1>1, <2>2, <2>3 DEF Enqueue
<1>2. CASE SendDirectly(m)
  <2>1. /\ job[m].pc = "direct" /\ Still /\ file' = file /\ Goto(m, "done")
        /\ "done" \in Pcs /\ "done" \notin Replaying
    BY <1>2 DEF SendDirectly, At, Pcs, Replaying, Claiming, OnFile
  <2> QED BY <1>0, <2>1, GotoKeeps
<1>3. CASE ClaimLive(m)
  <2>1. job[m].pc = "claiming" /\ Still /\ file' = file
    BY <1>3 DEF ClaimLive, At
  <2>2. PICK pc \in {"done", "preparing"} : Goto(m, pc)
    BY <1>3 DEF ClaimLive
  <2>3. pc \in Pcs /\ pc # "new"
    BY DEF Pcs, OnFile
  <2> QED BY <1>0, <2>1, <2>2, <2>3, GotoKeeps
<1>5. CASE Mark(m)
  <2>1. CASE ReadEntry(m, "marking")
    <3>1. "marking" \in Replaying
      BY DEF Replaying, Claiming, OnFile
    <3> QED BY <1>0, <2>1, <3>1, ReadKeeps
  <2>2. CASE /\ WriteMark(m, "marking", "started")
             /\ job' = [job EXCEPT ![m] = [@ EXCEPT !.pc = "sending", !.held = Absent,
                                                    !.marked = TRUE]]
             /\ Still
    <3> DEFINE J == [job[m] EXCEPT !.pc = "sending", !.held = Absent, !.marked = TRUE]
    <3>1. job[m] \in Jobs /\ Absent \in Entries /\ job[m].pc = "marking"
      BY <1>0, <2>2, RetryFacts, EntryTypes DEF WriteMark, At
    <3>2. /\ J \in Jobs /\ J.pc = "sending" /\ J.held = Absent /\ J.msg = m
      BY <1>0, <3>1 DEF Jobs, Pcs, OnFile
    <3>3. job' = [job EXCEPT ![m] = J]
      BY <2>2
    <3> HIDE DEF J
    <3>4. Within(m, J)
      BY <1>0, <2>2, <3>1, <3>2, <3>3 DEF Within
    <3>5. "marking" \in Replaying
      BY DEF Replaying, Claiming, OnFile
    <3> QED BY <2>2, <3>2, <3>4, <3>5, MarkKeeps
  <2>3. CASE /\ At(m, "marking") /\ file' = file /\ Still
             /\ Goto(m, IF "required" \in kind[m] THEN "failing" ELSE "sending")
    <3>1. PICK pc \in {"failing", "sending"} : Goto(m, pc)
      BY <2>3
    <3>2. pc \in Pcs /\ pc # "new"
      BY DEF Pcs, OnFile
    <3> QED BY <1>0, <2>3, <3>1, <3>2, GotoKeeps DEF At
  <2> QED BY <1>5, <2>1, <2>2, <2>3 DEF Mark, CannotUpdate
<1>6. CASE Note(m)
  <2>1. CASE ReadEntry(m, "noting")
    <3>1. "noting" \in Replaying
      BY DEF Replaying, Claiming, OnFile
    <3> QED BY <1>0, <2>1, <3>1, ReadKeeps
  <2>2. CASE WriteMark(m, "noting", "unknown") /\ Goto(m, "acking") /\ Still
    <3>1. "acking" \in Pcs /\ Absent \in Entries /\ job[m].pc = "noting"
      BY <2>2, EntryTypes DEF WriteMark, At, Pcs, OnFile
    <3>2. PICK J \in Jobs : Within(m, J) /\ J.pc = "acking" /\ J.held = Absent /\ J.msg = m
      BY <1>0, <2>2, <3>1, HoldingWithin DEF Goto
    <3>3. "noting" \in Replaying
      BY DEF Replaying, Claiming, OnFile
    <3> QED BY <2>2, <3>2, <3>3, MarkKeeps
  <2>3. CASE At(m, "noting") /\ Release(m) /\ file' = file /\ Still
    BY <1>0, <2>3, ReleaseKeeps DEF At
  <2>4. CASE At(m, "noting") /\ Goto(m, "acking") /\ file' = file /\ Still
    <3>1. "acking" \in Pcs
      BY DEF Pcs, OnFile
    <3> QED BY <1>0, <2>4, <3>1, GotoKeeps DEF At
  <2> QED BY <1>6, <2>1, <2>2, <2>3, <2>4 DEF Note, CannotUpdate
<1>7. CASE AbortSend(m)
  <2>1. job[m].pc \in {"preparing", "sending", "taken"} /\ Still /\ file' = file
    BY <1>7 DEF AbortSend
  <2>2. PICK pc \in {"acking", "failing"} : Goto(m, pc)
    BY <1>7 DEF AbortSend
  <2>3. pc \in Pcs /\ pc # "new"
    BY DEF Pcs, OnFile
  <2> QED BY <1>0, <2>1, <2>2, <2>3, GotoKeeps
<1> QED BY <1>1, <1>2, <1>3, <1>5, <1>6, <1>7 DEF LiveStep

LEMMA SendRetries ==
  ASSUME QueueInv, RetryInv, Bounds', NEW a \in Actors, SendStep(a)
  PROVE  RetryInv'
<1> DEFINE Still == crashes' = crashes /\ deferral' = deferral /\ scanned' = scanned
<1>0. /\ {"preparing", "marking", "sending", "taken", "noting", "acking", "failing", "burying"}
           \subseteq (Pcs \cap Replaying) \ {"off", "done", "new"}
      /\ \A pc \in Replaying : pc \in Claiming
  BY DEF Replaying, Claiming, OnFile, Pcs
<1>1. job[a].pc \in Replaying => job[a].msg \in Msgs
  BY <1>0, RetryFacts
<1>2. CASE Accepts(a)
  <2>1. job[a].pc = "sending" /\ Still /\ file' = file /\ Goto(a, "taken")
    BY <1>2 DEF Accepts, At
  <2> QED BY <1>0, <1>1, <2>1, GotoKeeps
<1>3. CASE Prepare(a)
  <2>1. job[a].pc = "preparing" /\ Still /\ file' = file
    BY <1>3 DEF Prepare, At
  <2>2. PICK pc \in {"marking", "sending", "acking", "failing", "burying"} : Goto(a, pc)
    BY <1>3, ErrorPcs DEF Prepare, Fails
  <2> QED BY <1>0, <1>1, <2>1, <2>2, GotoKeeps
<1>4. CASE Refuses(a) \/ Suppresses(a) \/ Returns(a)
  <2>1. job[a].pc \in {"sending", "taken"} /\ Still /\ file' = file
    BY <1>4 DEF Refuses, Suppresses, Returns, At
  <2>2. PICK pc \in {"noting", "acking", "failing", "burying"} : Goto(a, pc)
    BY <1>4, ErrorPcs DEF Refuses, Suppresses, Returns, Answered, Fails
  <2> QED BY <1>0, <1>1, <2>1, <2>2, GotoKeeps
<1>5. CASE Ack(a)
  <2>1. job[a].pc = "acking" /\ Still
    BY <1>5 DEF Ack, At
  <2>2. CASE file' = [file EXCEPT ![job[a].msg] = Absent] /\ Release(a)
    BY <1>0, <2>1, <2>2, RemoveKeeps
  <2>3. CASE file' = file /\ Release(a)
    BY <1>0, <2>1, <2>3, ReleaseKeeps
  <2>4. CASE file' = file /\ Goto(a, "failing")
    BY <1>0, <1>1, <2>1, <2>4, GotoKeeps
  <2> QED BY <1>5, <2>2, <2>3, <2>4 DEF Ack
<1>6. CASE Fail(a)
  <2>1. CASE ReadEntry(a, "failing")
    BY <1>0, <2>1, ReadKeeps
  <2>2. CASE /\ At(a, "failing") /\ job[a].held # Absent
             /\ file' = [file EXCEPT ![job[a].msg] = Bumped(job[a].held)]
             /\ Release(a) /\ Still
    BY <1>0, <2>2, BumpKeeps DEF At
  <2>3. CASE At(a, "failing") /\ Release(a) /\ file' = file /\ Still
    BY <1>0, <2>3, ReleaseKeeps DEF At
  <2> QED BY <1>6, <2>1, <2>2, <2>3 DEF Fail, CannotUpdate
<1> QED BY <1>2, <1>3, <1>4, <1>5, <1>6 DEF SendStep

\* A worker that is free turns to a list of entries.
LEMMA FreeWorker ==
  ASSUME QueueInv, RetryInv, Bounds', NEW w \in Workers, NEW todo \in SUBSET Msgs,
         job' = [job EXCEPT ![w] = Scanning(todo)],
         UNCHANGED <<file, crashes, deferral>>, scanned => scanned',
         w = "recovery" /\ job[w].pc = "off" => ~ scanned /\ scanned'
  PROVE  RetryInv'
<1>1. Scanning(todo) \in Jobs /\ Scanning(todo).pc \in {"off", "scanning"}
  BY ScanningJob
<1>2. Scanning(todo).pc \notin Replaying
  BY <1>1 DEF Replaying, Claiming, OnFile
<1>3. w \in Actors /\ w \notin Msgs
  BY WorkerFacts
<1>4. Within(w, Scanning(todo))
  BY <1>1, <1>3 DEF Within
<1> QED BY <1>1, <1>2, <1>3, <1>4, CountQuiet

LEMMA WorkerRetries ==
  ASSUME QueueInv, RetryInv, Bounds', NEW w \in Workers, WorkerStep(w)
  PROVE  RetryInv'
<1>0. w \in Actors /\ w \notin Msgs /\ job[w] \in Jobs /\ job[w].todo \in SUBSET Msgs
  BY WorkerFacts DEF Jobs
<1> DEFINE Still == crashes' = crashes /\ deferral' = deferral /\ scanned' = scanned
<1>1. CASE Scan(w)
  <2> DEFINE found == {m \in Msgs : Present(m)}
  <2>1. /\ job' = [job EXCEPT ![w] = Scanning(found)] /\ found \in SUBSET Msgs
        /\ UNCHANGED <<file, crashes, deferral>>
        /\ scanned' = (scanned \/ w = "recovery") /\ (w = "recovery" => ~ scanned)
    BY <1>1 DEF Scan
  <2> HIDE DEF found
  <2> QED BY <2>1, FreeWorker
<1>2. CASE Claim(w)
  <2>1. job[w].pc = "scanning" /\ Still /\ file' = file
    BY <1>2 DEF Claim, At
  <2>2. PICK m \in job[w].todo :
          \/ job' = [job EXCEPT ![w] = Scanning(job[w].todo \ {m})]
          \/ job' = [job EXCEPT ![w] = [NoJob EXCEPT !.pc = "reading", !.msg = m,
                                               !.todo = job[w].todo \ {m}]]
    BY <1>2, Zenon DEF Claim
  <2>3. CASE job' = [job EXCEPT ![w] = Scanning(job[w].todo \ {m})]
    <3>1. job[w].todo \ {m} \in SUBSET Msgs
      BY <1>0
    <3> QED BY <2>1, <2>3, <3>1, FreeWorker
  <2>4. CASE job' = [job EXCEPT ![w] = [NoJob EXCEPT !.pc = "reading", !.msg = m,
                                               !.todo = job[w].todo \ {m}]]
    <3> DEFINE J == [NoJob EXCEPT !.pc = "reading", !.msg = m, !.todo = job[w].todo \ {m}]
    <3>1. NoJob \in Jobs
      BY EntryTypes DEF NoJob, Jobs, Pcs
    <3>2. m \in Msgs
      BY <1>0
    <3>3. J \in Jobs /\ J.pc = "reading"
      BY <1>0, <3>1, <3>2 DEF Jobs, Pcs
    <3>4. job' = [job EXCEPT ![w] = J]
      BY <2>4
    <3> HIDE DEF J
    <3>5. Within(w, J) /\ J.pc \notin Replaying
      BY <1>0, <2>1, <3>3, <3>4 DEF Within, Replaying
    <3> QED BY <1>0, <2>1, <3>3, <3>5, CountQuiet
  <2> QED BY <2>2, <2>3, <2>4
<1>3. CASE Load(w)
  <2> DEFINE m == job[w].msg
             e == file[m]
  <2>1. job[w].pc = "reading" /\ Still /\ file' = file
    BY <1>3 DEF Load, At
  <2>2. CASE Release(w)
    BY <1>0, <2>1, <2>2, ReleaseKeeps
  <2>3. CASE Goto(w, "pruning")
    <3>1. "pruning" \in Pcs /\ "pruning" \notin Replaying
      BY DEF Pcs, OnFile, Replaying
    <3> QED BY <1>0, <2>1, <2>3, <3>1, GotoKeeps
  <2>4. CASE Present(m) /\ e.retry < MAX_RETRIES /\ Holding(w, "due", e)
    <3>1. "reading" \in Claiming /\ "due" \in Pcs
      BY DEF Claiming, Pcs, OnFile
    <3>2. m \in Msgs /\ e \in Entries /\ e.retry \in Nat
      BY <1>0, <2>1, <3>1, RetryFacts
    <3>3. e.mark # "absent" /\ e.retry < MAX_RETRIES
      BY <2>4 DEF Present
    <3> HIDE DEF m, e
    <3>4. PICK J \in Jobs : Within(w, J) /\ J.pc = "due" /\ J.held = e /\ J.msg = m
      BY <1>0, <2>1, <2>4, <3>1, <3>2, HoldingWithin DEF m
    <3> DEFINE s1 == Spent'
    <3>5. s1[m] \in Nat /\ MAX_RETRIES \in Nat /\ Allowed(w) = MAX_RETRIES - 1
      BY <1>0, <3>2, <3>4, RetryFacts, LifeGoesOn DEF Allowed
    <3> HIDE DEF s1
    <3>6. e.retry <= Allowed(w) + s1[m]
      BY <3>2, <3>3, <3>5
    <3>7. file'[m] = e
      BY <2>1 DEF e
    <3>8. ReplayOK(w, J, file', s1, crashes)
      BY <3>3, <3>4, <3>6, <3>7 DEF ReplayOK
    <3>9. file' \in [Msgs -> Entries]
      BY <2>1 DEF QueueInv, QueueTypes
    <3> QED BY <1>0, <2>1, <3>4, <3>8, <3>9, CountStep DEF s1
  <2>5. CASE ScanThrows(w)
    <3>1. PICK none \in SUBSET Msgs : none = {}
      OBVIOUS
    <3>2. NoJob = Scanning(none)
      BY <3>1 DEF Scanning
    <3> QED BY <2>1, <2>5, <3>2, FreeWorker DEF ScanThrows
  <2> QED BY <1>3, <2>2, <2>3, <2>4, <2>5 DEF Load
<1>4. CASE Drain(w)
  <2>1. job[w].pc = "due" /\ Still /\ file' = file
    BY <1>4 DEF Drain, At
  <2>2. PICK pc \in {"preparing", "reconciling"} : Goto(w, pc)
    BY <1>4 DEF Drain
  <2>3. pc \in Pcs /\ pc # "new" /\ "due" \in Replaying /\ "due" \in Claiming
    BY DEF Pcs, OnFile, Replaying, Claiming
  <2>4. job[w].msg \in Msgs
    BY <1>0, <2>1, <2>3, RetryFacts
  <2> QED BY <1>0, <2>1, <2>2, <2>3, <2>4, GotoKeeps
<1>5. CASE Reconcile(w)
  <2>1. job[w].pc = "reconciling" /\ Still /\ file' = file
    BY <1>5 DEF Reconcile, At
  <2>2. PICK pc \in {"acking", "preparing", "failing", "burying"} : Goto(w, pc)
    BY <1>5 DEF Reconcile
  <2>3. pc \in Pcs /\ pc # "new" /\ "reconciling" \in Replaying /\ "reconciling" \in Claiming
    BY DEF Pcs, OnFile, Replaying, Claiming
  <2>4. job[w].msg \in Msgs
    BY <1>0, <2>1, <2>3, RetryFacts
  <2> QED BY <1>0, <2>1, <2>2, <2>3, <2>4, GotoKeeps
<1>6. CASE Bury(w)
  <2>1. job[w].pc \in {"pruning", "burying"} /\ Still
    BY <1>6, Zenon DEF Bury
  <2>2. job[w].pc \in Claiming /\ job[w].pc # "off"
    BY <2>1 DEF Claiming, OnFile
  <2>3. CASE file' = [file EXCEPT ![job[w].msg] = Absent] /\ Release(w)
    BY <1>0, <2>1, <2>2, <2>3, RemoveKeeps
  <2>4. CASE file' = file /\ Release(w)
    BY <1>0, <2>1, <2>2, <2>4, ReleaseKeeps
  <2>5. CASE file' = file /\ job' = [job EXCEPT ![w] = NoJob]
    <3>1. PICK none \in SUBSET Msgs : none = {}
      OBVIOUS
    <3>2. NoJob = Scanning(none)
      BY <3>1 DEF Scanning
    <3> QED BY <2>1, <2>2, <2>5, <3>2, FreeWorker
  <2> QED BY <1>6, <2>3, <2>4, <2>5 DEF Bury, ScanThrows
<1> QED BY <1>1, <1>2, <1>3, <1>4, <1>5, <1>6 DEF WorkerStep

\* Time runs out for the recovery: until then no deferral is over, and none is on.
LEMMA DeferRetries ==
  ASSUME QueueInv, RetryInv, Bounds', Defer
  PROVE  RetryInv'
<1> DEFINE r == "recovery"
           s1 == Spent'
           e1 == Ended'
<1>0. r \in Actors /\ r \notin Msgs
  BY RetryFacts
<1>1. /\ job[r].pc = "scanning" /\ job' = [job EXCEPT ![r] = NoJob]
      /\ file' = file /\ crashes' = crashes /\ scanned' = scanned
      /\ deferral' = [m \in Msgs |-> IF m \in job[r].todo
                                      THEN [pc |-> "read", held |-> Absent] ELSE deferral[m]]
  BY DEF Defer, At
<1>2. job'[r] = NoJob /\ NoJob.pc = "off" /\ \A b \in Actors : b # r => job'[b] = job[b]
  BY <1>0, <1>1 DEF QueueInv, QueueTypes, NoJob
<1>3. \A m \in Msgs : m # r /\ job'[m] = job[m]
  BY <1>0, <1>2, RetryFacts
<1>4. \A m \in Msgs : deferral[m].pc = "off" /\ deferral'[m].pc # "write"
  BY <1>1 DEF RetryInv, LateOK
<1>5. \A m \in Msgs : Spent[m] = crashes /\ s1[m] \in {crashes, crashes + 1} /\ e1[m] = Ended[m]
  BY <1>1, <1>3 DEF Spent, Ended
<1> HIDE DEF r, s1, e1
<1>6. ReplaysOK'
  <2> SUFFICES ASSUME NEW b \in Actors PROVE ReplayOK(b, job'[b], file, s1, crashes)
    BY <1>1 DEF ReplaysOK, s1
  <2>1. CASE b = r
    BY <1>2, <2>1 DEF ReplayOK, Replaying, Claiming, OnFile
  <2>2. CASE b # r
    <3> SUFFICES ASSUME job[b].pc \in Replaying PROVE ReplayOK(b, job[b], file, s1, crashes)
      BY <1>2, <2>2 DEF ReplayOK
    <3>1. /\ ReplayOK(b, job[b], file, Spent, crashes) /\ job[b].msg \in Msgs
          /\ crashes \in Nat /\ Allowed(b) \in Nat /\ job[b].held.retry \in Nat
          /\ file[job[b].msg].retry \in Nat
      BY RetryFacts DEF RetryInv, ReplaysOK, Replaying
    <3> DEFINE m == job[b].msg
    <3>2. Spent[m] = crashes /\ s1[m] \in {crashes, crashes + 1}
      BY <1>5, <3>1
    <3> HIDE DEF m
    <3> QED BY <3>1, <3>2 DEF ReplayOK, m
  <2> QED BY <2>1, <2>2
<1>7. CountsOK'
  <2> SUFFICES ASSUME NEW m \in Msgs PROVE CountOK(file[m], deferral'[m], s1[m], e1[m])
    BY <1>1 DEF CountsOK, s1, e1
  <2>1. /\ CountOK(file[m], deferral[m], Spent[m], Ended[m]) /\ file[m].retry \in Nat
        /\ crashes \in Nat /\ MAX_RETRIES \in Nat /\ Ended[m] \in {0, 1}
    BY RetryFacts DEF RetryInv, CountsOK
  <2> QED BY <1>4, <1>5, <2>1 DEF CountOK
<1>8. NewOK'
  BY <1>1, <1>3, <1>4 DEF RetryInv, NewOK
<1>9. LateOK'
  BY <1>1, <1>2, r = "recovery" DEF RetryInv, LateOK, r
<1> QED BY <1>6, <1>7, <1>8, <1>9 DEF RetryInv

\* The read of a deferral.
LEMMA DeferReadRetries ==
  ASSUME QueueInv, RetryInv, Bounds', NEW m \in Msgs, DeferRead(m)
  PROVE  RetryInv'
<1> DEFINE D == IF Present(m) THEN [pc |-> "write", held |-> file[m]] ELSE NotDeferred
           s1 == Spent'
           e1 == Ended'
<1>1. /\ deferral[m].pc = "read" /\ deferral' = [deferral EXCEPT ![m] = D]
      /\ file' = file /\ crashes' = crashes /\ scanned' = scanned /\ job' = job
  BY DEF DeferRead
<1>2. D.pc = "write" => D.held = file[m] /\ Present(m)
  BY DEF NotDeferred
<1> HIDE DEF D
<1>3. deferral'[m] = D /\ \A p \in Msgs : p # m => deferral'[p] = deferral[p]
  BY <1>1 DEF QueueInv, QueueTypes
<1>4. \A p \in Msgs : /\ s1[p] \in {crashes, crashes + 1} /\ Spent[p] \in {crashes, crashes + 1}
                      /\ Spent[p] <= s1[p] /\ (s1[p] = crashes => Spent[p] = crashes)
                      /\ e1[p] = Ended[p]
  <2> SUFFICES ASSUME NEW p \in Msgs
               PROVE  /\ s1[p] \in {crashes, crashes + 1} /\ Spent[p] \in {crashes, crashes + 1}
                      /\ Spent[p] <= s1[p] /\ (s1[p] = crashes => Spent[p] = crashes)
                      /\ e1[p] = Ended[p]
    OBVIOUS
  <2>1. crashes \in Nat
    BY RetryFacts
  <2>2. deferral[p].pc = "off" => deferral'[p].pc = "off"
    BY <1>1, <1>3
  <2> QED BY <1>1, <2>1, <2>2 DEF Spent, Ended
<1> HIDE DEF s1, e1
<1>5. ReplaysOK'
  <2> SUFFICES ASSUME NEW b \in Actors, job[b].pc \in Replaying
               PROVE  ReplayOK(b, job[b], file, s1, crashes)
    BY <1>1 DEF ReplaysOK, ReplayOK, s1
  <2>1. /\ ReplayOK(b, job[b], file, Spent, crashes) /\ job[b].msg \in Msgs
        /\ crashes \in Nat /\ Allowed(b) \in Nat /\ job[b].held.retry \in Nat
        /\ file[job[b].msg].retry \in Nat
    BY RetryFacts DEF RetryInv, ReplaysOK, Replaying
  <2> DEFINE p == job[b].msg
  <2>2. /\ s1[p] \in Nat /\ Spent[p] \in Nat
        /\ Spent[p] <= s1[p] /\ (s1[p] = crashes => Spent[p] = crashes)
    BY <1>4, <2>1
  <2> HIDE DEF p
  <2> QED BY <2>1, <2>2 DEF ReplayOK, p
<1>6. CountsOK'
  <2> SUFFICES ASSUME NEW p \in Msgs PROVE CountOK(file[p], deferral'[p], s1[p], e1[p])
    BY <1>1 DEF CountsOK, s1, e1
  <2>1. /\ CountOK(file[p], deferral[p], Spent[p], Ended[p]) /\ file[p].retry \in Nat
        /\ crashes \in Nat /\ MAX_RETRIES \in Nat /\ Ended[p] \in {0, 1}
        /\ deferral[p].held.retry \in Nat
    BY RetryFacts DEF RetryInv, CountsOK
  <2>2. s1[p] \in Nat /\ Spent[p] \in Nat /\ Spent[p] <= s1[p] /\ e1[p] = Ended[p]
    BY <1>4, <2>1
  <2>3. file[p].retry <= MAX_RETRIES + s1[p] + e1[p]
    BY <2>1, <2>2 DEF CountOK
  <2>4. ASSUME deferral'[p].pc = "write"
        PROVE  /\ deferral'[p].held.retry <= MAX_RETRIES + s1[p] + e1[p]
               /\ file[p].mark # "absent" => deferral'[p].held.retry <= file[p].retry
    <3>1. CASE p = m
      BY <1>2, <1>3, <2>1, <2>3, <2>4, <3>1
    <3>2. CASE p # m
      BY <1>3, <2>1, <2>2, <2>4, <3>2 DEF CountOK
    <3> QED BY <3>1, <3>2
  <2> QED BY <2>3, <2>4 DEF CountOK
<1>7. NewOK'
  BY <1>1, <1>2, <1>3 DEF RetryInv, NewOK, Present
<1>8. LateOK'
  <2> SUFFICES ASSUME NEW p \in Msgs, deferral'[p].pc # "off"
               PROVE  scanned /\ job["recovery"].pc = "off"
    BY <1>1 DEF RetryInv, LateOK
  <2> QED BY <1>1, <1>3 DEF RetryInv, LateOK
<1> QED BY <1>5, <1>6, <1>7, <1>8 DEF RetryInv

\* Its write: the one deferral of m in this life of the process is over.
LEMMA DeferWriteRetries ==
  ASSUME QueueInv, RetryInv, Bounds', NEW m \in Msgs, DeferWrite(m)
  PROVE  RetryInv'
<1> DEFINE h == deferral[m].held
           F == Bumped(h)
           s1 == Spent'
           e1 == Ended'
<1>1. /\ deferral[m].pc = "write" /\ deferral' = [deferral EXCEPT ![m] = NotDeferred]
      /\ file' = [file EXCEPT ![m] = F]
      /\ crashes' = crashes /\ scanned' = scanned /\ job' = job
  BY DEF DeferWrite
<1>2. /\ h \in Entries /\ h.retry \in Nat /\ h.mark # "absent"
      /\ crashes \in Nat /\ MAX_RETRIES \in Nat /\ file[m].retry \in Nat
  BY <1>1, RetryFacts DEF QueueInv, DeferralsOK
<1>3. F \in Entries /\ F.retry = h.retry + 1 /\ F.mark # "absent"
  BY <1>2, BumpedEntry DEF Bumped, Entries
<1> HIDE DEF F
<1>4. /\ file' \in [Msgs -> Entries] /\ file'[m] = F
      /\ deferral'[m].pc = "off"
      /\ \A p \in Msgs : p # m => file'[p] = file[p] /\ deferral'[p] = deferral[p]
  BY <1>1, <1>3 DEF QueueInv, QueueTypes, NotDeferred
<1>5. Spent[m] = crashes /\ s1[m] = crashes + 1
  <2>1. scanned /\ job["recovery"].pc = "off"
    BY <1>1 DEF RetryInv, LateOK
  <2> QED BY <1>1, <1>4, <2>1 DEF Spent
<1>6. e1 = Ended /\ \A p \in Msgs : p # m => s1[p] = Spent[p]
  BY <1>1, <1>4 DEF Spent, Ended
<1>7. /\ CountOK(file[m], deferral[m], Spent[m], Ended[m])
      /\ Ended[m] \in {0, 1}
  BY RetryFacts DEF RetryInv, CountsOK
<1>8. h.retry <= MAX_RETRIES + crashes + Ended[m]
  BY <1>1, <1>5, <1>7 DEF CountOK
<1> HIDE DEF s1, e1
<1>9. ReplaysOK'
  <2> SUFFICES ASSUME NEW b \in Actors, job[b].pc \in Replaying
               PROVE  ReplayOK(b, job[b], file', s1, crashes)
    BY <1>1 DEF ReplaysOK, ReplayOK, s1
  <2>1. /\ ReplayOK(b, job[b], file, Spent, crashes) /\ job[b].msg \in Msgs
        /\ Allowed(b) \in Nat /\ job[b].held.retry \in Nat
    BY RetryFacts DEF RetryInv, ReplaysOK, Replaying
  <2>2. CASE job[b].msg # m
    BY <1>4, <1>6, <2>1, <2>2 DEF ReplayOK
  <2>3. CASE job[b].msg = m
    <3>1. h.retry <= Allowed(b) + crashes
      <4>1. CASE b \in Workers \/ job[b].held # Absent
        <5>1. file[m].mark # "absent" /\ file[m].retry <= Allowed(b) + crashes
          BY <1>5, <2>1, <2>3, <4>1 DEF ReplayOK
        <5>2. h.retry <= file[m].retry
          BY <1>1, <1>7, <5>1 DEF CountOK
        <5> QED BY <1>2, <2>1, <5>1, <5>2
      <4>2. CASE ~ (b \in Workers \/ job[b].held # Absent)
        <5>1. b = m /\ Allowed(b) = MAX_RETRIES
          BY <2>3, <4>2, RetryFacts DEF Actors, Allowed
        <5>2. Ended[m] = 0
          BY <5>1 DEF Ended, Replaying, Claiming, OnFile
        <5> QED BY <1>2, <1>8, <5>1, <5>2
      <4> QED BY <4>1, <4>2
    <3>2. F.retry <= Allowed(b) + s1[m]
      BY <1>2, <1>3, <1>5, <2>1, <3>1
    <3>3. job[b].held # Absent => /\ job[b].held.retry <= Allowed(b) + s1[m]
                                  /\ s1[m] # crashes
      BY <1>2, <1>5, <2>1, <2>3 DEF ReplayOK
    <3> QED BY <1>3, <1>4, <2>3, <3>2, <3>3 DEF ReplayOK
  <2> QED BY <2>2, <2>3
<1>10. CountsOK'
  <2> SUFFICES ASSUME NEW p \in Msgs PROVE CountOK(file'[p], deferral'[p], s1[p], e1[p])
    BY <1>1 DEF CountsOK, s1, e1
  <2>1. CASE p # m
    BY <1>4, <1>6, <2>1 DEF RetryInv, CountsOK
  <2>2. CASE p = m
    <3>1. F.retry <= MAX_RETRIES + s1[m] + e1[m]
      BY <1>2, <1>3, <1>5, <1>6, <1>7, <1>8
    <3> QED BY <1>4, <2>2, <3>1 DEF CountOK
  <2> QED BY <2>1, <2>2
<1>11. NewOK'
  BY <1>1, <1>4 DEF RetryInv, NewOK
<1>12. LateOK'
  <2> SUFFICES ASSUME NEW p \in Msgs, deferral'[p].pc # "off"
               PROVE  scanned /\ job["recovery"].pc = "off"
    BY <1>1 DEF RetryInv, LateOK
  <2> QED BY <1>4 DEF RetryInv, LateOK
<1> QED BY <1>9, <1>10, <1>11, <1>12 DEF RetryInv

\* A crash ends the life of a process: what it could still defer is given up.
LEMMA CrashRetries ==
  ASSUME QueueInv, RetryInv, Bounds', Crash
  PROVE  RetryInv'
<1> DEFINE After(a) == IF a \in Workers THEN NoJob
                       ELSE IF At(a, "new") THEN job[a]
                       ELSE [job[a] EXCEPT !.pc = "done", !.held = Absent]
           s1 == Spent'
           e1 == Ended'
<1>1. /\ crashes' = crashes + 1 /\ scanned' = FALSE /\ file' = file
      /\ job' = [a \in Actors |-> After(a)]
      /\ deferral' = [m \in Msgs |-> NotDeferred]
  BY DEF Crash
<1>2. \A a \in Actors : /\ job'[a] = After(a) /\ After(a).pc \in {"off", "new", "done"}
                        /\ a \in Workers => After(a).pc = "off"
                        /\ After(a).pc = "new" => job[a].pc = "new"
                        /\ a \in Msgs /\ job[a].pc = "done" => After(a).pc = "done"
  <2> SUFFICES ASSUME NEW a \in Actors
               PROVE  /\ job'[a] = After(a) /\ After(a).pc \in {"off", "new", "done"}
                      /\ a \in Workers => After(a).pc = "off"
                      /\ After(a).pc = "new" => job[a].pc = "new"
                      /\ a \in Msgs /\ job[a].pc = "done" => After(a).pc = "done"
    OBVIOUS
  <2>1. job'[a] = After(a)
    BY <1>1
  <2>2. CASE a \in Workers
    <3>1. After(a) = NoJob /\ NoJob.pc = "off" /\ a \notin Msgs
      BY <2>2, Apart DEF NoJob
    <3> QED BY <2>1, <2>2, <3>1
  <2>3. CASE a \notin Workers /\ job[a].pc = "new"
    BY <2>1, <2>3 DEF At
  <2>4. CASE a \notin Workers /\ job[a].pc # "new"
    <3> DEFINE J == [job[a] EXCEPT !.pc = "done", !.held = Absent]
    <3>1. job[a] \in Jobs
      BY RetryFacts
    <3>2. J.pc = "done" /\ After(a) = J
      BY <2>4, <3>1 DEF Jobs, At
    <3> HIDE DEF J
    <3> QED BY <2>1, <2>4, <3>2
  <2> QED BY <2>2, <2>3, <2>4
<1> HIDE DEF After
<1>3. \A m \in Msgs : /\ s1[m] = crashes + 1 /\ Spent[m] \in {crashes, crashes + 1}
                      /\ Ended[m] \in {0, 1} /\ e1[m] \in {0, 1} /\ Ended[m] <= e1[m]
  <2>1. \A m \in Msgs : s1[m] = crashes + 1 /\ Spent[m] \in {crashes, crashes + 1}
    BY <1>1 DEF Spent
  <2>2. \A m \in Msgs : m \in Actors
    BY RetryFacts
  <2>3. \A m \in Msgs : job[m].pc = "done" => job'[m].pc = "done"
    BY <1>2, <2>2
  <2>4. \A m \in Msgs : Ended[m] \in {0, 1} /\ e1[m] \in {0, 1} /\ Ended[m] <= e1[m]
    BY <2>3 DEF Ended
  <2> QED BY <2>1, <2>4
<1> HIDE DEF s1, e1
<1>4. ReplaysOK'
  BY <1>1, <1>2 DEF ReplaysOK, ReplayOK, Replaying, Claiming, OnFile
<1>5. CountsOK'
  <2> SUFFICES ASSUME NEW m \in Msgs PROVE CountOK(file[m], deferral'[m], s1[m], e1[m])
    BY <1>1 DEF CountsOK, s1, e1
  <2>1. /\ CountOK(file[m], deferral[m], Spent[m], Ended[m]) /\ file[m].retry \in Nat
        /\ crashes \in Nat /\ MAX_RETRIES \in Nat
    BY RetryFacts DEF RetryInv, CountsOK
  <2>2. deferral'[m].pc = "off"
    BY <1>1 DEF NotDeferred
  <2>3. file[m].retry <= MAX_RETRIES + s1[m] + e1[m]
    BY <1>3, <2>1 DEF CountOK
  <2> QED BY <2>2, <2>3 DEF CountOK
<1>6. NewOK'
  <2> SUFFICES ASSUME NEW m \in Msgs, job'[m].pc = "new"
               PROVE  file[m].mark = "absent" /\ deferral'[m].pc # "write"
    BY <1>1 DEF NewOK
  <2>1. job[m].pc = "new"
    BY <1>2, RetryFacts
  <2> QED BY <1>1, <2>1 DEF RetryInv, NewOK, NotDeferred
<1>7. LateOK'
  <2>1. "recovery" \in Workers /\ "recovery" \in Actors
    BY RetryFacts DEF Workers
  <2> QED BY <1>1, <1>2, <2>1 DEF LateOK, NotDeferred
<1> QED BY <1>4, <1>5, <1>6, <1>7 DEF RetryInv

-----------------------------------------------------------------------------
(* The counts *)

LEMMA RetryInit == Init => RetryInv
<1> SUFFICES ASSUME Init PROVE RetryInv
  OBVIOUS
<1>1. /\ kind \in [Msgs -> Kinds] /\ file = [m \in Msgs |-> Absent] /\ failed = {}
      /\ job = [a \in Actors |-> IF a \in Msgs THEN LiveJob(a) ELSE NoJob]
      /\ deferral = [m \in Msgs |-> NotDeferred]
      /\ scanned = FALSE /\ crashes = 0 /\ faults = 0
  BY DEF Init
<1>2. MAX_RETRIES \in Nat /\ MaxCrashes \in Nat /\ MaxFaults \in Nat
  BY DeliveryConstants
<1>3. \A a \in Actors : job[a].pc \in {"new", "off"}
  BY <1>1 DEF LiveJob, NoJob
<1>4. \A m \in Msgs : Spent[m] = 0 /\ Ended[m] = 0
  <2>1. \A m \in Msgs : m \in Actors
    BY DEF Actors
  <2> QED BY <1>1, <1>3, <2>1 DEF Spent, Ended
<1>5. Bounds
  <2>1. scanned \in BOOLEAN /\ failed \subseteq Msgs /\ kind \in [Msgs -> Kinds]
    BY <1>1, Zenon
  <2>2. crashes \in 0..MaxCrashes /\ faults \in 0..MaxFaults
    BY <1>1, <1>2
  <2> QED BY <2>1, <2>2 DEF Bounds
<1>6. ReplaysOK
  BY <1>3 DEF ReplaysOK, ReplayOK, Replaying, Claiming, OnFile
<1>7. CountsOK
  <2> SUFFICES ASSUME NEW m \in Msgs PROVE CountOK(file[m], deferral[m], Spent[m], Ended[m])
    BY DEF CountsOK
  <2>1. file[m].retry = 0 /\ deferral[m].pc = "off"
    BY <1>1 DEF Absent, NotDeferred
  <2> QED BY <1>2, <1>4, <2>1 DEF CountOK
<1>8. NewOK
  BY <1>1 DEF NewOK, Absent, NotDeferred
<1>9. LateOK
  <2>1. job["recovery"].pc = "off"
    <3>1. "recovery" \in Actors /\ "recovery" \notin Msgs
      BY DeliveryConstants DEF Actors, Workers
    <3> QED BY <1>1, <3>1 DEF NoJob
  <2> QED BY <1>1, <2>1 DEF LateOK, NotDeferred
<1> QED BY <1>5, <1>6, <1>7, <1>8, <1>9 DEF RetryInv

LEMMA RetryStep == QueueInv /\ RetryInv /\ [Next]_vars => RetryInv'
<1> SUFFICES ASSUME QueueInv, RetryInv, [Next]_vars PROVE RetryInv'
  OBVIOUS
<1>0. Bounds'
  BY BoundsStep DEF RetryInv
<1>1. CASE \E m \in Msgs : LiveStep(m)
  BY <1>0, <1>1, LiveRetries
<1>2. CASE \E m \in Msgs : DeferRead(m) \/ DeferWrite(m)
  BY <1>0, <1>2, DeferReadRetries, DeferWriteRetries
<1>3. CASE \E a \in Actors : SendStep(a)
  BY <1>0, <1>3, SendRetries
<1>4. CASE \E w \in Workers : WorkerStep(w)
  BY <1>0, <1>4, WorkerRetries
<1>5. CASE Defer \/ Crash
  BY <1>0, <1>5, DeferRetries, CrashRetries
<1>6. CASE UNCHANGED vars
  BY <1>6, Zenon DEF vars, RetryInv, Bounds, ReplaysOK, CountsOK, NewOK, LateOK, Spent, Ended
<1> QED BY <1>1, <1>2, <1>3, <1>4, <1>5, <1>6 DEF Next

\* Whatever the actors do, no entry is tried without limit: MAX_RETRIES, one attempt
\* for the live send, and one deferral for each life of the process bound its count.
THEOREM DeliveryTypes == Spec => []TypeOK
<1>1. ASSUME QueueInv, RetryInv PROVE TypeOK
  <2>1. ASSUME NEW m \in Msgs PROVE file[m].retry <= RetryBound
    <3>1. /\ CountOK(file[m], deferral[m], Spent[m], Ended[m]) /\ file[m].retry \in Nat
          /\ Spent[m] \in {crashes, crashes + 1} /\ Ended[m] \in {0, 1}
          /\ MAX_RETRIES \in Nat /\ MaxCrashes \in Nat /\ crashes \in 0..MaxCrashes
      BY <1>1, RetryFacts DEF RetryInv, CountsOK, Bounds
    <3> QED BY <3>1 DEF CountOK, RetryBound
  <2>2. ASSUME NEW a \in Actors
        PROVE  /\ job[a].pc \in Pcs
               /\ job[a].msg \in Msgs \cup {"none"} /\ job[a].held \in Entries
               /\ job[a].todo \subseteq Msgs /\ job[a].marked \in BOOLEAN
    <3>1. job[a] \in Jobs
      BY <1>1, RetryFacts
    <3> QED BY <3>1 DEF Jobs
  <2>3. \A m \in Msgs : how[m] \subseteq Fates
    BY <1>1 DEF QueueInv, QueueTypes
  <2>4. /\ file \in [Msgs -> Entries] /\ claims \subseteq Msgs /\ accepted \in [Msgs -> Nat]
        /\ deferral \in [Msgs -> [pc : {"off", "read", "write"}, held : Entries]]
    BY <1>1 DEF QueueInv, QueueTypes, Deferrals
  <2>5. /\ kind \in [Msgs -> Kinds] /\ failed \subseteq Msgs
        /\ scanned \in BOOLEAN /\ crashes \in 0..MaxCrashes /\ faults \in 0..MaxFaults
    BY <1>1 DEF RetryInv, Bounds
  <2>6. Fates = {"logged", "marked", "dropped", "suppressed", "swallowed", "overwritten"}
    BY DEF Fates, GivenUp
  <2>7. \A m \in Msgs : how[m] \subseteq {"logged", "marked", "dropped", "suppressed",
                                         "swallowed", "overwritten"}
    BY <2>3, <2>6
  <2> QED BY <2>1, <2>2, <2>4, <2>5, <2>7, Zenon DEF TypeOK, Pcs
<1>2. Spec => []RetryInv
  BY QueueInvariance, RetryInit, RetryStep, PTL DEF Spec
<1> QED BY <1>1, <1>2, QueueInvariance, PTL
=============================================================================
