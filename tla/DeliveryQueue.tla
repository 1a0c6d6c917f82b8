---------------------------- MODULE DeliveryQueue ----------------------------
(***************************************************************************)
(* The write-ahead queue of outbound messages: the live send that logs a   *)
(* message before it talks to the platform, the recovery that a process    *)
(* runs once when it starts, the drains that channels run when they        *)
(* reconnect, and crashes of the process.                                  *)
(*                                                                         *)
(* Source: src/src/infra/outbound/{delivery-queue-storage,                 *)
(* delivery-queue-recovery,deliver}.ts.                                    *)
(*                                                                         *)
(* A message is one payload.  An action is the code between two awaits; an *)
(* update of an entry is a read and, later, a write.  The order in which a *)
(* scan visits the entries and the two phases of an acknowledgement (a     *)
(* rename, then the removal of a file nothing reads) are left out.  The    *)
(* adapter, when it can reconcile, answers the truth or not at all.        *)
(***************************************************************************)
EXTENDS Naturals, FiniteSets

CONSTANTS
  Msgs,         \* the outbound messages
  Kinds,        \* the kinds of messages: subsets of {"bestEffort" (send errors
                \* are swallowed), "required" (queuePolicy), "reconciles" (the
                \* channel can reconcile an unknown send)}
  Drains,       \* the drain keys of reconnecting channels
  MAX_RETRIES,
  MaxCrashes,   \* crashes of the process (a bound)
  MaxFaults     \* file operations that fail (a bound)

ASSUME DeliveryConstants ==
  /\ Kinds \subseteq SUBSET {"bestEffort", "required", "reconciles"}
  /\ Msgs \cap (Drains \cup {"recovery"}) = {} /\ "recovery" \notin Drains
  /\ MAX_RETRIES \in Nat \ {0} /\ MaxCrashes \in Nat /\ MaxFaults \in Nat

Workers == Drains \cup {"recovery"}
Actors == Msgs \cup Workers    \* a message stands for its own live send

VARIABLES
  kind,       \* the kind of each message
  file,       \* the entry of each message: retryCount and recoveryState
  failed,     \* the entries in failed/
  claims,     \* entriesInProgress
  job,        \* what each actor is doing
  deferral,   \* the failDelivery calls of a recovery whose time is up
  scanned,    \* whether this process has started its recovery
  crashes, faults,
  accepted,   \* history: how often the platform took each message
  how         \* history: what else happened to it

vars == <<kind, file, failed, claims, job, deferral, scanned, crashes, faults, accepted, how>>

-----------------------------------------------------------------------------
Absent == [retry |-> 0, mark |-> "absent"]
Fresh  == [retry |-> 0, mark |-> "none"]

Entries == [retry : Nat, mark : {"absent", "none", "started", "unknown"}]

\* A worker stops at MAX_RETRIES; the live send and one deferral in the life of
\* each process may add to that.
RetryBound == MAX_RETRIES + 2 + MaxCrashes

Present(m) == file[m].mark # "absent"

\* A job: where it stands, its message, the entry it has read and not yet
\* written back, the entries it has still to visit, whether it wrote the mark.
NoJob == [pc |-> "off", msg |-> "none", held |-> Absent, todo |-> {}, marked |-> FALSE]

NotDeferred == [pc |-> "off", held |-> Absent]

LiveJob(m) == [NoJob EXCEPT !.pc = "new", !.msg = m]

OnFile == {"claiming", "due", "preparing", "marking", "sending", "taken", "noting",
           "acking", "failing", "pruning", "burying", "reconciling"}

\* The pcs at which an actor holds the claim on its message.
Claiming == (OnFile \ {"claiming"}) \cup {"reading"}

TypeOK ==
  /\ kind \in [Msgs -> Kinds]
  /\ file \in [Msgs -> Entries] /\ \A m \in Msgs : file[m].retry <= RetryBound
  /\ failed \subseteq Msgs /\ claims \subseteq Msgs
  /\ \A a \in Actors :
       /\ job[a].pc \in OnFile \cup {"new", "direct", "done", "off", "scanning", "reading"}
       /\ job[a].msg \in Msgs \cup {"none"} /\ job[a].held \in Entries
       /\ job[a].todo \subseteq Msgs /\ job[a].marked \in BOOLEAN
  /\ deferral \in [Msgs -> [pc : {"off", "read", "write"}, held : Entries]]
  /\ scanned \in BOOLEAN /\ crashes \in 0..MaxCrashes /\ faults \in 0..MaxFaults
  /\ accepted \in [Msgs -> Nat]
  /\ \A m \in Msgs : how[m] \subseteq {"logged", "marked", "dropped", "suppressed",
                                       "swallowed", "overwritten"}

Init ==
  /\ kind \in [Msgs -> Kinds]
  /\ file = [m \in Msgs |-> Absent]
  /\ failed = {} /\ claims = {}
  /\ job = [a \in Actors |-> IF a \in Msgs THEN LiveJob(a) ELSE NoJob]
  /\ deferral = [m \in Msgs |-> NotDeferred]
  /\ scanned = FALSE /\ crashes = 0 /\ faults = 0
  /\ accepted = [m \in Msgs |-> 0]
  /\ how = [m \in Msgs |-> {}]

-----------------------------------------------------------------------------
(* Pieces of steps *)

At(a, pc) == job[a].pc = pc

\* a goes on to pc with nothing read, or with an entry it has read.
Holding(a, pc, entry) == job' = [job EXCEPT ![a] = [@ EXCEPT !.pc = pc, !.held = entry]]
Goto(a, pc) == Holding(a, pc, Absent)

\* A worker with entries to visit, or with none left.
Scanning(todo) == IF todo = {} THEN NoJob ELSE [NoJob EXCEPT !.pc = "scanning", !.todo = todo]

\* The job of a on its message ends and its claim is released.
Released(a) ==
  LET J == job[a] IN
  IF a \in Msgs THEN [J EXCEPT !.pc = "done", !.held = Absent]
  ELSE Scanning(J.todo)

Release(a) ==
  /\ job' = [job EXCEPT ![a] = Released(a)]
  /\ claims' = claims \ {job[a].msg}

\* An error leaves the loop over the entries: the claim is released, the rest of
\* the scan is left.
ScanThrows(w) ==
  /\ job' = [job EXCEPT ![w] = NoJob]
  /\ claims' = claims \ {job[w].msg}

Fault == faults < MaxFaults /\ faults' = faults + 1

Happened(m, what) == how' = [how EXCEPT ![m] = @ \cup {what}]

-----------------------------------------------------------------------------
(* The live send *)

\* enqueueDelivery; when the write fails a best-effort send goes on without
\* an entry, a required one throws.
Enqueue(m) ==
  /\ At(m, "new")
  /\ \/ /\ file' = [file EXCEPT ![m] = Fresh]
        /\ Goto(m, "claiming") /\ Happened(m, "logged")
        /\ UNCHANGED faults
     \/ /\ Fault
        /\ Goto(m, IF "required" \in kind[m] THEN "done" ELSE "direct")
        /\ UNCHANGED <<file, how>>
  /\ UNCHANGED <<kind, failed, claims, deferral, scanned, crashes, accepted>>

SendDirectly(m) ==
  /\ At(m, "direct")
  /\ \E n \in {0, 1} : accepted' = [accepted EXCEPT ![m] = @ + n]
  /\ Goto(m, "done")
  /\ UNCHANGED <<kind, file, failed, claims, deferral, scanned, crashes, faults, how>>

\* Deviation: the live send does not look at the claims.
ClaimAlways(m) ==
  /\ At(m, "claiming")
  /\ claims' = claims \cup {m} /\ Goto(m, "preparing")
  /\ UNCHANGED <<kind, file, failed, deferral, scanned, crashes, faults, accepted, how>>

\* withActiveDeliveryClaim: a live send whose entry is claimed by someone else
\* returns no result.
ClaimLive(m) ==
  /\ At(m, "claiming")
  /\ IF m \in claims THEN Goto(m, "done") /\ UNCHANGED claims
     ELSE claims' = claims \cup {m} /\ Goto(m, "preparing")
  /\ UNCHANGED <<kind, file, failed, deferral, scanned, crashes, faults, accepted, how>>

\* The read of a read-modify-write of the entry, when it succeeds.
ReadEntry(a, pc) ==
  /\ At(a, pc)
  /\ job[a].held = Absent /\ Present(job[a].msg)
  /\ Holding(a, pc, file[job[a].msg])
  /\ UNCHANGED <<kind, file, failed, claims, deferral, scanned, crashes, faults, accepted, how>>

\* The write: the entry that was read, with recoveryState mark.
WriteMark(a, pc, mark) ==
  /\ At(a, pc)
  /\ job[a].held # Absent
  /\ file' = [file EXCEPT ![job[a].msg] = [job[a].held EXCEPT !.mark = mark]]

\* The read or the write fails, or the entry is not there.
CannotUpdate(a, pc) ==
  /\ At(a, pc)
  /\ \/ job[a].held = Absent /\ ~ Present(job[a].msg) /\ UNCHANGED faults
     \/ Fault

\* markDeliveryPlatformSendAttemptStarted, awaited before the first platform
\* call; when it fails a best-effort send goes on unmarked.
Mark(m) ==
  \/ ReadEntry(m, "marking")
  \/ /\ WriteMark(m, "marking", "started")
     /\ job' = [job EXCEPT ![m] = [@ EXCEPT !.pc = "sending", !.held = Absent, !.marked = TRUE]]
     /\ UNCHANGED <<kind, failed, claims, deferral, scanned, crashes, faults, accepted, how>>
  \/ /\ CannotUpdate(m, "marking")
     /\ Goto(m, IF "required" \in kind[m] THEN "failing" ELSE "sending")
     /\ UNCHANGED <<kind, file, failed, claims, deferral, scanned, crashes, accepted, how>>

\* markDeliveryPlatformOutcomeUnknown, once the platform has answered.
Note(m) ==
  \/ ReadEntry(m, "noting")
  \/ /\ WriteMark(m, "noting", "unknown")
     /\ Goto(m, "acking")
     /\ UNCHANGED <<kind, failed, claims, deferral, scanned, crashes, faults, accepted, how>>
  \/ /\ CannotUpdate(m, "noting")
     /\ IF "required" \in kind[m] THEN Release(m) ELSE Goto(m, "acking") /\ UNCHANGED claims
     /\ UNCHANGED <<kind, file, failed, deferral, scanned, crashes, accepted, how>>

\* The caller's abort signal: the entry is acknowledged whatever was sent, but
\* for a best-effort send the abort is one more error of a payload.
AbortSend(m) ==
  /\ job[m].pc \in {"preparing", "sending", "taken"}
  /\ IF "bestEffort" \in kind[m] THEN Goto(m, "failing") /\ UNCHANGED how
     ELSE Goto(m, "acking") /\ Happened(m, "dropped")
  /\ UNCHANGED <<kind, file, failed, claims, deferral, scanned, crashes, faults, accepted>>

-----------------------------------------------------------------------------
(* The core of a send, for a live send and for a replay *)

\* Where an error of the loop over the payloads leads (a hook, the rendering,
\* the platform).  A live send records the failure, whether the error is thrown
\* or swallowed; a replay of a best-effort message returns as if it had been
\* sent, and other replays fail, for good or for now.
AfterError(a) ==
  IF a \in Msgs THEN {"failing"}
  ELSE IF "bestEffort" \in kind[job[a].msg] THEN {"acking"} ELSE {"failing", "burying"}

\* Where an error outside of that loop leads: no kind of message swallows it.
AfterThrow(a) == IF a \in Msgs THEN {"failing"} ELSE {"failing", "burying"}

Fails(a, ends) ==
  \E pc \in ends :
    /\ Goto(a, pc)
    /\ IF pc = "acking" THEN Happened(job[a].msg, "swallowed") ELSE UNCHANGED how

\* The channel's handler, the hooks and the rendering: the first platform call
\* comes next, which only a live send marks; nothing is left to send, which
\* counts as sent; or an error.
Prepare(a) ==
  /\ At(a, "preparing")
  /\ \/ Goto(a, IF a \in Msgs THEN "marking" ELSE "sending") /\ UNCHANGED how
     \/ Goto(a, "acking") /\ Happened(job[a].msg, "dropped")
     \/ Fails(a, AfterError(a) \cup AfterThrow(a))
  /\ UNCHANGED <<kind, file, failed, claims, deferral, scanned, crashes, faults, accepted>>

Accepts(a) ==
  /\ At(a, "sending")
  /\ accepted' = [accepted EXCEPT ![job[a].msg] = @ + 1]
  /\ Goto(a, "taken")
  /\ how' = IF job[a].marked THEN [how EXCEPT ![job[a].msg] = @ \cup {"marked"}] ELSE how
  /\ UNCHANGED <<kind, file, failed, claims, deferral, scanned, crashes, faults>>

Refuses(a) ==
  /\ At(a, "sending")
  /\ Fails(a, AfterError(a))
  /\ UNCHANGED <<kind, file, failed, claims, deferral, scanned, crashes, faults, accepted>>

\* The send has returned.
Answered(a) == Goto(a, IF job[a].marked THEN "noting" ELSE "acking")

\* The adapter sends nothing and answers without the identity of a message: a
\* suppressed payload, which counts as sent.
Suppresses(a) ==
  /\ At(a, "sending")
  /\ Answered(a) /\ Happened(job[a].msg, "suppressed")
  /\ UNCHANGED <<kind, file, failed, claims, deferral, scanned, crashes, faults, accepted>>

\* The send returns; or its answer is lost on the way, or what follows it (the
\* mirror in the transcript) throws.
Returns(a) ==
  /\ At(a, "taken")
  /\ \/ Answered(a) /\ UNCHANGED how
     \/ Fails(a, AfterError(a) \cup AfterThrow(a))
  /\ UNCHANGED <<kind, file, failed, claims, deferral, scanned, crashes, faults, accepted>>

-----------------------------------------------------------------------------
(* How the work on an entry ends *)

\* ackDelivery.  An error leaves the entry to a later scan; a worker records
\* it as a failed attempt.
Ack(a) ==
  /\ At(a, "acking")
  /\ \/ /\ file' = [file EXCEPT ![job[a].msg] = Absent]
        /\ Release(a) /\ UNCHANGED faults
     \/ /\ Fault /\ UNCHANGED file
        /\ IF a \in Msgs THEN Release(a) ELSE Goto(a, "failing") /\ UNCHANGED claims
  /\ UNCHANGED <<kind, failed, deferral, scanned, crashes, accepted, how>>

\* Deviation: a failed attempt is not counted.
NotBumped(entry) == entry

Bumped(entry) == [entry EXCEPT !.retry = @ + 1]

\* failDelivery; its own error is swallowed.
Fail(a) ==
  \/ ReadEntry(a, "failing")
  \/ /\ At(a, "failing") /\ job[a].held # Absent
     /\ file' = [file EXCEPT ![job[a].msg] = Bumped(job[a].held)]
     /\ Release(a)
     /\ UNCHANGED <<kind, failed, deferral, scanned, crashes, faults, accepted, how>>
  \/ /\ CannotUpdate(a, "failing")
     /\ Release(a)
     /\ UNCHANGED <<kind, file, failed, deferral, scanned, crashes, accepted, how>>

\* moveToFailed.  A drain whose move of an exhausted entry fails throws and
\* leaves the rest of its scan.
Bury(w) ==
  /\ job[w].pc \in {"pruning", "burying"}
  /\ LET m == job[w].msg IN
     \/ /\ Present(m)
        /\ file' = [file EXCEPT ![m] = Absent] /\ failed' = failed \cup {m}
        /\ Release(w) /\ UNCHANGED faults
     \/ ~ Present(m) /\ Release(w) /\ UNCHANGED <<file, failed, faults>>
     \/ /\ Fault /\ UNCHANGED <<file, failed>>
        /\ IF At(w, "pruning") /\ w \in Drains
           THEN ScanThrows(w)
           ELSE Release(w)
  /\ UNCHANGED <<kind, deferral, scanned, crashes, accepted, how>>

-----------------------------------------------------------------------------
(* Recovery and reconnect drains *)

\* recoverPendingDeliveries, once in the life of a process, or
\* drainPendingDeliveries, one at a time for a key: the list of entries.
Scan(w) ==
  /\ At(w, "off")
  /\ w = "recovery" => ~ scanned
  /\ {m \in Msgs : Present(m)} # {} \/ w = "recovery"
  /\ LET found == {m \in Msgs : Present(m)} IN
     job' = [job EXCEPT ![w] = Scanning(found)]
  /\ scanned' = (scanned \/ w = "recovery")
  /\ UNCHANGED <<kind, file, failed, claims, deferral, crashes, faults, accepted, how>>

\* claimRecoveryEntry, or skip the entry when it is claimed.
Claim(w) ==
  /\ At(w, "scanning")
  /\ \E m \in job[w].todo :
       IF m \in claims
       THEN /\ job' = [job EXCEPT ![w] = Scanning(job[w].todo \ {m})]
            /\ UNCHANGED claims
       ELSE /\ job' = [job EXCEPT ![w] = [NoJob EXCEPT !.pc = "reading", !.msg = m,
                                             !.todo = job[w].todo \ {m}]]
            /\ claims' = claims \cup {m}
  /\ UNCHANGED <<kind, file, failed, deferral, scanned, crashes, faults, accepted, how>>

\* Deviation: retryCount is not compared with MAX_RETRIES.
LoadWithoutLimit(w) ==
  /\ At(w, "reading")
  /\ IF Present(job[w].msg)
     THEN Holding(w, "due", file[job[w].msg]) /\ UNCHANGED claims
     ELSE Release(w)
  /\ UNCHANGED <<kind, file, failed, deferral, scanned, crashes, faults, accepted, how>>

\* The entry is read again under the claim: it may be gone, exhausted, or not
\* due yet (the first attempt after a crash always is).  An error of the read
\* is thrown.
Load(w) ==
  /\ At(w, "reading")
  /\ LET entry == file[job[w].msg] IN
     \/ ~ Present(job[w].msg) /\ Release(w) /\ UNCHANGED faults
     \/ /\ Present(job[w].msg) /\ entry.retry >= MAX_RETRIES
        /\ Goto(w, "pruning") /\ UNCHANGED <<claims, faults>>
     \/ Present(job[w].msg) /\ entry.retry \in 1..MAX_RETRIES-1 /\ Release(w) /\ UNCHANGED faults
     \/ /\ Present(job[w].msg) /\ entry.retry < MAX_RETRIES
        /\ Holding(w, "due", entry)
        /\ UNCHANGED <<claims, faults>>
     \/ Fault /\ ScanThrows(w)
  /\ UNCHANGED <<kind, file, failed, deferral, scanned, crashes, accepted, how>>

\* Deviation: an entry whose send may have started is replayed like any other.
DrainBlindly(w) ==
  /\ At(w, "due")
  /\ Goto(w, "preparing")
  /\ UNCHANGED <<kind, file, failed, claims, deferral, scanned, crashes, faults, accepted, how>>

\* drainQueuedEntry: an entry whose send may have started is not replayed blindly.
Drain(w) ==
  /\ At(w, "due")
  /\ Goto(w, IF job[w].held.mark = "none" THEN "preparing" ELSE "reconciling")
  /\ UNCHANGED <<kind, file, failed, claims, deferral, scanned, crashes, faults, accepted, how>>

\* Deviation: an entry whose send may have started counts as sent.
ReconcileTrusting(w) ==
  /\ At(w, "reconciling")
  /\ Goto(w, "acking")
  /\ UNCHANGED <<kind, file, failed, claims, deferral, scanned, crashes, faults, accepted, how>>

\* reconcileUnknownQueuedDelivery: sent, not sent, unresolved for now, or
\* unresolved for good (also: the channel cannot tell).
Reconcile(w) ==
  /\ At(w, "reconciling")
  /\ LET m == job[w].msg IN
     \/ /\ "reconciles" \in kind[m]
        /\ Goto(w, IF accepted[m] > 0 THEN "acking" ELSE "preparing")
     \/ "reconciles" \in kind[m] /\ Goto(w, "failing")
     \/ Goto(w, "burying")
  /\ UNCHANGED <<kind, file, failed, claims, deferral, scanned, crashes, faults, accepted, how>>

\* The time of the recovery is up: failDelivery on every entry it has not
\* visited, all at once and without a claim.
Defer ==
  /\ At("recovery", "scanning")
  /\ deferral' = [m \in Msgs |-> IF m \in job["recovery"].todo
                               THEN [pc |-> "read", held |-> Absent] ELSE deferral[m]]
  /\ job' = [job EXCEPT !["recovery"] = NoJob]
  /\ UNCHANGED <<kind, file, failed, claims, scanned, crashes, faults, accepted, how>>

DeferRead(m) ==
  /\ deferral[m].pc = "read"
  /\ deferral' = [deferral EXCEPT ![m] = IF Present(m) THEN [pc |-> "write", held |-> file[m]]
                                         ELSE NotDeferred]
  /\ UNCHANGED <<kind, file, failed, claims, job, scanned, crashes, faults, accepted, how>>

\* The write puts back what was read, whatever has been written since.
DeferWrite(m) ==
  /\ deferral[m].pc = "write"
  /\ file' = [file EXCEPT ![m] = Bumped(deferral[m].held)]
  /\ deferral' = [deferral EXCEPT ![m] = NotDeferred]
  /\ IF file[m] # deferral[m].held THEN Happened(m, "overwritten") ELSE UNCHANGED how
  /\ UNCHANGED <<kind, failed, claims, job, scanned, crashes, faults, accepted>>

\* The process dies and is started again: the files are all that is left.
Crash ==
  /\ crashes < MaxCrashes
  /\ crashes' = crashes + 1
  /\ job' = [a \in Actors |-> IF a \in Workers THEN NoJob
                              ELSE IF At(a, "new") THEN job[a]
                              ELSE [job[a] EXCEPT !.pc = "done", !.held = Absent]]
  /\ claims' = {} /\ scanned' = FALSE
  /\ deferral' = [m \in Msgs |-> NotDeferred]
  /\ UNCHANGED <<kind, file, failed, faults, accepted, how>>

-----------------------------------------------------------------------------
LiveStep(m) ==
  Enqueue(m) \/ SendDirectly(m) \/ ClaimLive(m) \/ Mark(m) \/ Note(m) \/ AbortSend(m)

SendStep(a) ==
  Prepare(a) \/ Accepts(a) \/ Refuses(a) \/ Suppresses(a) \/ Returns(a) \/ Ack(a) \/ Fail(a)

WorkerStep(w) == Scan(w) \/ Claim(w) \/ Load(w) \/ Drain(w) \/ Reconcile(w) \/ Bury(w)

Next ==
  \/ \E m \in Msgs : LiveStep(m) \/ DeferRead(m) \/ DeferWrite(m)
  \/ \E a \in Actors : SendStep(a)
  \/ \E w \in Workers : WorkerStep(w)
  \/ Defer \/ Crash

Spec == Init /\ [][Next]_vars

\* A due entry is taken up in the same turn of the event loop.
FairSpec == Spec /\ \A w \in Workers : WF_vars(Drain(w))

-----------------------------------------------------------------------------
\* "Hold the same in-process claim used by recovery/drain while the live send
\* owns this queue entry": of the live send, the recovery and the drains, one at
\* most is at work on the entry of a message.
OneOwner ==
  \A a, b \in Actors :
    /\ job[a].pc \in Claiming /\ job[b].pc \in Claiming /\ job[a].msg = job[b].msg
    => a = b

\* "persist before sending, remove after success": through failed writes,
\* crashes, lost answers and scans, a logged message is still in the queue or in
\* failed/, or the platform has it, unless its caller, a hook or the adapter gave
\* it up, or its replay swallowed the error of the send.
NothingLost ==
  \A m \in Msgs :
    "logged" \in how[m] =>
      \/ Present(m) \/ m \in failed \/ accepted[m] > 0
      \/ how[m] \cap {"dropped", "suppressed", "swallowed"} # {}

\* The mark written before the platform call is what keeps a live send from
\* being repeated: once the platform has taken a marked send, no recovery, drain
\* or restart sends the message again, unless the unclaimed write of a deferral
\* has undone a later one.
MarkedSentOnce ==
  [][\A m \in Msgs :
       "marked" \in how[m] /\ "overwritten" \notin how[m]
         => accepted'[m] = accepted[m]]_vars

\* "moves entries that exceed MAX_RETRIES to failed/": however often channels
\* reconnect, an entry does not come due again and again for ever.
RetriesEnd ==
  \A m \in Msgs : <>[](\A w \in Workers : ~ (At(w, "due") /\ job[w].msg = m))

\* deliver.ts: "We track whether any payload failed so we can call failDelivery
\* instead of ackDelivery."  A message would then never leave the queue because
\* the error of its send was swallowed.
FailureTracked ==
  \A m \in Msgs :
    "logged" \in how[m] =>
      \/ Present(m) \/ m \in failed \/ accepted[m] > 0
      \/ how[m] \cap {"dropped", "suppressed"} # {}
=============================================================================
