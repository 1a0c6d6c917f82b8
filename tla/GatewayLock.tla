---------------------------- MODULE GatewayLock ----------------------------
(***************************************************************************)
(* The lock file that keeps two gateways from serving one profile          *)
(* (gateway-lock.ts), and the part of the run loop that takes it, starts   *)
(* the server, gives it back and takes it again for an in-process restart  *)
(* (run-loop.ts), and the bounded retries of a supervised start (run.ts).  *)
(* Each process is a sequence of file-system and socket calls; between two *)
(* of them every other process may act, or this one may crash.  Time       *)
(* passes while processes sleep, serve or start.                           *)
(*                                                                         *)
(* Linux: the payload names its owner by pid and start time, so an owner   *)
(* is a process here and never a recycled pid.                             *)
(***************************************************************************)
EXTENDS Naturals

CONSTANTS Procs,        \* gateway processes of one profile
          Ports,
          PortOf,       \* the port each process is told to serve on
          Supervised,   \* the processes run by systemd, launchd or another supervisor
          Patience, Pause, RetryFor, StaleAge,  \* in ticks: timeoutMs, retryMs,
                        \* the retries' timeoutMs and staleMs
          None,
          MaxCrashes    \* bound: processes that are killed or cannot write

ASSUME GatewayLockAssumption ==
  /\ PortOf \in [Procs -> Ports]
  /\ Supervised \subseteq Procs
  /\ Patience \in Nat \ {0} /\ Pause \in Nat \ {0}
  /\ RetryFor \in Nat /\ StaleAge \in Nat
  /\ None \notin Procs
  /\ MaxCrashes \in Nat

VARIABLES
  file,     \* the lock file: its creator, whether the payload is in it, and
            \* its age while it has none; or None
  bound,    \* per port, the process that listens
  pc,       \* where each process is
  seen,     \* the owner a contender has read from the file
  locked,   \* the processes whose lock variable holds a handle
  again,    \* the processes past their first start
  left,     \* per process, what is left of its try for the lock or of its pause
  elapsed,  \* per process, the time since its first try, up to RetryFor
  crashes

timers == <<left, elapsed>>
proc == <<pc, seen, locked, again>>
vars == <<file, bound, proc, timers, crashes>>

Gone  == {"off", "dead", "stopped"}
Alive(p) == pc[p] \notin Gone
PortFree(p) == bound[PortOf[p]] = None

Init ==
  /\ file = None
  /\ bound = [n \in Ports |-> None]
  /\ pc = [p \in Procs |-> "off"]
  /\ seen = [p \in Procs |-> None]
  /\ locked = {}
  /\ again = {}
  /\ left = [p \in Procs |-> 0]
  /\ elapsed = [p \in Procs |-> 0]
  /\ crashes = 0

Goto(p, place) == pc' = [pc EXCEPT ![p] = place]

\* A new call of acquireGatewayLock: its patience starts now.
Try(p) == Goto(p, "opening") /\ left' = [left EXCEPT ![p] = Patience]

--------------------------------------------------------------------------
(* acquireGatewayLock                                                      *)

\* The process is started, by hand or by its supervisor.
Start(p) ==
  /\ pc[p] = "off"
  /\ Try(p)
  /\ UNCHANGED <<file, bound, seen, locked, again, elapsed, crashes>>

\* open(lockPath, "wx")
Open(p) ==
  /\ pc[p] = "opening"
  /\ IF file = None
       THEN /\ file' = [by |-> p, written |-> FALSE, age |-> 0]
            /\ Goto(p, "opened")
       ELSE /\ Goto(p, "reading")
            /\ UNCHANGED file
  /\ UNCHANGED <<bound, seen, locked, again, timers, crashes>>

\* What a process remembers goes with it.
Ends(p, place) ==
  /\ Goto(p, place)
  /\ seen' = [seen EXCEPT ![p] = None]
  /\ again' = again \ {p}
  /\ left' = [left EXCEPT ![p] = 0]
  /\ elapsed' = [elapsed EXCEPT ![p] = 0]

\* The payload goes to the file that was opened, which may by now be another
\* than the one under the path.
Write(p) ==
  /\ pc[p] = "opened"
  /\ file' = IF file # None /\ file.by = p THEN [file EXCEPT !.written = TRUE] ELSE file
  /\ locked' = locked \cup {p}
  /\ Goto(p, "starting")
  /\ left' = [left EXCEPT ![p] = 0]
  /\ UNCHANGED <<bound, seen, again, elapsed, crashes>>

\* The payload cannot be written: the process fails and leaves the file as it
\* is.
WriteFails(p) ==
  /\ pc[p] = "opened" /\ crashes < MaxCrashes
  /\ crashes' = crashes + 1
  /\ Ends(p, "stopped")
  /\ UNCHANGED <<file, bound, locked>>

\* readLockPayload: a file that is gone or has no payload names nobody.
Read(p) ==
  /\ pc[p] = "reading"
  /\ seen' = [seen EXCEPT ![p] = IF file # None /\ file.written THEN file.by ELSE None]
  /\ Goto(p, "judging")
  /\ UNCHANGED <<file, bound, locked, again, timers, crashes>>

\* resolveGatewayOwnerStatus: an owner is dead when nobody listens on the
\* port this process was given, or when it is no longer there; a file that
\* names nobody is stale when it is old.
Judge(p) ==
  /\ pc[p] = "judging"
  /\ LET dead  == seen[p] # None /\ (PortFree(p) \/ ~Alive(seen[p]))
         stale == seen[p] = None /\ file # None /\ ~file.written /\ file.age > StaleAge
     IN  Goto(p, IF dead \/ stale THEN "removing" ELSE "waiting")
  /\ seen' = [seen EXCEPT ![p] = None]
  /\ UNCHANGED <<file, bound, locked, again, timers, crashes>>

\* rm(lockPath): whatever file is there by now.
Remove(p) ==
  /\ pc[p] = "removing"
  /\ file' = None
  /\ Goto(p, "opening")
  /\ UNCHANGED <<bound, seen, locked, again, timers, crashes>>

\* The calls of one poll take no time worth counting; a tick is the sleep
\* between two polls.
Asleep == Gone \cup {"waiting", "pausing", "starting", "serving", "closed", "idle"}

\* Where a process is after a tick: a waiting one polls again unless its
\* patience is over, a pausing one tries again when its pause is.
Woken(p) ==
  CASE pc[p] = "waiting" /\ left[p] > 1 -> "opening"
    [] pc[p] = "waiting" /\ left[p] = 1 -> "refused"
    [] pc[p] = "pausing" /\ left[p] = 1 -> "opening"
    [] OTHER -> pc[p]

Tick ==
  /\ \A p \in Procs : pc[p] \in Asleep
  /\ pc' = [p \in Procs |-> Woken(p)]
  /\ left' = [p \in Procs |-> IF pc[p] = "pausing" /\ left[p] = 1 THEN Patience
                            ELSE IF pc[p] \in {"waiting", "pausing"} THEN left[p] - 1
                            ELSE left[p]]
  /\ elapsed' = [p \in Procs |->
       IF /\ p \in Supervised \ again /\ elapsed[p] < RetryFor
          /\ pc[p] \in {"waiting", "pausing", "starting"}
         THEN elapsed[p] + 1 ELSE elapsed[p]]
  /\ file' = IF file # None /\ ~file.written /\ file.age <= StaleAge
               THEN [file EXCEPT !.age = @ + 1] ELSE file
  /\ UNCHANGED <<bound, seen, locked, again, crashes>>

--------------------------------------------------------------------------
(* runGatewayLoopWithSupervisedLockRecovery                                *)

\* A supervised first start that was refused pauses and tries again, for as
\* long as the retries last.
Retry(p) ==
  /\ pc[p] = "refused"
  /\ p \in Supervised \ again /\ elapsed[p] < RetryFor
  /\ Goto(p, "pausing")
  /\ left' = [left EXCEPT ![p] = IF Pause < RetryFor - elapsed[p] THEN Pause
                                 ELSE RetryFor - elapsed[p]]
  /\ UNCHANGED <<file, bound, seen, locked, again, elapsed, crashes>>

\* Deviation: no pause is begun that would last until the end of the retries.
GiveUpBeforePause(p) ==
  /\ pc[p] = "refused"
  /\ p \in Supervised \ again => elapsed[p] + Pause >= RetryFor \/ ~PortFree(p)
  /\ Ends(p, "stopped")
  /\ UNCHANGED <<file, bound, locked, crashes>>

\* It ends for good when the retries are over or the gateway on its port
\* answers the probe; a start by hand and a restart in process end at once.
GiveUp(p) ==
  /\ pc[p] = "refused"
  /\ p \in Supervised \ again => elapsed[p] = RetryFor \/ ~PortFree(p)
  /\ Ends(p, "stopped")
  /\ UNCHANGED <<file, bound, locked, crashes>>

--------------------------------------------------------------------------
(* runGatewayLoop                                                          *)

\* release: rm(lockPath) by a process that has a handle.
Released(p) ==
  /\ file' = IF p \in locked THEN None ELSE file
  /\ locked' = locked \ {p}

Serve(p) ==
  /\ pc[p] = "starting" /\ PortFree(p)
  /\ bound' = [bound EXCEPT ![PortOf[p]] = p]
  /\ again' = again \cup {p}
  /\ elapsed' = [elapsed EXCEPT ![p] = 0]
  /\ Goto(p, "serving")
  /\ UNCHANGED <<file, seen, locked, left, crashes>>

\* Deviation: a gateway that fails to restart keeps its lock.
StartFailsLocked(p) ==
  /\ pc[p] = "starting"
  /\ IF p \in again
       THEN Goto(p, "idle") /\ UNCHANGED <<file, locked, seen, again, timers>>
       ELSE Ends(p, "stopped") /\ Released(p)
  /\ UNCHANGED <<bound, crashes>>

\* The server does not start, for a port that is taken or any other reason:
\* a later start leaves the process idle, the first one ends it or, when the
\* port is taken, counts as refused; the lock goes in every case.
StartFails(p) ==
  /\ pc[p] = "starting"
  /\ \/ /\ p \in again /\ Goto(p, "idle")
        /\ UNCHANGED <<seen, again, timers>>
     \/ /\ p \notin again /\ ~PortFree(p) /\ Goto(p, "refused")
        /\ UNCHANGED <<seen, again, timers>>
     \/ p \notin again /\ Ends(p, "stopped")
  /\ Released(p)
  /\ UNCHANGED <<bound, crashes>>

\* Deviation: the port is not freed.
CloseServerBound(p) ==
  /\ pc[p] = "serving"
  /\ Goto(p, "closed")
  /\ UNCHANGED <<file, bound, seen, locked, again, timers, crashes>>

\* A shutdown or a restart closes the server, which frees the port.
CloseServer(p) ==
  /\ pc[p] = "serving"
  /\ bound' = [bound EXCEPT ![PortOf[p]] = None]
  /\ Goto(p, "closed")
  /\ UNCHANGED <<file, seen, locked, again, timers, crashes>>

Stop(p) ==
  /\ pc[p] \in {"closed", "idle"}
  /\ Released(p)
  /\ Ends(p, "stopped")
  /\ UNCHANGED <<bound, crashes>>

\* handleRestartAfterServerClose in process: the lock is released, and taken
\* again by a process that had it.
Restart(p) ==
  /\ pc[p] \in {"closed", "idle"}
  /\ Released(p)
  /\ IF p \in locked THEN Try(p) ELSE Goto(p, "starting") /\ UNCHANGED left
  /\ UNCHANGED <<bound, seen, again, elapsed, crashes>>

Crash(p) ==
  /\ Alive(p) /\ crashes < MaxCrashes
  /\ crashes' = crashes + 1
  /\ Ends(p, "dead")
  /\ bound' = [n \in Ports |-> IF bound[n] = p THEN None ELSE bound[n]]
  /\ locked' = locked \ {p}
  /\ UNCHANGED file

--------------------------------------------------------------------------

Acquiring(p) == Open(p) \/ Write(p) \/ Read(p) \/ Judge(p) \/ Remove(p)
Starting(p)  == Serve(p) \/ StartFails(p)
Refused(p)   == Retry(p) \/ GiveUp(p)

Next ==
  \/ Tick
  \/ \E p \in Procs : \/ Start(p) \/ Acquiring(p) \/ Refused(p) \/ Starting(p)
                      \/ WriteFails(p)
                      \/ CloseServer(p) \/ Stop(p) \/ Restart(p) \/ Crash(p)

Spec == Init /\ [][Next]_vars

\* Time passes and a process that asks for the lock goes on with its calls;
\* nothing says that a process is ever started, started again after it gave
\* up, closed or killed, or that a server ever comes up.
FairSpec ==
  /\ Spec
  /\ WF_vars(Tick)
  /\ \A p \in Procs : WF_vars(Acquiring(p)) /\ WF_vars(Refused(p))

--------------------------------------------------------------------------

TypeOK ==
  /\ file = None \/ file \in [by : Procs, written : BOOLEAN, age : 0..(StaleAge + 1)]
  /\ bound \in [Ports -> Procs \cup {None}]
  /\ pc \in [Procs -> Asleep \cup {"opening", "opened", "reading", "judging", "removing",
                                   "refused"}]
  /\ seen \in [Procs -> Procs \cup {None}]
  /\ locked \subseteq Procs /\ again \subseteq Procs
  /\ left \in [Procs -> Nat] /\ elapsed \in [Procs -> 0..RetryFor]
  /\ \A n \in Ports : bound[n] # None => pc[bound[n]] = "serving"

\* A lock file that names its owner belongs to a process that is on its way to
\* serve, serves, or was killed: no start is held up by a gateway that has
\* stopped, or that stays alive without a server after a failed restart.
FileAccounted ==
  file # None /\ file.written => pc[file.by] \in {"starting", "serving", "closed", "dead"}

\* The bounded retries of a supervised start outlast the stale age: whatever
\* lock file was left when it began, by a process killed or failing between
\* two of its calls, it does not give up before somebody has the lock or
\* serves on its port, unless another process is killed or fails meanwhile.
StartsGetThrough ==
  \A p \in Supervised, k \in 0..MaxCrashes :
    (pc[p] = "opening" /\ p \notin again /\ elapsed[p] = 0 /\ crashes = k)
      ~> (locked # {} \/ ~PortFree(p) \/ crashes > k)

=============================================================================
