-------------------------- MODULE GatewayLockProofs --------------------------
(***************************************************************************)
(* Proofs about the gateway lock, for any number of processes, ports,      *)
(* crashes and failed writes.  Both invariants follow from LockInv, which  *)
(* adds what the source relies on without saying it: a process whose name  *)
(* is in the file holds a handle (so its release removes the file), a port *)
(* is only ever bound by a process that was told to serve on it, and a     *)
(* process that tries or pauses has time left.                             *)
(***************************************************************************)
EXTENDS GatewayLock, TLAPS

Trying == {"opening", "opened", "reading", "judging", "removing", "waiting", "pausing"}
Places == Gone \cup Trying \cup {"refused", "starting", "serving", "closed", "idle"}

LockFiles == [by : Procs, written : BOOLEAN, age : 0..(StaleAge + 1)]

Types ==
  /\ file = None \/ file \in LockFiles
  /\ bound \in [Ports -> Procs \cup {None}]
  /\ pc \in [Procs -> Places]
  /\ seen \in [Procs -> Procs \cup {None}]
  /\ locked \subseteq Procs /\ again \subseteq Procs

\* A process that tries or pauses has time left; the count of its retries
\* stays within the time they may take.
Clocks ==
  /\ left \in [Procs -> Nat] /\ elapsed \in [Procs -> 0..RetryFor]
  /\ \A p \in Procs : pc[p] \in Trying => left[p] > 0

\* A port is bound by a serving process, and only by one told to use it.
BoundByPort ==
  \A n \in Ports :
    bound[n] # None => pc[bound[n]] = "serving" /\ PortOf[bound[n]] = n

\* The owner a file names has a handle on it, unless it was killed.
OwnerHasHandle ==
  file # None /\ file.written =>
    \/ pc[file.by] = "dead"
    \/ file.by \in locked /\ pc[file.by] \in {"starting", "serving", "closed"}

LockInv == Types /\ Clocks /\ BoundByPort /\ OwnerHasHandle

\* Initially no file exists and nothing is bound.
LEMMA LockInit == Init => LockInv
  BY GatewayLockAssumption
     DEF Init, LockInv, Types, Clocks, BoundByPort, OwnerHasHandle, Places, Trying, Gone,
         GatewayLockAssumption

\* Every step of every process, and every tick, keeps the invariant.
LEMMA LockStep == LockInv /\ [Next]_vars => LockInv'
<1> SUFFICES ASSUME LockInv, [Next]_vars PROVE LockInv'
  OBVIOUS
<1>0. file # None => file \in LockFiles /\ file.by \in Procs
  BY DEF LockInv, Types, LockFiles
<1> USE <1>0, GatewayLockAssumption DEF GatewayLockAssumption, LockInv, Types, Clocks, BoundByPort,
                                       OwnerHasHandle, Places, Trying, Gone, Goto
<1>1. ASSUME UNCHANGED vars PROVE LockInv'
  BY <1>1 DEF vars, proc, timers
<1>2. ASSUME Tick PROVE LockInv'
  <2>1. /\ pc' = [p \in Procs |-> Woken(p)]
        /\ \A p \in Procs : pc[p] \in Asleep
        /\ bound' = bound /\ seen' = seen /\ locked' = locked /\ again' = again
    BY <1>2 DEF Tick
  <2>2. ASSUME NEW p \in Procs
        PROVE  /\ Woken(p) \in Places
               /\ Woken(p) # pc[p] => pc[p] \in {"waiting", "pausing"}
               /\ Woken(p) # pc[p] => Woken(p) \in {"opening", "refused"}
               /\ Woken(p) = "opening" => \/ pc[p] = "pausing" /\ left[p] = 1
                                          \/ pc[p] = "waiting" /\ left[p] > 1
               /\ Woken(p) \in {"waiting", "pausing"} => pc[p] = "pausing" /\ left[p] # 1
    <3>1. pc[p] \in Asleep /\ pc[p] \in Places /\ left[p] \in Nat
      BY <2>1, <2>2
    <3>2. CASE pc[p] = "waiting" /\ left[p] > 1
      BY <3>2 DEF Woken
    <3>3. CASE pc[p] = "waiting" /\ left[p] = 1
      BY <3>3 DEF Woken
    <3>4. CASE pc[p] = "pausing" /\ left[p] = 1
      BY <3>4 DEF Woken
    <3>5. CASE pc[p] = "pausing" /\ left[p] # 1
      BY <3>5 DEF Woken
    <3>6. CASE pc[p] \notin {"waiting", "pausing"}
      <4>1. Woken(p) = pc[p]
        BY <3>6, Zenon DEF Woken
      <4> QED BY <3>1, <3>6, <4>1 DEF Asleep
    <3>7. pc[p] = "waiting" => left[p] > 0
      BY <2>2
    <3> QED BY <3>1, <3>2, <3>3, <3>4, <3>5, <3>6, <3>7
  <2>3. file' = file \/ (file # None /\ ~file.written
                        /\ file' = [file EXCEPT !.age = @ + 1] /\ file.age <= StaleAge)
    BY <1>2 DEF Tick
  <2>4. Types'
    <3>1. pc' \in [Procs -> Places]
      BY <2>1, <2>2
    <3>2. file' = None \/ file' \in LockFiles
      BY <2>3 DEF LockFiles
    <3> QED BY <2>1, <3>1, <3>2
  <2>5. Clocks'
    <3>1. left' \in [Procs -> Nat]
      BY <1>2, <2>1 DEF Tick, Asleep
    <3>2. elapsed' \in [Procs -> 0..RetryFor]
      BY <1>2 DEF Tick
    <3>3. ASSUME NEW p \in Procs, pc'[p] \in Trying PROVE left'[p] > 0
      <4>1. pc'[p] = Woken(p)
        BY <2>1
      <4>2. left'[p] = IF pc[p] = "pausing" /\ left[p] = 1 THEN Patience
                      ELSE IF pc[p] \in {"waiting", "pausing"} THEN left[p] - 1
                      ELSE left[p]
        BY <1>2 DEF Tick
      <4>3. CASE Woken(p) = pc[p]
        BY <2>1, <2>2, <3>3, <4>1, <4>2, <4>3 DEF Asleep
      <4>4. CASE Woken(p) # pc[p]
        <5>1. Woken(p) = "opening" /\ left[p] \in Nat
          BY <2>2, <3>3, <4>1, <4>4
        <5>2. CASE pc[p] = "pausing" /\ left[p] = 1
          BY <4>2, <5>2
        <5>3. CASE pc[p] = "waiting" /\ left[p] > 1
          BY <4>2, <5>1, <5>3
        <5> QED BY <2>2, <5>1, <5>2, <5>3
      <4> QED BY <4>3, <4>4
    <3> QED BY <3>1, <3>2, <3>3
  <2>6. BoundByPort'
    BY <2>1, <2>2
  <2>7. OwnerHasHandle'
    BY <2>1, <2>2, <2>3 DEF LockFiles
  <2> QED BY <2>4, <2>5, <2>6, <2>7
<1>3. ASSUME NEW p \in Procs, Start(p) PROVE LockInv'
  BY <1>3 DEF Start, Try
<1>4. ASSUME NEW p \in Procs, Open(p) PROVE LockInv'
  <2>1. pc' \in [Procs -> Places]
    BY <1>4 DEF Open
  <2>2. file' = file \/ file' = [by |-> p, written |-> FALSE, age |-> 0]
    BY <1>4 DEF Open
  <2>3. Types'
    <3>1. [by |-> p, written |-> FALSE, age |-> 0] \in LockFiles
      BY DEF LockFiles
    <3> QED BY <1>4, <2>1, <2>2, <3>1 DEF Open
  <2>4. BoundByPort' /\ Clocks'
    BY <1>4 DEF Open, timers
  <2>5. OwnerHasHandle'
    <3>1. CASE file' = file
      BY <1>4, <3>1 DEF Open
    <3>2. CASE file' = [by |-> p, written |-> FALSE, age |-> 0]
      BY <3>2
    <3> QED BY <2>2, <3>1, <3>2
  <2> QED BY <2>3, <2>4, <2>5
<1>5. ASSUME NEW p \in Procs, Write(p) PROVE LockInv'
  <2>1. pc' \in [Procs -> Places] /\ locked' = locked \cup {p}
    BY <1>5 DEF Write
  <2>2. Clocks'
    BY <1>5 DEF Write
  <2>3. CASE file # None /\ file.by = p
    <3>1. file' = [by |-> p, written |-> TRUE, age |-> file.age]
      BY <1>5, <2>3 DEF Write, LockFiles
    <3>2. Types'
      <4>1. file \in LockFiles
        BY <2>3
      <4>2. file' \in LockFiles
        BY <3>1, <4>1 DEF LockFiles
      <4> QED BY <1>5, <2>1, <4>2 DEF Write
    <3>3. BoundByPort'
      BY <1>5 DEF Write
    <3>4. OwnerHasHandle'
      BY <1>5, <2>1, <3>1 DEF Write
    <3> QED BY <2>2, <3>2, <3>3, <3>4
  <2>4. CASE ~(file # None /\ file.by = p)
    <3>1. file' = file
      BY <1>5, <2>4 DEF Write
    <3> QED BY <1>5, <2>1, <2>2, <2>4, <3>1 DEF Write
  <2> QED BY <2>3, <2>4
<1>6. ASSUME NEW p \in Procs, WriteFails(p) PROVE LockInv'
  BY <1>6 DEF WriteFails, Ends
<1>7. ASSUME NEW p \in Procs, Read(p) PROVE LockInv'
  BY <1>7 DEF Read, timers
<1>8. ASSUME NEW p \in Procs, Judge(p) PROVE LockInv'
  BY <1>8 DEF Judge, timers
<1>9. ASSUME NEW p \in Procs, Remove(p) PROVE LockInv'
  BY <1>9 DEF Remove, timers
<1>10. ASSUME NEW p \in Procs, Retry(p) PROVE LockInv'
  <2>1. /\ RetryFor - elapsed[p] \in Nat \ {0}
        /\ left' = [left EXCEPT ![p] = IF Pause < RetryFor - elapsed[p] THEN Pause
                                       ELSE RetryFor - elapsed[p]]
    BY <1>10 DEF Retry
  <2> QED BY <1>10, <2>1 DEF Retry
<1>11. ASSUME NEW p \in Procs, GiveUp(p) PROVE LockInv'
  BY <1>11 DEF GiveUp, Ends
<1>12. ASSUME NEW p \in Procs, Serve(p) PROVE LockInv'
  BY <1>12 DEF Serve, PortFree
<1>13. ASSUME NEW p \in Procs, StartFails(p) PROVE LockInv'
  <2>1. CASE Goto(p, "idle") /\ UNCHANGED <<seen, again, timers>>
    BY <1>13, <2>1 DEF StartFails, Released, timers
  <2>2. CASE Goto(p, "refused") /\ UNCHANGED <<seen, again, timers>>
    BY <1>13, <2>2 DEF StartFails, Released, timers
  <2>3. CASE Ends(p, "stopped")
    BY <1>13, <2>3 DEF StartFails, Released, Ends
  <2> QED BY <1>13, <2>1, <2>2, <2>3 DEF StartFails
<1>14. ASSUME NEW p \in Procs, CloseServer(p) PROVE LockInv'
  BY <1>14 DEF CloseServer, timers
<1>15. ASSUME NEW p \in Procs, Stop(p) PROVE LockInv'
  BY <1>15 DEF Stop, Released, Ends
<1>16. ASSUME NEW p \in Procs, Restart(p) PROVE LockInv'
  <2>1. CASE p \in locked
    BY <1>16, <2>1 DEF Restart, Released, Try
  <2>2. CASE p \notin locked
    BY <1>16, <2>2 DEF Restart, Released
  <2> QED BY <2>1, <2>2
<1>17. ASSUME NEW p \in Procs, Crash(p) PROVE LockInv'
  BY <1>17 DEF Crash, Alive, Ends
<1> QED
  BY <1>1, <1>2, <1>3, <1>4, <1>5, <1>6, <1>7, <1>8, <1>9, <1>10, <1>11, <1>12, <1>13,
     <1>14, <1>15, <1>16, <1>17
     DEF Next, Acquiring, Refused, Starting

\* LockInv holds in every state the processes reach.
THEOREM LockInvariance == Spec => []LockInv
  BY LockInit, LockStep, PTL DEF Spec

\* A lock file that names its owner belongs to a process that holds its handle
\* and is on its way to serve, serves, or was killed: neither a failed restart
\* nor a shutdown leaves one behind (run-loop.ts, issue 35862).
THEOREM FileIsAccounted == Spec => []FileAccounted
<1>1. LockInv => FileAccounted
  BY DEF LockInv, OwnerHasHandle, FileAccounted
<1> QED BY <1>1, LockInvariance, PTL

\* Type correctness, and a port is bound by nobody but a serving process.
THEOREM LockTypes == Spec => []TypeOK
<1>1. LockInv => TypeOK
  BY DEF LockInv, Types, Clocks, LockFiles, Places, Trying, Asleep, Gone, BoundByPort, TypeOK
<1> QED BY <1>1, LockInvariance, PTL
=============================================================================
