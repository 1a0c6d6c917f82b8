------------------------- MODULE CommandLanesProofs -------------------------
(***************************************************************************)
(* Proofs about the command queue, for every set of lanes, entries,        *)
(* waiters and widths.  All the invariants follow from one inductive       *)
(* invariant, IInv.  Its lane part is stated as an operator of a lane      *)
(* state, LaneInv, because a turn of the code first changes a queue or an  *)
(* active set and then pumps: each action establishes LaneInv of the state *)
(* between the two, and one lemma about Pump does the rest.  The action    *)
(* properties use the same shape of a step (Turn): a lemma about the pump  *)
(* carries the widths and the order of the queues through it.              *)
(***************************************************************************)
EXTENDS CommandLanes, FiniteSetTheorems, TLAPS

LaneType(q, act, gen, prom, bod, sg) ==
  /\ q \in [Lanes -> Seq(Entries)]
  /\ act \in [Lanes -> SUBSET Entries]
  /\ gen \in [Lanes -> Nat]
  /\ prom \in [Entries -> PromiseState]
  /\ bod \in [Entries -> BodyState]
  /\ sg \in [Entries -> Nat]

\* What waits in the queues: entries of the lane, once, not started.
QueuesSound(q, prom, bod) ==
  \A l \in Lanes :
    /\ \A i \in 1..Len(q[l]) : /\ LaneOf[q[l][i]] = l
                               /\ prom[q[l][i]] = "pending"
                               /\ bod[q[l][i]] = "idle"
    /\ \A i, j \in 1..Len(q[l]) : q[l][i] = q[l][j] => i = j

\* Where the entries are: a fresh entry is idle, a pending one that is not
\* running waits in its lane.
EntriesSound(q, prom, bod) ==
  \A e \in Entries :
    /\ prom[e] = "none" => bod[e] = "idle"
    /\ prom[e] = "pending" =>
         \/ bod[e] = "running"
         \/ \E i \in 1..Len(q[LaneOf[e]]) : q[LaneOf[e]][i] = e

\* The active sets, and no entry started in a generation yet to come.
ActiveSound(act, gen, prom, bod, sg) ==
  /\ \A l \in Lanes : \A e \in Entries :
       e \in act[l] <=> /\ LaneOf[e] = l
                        /\ bod[e] = "running"
                        /\ prom[e] = "pending"
                        /\ sg[e] = gen[l]
  /\ \A e \in Entries : sg[e] <= gen[LaneOf[e]]

LaneInv(q, act, gen, prom, bod, sg) ==
  /\ LaneType(q, act, gen, prom, bod, sg)
  /\ QueuesSound(q, prom, bod)
  /\ EntriesSound(q, prom, bod)
  /\ ActiveSound(act, gen, prom, bod, sg)

\* A waiter only ever waits for tasks that had been started.
WaitSetsStarted == \A w \in Waiters : \A e \in waitSet[w] : body[e] # "idle"

IInv ==
  /\ TypeOK
  /\ LaneInv(queue, active, generation, promise, body, startGen)
  /\ NoIdleSlot
  /\ WaitSetsStarted
  /\ WaitersExact

-----------------------------------------------------------------------------
(* The pump *)

\* Everything that can be taken from a queue is an entry; a lane's active set
\* and whatever joins it are finite, so their cardinality is a number.
LEMMA TakenFinite ==
  ASSUME NEW q \in Seq(Entries), NEW a \in SUBSET Entries, NEW n \in 0..Len(q)
  PROVE  /\ Taken(q, n) \subseteq Entries
         /\ IsFiniteSet(a \cup Taken(q, n))
         /\ Cardinality(a \cup Taken(q, n)) \in Nat
<1>1. Taken(q, n) \subseteq Entries
  BY DEF Taken
<1>2. IsFiniteSet(a \cup Taken(q, n))
  BY <1>1, FS_Subset, LanesAssumption DEF LanesAssumption
<1> QED BY <1>1, <1>2, FS_CardinalityType

\* The rest of a queue after its first n entries were taken.
LEMMA RestOfQueue ==
  ASSUME NEW q \in Seq(Entries), NEW n \in 0..Len(q)
  PROVE  LET r == SubSeq(q, n + 1, Len(q)) IN
         /\ r \in Seq(Entries)
         /\ Len(r) = Len(q) - n
         /\ \A i \in 1..Len(r) : r[i] = q[n + i]
  BY SMTT(30)

\* What Pump does when it starts the first n[l] entries of each lane l.
PumpBy(n, pumped, q, act, max, gen, bod) ==
  /\ \A l \in Lanes : IF l \in pumped
                      THEN PumpEndsAt(q[l], act[l], max[l], n[l])
                      ELSE n[l] = 0
  /\ queue' = [l \in Lanes |-> SubSeq(q[l], n[l] + 1, Len(q[l]))]
  /\ active' = [l \in Lanes |-> act[l] \cup Taken(q[l], n[l])]
  /\ LET started == UNION {Taken(q[l], n[l]) : l \in Lanes} IN
     /\ body' = [e \in Entries |-> IF e \in started THEN "running" ELSE bod[e]]
     /\ startGen' = [e \in Entries |-> IF e \in started THEN gen[LaneOf[e]]
                                                        ELSE startGen[e]]

LEMMA PumpCounts ==
  ASSUME NEW pumped \in SUBSET Lanes, NEW q, NEW act, NEW max, NEW gen, NEW bod,
         Pump(pumped, q, act, max, gen, bod)
  PROVE  \E n \in [Lanes -> 0..Cardinality(Entries)] :
           PumpBy(n, pumped, q, act, max, gen, bod)
PROOF
<1>1. PICK m \in [pumped -> 0..Cardinality(Entries)] :
        LET n       == [l \in Lanes |-> IF l \in pumped THEN m[l] ELSE 0]
            started == UNION {Taken(q[l], n[l]) : l \in pumped}
        IN
        /\ \A l \in pumped : PumpEndsAt(q[l], act[l], max[l], n[l])
        /\ queue' = [l \in Lanes |-> SubSeq(q[l], n[l] + 1, Len(q[l]))]
        /\ active' = [l \in Lanes |-> act[l] \cup Taken(q[l], n[l])]
        /\ body' = [e \in Entries |-> IF e \in started THEN "running" ELSE bod[e]]
        /\ startGen' = [e \in Entries |-> IF e \in started THEN gen[LaneOf[e]]
                                                           ELSE startGen[e]]
  BY DEF Pump
<1> DEFINE n == [l \in Lanes |-> IF l \in pumped THEN m[l] ELSE 0]
           started == UNION {Taken(q[l], n[l]) : l \in Lanes}
<1>2. n \in [Lanes -> 0..Cardinality(Entries)]
  BY FS_CardinalityType, LanesAssumption DEF LanesAssumption
<1>3. started = UNION {Taken(q[l], n[l]) : l \in pumped}
  <2>1. \A l \in Lanes \ pumped : Taken(q[l], n[l]) = {}
    BY DEF Taken
  <2>2. \A l \in pumped : l \in Lanes
    OBVIOUS
  <2> HIDE DEF n
  <2> QED BY <2>1, <2>2
<1>4. \A l \in Lanes : IF l \in pumped
                      THEN PumpEndsAt(q[l], act[l], max[l], n[l])
                      ELSE n[l] = 0
  BY <1>1
<1>5. /\ queue' = [l \in Lanes |-> SubSeq(q[l], n[l] + 1, Len(q[l]))]
      /\ active' = [l \in Lanes |-> act[l] \cup Taken(q[l], n[l])]
      /\ body' = [e \in Entries |-> IF e \in started THEN "running" ELSE bod[e]]
      /\ startGen' = [e \in Entries |-> IF e \in started THEN gen[LaneOf[e]]
                                                         ELSE startGen[e]]
  BY <1>1, <1>3
<1>6. PumpBy(n, pumped, q, act, max, gen, bod)
  BY <1>4, <1>5 DEF PumpBy
<1> HIDE DEF n
<1> QED BY <1>2, <1>6

\* Pump keeps the lane invariant of the state it starts from.
LEMMA PumpKeepsLaneInv ==
  ASSUME NEW pumped \in SUBSET Lanes, NEW q, NEW act, NEW max, NEW gen,
         NEW prom, NEW bod,
         LaneInv(q, act, gen, prom, bod, startGen),
         Pump(pumped, q, act, max, gen, bod)
  PROVE  LaneInv(queue', active', gen, prom, body', startGen')
PROOF
<1>0. PICK n \in [Lanes -> 0..Cardinality(Entries)] :
        PumpBy(n, pumped, q, act, max, gen, bod)
  BY PumpCounts
<1>1. LET started == UNION {Taken(q[l], n[l]) : l \in Lanes} IN
      /\ \A l \in Lanes : IF l \in pumped
                          THEN PumpEndsAt(q[l], act[l], max[l], n[l])
                          ELSE n[l] = 0
      /\ queue' = [l \in Lanes |-> SubSeq(q[l], n[l] + 1, Len(q[l]))]
      /\ active' = [l \in Lanes |-> act[l] \cup Taken(q[l], n[l])]
      /\ body' = [e \in Entries |-> IF e \in started THEN "running" ELSE bod[e]]
      /\ startGen' = [e \in Entries |-> IF e \in started THEN gen[LaneOf[e]]
                                                         ELSE startGen[e]]
  BY <1>0 DEF PumpBy
<1> DEFINE started == UNION {Taken(q[l], n[l]) : l \in Lanes}
<1>2. LaneType(q, act, gen, prom, bod, startGen)
  BY DEF LaneInv
<1>3. \A l \in Lanes : /\ q[l] \in Seq(Entries)
                       /\ Len(q[l]) \in Nat
                       /\ n[l] \in 0..Len(q[l])
                       /\ \A i \in 1..Len(q[l]) : q[l][i] \in Entries
  <2> SUFFICES ASSUME NEW l \in Lanes
      PROVE  /\ q[l] \in Seq(Entries)
             /\ Len(q[l]) \in Nat
             /\ n[l] \in 0..Len(q[l])
             /\ \A i \in 1..Len(q[l]) : q[l][i] \in Entries
    OBVIOUS
  <2>1. q[l] \in Seq(Entries) /\ Len(q[l]) \in Nat
    BY <1>2 DEF LaneType
  <2>2. n[l] \in Nat
    BY <1>1, FS_CardinalityType, LanesAssumption DEF LanesAssumption
  <2>3. n[l] <= Len(q[l])
    BY <1>1, <2>1 DEF PumpEndsAt
  <2> QED BY <2>1, <2>2, <2>3
<1>4. \A l \in Lanes : /\ queue'[l] \in Seq(Entries)
                       /\ Len(queue'[l]) = Len(q[l]) - n[l]
                       /\ \A i \in 1..Len(queue'[l]) : queue'[l][i] = q[l][n[l] + i]
  BY <1>1, <1>3, RestOfQueue, ZenonT(60)
<1>5. \A e \in Entries :
        e \in started <=> \E i \in 1..n[LaneOf[e]] : q[LaneOf[e]][i] = e
  <2> SUFFICES ASSUME NEW e \in Entries
      PROVE  e \in started <=> \E i \in 1..n[LaneOf[e]] : q[LaneOf[e]][i] = e
    OBVIOUS
  <2>1. LaneOf[e] \in Lanes
    BY LanesAssumption DEF LanesAssumption
  <2>2. e \in started <=> \E l \in Lanes : \E i \in 1..n[l] : q[l][i] = e
    BY DEF Taken
  <2>3. \A l \in Lanes : \A i \in 1..n[l] : q[l][i] = e => LaneOf[e] = l
    BY <1>3 DEF LaneInv, QueuesSound
  <2> HIDE DEF started
  <2> QED BY <2>1, <2>2, <2>3
<1> HIDE DEF started
<1>b. \A e \in Entries : /\ body'[e] = IF e \in started THEN "running" ELSE bod[e]
                         /\ startGen'[e] = IF e \in started THEN gen[LaneOf[e]]
                                                            ELSE startGen[e]
  BY <1>1 DEF started
<1>6. LaneType(queue', active', gen, prom, body', startGen')
  <2>1. active' \in [Lanes -> SUBSET Entries]
    BY <1>1, <1>2, <1>3, TakenFinite DEF LaneType
  <2>2. queue' \in [Lanes -> Seq(Entries)]
    BY <1>1, <1>4
  <2>3. body' \in [Entries -> BodyState] /\ startGen' \in [Entries -> Nat]
    BY <1>1, <1>2, LanesAssumption DEF started, LaneType, BodyState, LanesAssumption
  <2> QED BY <1>2, <2>1, <2>2, <2>3 DEF LaneType
<1>7. QueuesSound(queue', prom, body')
  <2> SUFFICES ASSUME NEW l \in Lanes
      PROVE /\ \A i \in 1..Len(queue'[l]) : /\ LaneOf[queue'[l][i]] = l
                                            /\ prom[queue'[l][i]] = "pending"
                                            /\ body'[queue'[l][i]] = "idle"
            /\ \A i, j \in 1..Len(queue'[l]) : queue'[l][i] = queue'[l][j] => i = j
    BY DEF QueuesSound
  <2>1. /\ n[l] \in Nat
        /\ \A i \in 1..Len(q[l]) : /\ LaneOf[q[l][i]] = l
                                   /\ prom[q[l][i]] = "pending"
                                   /\ bod[q[l][i]] = "idle"
                                   /\ q[l][i] \in Entries
        /\ \A i, j \in 1..Len(q[l]) : q[l][i] = q[l][j] => i = j
    BY <1>3 DEF LaneInv, QueuesSound
  <2>2. \A i \in 1..Len(queue'[l]) : /\ n[l] + i \in 1..Len(q[l])
                                     /\ n[l] + i \notin 1..n[l]
                                     /\ queue'[l][i] = q[l][n[l] + i]
    BY <1>3, <1>4
  <2>3. \A i \in 1..Len(queue'[l]) : queue'[l][i] \notin started
    <3> SUFFICES ASSUME NEW i \in 1..Len(queue'[l]) PROVE queue'[l][i] \notin started
      OBVIOUS
    <3> DEFINE k == n[l] + i
    <3>1. k \in 1..Len(q[l]) /\ k \notin 1..n[l] /\ queue'[l][i] = q[l][k]
      BY <2>2
    <3> HIDE DEF k
    <3>2. \A j \in 1..n[l] : j \in 1..Len(q[l]) /\ q[l][j] # q[l][k]
      <4> SUFFICES ASSUME NEW j \in 1..n[l] PROVE j \in 1..Len(q[l]) /\ q[l][j] # q[l][k]
        OBVIOUS
      <4>1. j \in 1..Len(q[l]) /\ j # k
        BY <1>3, <3>1
      <4> QED BY <2>1, <3>1, <4>1
    <3>3. q[l][k] \in Entries /\ LaneOf[q[l][k]] = l
      BY <2>1, <3>1
    <3>4. \A j \in 1..n[l] : q[l][j] # q[l][k]
      BY <3>2
    <3>5. q[l][k] \notin started
      BY <1>5, <3>3, <3>4
    <3> QED BY <3>1, <3>5
  <2>4. \A i \in 1..Len(queue'[l]) : /\ LaneOf[queue'[l][i]] = l
                                     /\ prom[queue'[l][i]] = "pending"
                                     /\ body'[queue'[l][i]] = "idle"
    BY <1>b, <2>1, <2>2, <2>3, SMTT(30)
  <2>5. \A i, j \in 1..Len(queue'[l]) : queue'[l][i] = queue'[l][j] => i = j
    <3> SUFFICES ASSUME NEW i \in 1..Len(queue'[l]), NEW j \in 1..Len(queue'[l]),
                        queue'[l][i] = queue'[l][j]
        PROVE  i = j
      OBVIOUS
    <3> DEFINE a == n[l] + i
               b == n[l] + j
    <3>1. a \in 1..Len(q[l]) /\ b \in 1..Len(q[l]) /\ q[l][a] = q[l][b]
      BY <2>2
    <3> HIDE DEF a, b
    <3>2. a = b
      BY <2>1, <3>1
    <3> QED BY <2>1, <3>2 DEF a, b
  <2> QED BY <2>4, <2>5
<1>8. EntriesSound(queue', prom, body')
  <2> SUFFICES ASSUME NEW e \in Entries
      PROVE /\ prom[e] = "none" => body'[e] = "idle"
            /\ prom[e] = "pending" =>
                 \/ body'[e] = "running"
                 \/ \E i \in 1..Len(queue'[LaneOf[e]]) : queue'[LaneOf[e]][i] = e
    BY DEF EntriesSound
  <2>1. LaneOf[e] \in Lanes
    BY LanesAssumption DEF LanesAssumption
  <2>2. CASE e \in started
    <3>1. body'[e] = "running"
      BY <1>b, <2>2
    <3>2. prom[e] = "pending"
      BY <1>3, <1>5, <2>1, <2>2 DEF LaneInv, QueuesSound
    <3> QED BY <3>1, <3>2
  <2>3. CASE e \notin started
    <3>1. body'[e] = bod[e]
      BY <1>b, <2>3
    <3>2. ASSUME NEW i \in 1..Len(q[LaneOf[e]]), q[LaneOf[e]][i] = e
          PROVE  \E j \in 1..Len(queue'[LaneOf[e]]) : queue'[LaneOf[e]][j] = e
      <4>1. i > n[LaneOf[e]]
        BY <1>3, <1>5, <2>1, <2>3, <3>2
      <4>2. i - n[LaneOf[e]] \in 1..Len(queue'[LaneOf[e]])
        BY <1>3, <1>4, <2>1, <4>1
      <4>3. queue'[LaneOf[e]][i - n[LaneOf[e]]] = e
        BY <1>3, <1>4, <2>1, <3>2, <4>2, SMTT(30)
      <4> QED BY <4>2, <4>3
    <3> QED BY <3>1, <3>2 DEF LaneInv, EntriesSound
  <2> QED BY <2>2, <2>3
<1>9. ActiveSound(active', gen, prom, body', startGen')
  <2>1. \A e \in Entries : startGen'[e] <= gen[LaneOf[e]]
    <3>1. \A e \in Entries : gen[LaneOf[e]] \in Nat /\ startGen[e] <= gen[LaneOf[e]]
      BY <1>2, LanesAssumption DEF LaneInv, ActiveSound, LaneType, LanesAssumption
    <3> QED BY <1>b, <3>1
  <2>2. ASSUME NEW l \in Lanes, NEW e \in Entries
        PROVE  e \in active'[l] <=> /\ LaneOf[e] = l
                                    /\ body'[e] = "running"
                                    /\ prom[e] = "pending"
                                    /\ startGen'[e] = gen[l]
    <3>1. e \in active'[l] <=> e \in act[l] \/ \E i \in 1..n[l] : q[l][i] = e
      BY <1>1 DEF Taken
    <3>2. \A i \in 1..n[l] : LaneOf[q[l][i]] = l /\ prom[q[l][i]] = "pending"
      BY <1>3 DEF LaneInv, QueuesSound
    <3>3. CASE e \in started
      BY <1>b, <1>5, <3>1, <3>2, <3>3 DEF LaneInv, ActiveSound
    <3>4. CASE e \notin started
      BY <1>b, <1>5, <3>1, <3>2, <3>4 DEF LaneInv, ActiveSound
    <3> QED BY <3>3, <3>4
  <2> QED BY <2>1, <2>2 DEF ActiveSound
<1> QED BY <1>6, <1>7, <1>8, <1>9 DEF LaneInv

\* Pump only starts what was waiting, and marks it running.
LEMMA PumpStarts ==
  ASSUME NEW pumped \in SUBSET Lanes, NEW q, NEW act, NEW max, NEW gen,
         NEW prom, NEW bod,
         LaneInv(q, act, gen, prom, bod, startGen),
         Pump(pumped, q, act, max, gen, bod)
  PROVE  /\ \A e \in Entries : bod[e] # "idle" => body'[e] # "idle"
         /\ \A l \in Lanes : act[l] \subseteq active'[l]
         /\ \A l \in Lanes : \A e \in active'[l] : e \in act[l] \/ bod[e] = "idle"
PROOF
<1>0. PICK n \in [Lanes -> 0..Cardinality(Entries)] :
        PumpBy(n, pumped, q, act, max, gen, bod)
  BY PumpCounts
<1>1. LET started == UNION {Taken(q[l], n[l]) : l \in Lanes} IN
      /\ \A l \in Lanes : IF l \in pumped
                          THEN PumpEndsAt(q[l], act[l], max[l], n[l])
                          ELSE n[l] = 0
      /\ queue' = [l \in Lanes |-> SubSeq(q[l], n[l] + 1, Len(q[l]))]
      /\ active' = [l \in Lanes |-> act[l] \cup Taken(q[l], n[l])]
      /\ body' = [e \in Entries |-> IF e \in started THEN "running" ELSE bod[e]]
  BY <1>0 DEF PumpBy
<1>2. \A e \in Entries : bod[e] # "idle" => body'[e] # "idle"
  BY <1>1
<1>3. \A l \in Lanes : q[l] \in Seq(Entries) /\ Len(q[l]) \in Nat
  BY DEF LaneInv, LaneType
<1>4. ASSUME NEW l \in Lanes, NEW e \in active'[l] PROVE e \in act[l] \/ bod[e] = "idle"
  <2>1. n[l] \in Nat /\ n[l] <= Len(q[l])
    BY <1>1, <1>3, FS_CardinalityType, LanesAssumption DEF LanesAssumption, PumpEndsAt
  <2>2. \A i \in 1..n[l] : bod[q[l][i]] = "idle"
    BY <1>3, <2>1 DEF LaneInv, QueuesSound
  <2> QED BY <1>1, <2>2 DEF Taken
<1>5. \A l \in Lanes : act[l] \subseteq active'[l]
  BY <1>1
<1> QED BY <1>2, <1>4, <1>5

\* An entry pump changes was waiting for an answer, not started, and now runs.
LEMMA PumpRuns ==
  ASSUME NEW pumped \in SUBSET Lanes, NEW q, NEW act, NEW max, NEW gen,
         NEW prom, NEW bod,
         LaneInv(q, act, gen, prom, bod, startGen),
         Pump(pumped, q, act, max, gen, bod),
         NEW e \in Entries
  PROVE  \/ body'[e] = bod[e]
         \/ body'[e] = "running" /\ bod[e] = "idle" /\ prom[e] = "pending"
PROOF
<1>0. PICK n \in [Lanes -> 0..Cardinality(Entries)] :
        PumpBy(n, pumped, q, act, max, gen, bod)
  BY PumpCounts
<1>1. /\ \A l \in Lanes : IF l \in pumped
                          THEN PumpEndsAt(q[l], act[l], max[l], n[l])
                          ELSE n[l] = 0
      /\ body'[e] = IF e \in UNION {Taken(q[l], n[l]) : l \in Lanes}
                    THEN "running" ELSE bod[e]
  BY <1>0 DEF PumpBy
<1>2. ASSUME NEW l \in Lanes, e \in Taken(q[l], n[l])
      PROVE  bod[e] = "idle" /\ prom[e] = "pending"
  <2>1. q[l] \in Seq(Entries) /\ Len(q[l]) \in Nat
    BY DEF LaneInv, LaneType
  <2>2. n[l] \in Nat /\ n[l] <= Len(q[l])
    BY <1>1, <2>1, FS_CardinalityType, LanesAssumption DEF LanesAssumption, PumpEndsAt
  <2> QED BY <1>2, <2>1, <2>2 DEF Taken, LaneInv, QueuesSound
<1> QED BY <1>1, <1>2

\* Pump leaves the lanes it is not called for alone.
LEMMA PumpLeavesOthers ==
  ASSUME NEW pumped \in SUBSET Lanes, NEW q, NEW act, NEW max, NEW gen,
         NEW prom, NEW bod,
         LaneInv(q, act, gen, prom, bod, startGen),
         Pump(pumped, q, act, max, gen, bod)
  PROVE  \A l \in Lanes : l \notin pumped => queue'[l] = q[l] /\ active'[l] = act[l]
PROOF
<1>0. PICK n \in [Lanes -> 0..Cardinality(Entries)] :
        PumpBy(n, pumped, q, act, max, gen, bod)
  BY PumpCounts
<1>1. /\ \A l \in Lanes : IF l \in pumped
                          THEN PumpEndsAt(q[l], act[l], max[l], n[l])
                          ELSE n[l] = 0
      /\ queue' = [l \in Lanes |-> SubSeq(q[l], n[l] + 1, Len(q[l]))]
      /\ active' = [l \in Lanes |-> act[l] \cup Taken(q[l], n[l])]
  BY <1>0 DEF PumpBy
<1> SUFFICES ASSUME NEW l \in Lanes, l \notin pumped
    PROVE  queue'[l] = q[l] /\ active'[l] = act[l]
  OBVIOUS
<1>2. n[l] = 0 /\ Taken(q[l], n[l]) = {}
  BY <1>1 DEF Taken
<1>3. queue'[l] = SubSeq(q[l], 1, Len(q[l]))
  BY <1>1, <1>2
<1>4. SubSeq(q[l], 1, Len(q[l])) = q[l]
  BY DEF LaneInv, LaneType
<1> QED BY <1>1, <1>2, <1>3, <1>4

\* One more element makes a finite set larger by at most one.
LEMMA OneMore ==
  ASSUME NEW S, NEW x, IsFiniteSet(S), Cardinality(S) \in Nat
  PROVE  Cardinality(S \cup {x}) <= Cardinality(S) + 1
PROOF
<1>1. Cardinality(S \cup {x}) =
        IF x \in S THEN Cardinality(S) ELSE Cardinality(S) + 1
  BY ONLY IsFiniteSet(S), FS_AddElement, ZenonT(30)
<1> QED BY ONLY <1>1, Cardinality(S) \in Nat, SMTT(30)

\* A pumped lane ends with every slot used or nothing waiting, and never goes
\* above its width by what it starts.
LEMMA PumpFills ==
  ASSUME NEW pumped \in SUBSET Lanes, NEW q, NEW act, NEW max, NEW gen,
         NEW prom, NEW bod, max \in [Lanes -> Nat],
         LaneInv(q, act, gen, prom, bod, startGen),
         Pump(pumped, q, act, max, gen, bod),
         NEW l \in pumped
  PROVE  /\ queue'[l] # <<>> => Cardinality(active'[l]) >= max[l]
         /\ active'[l] # act[l] => Cardinality(active'[l]) <= max[l]
PROOF
<1>0. PICK n \in [Lanes -> 0..Cardinality(Entries)] :
        PumpBy(n, pumped, q, act, max, gen, bod)
  BY PumpCounts
<1>1. /\ PumpEndsAt(q[l], act[l], max[l], n[l])
      /\ queue'[l] = SubSeq(q[l], n[l] + 1, Len(q[l]))
      /\ active'[l] = act[l] \cup Taken(q[l], n[l])
  BY <1>0 DEF PumpBy
<1>2. /\ q[l] \in Seq(Entries) /\ Len(q[l]) \in Nat /\ act[l] \in SUBSET Entries
      /\ max[l] \in Nat
  BY DEF LaneInv, LaneType
<1>3. n[l] \in 0..Len(q[l])
  BY <1>1, <1>2, FS_CardinalityType, LanesAssumption DEF LanesAssumption, PumpEndsAt
<1>4. Cardinality(active'[l]) \in Nat
  BY <1>1, <1>2, <1>3, TakenFinite
<1>5. queue'[l] # <<>> => Cardinality(active'[l]) >= max[l]
  <2> SUFFICES ASSUME Cardinality(active'[l]) < max[l] PROVE queue'[l] = <<>>
    BY <1>2, <1>4
  <2>1. n[l] = Len(q[l])
    BY <1>1, <1>2, <1>3 DEF PumpEndsAt, PumpContinues
  <2> QED BY <1>1, <1>2, <2>1
<1>6. ASSUME active'[l] # act[l] PROVE Cardinality(active'[l]) <= max[l]
  <2> DEFINE k == n[l] - 1
             prev == act[l] \cup Taken(q[l], k)
  <2>1. n[l] # 0
    BY <1>1, <1>6 DEF Taken
  <2>2. k \in 0..Len(q[l]) /\ k \in 0..(n[l] - 1) /\ n[l] \in 1..Len(q[l])
    BY <1>2, <1>3, <2>1
  <2>3. Cardinality(prev) < max[l] /\ IsFiniteSet(prev) /\ Cardinality(prev) \in Nat
    BY <1>1, <1>2, <2>2, TakenFinite DEF PumpEndsAt, PumpContinues
  <2>4. active'[l] = prev \cup {q[l][n[l]]}
    <3>1. Taken(q[l], n[l]) = Taken(q[l], k) \cup {q[l][n[l]]}
      BY <1>2, <2>2 DEF Taken
    <3> QED BY <1>1, <3>1
  <2>5. Cardinality(active'[l]) <= Cardinality(prev) + 1
    <3> HIDE DEF prev
    <3>1. Cardinality(prev \cup {q[l][n[l]]}) <= Cardinality(prev) + 1
      BY ONLY <2>3, OneMore
    <3> QED BY <2>4, <3>1
  <2> QED BY <1>2, <1>4, <2>3, <2>5
<1> QED BY <1>5, <1>6

\* A lane of width one that runs at most one task takes up its first waiting
\* entry exactly if it runs none.
AtMostOne(S) == \A x, y \in S : x = y

TakesNext(q, act, l) ==
  IF act[l] = {} /\ q[l] # <<>>
  THEN queue'[l] = Tail(q[l]) /\ active'[l] = {Head(q[l])}
  ELSE queue'[l] = q[l] /\ active'[l] = act[l]

Pumpable(pumped, q, act, l) == l \in pumped \/ q[l] = <<>> \/ act[l] # {}

LEMMA PumpOfOne ==
  ASSUME NEW pumped \in SUBSET Lanes, NEW q, NEW act, NEW max, NEW gen,
         NEW prom, NEW bod,
         LaneInv(q, act, gen, prom, bod, startGen),
         Pump(pumped, q, act, max, gen, bod),
         NEW l \in Lanes, max[l] = 1, AtMostOne(act[l]), Pumpable(pumped, q, act, l)
  PROVE  TakesNext(q, act, l)
PROOF
<1>0. PICK n \in [Lanes -> 0..Cardinality(Entries)] :
        PumpBy(n, pumped, q, act, max, gen, bod)
  BY PumpCounts
<1>1. /\ l \in pumped => PumpEndsAt(q[l], act[l], max[l], n[l])
      /\ l \notin pumped => n[l] = 0
      /\ queue'[l] = SubSeq(q[l], n[l] + 1, Len(q[l]))
      /\ active'[l] = act[l] \cup Taken(q[l], n[l])
  BY <1>0 DEF PumpBy
<1>2. /\ q[l] \in Seq(Entries) /\ Len(q[l]) \in Nat /\ act[l] \in SUBSET Entries
  BY DEF LaneInv, LaneType
<1>3. n[l] \in Nat /\ n[l] <= Len(q[l])
  BY <1>1, <1>2, FS_CardinalityType, LanesAssumption DEF LanesAssumption, PumpEndsAt
<1>4. Taken(q[l], 0) = {} /\ (q[l] # <<>> => Taken(q[l], 1) = {Head(q[l])})
  BY <1>2 DEF Taken
<1>5. ASSUME n[l] = 0 PROVE queue'[l] = q[l] /\ active'[l] = act[l]
  BY <1>1, <1>2, <1>4, <1>5
<1>6. CASE l \notin pumped
  BY <1>1, <1>5, <1>6 DEF Pumpable, TakesNext
<1>7. CASE l \in pumped /\ act[l] # {}
  <2>1. PICK x \in act[l] : TRUE
    BY <1>7
  <2>2. act[l] = {x}
    BY <2>1 DEF AtMostOne
  <2>3. Cardinality(act[l] \cup Taken(q[l], 0)) = 1
    <3>1. act[l] \cup Taken(q[l], 0) = {x}
      BY <1>4, <2>2
    <3> QED BY <3>1, FS_Singleton
  <2>4. 0 \in 0..(n[l] - 1) => PumpContinues(q[l], act[l], max[l], 0)
    BY <1>1, <1>7 DEF PumpEndsAt
  <2>5. n[l] = 0
    BY <1>3, <2>3, <2>4 DEF PumpContinues
  <2> QED BY <1>5, <1>7, <2>5 DEF TakesNext
<1>8. CASE l \in pumped /\ act[l] = {} /\ q[l] = <<>>
  <2>1. n[l] = 0
    BY <1>3, <1>8
  <2> QED BY <1>5, <1>8, <2>1 DEF TakesNext
<1>9. CASE l \in pumped /\ act[l] = {} /\ q[l] # <<>>
  <2>1. Len(q[l]) > 0
    BY <1>2, <1>9
  <2>2. Cardinality(act[l] \cup Taken(q[l], 0)) = 0
    BY <1>4, <1>9, FS_EmptySet
  <2>3. Cardinality(act[l] \cup Taken(q[l], 1)) = 1
    <3>1. act[l] \cup Taken(q[l], 1) = {Head(q[l])}
      BY <1>4, <1>9
    <3> QED BY <3>1, FS_Singleton
  <2>4. n[l] # 0
    BY <1>1, <1>9, <2>1, <2>2 DEF PumpEndsAt, PumpContinues
  <2>5. 1 \in 0..(n[l] - 1) => PumpContinues(q[l], act[l], max[l], 1)
    BY <1>1, <1>9 DEF PumpEndsAt
  <2>6. n[l] = 1
    BY <1>3, <2>3, <2>4, <2>5 DEF PumpContinues
  <2>7. SubSeq(q[l], 2, Len(q[l])) = Tail(q[l])
    BY <1>2, <2>1
  <2> QED BY <1>1, <1>4, <1>9, <2>6, <2>7 DEF TakesNext
<1> QED BY <1>6, <1>7, <1>8, <1>9

\* Between turns a lane of width one runs something or has nothing to run.
LEMMA IdleOfOne ==
  ASSUME IInv, NEW l \in Lanes, maxConcurrent[l] = 1
  PROVE  queue[l] = <<>> \/ active[l] # {}
PROOF
<1>1. queue[l] # <<>> => Cardinality(active[l]) >= 1
  BY DEF IInv, NoIdleSlot
<1>2. active[l] = {} => Cardinality(active[l]) = 0
  BY FS_EmptySet
<1> QED BY <1>1, <1>2

-----------------------------------------------------------------------------
(* The waiters *)

\* If every waiter's answer fits the active sets act, it also fits the active
\* sets of the next state as long as they only gain tasks started in this step:
\* a waiter never waits for a task that had not been started.
LEMMA WaitersAfterStarts ==
  ASSUME NEW act, WaitSetsStarted, waitSet' = waitSet,
         \A l \in Lanes : /\ act[l] \subseteq active'[l]
                        /\ \A e \in active'[l] : e \in act[l] \/ body[e] = "idle",
         \A w \in Waiters :
           /\ waiter'[w] = "waiting" => waitSet[w] \cap AllActive(act) # {}
           /\ waiter'[w] = "drained" => waitSet[w] \cap AllActive(act) = {}
  PROVE  WaitersExact'
PROOF
<1> SUFFICES ASSUME NEW w \in Waiters
    PROVE  /\ waiter'[w] = "waiting" => waitSet[w] \cap AllActive(active') # {}
           /\ waiter'[w] = "drained" => waitSet[w] \cap AllActive(active') = {}
  BY DEF WaitersExact, AllActive
<1>1. AllActive(act) \subseteq AllActive(active')
  BY DEF AllActive
<1>2. \A e \in AllActive(active') : e \in AllActive(act) \/ body[e] = "idle"
  BY DEF AllActive
<1>3. \A e \in waitSet[w] : body[e] # "idle"
  BY DEF WaitSetsStarted
<1> QED BY <1>1, <1>2, <1>3

\* A turn that ends with pump, in a lane state (q, act, gen, prom, bod) that
\* satisfies the lane invariant, re-establishes everything but the waiters.
LEMMA TurnEndsWithPump ==
  ASSUME IInv,
         NEW pumped \in SUBSET Lanes, NEW q, NEW act, NEW bod,
         LaneInv(q, act, generation', promise', bod, startGen),
         maxConcurrent' \in [Lanes -> Nat],
         gatewayDraining' \in BOOLEAN,
         waiter' \in [Waiters -> WaiterState],
         waitSet' = waitSet,
         Pump(pumped, q, act, maxConcurrent', generation', bod),
         \A l \in Lanes \ pumped :
           q[l] # <<>> => Cardinality(act[l]) >= maxConcurrent'[l],
         \A e \in Entries : body[e] # "idle" => bod[e] # "idle"
  PROVE  /\ TypeOK' /\ NoIdleSlot' /\ WaitSetsStarted'
         /\ LaneInv(queue, active, generation, promise, body, startGen)'
PROOF
<1>a. /\ \A e \in Entries : bod[e] # "idle" => body'[e] # "idle"
      /\ \A l \in Lanes : l \notin pumped => queue'[l] = q[l] /\ active'[l] = act[l]
  <2>1. \A e \in Entries : bod[e] # "idle" => body'[e] # "idle"
    BY PumpStarts, ZenonT(60)
  <2>2. \A l \in Lanes : l \notin pumped => queue'[l] = q[l] /\ active'[l] = act[l]
    BY PumpLeavesOthers
  <2> QED BY <2>1, <2>2
<1>1. LaneInv(queue', active', generation', promise', body', startGen')
  BY PumpKeepsLaneInv
<1>2. LaneInv(queue, active, generation, promise, body, startGen)'
  BY <1>1 DEF LaneInv, LaneType, QueuesSound, EntriesSound, ActiveSound
<1>3. TypeOK'
  BY <1>1 DEF LaneInv, LaneType, TypeOK, IInv
<1>4. NoIdleSlot'
  <2> SUFFICES ASSUME NEW l \in Lanes, queue'[l] # <<>>
      PROVE  Cardinality(active'[l]) >= maxConcurrent'[l]
    BY DEF NoIdleSlot
  <2>1. CASE l \in pumped
    BY <2>1, PumpFills
  <2>2. CASE l \notin pumped
    BY <1>a, <2>2
  <2> QED BY <2>1, <2>2
<1>5. WaitSetsStarted'
  <2>1. \A e \in Entries : body[e] # "idle" => body'[e] # "idle"
    BY <1>a
  <2>2. \A w \in Waiters : waitSet[w] \in SUBSET Entries
    BY DEF IInv, TypeOK
  <2> QED BY <2>1, <2>2 DEF IInv, WaitSetsStarted
<1> QED BY <1>2, <1>3, <1>4, <1>5

\* The waiters after such a turn, if every answer fits its active sets act.
LEMMA TurnWaiters ==
  ASSUME IInv,
         NEW pumped \in SUBSET Lanes, NEW q, NEW act, NEW bod,
         LaneInv(q, act, generation', promise', bod, startGen),
         waitSet' = waitSet,
         Pump(pumped, q, act, maxConcurrent', generation', bod),
         \A e \in Entries : bod[e] = "idle" => body[e] = "idle",
         \A w \in Waiters :
           /\ waiter'[w] = "waiting" => waitSet[w] \cap AllActive(act) # {}
           /\ waiter'[w] = "drained" => waitSet[w] \cap AllActive(act) = {}
  PROVE  WaitersExact'
PROOF
<1>1. \A l \in Lanes : act[l] \subseteq active'[l]
  BY PumpStarts
<1>2. \A l \in Lanes : \A e \in active'[l] : e \in act[l] \/ bod[e] = "idle"
  BY PumpStarts
<1>3. \A l \in Lanes : active'[l] \subseteq Entries
  BY PumpKeepsLaneInv DEF LaneInv, LaneType
<1>4. \A l \in Lanes : /\ act[l] \subseteq active'[l]
                       /\ \A e \in active'[l] : e \in act[l] \/ body[e] = "idle"
  BY <1>1, <1>2, <1>3
<1>5. WaitSetsStarted
  BY DEF IInv
<1> QED BY <1>4, <1>5, WaitersAfterStarts

\* A step that touches no lane and no entry.
LEMMA LaneInvUnchanged ==
  ASSUME IInv, UNCHANGED <<queue, active, generation, promise, body, startGen>>
  PROVE  LaneInv(queue, active, generation, promise, body, startGen)'
PROOF
<1>1. LaneType(queue, active, generation, promise, body, startGen)'
  BY DEF IInv, LaneInv, LaneType
<1>2. QueuesSound(queue, promise, body)'
  BY DEF IInv, LaneInv, QueuesSound
<1>3. EntriesSound(queue, promise, body)'
  BY DEF IInv, LaneInv, EntriesSound
<1>4. ActiveSound(active, generation, promise, body, startGen)'
  BY DEF IInv, LaneInv, ActiveSound
<1> QED BY <1>1, <1>2, <1>3, <1>4 DEF LaneInv

-----------------------------------------------------------------------------
(* Init and the steps *)

LEMMA InitEstablishes == Init => IInv
<1> SUFFICES ASSUME Init PROVE IInv
  OBVIOUS
<1>1. TypeOK
  <2>1. <<>> \in Seq(Entries)
    OBVIOUS
  <2>2. queue \in [Lanes -> Seq(Entries)]
    BY <2>1 DEF Init
  <2> QED BY <2>2 DEF Init, TypeOK, PromiseState, BodyState, WaiterState
<1>2. LaneInv(queue, active, generation, promise, body, startGen)
  <2>1. LaneType(queue, active, generation, promise, body, startGen)
    BY <1>1 DEF LaneType, TypeOK
  <2>2. QueuesSound(queue, promise, body) /\ EntriesSound(queue, promise, body)
    BY DEF Init, QueuesSound, EntriesSound
  <2>3. ActiveSound(active, generation, promise, body, startGen)
    BY LanesAssumption DEF Init, ActiveSound, LanesAssumption
  <2> QED BY <2>1, <2>2, <2>3 DEF LaneInv
<1>3. NoIdleSlot
  BY DEF Init, NoIdleSlot
<1>4. WaitSetsStarted /\ WaitersExact
  BY DEF Init, WaitSetsStarted, WaitersExact
<1> QED BY <1>1, <1>2, <1>3, <1>4 DEF IInv

\* A fresh entry waits nowhere and runs nowhere.
LEMMA FreshEntry ==
  ASSUME IInv, NEW e \in Entries, promise[e] = "none"
  PROVE  /\ body[e] = "idle"
         /\ \A l \in Lanes : e \notin active[l]
         /\ \A l \in Lanes : \A i \in 1..Len(queue[l]) : queue[l][i] # e
         /\ \A w \in Waiters : e \notin waitSet[w]
BY DEF IInv, LaneInv, EntriesSound, ActiveSound, QueuesSound, WaitSetsStarted

LEMMA RefuseStep == ASSUME IInv, NEW e \in Entries, Refuse(e) PROVE IInv'
<1>1. promise' = [promise EXCEPT ![e] = "refused"] /\ promise[e] = "none"
  BY DEF Refuse
<1>2. UNCHANGED <<queue, active, maxConcurrent, generation, gatewayDraining,
                  body, startGen, waiter, waitSet>>
  BY DEF Refuse, laneVars, waiterVars
<1>3. TypeOK'
  BY <1>1, <1>2 DEF IInv, TypeOK, PromiseState
<1>4. LaneInv(queue, active, generation, promise, body, startGen)'
  <2>1. LaneType(queue, active, generation, promise, body, startGen)'
    BY <1>3 DEF LaneType, TypeOK
  <2>2. QueuesSound(queue, promise, body)'
    <3>1. \A l \in Lanes : \A i \in 1..Len(queue[l]) : queue[l][i] \in Entries
      BY DEF IInv, TypeOK
    <3> QED BY <1>1, <1>2, <3>1, FreshEntry DEF IInv, LaneInv, QueuesSound, TypeOK
  <2>3. EntriesSound(queue, promise, body)'
    BY <1>1, <1>2 DEF IInv, LaneInv, EntriesSound, TypeOK
  <2>4. ActiveSound(active, generation, promise, body, startGen)'
    BY <1>1, <1>2, FreshEntry DEF IInv, LaneInv, ActiveSound, TypeOK
  <2> QED BY <2>1, <2>2, <2>3, <2>4 DEF LaneInv
<1>5. NoIdleSlot' /\ WaitSetsStarted' /\ WaitersExact'
  BY <1>2 DEF IInv, NoIdleSlot, WaitSetsStarted, WaitersExact, AllActive
<1> QED BY <1>3, <1>4, <1>5 DEF IInv

\* The queues with a fresh entry appended to its lane.
LEMMA AppendSound ==
  ASSUME IInv, NEW e \in Entries, promise[e] = "none"
  PROVE  LaneInv([queue EXCEPT ![LaneOf[e]] = Append(@, e)], active, generation,
                 [promise EXCEPT ![e] = "pending"], body, startGen)
PROOF
<1> DEFINE lane == LaneOf[e]
           q == [queue EXCEPT ![lane] = Append(@, e)]
           prom == [promise EXCEPT ![e] = "pending"]
<1>1. lane \in Lanes
  BY LanesAssumption DEF LanesAssumption
<1>2. /\ queue \in [Lanes -> Seq(Entries)] /\ active \in [Lanes -> SUBSET Entries]
      /\ generation \in [Lanes -> Nat] /\ promise \in [Entries -> PromiseState]
      /\ body \in [Entries -> BodyState] /\ startGen \in [Entries -> Nat]
  BY DEF IInv, TypeOK
<1>3. /\ body[e] = "idle"
      /\ \A l \in Lanes : e \notin active[l]
      /\ \A l \in Lanes : \A i \in 1..Len(queue[l]) : queue[l][i] # e
  BY FreshEntry
<1>4. \A l \in Lanes : /\ Len(queue[l]) \in Nat
                       /\ \A i \in 1..Len(queue[l]) : queue[l][i] \in Entries
  BY <1>2
<1>5. /\ q \in [Lanes -> Seq(Entries)]
      /\ \A l \in Lanes : l # lane => q[l] = queue[l]
      /\ Len(q[lane]) = Len(queue[lane]) + 1
      /\ q[lane][Len(queue[lane]) + 1] = e
      /\ \A i \in 1..Len(queue[lane]) : q[lane][i] = queue[lane][i]
  BY <1>1, <1>2
<1>6. /\ prom \in [Entries -> PromiseState]
      /\ prom[e] = "pending"
      /\ \A x \in Entries : x # e => prom[x] = promise[x]
  BY <1>2 DEF PromiseState
<1> HIDE DEF lane, q, prom
<1>7. LaneType(q, active, generation, prom, body, startGen)
  BY <1>2, <1>5, <1>6 DEF LaneType
<1>8. QueuesSound(q, prom, body)
  <2> SUFFICES ASSUME NEW l \in Lanes
      PROVE  /\ \A i \in 1..Len(q[l]) : /\ LaneOf[q[l][i]] = l
                                         /\ prom[q[l][i]] = "pending"
                                         /\ body[q[l][i]] = "idle"
             /\ \A i, j \in 1..Len(q[l]) : q[l][i] = q[l][j] => i = j
    BY DEF QueuesSound
  <2>1. /\ \A i \in 1..Len(queue[l]) : /\ LaneOf[queue[l][i]] = l
                                        /\ prom[queue[l][i]] = "pending"
                                        /\ body[queue[l][i]] = "idle"
        /\ \A i, j \in 1..Len(queue[l]) : queue[l][i] = queue[l][j] => i = j
    BY <1>3, <1>4, <1>6 DEF IInv, LaneInv, QueuesSound
  <2>2. CASE l # lane
    BY <1>5, <2>1, <2>2
  <2>3. CASE l = lane
    <3>1. \A i \in 1..Len(q[l]) : i \in 1..Len(queue[l]) \/ i = Len(queue[l]) + 1
      BY <1>1, <1>4, <1>5, <2>3
    <3>2. LaneOf[e] = l
      BY <2>3 DEF lane
    <3>3. \A i \in 1..Len(q[l]) : /\ LaneOf[q[l][i]] = l
                                  /\ prom[q[l][i]] = "pending"
                                  /\ body[q[l][i]] = "idle"
      BY <1>3, <1>5, <1>6, <2>1, <2>3, <3>1, <3>2
    <3>4. ASSUME NEW i \in 1..Len(q[l]), NEW j \in 1..Len(q[l]), q[l][i] = q[l][j]
          PROVE  i = j
      <4>1. CASE i \in 1..Len(queue[l]) /\ j \in 1..Len(queue[l])
        BY <1>5, <2>1, <2>3, <3>4, <4>1
      <4>2. CASE i \notin 1..Len(queue[l])
        BY <1>3, <1>5, <2>3, <3>1, <3>4, <4>2
      <4>3. CASE j \notin 1..Len(queue[l])
        BY <1>3, <1>5, <2>3, <3>1, <3>4, <4>3
      <4> QED BY <4>1, <4>2, <4>3
    <3> QED BY <3>3, <3>4
  <2> QED BY <2>2, <2>3
<1>9. EntriesSound(q, prom, body)
  <2> SUFFICES ASSUME NEW x \in Entries
      PROVE  /\ prom[x] = "none" => body[x] = "idle"
             /\ prom[x] = "pending" =>
                  \/ body[x] = "running"
                  \/ \E i \in 1..Len(q[LaneOf[x]]) : q[LaneOf[x]][i] = x
    BY DEF EntriesSound
  <2>1. CASE x = e
    <3>1. Len(queue[lane]) + 1 \in 1..Len(q[lane])
      BY <1>1, <1>4, <1>5
    <3> QED BY <1>5, <1>6, <2>1, <3>1 DEF lane
  <2>2. CASE x # e
    <3>1. LaneOf[x] \in Lanes
      BY LanesAssumption DEF LanesAssumption
    <3>2. \A i \in 1..Len(queue[LaneOf[x]]) :
            i \in 1..Len(q[LaneOf[x]]) /\ q[LaneOf[x]][i] = queue[LaneOf[x]][i]
      <4>1. CASE LaneOf[x] = lane
        BY <1>1, <1>4, <1>5, <4>1
      <4>2. CASE LaneOf[x] # lane
        BY <1>5, <3>1, <4>2
      <4> QED BY <4>1, <4>2
    <3> QED BY <1>6, <2>2, <3>2 DEF IInv, LaneInv, EntriesSound
  <2> QED BY <2>1, <2>2
<1>10. ActiveSound(active, generation, prom, body, startGen)
  BY <1>3, <1>6 DEF IInv, LaneInv, ActiveSound
<1> QED BY <1>7, <1>8, <1>9, <1>10 DEF LaneInv, lane, q, prom

LEMMA AcceptStep == ASSUME IInv, NEW e \in Entries, Accept(e) PROVE IInv'
PROOF
<1> DEFINE q == [queue EXCEPT ![LaneOf[e]] = Append(@, e)]
<1>1. /\ promise[e] = "none"
      /\ promise' = [promise EXCEPT ![e] = "pending"]
      /\ Pump({LaneOf[e]}, q, active, maxConcurrent, generation, body)
      /\ UNCHANGED <<maxConcurrent, generation, gatewayDraining, waiter, waitSet>>
  BY DEF Accept, waiterVars
<1>2. LaneInv(q, active, generation', promise', body, startGen)
  BY <1>1, AppendSound
<1>3. {LaneOf[e]} \in SUBSET Lanes
  BY LanesAssumption DEF LanesAssumption
<1>4. \A l \in Lanes \ {LaneOf[e]} :
        q[l] # <<>> => Cardinality(active[l]) >= maxConcurrent'[l]
  BY <1>1 DEF IInv, NoIdleSlot, TypeOK
<1>5. maxConcurrent' \in [Lanes -> Nat] /\ gatewayDraining' \in BOOLEAN
      /\ waiter' \in [Waiters -> WaiterState]
  BY <1>1 DEF IInv, TypeOK
<1>6. Pump({LaneOf[e]}, q, active, maxConcurrent', generation', body)
  BY <1>1
<1> HIDE DEF q
<1>7. /\ TypeOK' /\ NoIdleSlot' /\ WaitSetsStarted'
      /\ LaneInv(queue, active, generation, promise, body, startGen)'
  BY <1>1, <1>2, <1>3, <1>4, <1>5, <1>6, TurnEndsWithPump
<1>8. WaitersExact'
  <2>1. \A w \in Waiters :
          /\ waiter'[w] = "waiting" => waitSet[w] \cap AllActive(active) # {}
          /\ waiter'[w] = "drained" => waitSet[w] \cap AllActive(active) = {}
    BY <1>1 DEF IInv, WaitersExact
  <2>2. waitSet' = waitSet /\ \A x \in Entries : body[x] = "idle" => body[x] = "idle"
    BY <1>1
  <2> QED BY <1>2, <1>3, <1>6, <2>1, <2>2, TurnWaiters
<1> QED BY <1>7, <1>8 DEF IInv

LEMMA SetConcurrencyStep ==
  ASSUME IInv, NEW l \in Lanes, NEW n \in Widths, SetConcurrency(l, n)
  PROVE  IInv'
PROOF
<1> DEFINE width == IF l \in ProbeLanes /\ n = 0 THEN 1 ELSE n
<1>1. /\ width \in Nat
      /\ maxConcurrent' = [maxConcurrent EXCEPT ![l] = width]
      /\ IF width > 0
         THEN Pump({l}, queue, active, maxConcurrent', generation, body)
         ELSE UNCHANGED <<queue, active, body, startGen>>
      /\ UNCHANGED <<generation, gatewayDraining, promise, waiter, waitSet>>
  BY LanesAssumption DEF SetConcurrency, waiterVars, LanesAssumption
<1> HIDE DEF width
<1>2. /\ maxConcurrent' \in [Lanes -> Nat]
      /\ gatewayDraining' \in BOOLEAN
      /\ waiter' \in [Waiters -> WaiterState]
  BY <1>1 DEF IInv, TypeOK
<1>3. LaneInv(queue, active, generation', promise', body, startGen)
  BY <1>1 DEF IInv
<1>4. CASE width > 0
  <2>1. Pump({l}, queue, active, maxConcurrent', generation', body)
    BY <1>1, <1>4
  <2>2. \A k \in Lanes \ {l} :
          queue[k] # <<>> => Cardinality(active[k]) >= maxConcurrent'[k]
    BY <1>1 DEF IInv, NoIdleSlot, TypeOK
  <2>3. {l} \in SUBSET Lanes /\ waitSet' = waitSet
    BY <1>1
  <2>4. /\ TypeOK' /\ NoIdleSlot' /\ WaitSetsStarted'
        /\ LaneInv(queue, active, generation, promise, body, startGen)'
    BY <1>2, <1>3, <2>1, <2>2, <2>3, TurnEndsWithPump
  <2>5. WaitersExact'
    <3>1. \A w \in Waiters :
            /\ waiter'[w] = "waiting" => waitSet[w] \cap AllActive(active) # {}
            /\ waiter'[w] = "drained" => waitSet[w] \cap AllActive(active) = {}
      BY <1>1 DEF IInv, WaitersExact
    <3>2. \A x \in Entries : body[x] = "idle" => body[x] = "idle"
      OBVIOUS
    <3> QED BY <1>3, <2>1, <2>3, <3>1, <3>2, TurnWaiters
  <2> QED BY <2>4, <2>5 DEF IInv
<1>5. CASE ~ (width > 0)
  <2>1. UNCHANGED <<queue, active, generation, gatewayDraining, promise, body,
                    startGen, waiter, waitSet>>
    BY <1>1, <1>5
  <2>2. TypeOK'
    BY <1>2, <2>1 DEF IInv, TypeOK
  <2>3. LaneInv(queue, active, generation, promise, body, startGen)'
    BY <2>1, LaneInvUnchanged
  <2>4. NoIdleSlot'
    <3>1. \A k \in Lanes : Cardinality(active[k]) \in Nat
      <4> SUFFICES ASSUME NEW k \in Lanes PROVE Cardinality(active[k]) \in Nat
        OBVIOUS
      <4>1. IsFiniteSet(active[k])
        BY FS_Subset, LanesAssumption DEF IInv, TypeOK, LanesAssumption
      <4> QED BY <4>1, FS_CardinalityType
    <3>2. maxConcurrent'[l] = 0 /\ \A k \in Lanes \ {l} : maxConcurrent'[k] = maxConcurrent[k]
      BY <1>1, <1>5 DEF IInv, TypeOK
    <3> QED BY <2>1, <3>1, <3>2 DEF IInv, NoIdleSlot
  <2>5. WaitSetsStarted' /\ WaitersExact'
    BY <2>1 DEF IInv, WaitSetsStarted, WaitersExact, AllActive
  <2> QED BY <2>2, <2>3, <2>4, <2>5 DEF IInv
<1> QED BY <1>4, <1>5

LEMMA ClearLaneStep == ASSUME IInv, NEW l \in Lanes, ClearLane(l) PROVE IInv'
PROOF
<1> DEFINE cleared == Taken(queue[l], Len(queue[l]))
<1>1. /\ queue' = [queue EXCEPT ![l] = <<>>]
      /\ promise' = [e \in Entries |-> IF e \in cleared THEN "cleared" ELSE promise[e]]
      /\ UNCHANGED <<active, maxConcurrent, generation, gatewayDraining, body,
                     startGen, waiter, waitSet>>
  BY DEF ClearLane, waiterVars
<1>2. /\ queue \in [Lanes -> Seq(Entries)] /\ promise \in [Entries -> PromiseState]
      /\ \A k \in Lanes : \A i \in 1..Len(queue[k]) : queue[k][i] \in Entries
  BY DEF IInv, TypeOK
<1>3. \A e \in Entries : e \in cleared => body[e] = "idle" /\ promise[e] = "pending"
  BY DEF Taken, IInv, LaneInv, QueuesSound
<1>4. TypeOK'
  <2>1. <<>> \in Seq(Entries)
    OBVIOUS
  <2>2. queue' \in [Lanes -> Seq(Entries)]
    BY <1>1, <1>2, <2>1
  <2>3. promise' \in [Entries -> PromiseState]
    BY <1>1, <1>2 DEF PromiseState
  <2> QED BY <1>1, <2>2, <2>3 DEF IInv, TypeOK
<1>5. QueuesSound(queue, promise, body)'
  <2> SUFFICES ASSUME NEW k \in Lanes
      PROVE  /\ \A i \in 1..Len(queue'[k]) : /\ LaneOf[queue'[k][i]] = k
                                             /\ promise'[queue'[k][i]] = "pending"
                                             /\ body'[queue'[k][i]] = "idle"
             /\ \A i, j \in 1..Len(queue'[k]) : queue'[k][i] = queue'[k][j] => i = j
    BY DEF QueuesSound
  <2>1. CASE k = l
    BY <1>1, <1>2, <2>1
  <2>2. CASE k # l
    <3>1. queue'[k] = queue[k]
      BY <1>1, <1>2, <2>2
    <3>2. \A i \in 1..Len(queue[k]) : LaneOf[queue[k][i]] = k
      BY DEF IInv, LaneInv, QueuesSound
    <3>3. \A e \in cleared : LaneOf[e] = l
      BY DEF Taken, IInv, LaneInv, QueuesSound
    <3>4. \A i \in 1..Len(queue[k]) : promise'[queue[k][i]] = promise[queue[k][i]]
      BY <1>1, <1>2, <2>2, <3>2, <3>3
    <3> QED BY <1>1, <3>1, <3>4 DEF IInv, LaneInv, QueuesSound
  <2> QED BY <2>1, <2>2
<1>6. EntriesSound(queue, promise, body)'
  <2> SUFFICES ASSUME NEW e \in Entries
      PROVE  /\ promise'[e] = "none" => body'[e] = "idle"
             /\ promise'[e] = "pending" =>
                  \/ body'[e] = "running"
                  \/ \E i \in 1..Len(queue'[LaneOf[e]]) : queue'[LaneOf[e]][i] = e
    BY DEF EntriesSound
  <2>1. CASE e \in cleared
    BY <1>1, <2>1
  <2>2. CASE e \notin cleared
    <3>1. promise'[e] = promise[e] /\ body'[e] = body[e]
      BY <1>1, <2>2
    <3>2. CASE LaneOf[e] = l
      BY <2>2, <3>1, <3>2 DEF Taken, IInv, LaneInv, EntriesSound
    <3>3. CASE LaneOf[e] # l
      <4>1. queue'[LaneOf[e]] = queue[LaneOf[e]]
        BY <1>1, <1>2, <3>3, LanesAssumption DEF LanesAssumption
      <4> QED BY <3>1, <4>1 DEF IInv, LaneInv, EntriesSound
    <3> QED BY <3>2, <3>3
  <2> QED BY <2>1, <2>2
<1>7. ActiveSound(active, generation, promise, body, startGen)'
  <2>1. \A e \in Entries : body[e] = "running" => promise'[e] = promise[e]
    BY <1>1, <1>3
  <2> QED BY <1>1, <2>1 DEF IInv, LaneInv, ActiveSound
<1>8. LaneInv(queue, active, generation, promise, body, startGen)'
  BY <1>4, <1>5, <1>6, <1>7 DEF LaneInv, LaneType, TypeOK
<1>9. NoIdleSlot' /\ WaitSetsStarted' /\ WaitersExact'
  BY <1>1, <1>2 DEF IInv, NoIdleSlot, WaitSetsStarted, WaitersExact, AllActive
<1> QED BY <1>4, <1>8, <1>9 DEF IInv

\* The lane state after a reset bumped the generation of the lanes ls.
LEMMA ResetSound ==
  ASSUME IInv, NEW ls \in SUBSET Lanes, ResetLanes(ls)
  PROVE  LaneInv(queue, [l \in Lanes |-> IF l \in ls THEN {} ELSE active[l]],
                 generation', promise', body, startGen)
PROOF
<1> DEFINE act == [l \in Lanes |-> IF l \in ls THEN {} ELSE active[l]]
<1>1. /\ generation' = [l \in Lanes |-> IF l \in ls THEN generation[l] + 1 ELSE generation[l]]
      /\ promise' = promise
  BY DEF ResetLanes
<1>2. LaneType(queue, act, generation', promise', body, startGen)
  BY <1>1 DEF IInv, LaneInv, LaneType
<1>3. QueuesSound(queue, promise', body) /\ EntriesSound(queue, promise', body)
  BY <1>1 DEF IInv, LaneInv
<1>4. ActiveSound(act, generation', promise', body, startGen)
  <2>1. \A l \in Lanes : \A e \in Entries : LaneOf[e] = l => startGen[e] <= generation[l]
    BY DEF IInv, LaneInv, ActiveSound
  <2>2. \A l \in Lanes : generation[l] \in Nat
    BY DEF IInv, TypeOK
  <2>3. \A e \in Entries : startGen[e] \in Nat /\ LaneOf[e] \in Lanes
    BY LanesAssumption DEF IInv, TypeOK, LanesAssumption
  <2>4. \A e \in Entries : startGen[e] <= generation'[LaneOf[e]]
    BY <1>1, <2>1, <2>2, <2>3
  <2>5. ASSUME NEW l \in Lanes, NEW e \in Entries
        PROVE  e \in act[l] <=> /\ LaneOf[e] = l
                                /\ body[e] = "running"
                                /\ promise'[e] = "pending"
                                /\ startGen[e] = generation'[l]
    <3>1. CASE l \in ls
      <4>1. LaneOf[e] = l => startGen[e] # generation'[l]
        BY <1>1, <2>1, <2>2, <2>3, <3>1
      <4> QED BY <3>1, <4>1
    <3>2. CASE l \notin ls
      BY <1>1, <3>2 DEF IInv, LaneInv, ActiveSound
    <3> QED BY <3>1, <3>2
  <2> QED BY <2>4, <2>5 DEF ActiveSound
<1> QED BY <1>2, <1>3, <1>4 DEF LaneInv

LEMMA ResetLanesStep ==
  ASSUME IInv, NEW ls \in SUBSET Lanes, ResetLanes(ls), gatewayDraining' \in BOOLEAN
  PROVE  IInv'
PROOF
<1> DEFINE act == [l \in Lanes |-> IF l \in ls THEN {} ELSE active[l]]
           pumped == {l \in ls : queue[l] # <<>>}
<1>1. /\ generation' = [l \in Lanes |-> IF l \in ls THEN generation[l] + 1 ELSE generation[l]]
      /\ Pump(pumped, queue, act, maxConcurrent, generation', body)
      /\ NotifyWaiters(waiter, waitSet, active')
      /\ UNCHANGED <<maxConcurrent, promise, waitSet>>
  BY DEF ResetLanes
<1>2. LaneInv(queue, act, generation', promise', body, startGen)
  BY ResetSound
<1>3. \A l \in Lanes \ pumped : queue[l] # <<>> => Cardinality(act[l]) >= maxConcurrent'[l]
  BY <1>1 DEF IInv, NoIdleSlot
<1>4. /\ maxConcurrent' \in [Lanes -> Nat]
      /\ waiter' \in [Waiters -> WaiterState]
  BY <1>1 DEF IInv, TypeOK, NotifyWaiters, WaiterState
<1>5. Pump(pumped, queue, act, maxConcurrent', generation', body)
  BY <1>1
<1>6. pumped \in SUBSET Lanes
  OBVIOUS
<1>7. waitSet' = waitSet
  BY <1>1
<1> HIDE DEF act, pumped
<1>8. /\ TypeOK' /\ NoIdleSlot' /\ WaitSetsStarted'
      /\ LaneInv(queue, active, generation, promise, body, startGen)'
  BY <1>2, <1>3, <1>4, <1>5, <1>6, <1>7, TurnEndsWithPump
<1>9. WaitersExact'
  <2> SUFFICES ASSUME NEW w \in Waiters
      PROVE  /\ waiter'[w] = "waiting" => waitSet[w] \cap AllActive(active') # {}
             /\ waiter'[w] = "drained" => waitSet[w] \cap AllActive(active') = {}
    BY <1>7 DEF WaitersExact, AllActive
  <2>1. waiter'[w] = IF waiter[w] = "waiting" /\ waitSet[w] \cap AllActive(active') = {}
                     THEN "drained" ELSE waiter[w]
    BY <1>1 DEF NotifyWaiters
  <2>2. ASSUME waiter[w] = "drained" PROVE waitSet[w] \cap AllActive(active') = {}
    <3>1. waitSet[w] \cap AllActive(active) = {} /\ \A e \in waitSet[w] : body[e] # "idle"
      BY <2>2 DEF IInv, WaitersExact, WaitSetsStarted
    <3>2. \A l \in Lanes : \A e \in active'[l] : e \in act[l] \/ body[e] = "idle"
      BY <1>2, <1>5, <1>6, PumpStarts, SMTT(30)
    <3>3. \A l \in Lanes : act[l] \subseteq active[l]
      BY DEF act
    <3> QED BY <3>1, <3>2, <3>3 DEF AllActive
  <2> QED BY <2>1, <2>2
<1> QED BY <1>8, <1>9 DEF IInv

\* The lane state after a running entry got its answer and left its lane.
LEMMA CompletedSound ==
  ASSUME IInv, NEW e \in Entries, body[e] = "running", promise[e] = "pending",
         NEW bod \in {body, [body EXCEPT ![e] = "done"]},
         NEW p \in {"settled", "timedOut"}
  PROVE  LaneInv(queue, [active EXCEPT ![LaneOf[e]] = @ \ {e}], generation,
                 [promise EXCEPT ![e] = p], bod, startGen)
PROOF
<1> DEFINE act == [active EXCEPT ![LaneOf[e]] = @ \ {e}]
           prom == [promise EXCEPT ![e] = p]
<1>1. LaneOf[e] \in Lanes
  BY LanesAssumption DEF LanesAssumption
<1>2. /\ queue \in [Lanes -> Seq(Entries)] /\ active \in [Lanes -> SUBSET Entries]
      /\ generation \in [Lanes -> Nat] /\ promise \in [Entries -> PromiseState]
      /\ body \in [Entries -> BodyState] /\ startGen \in [Entries -> Nat]
      /\ \A l \in Lanes : \A i \in 1..Len(queue[l]) : queue[l][i] \in Entries
  BY DEF IInv, TypeOK
<1>3. /\ bod \in [Entries -> BodyState]
      /\ \A x \in Entries : x # e => bod[x] = body[x]
      /\ bod[e] # "idle"
  BY <1>2 DEF BodyState
<1>4. /\ prom \in [Entries -> PromiseState]
      /\ prom[e] # "pending" /\ prom[e] # "none"
      /\ \A x \in Entries : x # e => prom[x] = promise[x]
  BY <1>2 DEF PromiseState
<1>5. /\ act \in [Lanes -> SUBSET Entries]
      /\ \A l \in Lanes : \A x \in Entries : x # e => (x \in act[l] <=> x \in active[l])
      /\ \A l \in Lanes : e \in act[l] => e \in active[l] /\ l # LaneOf[e]
  BY <1>1, <1>2
<1> HIDE DEF act, prom
<1>6. LaneType(queue, act, generation, prom, bod, startGen)
  BY <1>2, <1>3, <1>4, <1>5 DEF LaneType
<1>7. QueuesSound(queue, prom, bod)
  <2>1. \A l \in Lanes : \A i \in 1..Len(queue[l]) : queue[l][i] # e
    BY DEF IInv, LaneInv, QueuesSound
  <2> QED BY <1>2, <1>3, <1>4, <2>1 DEF IInv, LaneInv, QueuesSound
<1>8. EntriesSound(queue, prom, bod)
  BY <1>3, <1>4 DEF IInv, LaneInv, EntriesSound
<1>9. ActiveSound(act, generation, prom, bod, startGen)
  <2>1. ASSUME NEW l \in Lanes, NEW x \in Entries
        PROVE  x \in act[l] <=> /\ LaneOf[x] = l
                                /\ bod[x] = "running"
                                /\ prom[x] = "pending"
                                /\ startGen[x] = generation[l]
    <3>1. CASE x = e
      BY <1>4, <1>5, <3>1 DEF IInv, LaneInv, ActiveSound
    <3>2. CASE x # e
      BY <1>3, <1>4, <1>5, <3>2 DEF IInv, LaneInv, ActiveSound
    <3> QED BY <3>1, <3>2
  <2> QED BY <2>1 DEF IInv, LaneInv, ActiveSound
<1> QED BY <1>6, <1>7, <1>8, <1>9 DEF LaneInv, act, prom

\* Finish and TimeoutFires: a running entry is answered and Complete runs.
LEMMA CompleteStep ==
  ASSUME IInv, NEW e \in Entries, body[e] = "running", promise[e] = "pending",
         NEW bod \in {body, [body EXCEPT ![e] = "done"]},
         NEW p \in {"settled", "timedOut"},
         promise' = [promise EXCEPT ![e] = p],
         Complete(e, bod),
         UNCHANGED <<maxConcurrent, generation, gatewayDraining, waitSet>>
  PROVE  IInv'
PROOF
<1> DEFINE l == LaneOf[e]
           act == [active EXCEPT ![l] = @ \ {e}]
<1>1. l \in Lanes
  BY LanesAssumption DEF LanesAssumption
<1>2. IF IsCurrent(e)
      THEN /\ Pump({l}, queue, act, maxConcurrent, generation, bod)
           /\ NotifyWaiters(waiter, waitSet, act)
      ELSE /\ body' = bod
           /\ UNCHANGED <<queue, active, startGen, waiter>>
  BY DEF Complete
<1>3. LaneInv(queue, act, generation', promise', bod, startGen)
  BY CompletedSound
<1>4. /\ active \in [Lanes -> SUBSET Entries]
      /\ maxConcurrent' \in [Lanes -> Nat] /\ gatewayDraining' \in BOOLEAN
      /\ body \in [Entries -> BodyState]
      /\ waitSet \in [Waiters -> SUBSET Entries]
  BY DEF IInv, TypeOK
<1>5. /\ \A x \in Entries : body[x] # "idle" => bod[x] # "idle"
      /\ \A x \in Entries : bod[x] = "idle" => body[x] = "idle"
  BY <1>4
<1>6. \A k \in Lanes : act[k] \subseteq active[k]
  BY <1>1, <1>4
<1>7. \A k \in Lanes \ {l} : act[k] = active[k]
  BY <1>1, <1>4
<1>8. CASE IsCurrent(e)
  <2>1. /\ Pump({l}, queue, act, maxConcurrent', generation', bod)
        /\ waiter' = [w \in Waiters |->
             IF waiter[w] = "waiting" /\ waitSet[w] \cap AllActive(act) = {}
             THEN "drained" ELSE waiter[w]]
    BY <1>2, <1>8 DEF NotifyWaiters
  <2>2. waiter' \in [Waiters -> WaiterState]
    BY <2>1 DEF IInv, TypeOK, WaiterState
  <2>3. \A k \in Lanes \ {l} :
          queue[k] # <<>> => Cardinality(act[k]) >= maxConcurrent'[k]
    BY <1>7 DEF IInv, NoIdleSlot
  <2>4. AllActive(act) \subseteq AllActive(active)
    BY <1>6 DEF AllActive
  <2>5. {l} \in SUBSET Lanes
    BY <1>1
  <2>a. waitSet' = waitSet /\ maxConcurrent' \in [Lanes -> Nat] /\ gatewayDraining' \in BOOLEAN
    BY <1>4
  <2>b. Pump({l}, queue, act, maxConcurrent', generation', bod)
    BY <2>1
  <2>c. LaneInv(queue, act, generation', promise', bod, startGen)
    BY <1>3
  <2> HIDE DEF act, l
  <2>6. /\ TypeOK' /\ NoIdleSlot' /\ WaitSetsStarted'
        /\ LaneInv(queue, active, generation, promise, body, startGen)'
    <3>1. \A x \in Entries : body[x] # "idle" => bod[x] # "idle"
      BY <1>5
    <3> QED BY ONLY IInv, <2>2, <2>3, <2>5, <2>a, <2>b, <2>c, <3>1, TurnEndsWithPump
  <2>7. \A w \in Waiters :
          /\ waiter'[w] = "waiting" => waitSet[w] \cap AllActive(act) # {}
          /\ waiter'[w] = "drained" => waitSet[w] \cap AllActive(act) = {}
    BY <2>1, <2>4 DEF IInv, WaitersExact
  <2>8. WaitersExact'
    BY <1>5, <2>5, <2>7, <2>a, <2>b, <2>c, TurnWaiters, ZenonT(60)
  <2> QED BY <2>6, <2>8 DEF IInv
<1>9. CASE ~ IsCurrent(e)
  <2>1. body' = bod /\ UNCHANGED <<queue, active, startGen, waiter>>
    BY <1>2, <1>9
  <2>2. act = active
    <3>1. e \notin active[l]
      BY <1>1, <1>9 DEF IInv, LaneInv, ActiveSound, IsCurrent
    <3> QED BY <1>1, <1>4, <3>1
  <2>3. LaneInv(queue', active', generation', promise', body', startGen')
    BY <1>3, <2>1, <2>2
  <2>4. LaneInv(queue, active, generation, promise, body, startGen)'
    <3>1. LaneType(queue, active, generation, promise, body, startGen)'
      BY <2>3 DEF LaneInv, LaneType
    <3>2. QueuesSound(queue, promise, body)'
      BY <2>3 DEF LaneInv, QueuesSound
    <3>3. EntriesSound(queue, promise, body)'
      BY <2>3 DEF LaneInv, EntriesSound
    <3>4. ActiveSound(active, generation, promise, body, startGen)'
      BY <2>3 DEF LaneInv, ActiveSound
    <3> QED BY <3>1, <3>2, <3>3, <3>4 DEF LaneInv
  <2>5. TypeOK'
    BY <2>1, <2>3 DEF LaneInv, LaneType, IInv, TypeOK
  <2>6. NoIdleSlot' /\ WaitersExact'
    BY <2>1 DEF IInv, NoIdleSlot, WaitersExact, AllActive
  <2>7. WaitSetsStarted'
    BY <1>4, <1>5, <2>1 DEF IInv, WaitSetsStarted
  <2> QED BY <2>4, <2>5, <2>6, <2>7 DEF IInv
<1> QED BY <1>8, <1>9

LEMMA FinishStep == ASSUME IInv, NEW e \in Entries, Finish(e) PROVE IInv'
<1>1. /\ body[e] = "running" /\ promise[e] = "pending"
      /\ promise' = [promise EXCEPT ![e] = "settled"]
      /\ Complete(e, [body EXCEPT ![e] = "done"])
      /\ UNCHANGED <<maxConcurrent, generation, gatewayDraining, waitSet>>
  BY DEF Finish
<1> QED BY <1>1, CompleteStep

LEMMA TimeoutStep == ASSUME IInv, NEW e \in Entries, TimeoutFires(e) PROVE IInv'
<1>1. /\ body[e] = "running" /\ promise[e] = "pending"
      /\ promise' = [promise EXCEPT ![e] = "timedOut"]
      /\ Complete(e, body)
      /\ UNCHANGED <<maxConcurrent, generation, gatewayDraining, waitSet>>
  BY DEF TimeoutFires
<1> QED BY <1>1, CompleteStep

LEMMA FinishLateStep == ASSUME IInv, NEW e \in Entries, FinishLate(e) PROVE IInv'
<1>1. /\ body[e] = "running" /\ promise[e] = "timedOut"
      /\ body' = [body EXCEPT ![e] = "done"]
      /\ UNCHANGED <<queue, active, maxConcurrent, generation, gatewayDraining,
                     promise, startGen, waiter, waitSet>>
  BY DEF FinishLate, laneVars, waiterVars
<1>2. TypeOK'
  BY <1>1 DEF IInv, TypeOK, BodyState
<1>3. /\ \A x \in Entries : x # e => body'[x] = body[x]
      /\ body'[e] = "done"
      /\ \A l \in Lanes : \A i \in 1..Len(queue[l]) : queue[l][i] \in Entries
  BY <1>1 DEF IInv, TypeOK
<1>4. QueuesSound(queue, promise, body)'
  <2>1. \A l \in Lanes : \A i \in 1..Len(queue[l]) : queue[l][i] # e
    BY <1>1 DEF IInv, LaneInv, QueuesSound
  <2> QED BY <1>1, <1>3, <2>1 DEF IInv, LaneInv, QueuesSound
<1>5. EntriesSound(queue, promise, body)'
  BY <1>1, <1>3 DEF IInv, LaneInv, EntriesSound
<1>6. ActiveSound(active, generation, promise, body, startGen)'
  BY <1>1, <1>3 DEF IInv, LaneInv, ActiveSound
<1>7. LaneInv(queue, active, generation, promise, body, startGen)'
  BY <1>2, <1>4, <1>5, <1>6 DEF LaneInv, LaneType, TypeOK
<1>8. NoIdleSlot' /\ WaitersExact'
  BY <1>1 DEF IInv, NoIdleSlot, WaitersExact, AllActive
<1>9. WaitSetsStarted'
  BY <1>1, <1>3 DEF IInv, TypeOK, WaitSetsStarted
<1> QED BY <1>2, <1>7, <1>8, <1>9 DEF IInv

LEMMA MarkDrainingStep == ASSUME IInv, MarkDraining PROVE IInv'
<1>1. /\ gatewayDraining' = TRUE
      /\ UNCHANGED <<queue, active, maxConcurrent, generation, promise, body,
                     startGen, waiter, waitSet>>
  BY DEF MarkDraining, entryVars, waiterVars
<1>2. TypeOK'
  BY <1>1 DEF IInv, TypeOK
<1>3. LaneInv(queue, active, generation, promise, body, startGen)'
  BY <1>1, LaneInvUnchanged
<1>4. NoIdleSlot' /\ WaitSetsStarted' /\ WaitersExact'
  BY <1>1 DEF IInv, NoIdleSlot, WaitSetsStarted, WaitersExact, AllActive
<1> QED BY <1>2, <1>3, <1>4 DEF IInv

\* Everything active has been started.
LEMMA ActiveStarted ==
  ASSUME IInv
  PROVE  /\ AllActive(active) \subseteq Entries
         /\ \A e \in AllActive(active) : body[e] # "idle"
BY DEF IInv, TypeOK, LaneInv, ActiveSound, AllActive

LEMMA WaiterStep ==
  ASSUME IInv, NEW w \in Waiters, WaitForActive(w) \/ WaitExpires(w)
  PROVE  IInv'
PROOF
<1>1. UNCHANGED <<queue, active, maxConcurrent, generation, gatewayDraining,
                  promise, body, startGen>>
  BY DEF WaitForActive, WaitExpires, laneVars, entryVars
<1>2. /\ waiter \in [Waiters -> WaiterState]
      /\ waitSet \in [Waiters -> SUBSET Entries]
  BY DEF IInv, TypeOK
<1>3. AllActive(active)' = AllActive(active)
  BY <1>1 DEF AllActive
<1>4. CASE WaitForActive(w)
  <2>1. waitSet' = [waitSet EXCEPT ![w] = AllActive(active)]
    BY <1>4 DEF WaitForActive
  <2>2. waitSet' \in [Waiters -> SUBSET Entries]
    BY <1>2, <2>1, ActiveStarted
  <2>3. \/ waiter' = [waiter EXCEPT ![w] = "drained"] /\ AllActive(active) = {}
        \/ waiter' = [waiter EXCEPT ![w] = "expired"]
        \/ waiter' = [v \in Waiters |->
                        LET now == [waiter EXCEPT ![w] = "waiting"][v] IN
                        IF now = "waiting" /\ waitSet'[v] \cap AllActive(active) = {}
                        THEN "drained" ELSE now]
    BY <1>4 DEF WaitForActive, NotifyWaiters
  <2>4. waiter' \in [Waiters -> WaiterState]
    BY <1>2, <2>3 DEF WaiterState
  <2>5. WaitSetsStarted'
    BY <1>1, <1>2, <2>1, ActiveStarted DEF IInv, WaitSetsStarted
  <2>6. \A v \in Waiters :
          /\ waiter'[v] = "waiting" => waitSet'[v] \cap AllActive(active) # {}
          /\ waiter'[v] = "drained" => waitSet'[v] \cap AllActive(active) = {}
    <3> SUFFICES ASSUME NEW v \in Waiters
        PROVE  /\ waiter'[v] = "waiting" => waitSet'[v] \cap AllActive(active) # {}
               /\ waiter'[v] = "drained" => waitSet'[v] \cap AllActive(active) = {}
      OBVIOUS
    <3>1. CASE v = w
      BY <1>2, <2>1, <2>3, <3>1
    <3>2. CASE v # w
      <4>1. waitSet'[v] = waitSet[v]
        BY <1>2, <2>1, <3>2
      <4> QED BY <1>2, <2>3, <3>2, <4>1 DEF IInv, WaitersExact
    <3> QED BY <3>1, <3>2
  <2> QED
    <3>1. TypeOK'
      BY <1>1, <2>2, <2>4 DEF IInv, TypeOK
    <3>2. LaneInv(queue, active, generation, promise, body, startGen)'
      BY <1>1, LaneInvUnchanged
    <3>3. NoIdleSlot' /\ WaitersExact'
      BY <1>1, <1>3, <2>6 DEF IInv, NoIdleSlot, WaitersExact
    <3> QED BY <2>5, <3>1, <3>2, <3>3 DEF IInv
<1>5. CASE WaitExpires(w)
  <2>1. waiter' = [waiter EXCEPT ![w] = "expired"] /\ waitSet' = waitSet
    BY <1>5 DEF WaitExpires
  <2>2. TypeOK'
    BY <1>1, <2>1 DEF IInv, TypeOK, WaiterState
  <2>3. LaneInv(queue, active, generation, promise, body, startGen)'
    BY <1>1, LaneInvUnchanged
  <2>4. NoIdleSlot' /\ WaitSetsStarted'
    BY <1>1, <2>1 DEF IInv, NoIdleSlot, WaitSetsStarted
  <2>5. WaitersExact'
    BY <1>2, <1>3, <2>1 DEF IInv, WaitersExact
  <2> QED BY <2>2, <2>3, <2>4, <2>5 DEF IInv
<1> QED BY <1>4, <1>5

LEMMA NextPreserves == IInv /\ [Next]_vars => IInv'
PROOF
<1> SUFFICES ASSUME IInv, [Next]_vars PROVE IInv'
  OBVIOUS
<1>1. CASE \E e \in Entries : Enqueue(e) \/ Finish(e) \/ TimeoutFires(e) \/ FinishLate(e)
  BY <1>1, RefuseStep, AcceptStep, FinishStep, TimeoutStep, FinishLateStep DEF Enqueue
<1>2. CASE \E l \in Lanes, n \in Widths : SetConcurrency(l, n)
  BY <1>2, SetConcurrencyStep
<1>3. CASE \E l \in Lanes : ClearLane(l) \/ ResetLane(l)
  <2>1. gatewayDraining \in BOOLEAN
    BY DEF IInv, TypeOK
  <2>2. \A l \in Lanes : {l} \in SUBSET Lanes
    OBVIOUS
  <2>3. ASSUME NEW l \in Lanes, ResetLane(l) PROVE IInv'
    <3>1. ResetLanes({l}) /\ gatewayDraining' \in BOOLEAN
      BY <2>1, <2>3 DEF ResetLane
    <3> QED BY <2>2, <3>1, ResetLanesStep
  <2> QED BY <1>3, <2>3, ClearLaneStep
<1>4. CASE ResetAll
  <2>1. ResetLanes(Lanes) /\ gatewayDraining' \in BOOLEAN
    BY <1>4 DEF ResetAll
  <2>2. Lanes \in SUBSET Lanes
    OBVIOUS
  <2> QED BY <2>1, <2>2, ResetLanesStep
<1>5. CASE MarkDraining
  BY <1>5, MarkDrainingStep
<1>6. CASE \E w \in Waiters : WaitForActive(w) \/ WaitExpires(w)
  BY <1>6, WaiterStep
<1>7. CASE UNCHANGED vars
  <2>1. UNCHANGED <<queue, active, maxConcurrent, generation, gatewayDraining,
                    promise, body, startGen, waiter, waitSet>>
    BY <1>7 DEF vars, laneVars, entryVars, waiterVars
  <2>2. LaneInv(queue, active, generation, promise, body, startGen)'
    BY <2>1, LaneInvUnchanged
  <2>3. TypeOK'
    BY <2>1 DEF IInv, TypeOK
  <2>4. NoIdleSlot' /\ WaitSetsStarted' /\ WaitersExact'
    BY <2>1 DEF IInv, NoIdleSlot, WaitSetsStarted, WaitersExact, AllActive
  <2> QED BY <2>2, <2>3, <2>4 DEF IInv
<1> QED BY <1>1, <1>2, <1>3, <1>4, <1>5, <1>6, <1>7 DEF Next

-----------------------------------------------------------------------------
(* The steps of the lanes: slots and order                              *)

\* Ahead, as an operator of the queues and promises in the middle of a turn.
AheadIn(q, prom, x, y) ==
  /\ \E i \in 1..Len(q[LaneOf[x]]) : q[LaneOf[x]][i] = x
  /\ LaneOf[x] = LaneOf[y]
  /\ \/ prom[y] \in {"none", "refused"}
     \/ \E i, j \in 1..Len(q[LaneOf[x]]) :
          i < j /\ q[LaneOf[x]][i] = x /\ q[LaneOf[x]][j] = y

\* A turn that pumps: from the lane state (q, act, promise', bod), in which no
\* set of running tasks has grown and nothing has been overtaken.
Turn(pumped, q, act, bod) ==
  /\ LaneInv(q, act, generation', promise', bod, startGen)
  /\ maxConcurrent' \in [Lanes -> Nat]
  /\ Pump(pumped, q, act, maxConcurrent', generation', bod)
  /\ \A l \in Lanes : act[l] \subseteq active[l]
  /\ \A x, y \in Entries : AheadIn(queue, promise, x, y) => AheadIn(q, promise', x, y)

\* A turn that starts nothing.
Quiet ==
  /\ active' = active
  /\ \A x, y \in Entries : Ahead(x, y) => Ahead(x, y)' \/ ~ InQueue(x)'

Pumps == \E pumped \in SUBSET Lanes : \E q, act, bod : Turn(pumped, q, act, bod)

LEMMA AheadIsAheadIn ==
  ASSUME TypeOK, NEW x \in Entries, NEW y \in Entries
  PROVE  /\ Ahead(x, y) <=> AheadIn(queue, promise, x, y)
         /\ InQueue(x) <=> \E i \in 1..Len(queue[LaneOf[x]]) : queue[LaneOf[x]][i] = x
PROOF
<1>1. LaneOf[x] \in Lanes
  BY LanesAssumption DEF LanesAssumption
<1>2. DOMAIN queue[LaneOf[x]] = 1..Len(queue[LaneOf[x]])
  BY <1>1 DEF TypeOK
<1> QED BY <1>2 DEF Ahead, AheadIn, InQueue

\* pump() takes from the head only: what stays behind keeps its order.
LEMMA PumpKeepsOrder ==
  ASSUME NEW pumped \in SUBSET Lanes, NEW q, NEW act, NEW max, NEW gen,
         NEW prom, NEW bod,
         LaneInv(q, act, gen, prom, bod, startGen),
         Pump(pumped, q, act, max, gen, bod),
         NEW x \in Entries, NEW y \in Entries, AheadIn(q, prom, x, y)
  PROVE  \/ AheadIn(queue', prom, x, y)
         \/ ~ \E i \in 1..Len(queue'[LaneOf[x]]) : queue'[LaneOf[x]][i] = x
PROOF
<1> DEFINE k == LaneOf[x]
<1>0. PICK n \in [Lanes -> 0..Cardinality(Entries)] :
        PumpBy(n, pumped, q, act, max, gen, bod)
  BY PumpCounts
<1>1. k \in Lanes
  BY LanesAssumption DEF LanesAssumption
<1> HIDE DEF k
<1>2. q[k] \in Seq(Entries) /\ Len(q[k]) \in Nat
  BY <1>1 DEF LaneInv, LaneType
<1>3. /\ queue'[k] = SubSeq(q[k], n[k] + 1, Len(q[k]))
      /\ n[k] = 0 \/ PumpEndsAt(q[k], act[k], max[k], n[k])
  BY <1>0, <1>1 DEF PumpBy
<1>4. n[k] \in 0..Len(q[k])
  BY <1>1, <1>2, <1>3, FS_CardinalityType, LanesAssumption
     DEF LanesAssumption, PumpEndsAt
<1>5. /\ Len(queue'[k]) = Len(q[k]) - n[k]
      /\ \A i \in 1..Len(queue'[k]) : queue'[k][i] = q[k][n[k] + i]
  BY <1>2, <1>3, <1>4, RestOfQueue
<1>6. \A i, j \in 1..Len(q[k]) : q[k][i] = q[k][j] => i = j
  BY <1>1 DEF LaneInv, QueuesSound
<1>7. ASSUME NEW i \in 1..Len(queue'[k]), queue'[k][i] = x,
             NEW a \in 1..Len(q[k]), NEW b \in 1..Len(q[k]),
             a < b, q[k][a] = x, q[k][b] = y
      PROVE  \E c, d \in 1..Len(queue'[k]) :
               c < d /\ queue'[k][c] = x /\ queue'[k][d] = y
  <2>0. n[k] + i \in 1..Len(q[k])
    BY <1>2, <1>4, <1>5
  <2>1. n[k] + i \in 1..Len(q[k]) /\ q[k][n[k] + i] = x
    BY <1>5, <1>7, <2>0
  <2>2. n[k] + i = a
    BY <1>6, <1>7, <2>1
  <2> DEFINE d == b - n[k]
  <2>3. d \in 1..Len(queue'[k]) /\ i < d /\ n[k] + d = b
    BY <1>2, <1>4, <1>5, <1>7, <2>2
  <2> HIDE DEF d
  <2>4. queue'[k][d] = y
    BY <1>5, <1>7, <2>3
  <2> QED BY <1>7, <2>3, <2>4
<1> QED BY <1>7 DEF AheadIn, k

\* A step that leaves lanes, queues and open submissions alone is quiet.
LEMMA QuietStep ==
  ASSUME IInv, IInv', queue' = queue, active' = active,
         \A e \in Entries : promise[e] \in {"none", "refused"}
                              => promise'[e] \in {"none", "refused"}
  PROVE  Quiet
PROOF
<1> SUFFICES ASSUME NEW x \in Entries, NEW y \in Entries, Ahead(x, y)
    PROVE  Ahead(x, y)'
  BY DEF Quiet
<1> QED BY DEF Ahead, InQueue

LEMMA AcceptPumps ==
  ASSUME IInv, NEW e \in Entries, Accept(e)
  PROVE  Pumps
PROOF
<1> DEFINE lane == LaneOf[e]
           q == [queue EXCEPT ![lane] = Append(@, e)]
<1>1. /\ promise[e] = "none"
      /\ promise' = [promise EXCEPT ![e] = "pending"]
      /\ Pump({lane}, q, active, maxConcurrent, generation, body)
      /\ UNCHANGED <<maxConcurrent, generation>>
  BY DEF Accept
<1>2. lane \in Lanes
  BY LanesAssumption DEF LanesAssumption
<1>3. /\ queue \in [Lanes -> Seq(Entries)]
      /\ promise \in [Entries -> PromiseState]
      /\ maxConcurrent \in [Lanes -> Nat]
  BY DEF IInv, TypeOK
<1>4. LaneInv(q, active, generation', promise', body, startGen)
  BY <1>1, AppendSound
<1>5. /\ \A l \in Lanes : l # lane => q[l] = queue[l]
      /\ Len(queue[lane]) \in Nat
      /\ Len(q[lane]) = Len(queue[lane]) + 1
      /\ q[lane][Len(queue[lane]) + 1] = e
      /\ \A i \in 1..Len(queue[lane]) : q[lane][i] = queue[lane][i]
  BY <1>2, <1>3
<1>6. Pump({lane}, q, active, maxConcurrent', generation', body)
  BY <1>1
<1> HIDE DEF q
<1>7. ASSUME NEW x \in Entries, NEW y \in Entries, AheadIn(queue, promise, x, y)
      PROVE  AheadIn(q, promise', x, y)
  <2> DEFINE k == LaneOf[x]
  <2>1. k \in Lanes
    BY LanesAssumption DEF LanesAssumption
  <2> HIDE DEF k
  <2>2. \A i \in 1..Len(queue[k]) : i \in 1..Len(q[k]) /\ q[k][i] = queue[k][i]
    BY <1>5, <2>1
  <2>3. PICK i \in 1..Len(queue[k]) : queue[k][i] = x
    BY <1>7 DEF AheadIn, k
  <2>4. CASE y = e /\ promise[y] \in {"none", "refused"}
    <3> DEFINE j == Len(queue[lane]) + 1
    <3>1. k = lane
      BY <1>7, <2>4 DEF AheadIn, k
    <3>2. j \in 1..Len(q[k]) /\ q[k][j] = y /\ i < j
      BY <1>5, <2>3, <2>4, <3>1
    <3> QED BY <1>7, <2>2, <2>3, <3>2 DEF AheadIn, k
  <2>5. CASE y # e /\ promise[y] \in {"none", "refused"}
    <3>1. promise'[y] = promise[y]
      BY <1>1, <1>3, <2>5
    <3> QED BY <1>7, <2>2, <2>3, <2>5, <3>1 DEF AheadIn, k
  <2>6. CASE promise[y] \notin {"none", "refused"}
    <3>1. PICK a, b \in 1..Len(queue[k]) : a < b /\ queue[k][a] = x /\ queue[k][b] = y
      BY <1>7, <2>6 DEF AheadIn, k
    <3> QED BY <1>7, <2>2, <3>1 DEF AheadIn, k
  <2> QED BY <2>4, <2>5, <2>6
<1>8. Turn({lane}, q, active, body)
  BY <1>1, <1>3, <1>4, <1>6, <1>7 DEF Turn
<1> HIDE DEF lane
<1> QED BY <1>2, <1>8 DEF Pumps

LEMMA SetConcurrencyTurn ==
  ASSUME IInv, IInv', NEW l \in Lanes, NEW n \in Widths, SetConcurrency(l, n)
  PROVE  Quiet \/ Pumps
PROOF
<1> DEFINE width == IF l \in ProbeLanes /\ n = 0 THEN 1 ELSE n
<1>1. /\ IF width > 0
         THEN Pump({l}, queue, active, maxConcurrent', generation, body)
         ELSE UNCHANGED <<queue, active, body, startGen>>
      /\ UNCHANGED <<generation, promise>>
  BY DEF SetConcurrency
<1>2. CASE width > 0
  <2>1. Pump({l}, queue, active, maxConcurrent', generation', body)
    BY <1>1, <1>2
  <2>2. LaneInv(queue, active, generation', promise', body, startGen)
    BY <1>1 DEF IInv
  <2>3. maxConcurrent' \in [Lanes -> Nat] /\ promise' = promise
    BY <1>1 DEF IInv, TypeOK
  <2>4. Turn({l}, queue, active, body)
    BY <2>1, <2>2, <2>3 DEF Turn
  <2> QED BY <2>4 DEF Pumps
<1>3. CASE ~ (width > 0)
  BY <1>1, <1>3, QuietStep
<1> QED BY <1>2, <1>3

LEMMA ClearLaneQuiet ==
  ASSUME IInv, IInv', NEW l \in Lanes, ClearLane(l)
  PROVE  Quiet
PROOF
<1>1. /\ queue' = [queue EXCEPT ![l] = <<>>]
      /\ promise' = [e \in Entries |-> IF e \in Taken(queue[l], Len(queue[l]))
                                       THEN "cleared" ELSE promise[e]]
      /\ active' = active
  BY DEF ClearLane
<1>2. queue \in [Lanes -> Seq(Entries)]
  BY DEF IInv, TypeOK
<1>3. ASSUME NEW x \in Entries, NEW y \in Entries, Ahead(x, y), InQueue(x)'
      PROVE  Ahead(x, y)'
  <2>1. LaneOf[x] \in Lanes
    BY LanesAssumption DEF LanesAssumption
  <2>2. LaneOf[x] # l
    BY <1>1, <1>2, <1>3 DEF InQueue
  <2>3. queue'[LaneOf[x]] = queue[LaneOf[x]]
    BY <1>1, <1>2, <2>1, <2>2
  <2>4. y \notin Taken(queue[l], Len(queue[l]))
    <3>1. LaneOf[y] # l
      BY <1>3, <2>2 DEF Ahead
    <3> QED BY <3>1 DEF Taken, IInv, LaneInv, QueuesSound
  <2>5. promise'[y] = promise[y]
    BY <1>1, <2>4
  <2> QED BY <1>3, <2>3, <2>5 DEF Ahead
<1> QED BY <1>1, <1>3 DEF Quiet

LEMMA ResetPumps ==
  ASSUME IInv, IInv', NEW ls \in SUBSET Lanes, ResetLanes(ls)
  PROVE  Pumps
PROOF
<1> DEFINE act == [l \in Lanes |-> IF l \in ls THEN {} ELSE active[l]]
           pumped == {l \in ls : queue[l] # <<>>}
<1>1. /\ Pump(pumped, queue, act, maxConcurrent', generation', body)
      /\ promise' = promise
  BY DEF ResetLanes
<1>2. LaneInv(queue, act, generation', promise', body, startGen)
  BY ResetSound
<1>3. pumped \in SUBSET Lanes /\ \A l \in Lanes : act[l] \subseteq active[l]
  OBVIOUS
<1>4. maxConcurrent' \in [Lanes -> Nat]
  BY DEF IInv, TypeOK
<1> HIDE DEF act, pumped
<1>5. Turn(pumped, queue, act, body)
  BY <1>1, <1>2, <1>3, <1>4 DEF Turn
<1> QED BY <1>3, <1>5 DEF Pumps

\* Finish and TimeoutFires.
LEMMA CompleteTurn ==
  ASSUME IInv, IInv', NEW e \in Entries, body[e] = "running", promise[e] = "pending",
         NEW bod \in {body, [body EXCEPT ![e] = "done"]},
         NEW p \in {"settled", "timedOut"},
         promise' = [promise EXCEPT ![e] = p],
         Complete(e, bod),
         UNCHANGED <<maxConcurrent, generation>>
  PROVE  Quiet \/ Pumps
PROOF
<1> DEFINE l == LaneOf[e]
           act == [active EXCEPT ![l] = @ \ {e}]
<1>1. l \in Lanes
  BY LanesAssumption DEF LanesAssumption
<1>2. IF IsCurrent(e)
      THEN Pump({l}, queue, act, maxConcurrent, generation, bod)
      ELSE UNCHANGED <<queue, active>>
  BY DEF Complete
<1>3. LaneInv(queue, act, generation', promise', bod, startGen)
  BY CompletedSound
<1>4. /\ active \in [Lanes -> SUBSET Entries]
      /\ promise \in [Entries -> PromiseState]
      /\ maxConcurrent' \in [Lanes -> Nat]
  BY DEF IInv, TypeOK
<1>5. \A k \in Lanes : act[k] \subseteq active[k]
  BY <1>1, <1>4
<1>6. \A y \in Entries : promise[y] \in {"none", "refused"} => promise'[y] = promise[y]
  BY <1>4
<1>7. CASE IsCurrent(e)
  <2>1. Pump({l}, queue, act, maxConcurrent', generation', bod)
    BY <1>2, <1>7
  <2>2. \A x, y \in Entries : AheadIn(queue, promise, x, y) => AheadIn(queue, promise', x, y)
    BY <1>6 DEF AheadIn
  <2> HIDE DEF act, l
  <2>3. Turn({l}, queue, act, bod)
    BY <1>3, <1>4, <1>5, <2>1, <2>2 DEF Turn
  <2> QED BY <1>1, <2>3 DEF Pumps
<1>8. CASE ~ IsCurrent(e)
  BY <1>2, <1>6, <1>8, QuietStep
<1> QED BY <1>7, <1>8

\* Every turn of the code either starts nothing or is a pumping turn.
LEMMA StepIsTurn ==
  ASSUME IInv, IInv', [Next]_vars
  PROVE  Quiet \/ Pumps
PROOF
<1>1. ASSUME NEW e \in Entries, Enqueue(e) \/ Finish(e) \/ TimeoutFires(e) \/ FinishLate(e)
      PROVE  Quiet \/ Pumps
  <2>1. CASE Refuse(e)
    <3>1. /\ queue' = queue /\ active' = active
          /\ promise' = [promise EXCEPT ![e] = "refused"]
      BY <2>1 DEF Refuse, laneVars
    <3>2. promise \in [Entries -> PromiseState]
      BY DEF IInv, TypeOK
    <3> QED BY <3>1, <3>2, QuietStep
  <2>2. CASE Accept(e)
    BY <2>2, AcceptPumps
  <2>3. CASE Finish(e)
    <3>1. /\ body[e] = "running" /\ promise[e] = "pending"
          /\ promise' = [promise EXCEPT ![e] = "settled"]
          /\ Complete(e, [body EXCEPT ![e] = "done"])
          /\ UNCHANGED <<maxConcurrent, generation>>
      BY <2>3 DEF Finish
    <3> QED BY <3>1, CompleteTurn
  <2>4. CASE TimeoutFires(e)
    <3>1. /\ body[e] = "running" /\ promise[e] = "pending"
          /\ promise' = [promise EXCEPT ![e] = "timedOut"]
          /\ Complete(e, body)
          /\ UNCHANGED <<maxConcurrent, generation>>
      BY <2>4 DEF TimeoutFires
    <3> QED BY <3>1, CompleteTurn
  <2>5. CASE FinishLate(e)
    BY <2>5, QuietStep DEF FinishLate, laneVars
  <2> QED BY <1>1, <2>1, <2>2, <2>3, <2>4, <2>5 DEF Enqueue
<1>2. ASSUME NEW l \in Lanes, ResetLane(l) PROVE Pumps
  <2>1. ResetLanes({l}) /\ {l} \in SUBSET Lanes
    BY <1>2 DEF ResetLane
  <2> QED BY <2>1, ResetPumps
<1>3. CASE ResetAll
  <2>1. ResetLanes(Lanes) /\ Lanes \in SUBSET Lanes
    BY <1>3 DEF ResetAll
  <2> QED BY <2>1, ResetPumps
<1>4. CASE MarkDraining \/ (\E w \in Waiters : WaitForActive(w) \/ WaitExpires(w))
           \/ UNCHANGED vars
  <2>1. queue' = queue /\ active' = active /\ promise' = promise
    BY <1>4 DEF MarkDraining, WaitForActive, WaitExpires, vars, laneVars, entryVars
  <2> QED BY <2>1, QuietStep
<1> QED BY <1>1, <1>2, <1>3, <1>4, SetConcurrencyTurn, ClearLaneQuiet DEF Next

-----------------------------------------------------------------------------
(* The theorems *)

THEOREM Invariance == Spec => []IInv
<1>1. Init => IInv
  BY InitEstablishes
<1>2. IInv /\ [Next]_vars => IInv'
  BY NextPreserves
<1> QED BY <1>1, <1>2, PTL DEF Spec

\* Type correctness of the queue's state.
THEOREM TypeCorrect == Spec => []TypeOK
<1>1. IInv => TypeOK
  BY DEF IInv
<1> QED BY <1>1, Invariance, PTL

\* The active set of a lane is what its generation is really running: a stale
\* completion frees no slot, a reset leaks none (completeTask, resetAllLanes).
THEOREM GenerationSafety == Spec => []GenerationSound
<1>1. IInv => GenerationSound
  <2> SUFFICES ASSUME IInv, NEW l \in Lanes
      PROVE  active[l] = {e \in Entries : /\ LaneOf[e] = l
                                          /\ body[e] = "running"
                                          /\ promise[e] = "pending"
                                          /\ startGen[e] = generation[l]}
    BY DEF GenerationSound
  <2>1. active[l] \subseteq Entries
    BY DEF IInv, TypeOK
  <2> QED BY <2>1 DEF IInv, LaneInv, ActiveSound
<1> QED BY <1>1, Invariance, PTL

\* No wakeup is lost: between turns nothing waits in a lane with a free slot
\* (drainLane is called wherever a slot or an entry may have appeared).
THEOREM NoLostWakeup == Spec => []NoIdleSlot
<1>1. IInv => NoIdleSlot
  BY DEF IInv
<1> QED BY <1>1, Invariance, PTL

\* No turn loses or repeats an accepted entry (resetAllLanes "queued entries are
\* intentionally preserved").
THEOREM NothingIsLost == Spec => []NothingLost
<1>1. IInv => NothingLost
  <2> SUFFICES ASSUME IInv PROVE NothingLost
    OBVIOUS
  <2>1. \A l \in Lanes : /\ queue[l] \in Seq(Entries)
                         /\ DOMAIN queue[l] = 1..Len(queue[l])
    BY DEF IInv, TypeOK
  <2>2. \A e \in Entries : LaneOf[e] \in Lanes
    BY LanesAssumption DEF LanesAssumption
  <2>3. ASSUME NEW e \in Entries
        PROVE  /\ promise[e] = "pending" => (body[e] = "running") # InQueue(e)
               /\ InQueue(e) => promise[e] = "pending" /\ body[e] = "idle"
    <3>1. InQueue(e) <=> \E i \in 1..Len(queue[LaneOf[e]]) : queue[LaneOf[e]][i] = e
      BY <2>1, <2>2 DEF InQueue
    <3>2. InQueue(e) => promise[e] = "pending" /\ body[e] = "idle"
      BY <2>2, <3>1 DEF IInv, LaneInv, QueuesSound
    <3>3. promise[e] = "pending" => body[e] = "running" \/ InQueue(e)
      BY <3>1 DEF IInv, LaneInv, EntriesSound
    <3>4. InQueue(e) \in BOOLEAN
      BY DEF InQueue
    <3> QED BY <3>2, <3>3, <3>4
  <2>4. \A l \in Lanes : \A i, j \in DOMAIN queue[l] :
          /\ LaneOf[queue[l][i]] = l
          /\ queue[l][i] = queue[l][j] => i = j
    BY <2>1 DEF IInv, LaneInv, QueuesSound
  <2> QED BY <2>3, <2>4 DEF NothingLost
<1> QED BY <1>1, Invariance, PTL

\* No waiter of waitForActiveTasks is forgotten, and none is told "drained" too
\* early (notifyActiveTaskWaiters).
THEOREM WaitersAreExact == Spec => []WaitersExact
<1>1. IInv => WaitersExact
  BY DEF IInv
<1> QED BY <1>1, Invariance, PTL

\* pump(): whoever starts work never takes a lane above its width; a lane a
\* narrowing left above it starts nothing.
THEOREM SlotsAreRespected == Spec => SlotsRespected
<1> DEFINE Respects == \A l \in Lanes : active'[l] \subseteq active[l]
                          \/ Cardinality(active'[l]) <= maxConcurrent'[l]
<1>1. ASSUME IInv, IInv', [Next]_vars PROVE Respects
  <2> SUFFICES ASSUME NEW l \in Lanes, ~ (active'[l] \subseteq active[l])
      PROVE  Cardinality(active'[l]) <= maxConcurrent'[l]
    OBVIOUS
  <2>1. ~ Quiet
    BY DEF Quiet
  <2>2. Pumps
    BY <1>1, <2>1, StepIsTurn
  <2>3. PICK pumped \in SUBSET Lanes : \E q, act, bod : Turn(pumped, q, act, bod)
    BY <2>2 DEF Pumps
  <2>4. PICK q, act, bod : Turn(pumped, q, act, bod)
    BY <2>3
  <2>5. /\ LaneInv(q, act, generation', promise', bod, startGen)
        /\ maxConcurrent' \in [Lanes -> Nat]
        /\ Pump(pumped, q, act, maxConcurrent', generation', bod)
        /\ act[l] \subseteq active[l]
    BY <2>4 DEF Turn
  <2>6. active'[l] # act[l]
    BY <2>5
  <2>7. l \in pumped
    BY <2>5, <2>6, PumpLeavesOthers
  <2> QED BY <2>5, <2>6, <2>7, PumpFills
<1>2. IInv /\ IInv' /\ [Next]_vars => [Respects]_vars
  BY <1>1
<1> HIDE DEF Respects
<1>3. Spec => [][Respects]_vars
  BY <1>2, Invariance, PTL DEF Spec
<1> QED BY <1>3 DEF SlotsRespected, Respects

\* enqueueCommandInLane pushes at the tail, pump() shifts from the head: nothing
\* overtakes an entry as long as it waits.
THEOREM NothingOvertakes == Spec => NoOvertaking
<1> DEFINE Keeps == \A x, y \in Entries : Ahead(x, y) => Ahead(x, y)' \/ ~ InQueue(x)'
<1>1. ASSUME IInv, IInv', [Next]_vars PROVE Keeps
  <2> SUFFICES ASSUME NEW x \in Entries, NEW y \in Entries, Ahead(x, y)
      PROVE  Ahead(x, y)' \/ ~ InQueue(x)'
    OBVIOUS
  <2>1. CASE Quiet
    BY <2>1 DEF Quiet
  <2>2. CASE Pumps
    <3>1. PICK pumped \in SUBSET Lanes : \E q, act, bod : Turn(pumped, q, act, bod)
      BY <2>2 DEF Pumps
    <3>2. PICK q, act, bod : Turn(pumped, q, act, bod)
      BY <3>1
    <3>3. AheadIn(queue, promise, x, y)
      BY <1>1, AheadIsAheadIn DEF IInv
    <3>4. /\ LaneInv(q, act, generation', promise', bod, startGen)
          /\ Pump(pumped, q, act, maxConcurrent', generation', bod)
          /\ AheadIn(q, promise', x, y)
      BY <3>2, <3>3 DEF Turn
    <3>5. \/ AheadIn(queue', promise', x, y)
          \/ ~ \E i \in 1..Len(queue'[LaneOf[x]]) : queue'[LaneOf[x]][i] = x
      BY <3>4, PumpKeepsOrder
    <3>6. LaneOf[x] \in Lanes /\ queue' \in [Lanes -> Seq(Entries)]
      BY <1>1, LanesAssumption DEF IInv, TypeOK, LanesAssumption
    <3>7. DOMAIN queue'[LaneOf[x]] = 1..Len(queue'[LaneOf[x]])
      BY <3>6
    <3> QED BY <3>5, <3>7 DEF Ahead, AheadIn, InQueue
  <2> QED BY <1>1, <2>1, <2>2, StepIsTurn
<1>2. IInv /\ IInv' /\ [Next]_vars => [Keeps]_vars
  BY <1>1
<1> HIDE DEF Keeps
<1>3. Spec => [][Keeps]_vars
  BY <1>2, Invariance, PTL DEF Spec
<1> QED BY <1>3 DEF NoOvertaking, Keeps
=============================================================================
