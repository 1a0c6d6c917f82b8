------------------------- MODULE FollowupQueueProofs -------------------------
(***************************************************************************)
(* Proofs about the follow-up queue of a session, for any messages, routes,*)
(* senders, settings, number of queue objects and bounds.                  *)
(*                                                                         *)
(* A queue object and the drain of it meet in three ways only: the drain   *)
(* goes on (Drains), it is scheduled for the registered object (Scheduled),*)
(* or the registered object gets new contents.  Core says what these keep  *)
(* whatever the settings are: one object holds messages and the registry   *)
(* has it, its messages differ, and no turn merges what must not be.       *)
(* QueueIInv is Core with the types of the other variables.                *)
(*                                                                         *)
(* That no message is lost needs more, and holds only while nothing leaves *)
(* the head of a queue during the turn that carries it: with drop = "new"  *)
(* (NewOnly).  Lined says that then the hand of a turn and its batch are at*)
(* the head of the registered queue, and the message of a sweep at its     *)
(* index, so that every step of a drain takes off what it let go of and no *)
(* other message (Moved).  With drop = "old" or "summarize" a message that *)
(* arrives at a full queue drops the head a turn is carrying, and the turn *)
(* takes the next one off unrun: the run followup_lost_old finds it.       *)
(***************************************************************************)
EXTENDS FollowupQueue, FiniteSetTheorems, WellFoundedInduction, SequenceTheorems, TLAPS

-----------------------------------------------------------------------------
(* Numbers and sequences *)

\* Every set of numbers that is not empty has a least member (by
\* well-foundedness of <, since induction over a predicate cannot be cited).
LEMMA NatLeast ==
  ASSUME NEW T, T \subseteq Nat, T # {}
  PROVE  \E x \in T : \A y \in T : x <= y
<1> DEFINE R == OpToRel(<, Nat)
<1>1. \A x, y \in Nat : <<x, y>> \in R <=> x < y
  BY DEF OpToRel
<1>2. IsWellFoundedOn(R, Nat)
  BY NatLessThanWellFounded
<1> HIDE DEF R
<1>3. PICK x \in T : \A y \in T : ~(<<y, x>> \in R)
  BY <1>2, WFMin
<1>4. \A y \in T : ~(y < x)
  BY <1>1, <1>3
<1>5. \A y \in T : x <= y
  BY <1>4
<1> QED BY <1>3, <1>5

\* A set of numbers up to n has a greatest member.
LEMMA NatGreatest ==
  ASSUME NEW n \in Nat, NEW T \in SUBSET (1..n), T # {}
  PROVE  \E x \in T : \A y \in T : y <= x
<1> DEFINE U == {k \in Nat : \A y \in T : y <= k}
<1>1. n \in U
  OBVIOUS
<1>2. PICK k \in U : \A j \in U : k <= j
  BY <1>1, NatLeast
<1>3. SUFFICES ASSUME k \notin T
               PROVE  FALSE
  BY <1>2
<1>4. PICK y \in T : TRUE
  OBVIOUS
<1>5. k - 1 \in Nat
  BY <1>2, <1>4
<1>6. \A z \in T : z <= k - 1
  BY <1>2, <1>3
<1>7. k - 1 \in U
  BY <1>5, <1>6
<1> QED BY <1>2, <1>7

\* Min picks the least member of a set of numbers.
LEMMA MinIn ==
  ASSUME NEW T \in SUBSET Nat, T # {}
  PROVE  Min(T) \in T
BY NatLeast DEF Min

\* Max picks the greatest member of a set of numbers up to n.
LEMMA MaxIn ==
  ASSUME NEW n \in Nat, NEW T \in SUBSET (1..n), T # {}
  PROVE  Max(T) \in T
BY NatGreatest DEF Max

\* Min of two numbers is one of them and below both.
LEMMA MinOfTwo ==
  ASSUME NEW a \in Nat, NEW b \in Nat
  PROVE  Min({a, b}) \in Nat /\ Min({a, b}) <= a
<1>1. \E x \in {a, b} : \A y \in {a, b} : x <= y
  OBVIOUS
<1> QED BY <1>1 DEF Min

\* The messages of a sequence.
LEMMA ToSetMembers ==
  ASSUME NEW S, NEW s \in Seq(S)
  PROVE  /\ ToSet(s) \subseteq S
         /\ \A m : m \in ToSet(s) <=> \E i \in 1..Len(s) : s[i] = m
BY DEF ToSet

\* What is left of a queue when its first n messages are taken off.
LEMMA BeheadSeq ==
  ASSUME NEW S, NEW s \in Seq(S), NEW n \in Nat, n <= Len(s)
  PROVE  /\ Behead(s, n) \in Seq(S)
         /\ Len(Behead(s, n)) = Len(s) - n
         /\ \A i \in 1..(Len(s) - n) : Behead(s, n)[i] = s[n + i]
         /\ ToSet(Behead(s, n)) \subseteq ToSet(s)
<1>1. /\ Behead(s, n) \in Seq(S)
      /\ Len(Behead(s, n)) = Len(s) - n
  BY DEF Behead
<1>2. \A i \in 1..(Len(s) - n) : Behead(s, n)[i] = s[n + i]
  BY DEF Behead
<1> DEFINE t == Behead(s, n)
<1>3. t \in Seq(S) /\ Len(t) = Len(s) - n /\ \A i \in 1..(Len(s) - n) : t[i] = s[n + i]
  BY <1>1, <1>2
<1> HIDE DEF t
<1>4. \A i \in 1..Len(t) : \E j \in 1..Len(s) : t[i] = s[j]
  <2> SUFFICES ASSUME NEW i \in 1..Len(t)
               PROVE  \E j \in 1..Len(s) : t[i] = s[j]
    OBVIOUS
  <2>1. n + i \in 1..Len(s) /\ t[i] = s[n + i]
    BY <1>3
  <2> QED BY <2>1
<1>5. ToSet(t) \subseteq ToSet(s)
  BY <1>3, <1>4, ToSetMembers
<1> QED BY <1>1, <1>2, <1>5 DEF t

\* Nothing is left of an empty queue.
LEMMA BeheadAll ==
  ASSUME NEW S, NEW s \in Seq(S), NEW n \in Nat, n >= Len(s)
  PROVE  Behead(s, n) = <<>>
BY SubSeqEmpty DEF Behead

\* Taking nothing off a queue leaves it.
LEMMA BeheadZero ==
  ASSUME NEW S, NEW s \in Seq(S)
  PROVE  Behead(s, 0) = s
BY DEF Behead

\* Removing one message moves the ones behind it forward.
LEMMA RemoveSeq ==
  ASSUME NEW S, NEW s \in Seq(S), NEW n \in 1..Len(s)
  PROVE  /\ RemoveAt(s, n) \in Seq(S)
         /\ Len(RemoveAt(s, n)) = Len(s) - 1
         /\ \A i \in 1..(Len(s) - 1) :
              RemoveAt(s, n)[i] = IF i < n THEN s[i] ELSE s[i + 1]
<1> DEFINE a == SubSeq(s, 1, n - 1)
           b == SubSeq(s, n + 1, Len(s))
<1>1. a \in Seq(S) /\ Len(a) = n - 1 /\ \A i \in 1..(n - 1) : a[i] = s[i]
  OBVIOUS
<1>2. b \in Seq(S) /\ Len(b) = Len(s) - n /\ \A i \in 1..(Len(s) - n) : b[i] = s[n + i]
  OBVIOUS
<1> HIDE DEF a, b
<1>3. RemoveAt(s, n) = a \o b
  BY DEF RemoveAt, a, b
<1>0. Len(s) \in Nat /\ n \in Nat /\ 1 <= n /\ n <= Len(s)
  OBVIOUS
<1>4. /\ a \o b \in Seq(S)
      /\ Len(a \o b) = Len(a) + Len(b)
      /\ \A i \in 1..(Len(a) + Len(b)) : (a \o b)[i] = IF i <= Len(a) THEN a[i] ELSE b[i - Len(a)]
  BY <1>1, <1>2, ConcatProperties
<1>6. Len(a \o b) = Len(s) - 1
  BY <1>0, <1>1, <1>2, <1>4
<1>5. \A i \in 1..(Len(s) - 1) : (a \o b)[i] = IF i < n THEN s[i] ELSE s[i + 1]
  <2> SUFFICES ASSUME NEW i \in 1..(Len(s) - 1)
               PROVE  (a \o b)[i] = IF i < n THEN s[i] ELSE s[i + 1]
    OBVIOUS
  <2>1. CASE i < n
    BY <1>0, <1>1, <1>2, <1>4, <2>1
  <2>2. CASE i >= n
    <3>1. i - Len(a) \in 1..(Len(s) - n) /\ n + (i - Len(a)) = i + 1 /\ ~(i <= Len(a))
      BY <1>0, <1>1, <2>2
    <3>2. (a \o b)[i] = b[i - Len(a)]
      BY <1>0, <1>1, <1>2, <1>4, <3>1
    <3>3. b[i - Len(a)] = s[n + (i - Len(a))]
      BY <1>2, <3>1
    <3>4. ~(i < n)
      BY <1>0, <2>2
    <3> QED BY <3>1, <3>2, <3>3, <3>4
  <2>3. i \in Int /\ n \in Int
    BY <1>0
  <2>4. i < n \/ i >= n
    BY <2>3
  <2> QED BY <2>1, <2>2, <2>4
<1> QED BY <1>3, <1>4, <1>5, <1>6

\* It removes no other message.
LEMMA RemoveKeeps ==
  ASSUME NEW S, NEW s \in Seq(S), NEW n \in 1..Len(s), NEW m \in ToSet(s)
  PROVE  m \in ToSet(RemoveAt(s, n)) \/ m = s[n]
<1> SUFFICES ASSUME m # s[n]
             PROVE  m \in ToSet(RemoveAt(s, n))
  OBVIOUS
<1> DEFINE t == RemoveAt(s, n)
<1>1. PICK i \in 1..Len(s) : s[i] = m
  BY DEF ToSet
<1>2. /\ t \in Seq(S) /\ Len(t) = Len(s) - 1
      /\ \A j \in 1..(Len(s) - 1) : t[j] = IF j < n THEN s[j] ELSE s[j + 1]
  BY RemoveSeq
<1> HIDE DEF t
<1>3. DOMAIN t = 1..(Len(s) - 1)
  BY <1>2
<1>4. CASE i < n
  BY <1>1, <1>2, <1>3, <1>4 DEF ToSet, t
<1>5. CASE i > n
  <2>1. i - 1 \in 1..(Len(s) - 1) /\ t[i - 1] = s[i]
    BY <1>1, <1>2, <1>5
  <2> QED BY <2>1, <1>1, <1>3 DEF ToSet, t
<1> QED BY <1>1, <1>4, <1>5

\* It brings no new one in.
LEMMA RemoveOnly ==
  ASSUME NEW S, NEW s \in Seq(S), NEW n \in 1..Len(s)
  PROVE  ToSet(RemoveAt(s, n)) \subseteq ToSet(s)
<1> DEFINE t == RemoveAt(s, n)
<1>2. /\ t \in Seq(S) /\ Len(t) = Len(s) - 1
      /\ \A j \in 1..(Len(s) - 1) : t[j] = IF j < n THEN s[j] ELSE s[j + 1]
  BY RemoveSeq
<1> HIDE DEF t
<1>3. \A j \in 1..(Len(s) - 1) : \E i \in 1..Len(s) : t[j] = s[i]
  <2> SUFFICES ASSUME NEW j \in 1..(Len(s) - 1)
               PROVE  \E i \in 1..Len(s) : t[j] = s[i]
    OBVIOUS
  <2>1. j \in 1..Len(s) /\ j + 1 \in 1..Len(s)
    OBVIOUS
  <2> QED BY <2>1, <1>2
<1>4. ToSet(t) \subseteq ToSet(s)
  BY <1>2, <1>3 DEF ToSet
<1> QED BY <1>4 DEF t

\* Messages that differ still differ when some are taken off the head,
LEMMA BeheadInjective ==
  ASSUME NEW S, NEW s \in Seq(S), NEW n \in Nat, n <= Len(s), IsInjective(s)
  PROVE  IsInjective(Behead(s, n))
<1> DEFINE t == Behead(s, n)
<1>2. /\ t \in Seq(S) /\ Len(t) = Len(s) - n
      /\ \A j \in 1..(Len(s) - n) : t[j] = s[n + j]
  BY BeheadSeq
<1> HIDE DEF t
<1>3. \A i, j \in 1..Len(s) : s[i] = s[j] => i = j
  BY DEF IsInjective
<1>4. ASSUME NEW i \in 1..(Len(s) - n), NEW j \in 1..(Len(s) - n), t[i] = t[j]
      PROVE  i = j
  <2>1. n + i \in 1..Len(s) /\ n + j \in 1..Len(s) /\ s[n + i] = s[n + j]
    BY <1>2, <1>4
  <2>2. n + i = n + j
    BY <2>1, <1>3
  <2> QED BY <2>2
<1> QED BY <1>2, <1>4 DEF IsInjective, t

\* when one of them is removed,
LEMMA RemoveInjective ==
  ASSUME NEW S, NEW s \in Seq(S), NEW n \in 1..Len(s), IsInjective(s)
  PROVE  IsInjective(RemoveAt(s, n))
<1> DEFINE t == RemoveAt(s, n)
<1>2. /\ t \in Seq(S) /\ Len(t) = Len(s) - 1
      /\ \A j \in 1..(Len(s) - 1) : t[j] = IF j < n THEN s[j] ELSE s[j + 1]
  BY RemoveSeq
<1> HIDE DEF t
<1>3. \A i, j \in 1..Len(s) : s[i] = s[j] => i = j
  BY DEF IsInjective
<1>4. \A i, j \in 1..(Len(s) - 1) : t[i] = t[j] => i = j
  BY <1>2, <1>3
<1> QED BY <1>2, <1>4 DEF IsInjective, t

\* and when one joins that does not wait yet.
LEMMA AppendInjectiveTo ==
  ASSUME NEW S, NEW s \in Seq(S), IsInjective(s), NEW m \in S, m \notin ToSet(s)
  PROVE  IsInjective(Append(s, m))
<1>1. \A i, j \in 1..Len(s) : s[i] = s[j] => i = j
  BY DEF IsInjective
<1>2. \A i \in 1..Len(s) : s[i] # m
  BY DEF ToSet
<1> DEFINE t == Append(s, m)
<1>3. /\ t \in Seq(S) /\ Len(t) = Len(s) + 1 /\ t[Len(s) + 1] = m
      /\ \A i \in 1..Len(s) : t[i] = s[i]
  OBVIOUS
<1> HIDE DEF t
<1>4. \A i, j \in 1..Len(t) : t[i] = t[j] => i = j
  BY <1>1, <1>2, <1>3
<1> QED BY <1>3, <1>4 DEF IsInjective, t

\* The messages of two sequences in a row.
LEMMA ToSetConcat ==
  ASSUME NEW S, NEW s \in Seq(S), NEW t \in Seq(S)
  PROVE  ToSet(s \o t) = ToSet(s) \cup ToSet(t)
<1>1. \A m : m \in ToSet(s \o t) <=> \E i \in 1..(Len(s) + Len(t)) : (s \o t)[i] = m
  BY DEF ToSet
<1>2. \A i \in 1..(Len(s) + Len(t)) :
        (s \o t)[i] = IF i <= Len(s) THEN s[i] ELSE t[i - Len(s)]
  OBVIOUS
<1>3. \A m \in ToSet(s) : m \in ToSet(s \o t)
  BY <1>1, <1>2, ToSetMembers
<1>4. ASSUME NEW m \in ToSet(t)
      PROVE  m \in ToSet(s \o t)
  <2>1. PICK i \in 1..Len(t) : t[i] = m
    BY ToSetMembers
  <2>2. i + Len(s) \in 1..(Len(s) + Len(t)) /\ (s \o t)[i + Len(s)] = t[i]
    BY <2>1, <1>2
  <2> QED BY <2>1, <2>2, <1>1
<1>5. \A m \in ToSet(s \o t) : m \in ToSet(s) \cup ToSet(t)
  BY <1>1, <1>2, ToSetMembers
<1> QED BY <1>3, <1>4, <1>5

\* The messages of a sequence and one more.
LEMMA ToSetAppend ==
  ASSUME NEW S, NEW s \in Seq(S), NEW m \in S
  PROVE  ToSet(Append(s, m)) = ToSet(s) \cup {m}
<1> DEFINE t == Append(s, m)
<1>3. /\ t \in Seq(S) /\ Len(t) = Len(s) + 1 /\ t[Len(s) + 1] = m
      /\ \A i \in 1..Len(s) : t[i] = s[i]
  OBVIOUS
<1> HIDE DEF t
<1>1. \A x : x \in ToSet(t) <=> \E i \in 1..(Len(s) + 1) : t[i] = x
  BY <1>3, ToSetMembers
<1>2. \A x : x \in ToSet(s) <=> \E i \in 1..Len(s) : s[i] = x
  BY ToSetMembers
<1>4. \A x : x \in ToSet(t) <=> x \in ToSet(s) \cup {m}
  BY <1>1, <1>2, <1>3
<1> QED BY <1>4 DEF t

-----------------------------------------------------------------------------
(* The members of a finite set of numbers in increasing order *)

Increasing(c, n) == \A j, k \in 1..n : j < k => c[j] < c[k]

\* A set of n numbers can be listed in increasing order: among the sizes for
\* which it cannot, there is no least one.
LEMMA OrderExists ==
  ASSUME NEW N \in Nat
  PROVE  \A n \in Nat : \A B \in SUBSET (1..N) :
           Cardinality(B) = n => \E c \in Bijection(1..n, B) : Increasing(c, n)
<1> DEFINE P(n) == \A B \in SUBSET (1..N) :
                     Cardinality(B) = n => \E c \in Bijection(1..n, B) : Increasing(c, n)
<1>0. \A B \in SUBSET (1..N) : IsFiniteSet(B)
  <2>1. IsFiniteSet(1..N)
    BY FS_Interval, 1 \in Int, N \in Int, ZenonT(30)
  <2> QED BY <2>1, FS_Subset
<1>1. P(0)
  <2> SUFFICES ASSUME NEW B \in SUBSET (1..N), Cardinality(B) = 0
               PROVE  \E c \in Bijection(1..0, B) : Increasing(c, 0)
    OBVIOUS
  <2>1. B = {}
    BY <1>0, FS_EmptySet
  <2>2. [i \in 1..0 |-> i] \in Bijection(1..0, B)
    BY <2>1 DEF Bijection, Injection, Surjection, IsInjective
  <2> QED BY <2>2 DEF Increasing
<1>2. ASSUME NEW n \in Nat, P(n)
      PROVE  P(n + 1)
  <2> SUFFICES ASSUME NEW B \in SUBSET (1..N), Cardinality(B) = n + 1
               PROVE  \E c \in Bijection(1..(n + 1), B) : Increasing(c, n + 1)
    OBVIOUS
  <2>1. B # {}
    BY FS_EmptySet
  <2>2. PICK x \in B : \A y \in B : y <= x
    BY <2>1, NatGreatest
  <2>3. Cardinality(B \ {x}) = n
    <3>1. IsFiniteSet(B)
      BY <1>0
    <3>2. Cardinality(B \ {x}) = Cardinality(B) - 1
      BY <3>1, FS_RemoveElement, Zenon
    <3> QED BY <3>2
  <2>4. PICK c \in Bijection(1..n, B \ {x}) : Increasing(c, n)
    BY <2>3, <1>2
  <2>5. /\ c \in [1..n -> B \ {x}]
        /\ \A i, j \in 1..n : c[i] = c[j] => i = j
        /\ \A y \in B \ {x} : \E i \in 1..n : c[i] = y
    BY DEF Bijection, Injection, Surjection, IsInjective
  <2> DEFINE d == [i \in 1..(n + 1) |-> IF i = n + 1 THEN x ELSE c[i]]
  <2>6. /\ d \in [1..(n + 1) -> B] /\ d[n + 1] = x
        /\ \A i \in 1..n : d[i] = c[i] /\ d[i] \in B \ {x}
    BY <2>5
  <2> HIDE DEF d
  <2>7. \A i \in 1..(n + 1) : i \in 1..n \/ i = n + 1
    OBVIOUS
  <2>8. \A i, j \in 1..(n + 1) : d[i] = d[j] => i = j
    BY <2>5, <2>6, <2>7
  <2>9. \A y \in B : \E i \in 1..(n + 1) : d[i] = y
    <3> SUFFICES ASSUME NEW y \in B
                 PROVE  \E i \in 1..(n + 1) : d[i] = y
      OBVIOUS
    <3>1. CASE y = x
      BY <2>6, <3>1
    <3>2. CASE y # x
      BY <2>5, <2>6, <3>2
    <3> QED BY <3>1, <3>2
  <2>10. d \in Bijection(1..(n + 1), B)
    BY <2>6, <2>8, <2>9 DEF Bijection, Injection, Surjection, IsInjective
  <2>11. Increasing(d, n + 1)
    <3> SUFFICES ASSUME NEW j \in 1..(n + 1), NEW k \in 1..(n + 1), j < k
                 PROVE  d[j] < d[k]
      BY DEF Increasing
    <3>1. j \in 1..n
      OBVIOUS
    <3>2. CASE k \in 1..n
      BY <3>1, <3>2, <2>4, <2>6 DEF Increasing
    <3>3. CASE k = n + 1
      <4>1. d[j] \in B /\ d[j] # x /\ d[k] = x
        BY <3>1, <3>3, <2>6
      <4>2. \A y \in B : y \in Int /\ y <= x
        BY <2>2
      <4>3. d[j] <= x /\ d[j] \in Int /\ x \in Int
        BY <4>1, <4>2
      <4> QED BY <4>1, <4>3
    <3> QED BY <2>7, <3>2, <3>3
  <2> QED BY <2>10, <2>11
<1> HIDE DEF P
<1>3. \A n \in Nat : P(n)
  <2> SUFFICES ASSUME {n \in Nat : ~P(n)} # {}
               PROVE  FALSE
    OBVIOUS
  <2>1. PICK n \in {n \in Nat : ~P(n)} : \A k \in {k \in Nat : ~P(k)} : n <= k
    BY NatLeast
  <2>2. n # 0 /\ n - 1 \in Nat
    BY <2>1, <1>1
  <2>3. P(n - 1)
    BY <2>1, <2>2
  <2>4. P((n - 1) + 1)
    BY <2>2, <2>3, <1>2
  <2> QED BY <2>1, <2>2, <2>4
<1> QED BY <1>3 DEF P

\* InOrder lists the members of a set of numbers in increasing order.
LEMMA InOrderIs ==
  ASSUME NEW N \in Nat, NEW B \in SUBSET (1..N)
  PROVE  /\ Cardinality(B) \in Nat
         /\ InOrder(B) \in [1..Cardinality(B) -> B]
         /\ \A b \in B : \E i \in 1..Cardinality(B) : InOrder(B)[i] = b
         /\ \A j, k \in 1..Cardinality(B) : j < k => InOrder(B)[j] < InOrder(B)[k]
<1>1. IsFiniteSet(B) /\ Cardinality(B) \in Nat
  <2>1. IsFiniteSet(1..N)
    BY FS_Interval, 1 \in Int, N \in Int, ZenonT(30)
  <2> QED BY <2>1, FS_Subset, FS_CardinalityType
<1>2. \E c \in Bijection(1..Cardinality(B), B) : Increasing(c, Cardinality(B))
  BY <1>1, OrderExists
<1>3. /\ InOrder(B) \in Bijection(1..Cardinality(B), B)
      /\ \A j, k \in 1..Cardinality(B) : j < k => InOrder(B)[j] < InOrder(B)[k]
  BY <1>2 DEF InOrder, Increasing
<1> QED BY <1>1, <1>3 DEF Bijection, Injection, Surjection

-----------------------------------------------------------------------------
(* Stretches of messages with one authorization key *)

\* AuthGroups cuts a batch, from its first message to its last, into stretches
\* whose messages have one authorization key.
LEMMA GroupsSplit ==
  ASSUME NEW items \in Seq(Msgs), items # <<>>
  PROVE  LET g == AuthGroups(items) IN
         \E n \in Nat \ {0} : \E cut \in [0..n -> 0..Len(items)] :
           /\ g \in [1..n -> Seq(Msgs)]
           /\ cut[0] = 0
           /\ \A k \in 1..n : /\ cut[k-1] < cut[k]
                              /\ g[k] = SubSeq(items, cut[k-1] + 1, cut[k])
                              /\ \A i \in (cut[k-1] + 1)..cut[k] :
                                   SenderOf[items[i]] = SenderOf[items[cut[k-1] + 1]]
<1> DEFINE L == Len(items)
           B == Starts(items)
           n == Cardinality(B)
           c == InOrder(B)
           end(k) == IF k = n THEN L ELSE c[k + 1] - 1
           cut == [k \in 0..n |-> IF k = 0 THEN 0 ELSE end(k)]
           g == AuthGroups(items)
<1>1. L \in Nat /\ L > 0
  BY EmptySeq, LenProperties
<1>2. B \in SUBSET (1..L) /\ 1 \in B
  BY <1>1 DEF Starts
<1>3. \A i \in 2..L : i \notin B => SenderOf[items[i]] = SenderOf[items[i-1]]
  BY DEF Starts
<1>g. g = [k \in 1..n |-> SubSeq(items, c[k], end(k))]
  BY DEF AuthGroups
<1> HIDE DEF B, g
<1>4. /\ n \in Nat /\ c \in [1..n -> B]
      /\ \A b \in B : \E i \in 1..n : c[i] = b
      /\ \A j, k \in 1..n : j < k => c[j] < c[k]
  BY <1>1, <1>2, InOrderIs
<1> HIDE DEF n, c
<1>5. \A k \in 1..n : c[k] \in 1..L
  BY <1>2, <1>4
<1>6. n > 0 /\ c[1] = 1
  <2>1. PICK i \in 1..n : c[i] = 1
    BY <1>2, <1>4
  <2>2. n > 0 /\ 1 \in 1..n
    BY <2>1, <1>4
  <2>3. i # 1 => c[1] < 1
    BY <2>1, <2>2, <1>4
  <2> QED BY <2>1, <2>2, <2>3, <1>5
<1>7. \A k \in 1..n : c[k] <= end(k) /\ end(k) \in 1..L
  <2> SUFFICES ASSUME NEW k \in 1..n
               PROVE  c[k] <= end(k) /\ end(k) \in 1..L
    OBVIOUS
  <2>1. CASE k = n
    BY <2>1, <1>1, <1>5
  <2>2. CASE k # n
    <3>1. k + 1 \in 1..n
      BY <2>2, <1>4
    <3>2. c[k] < c[k + 1] /\ c[k] \in 1..L /\ c[k + 1] \in 1..L
      BY <3>1, <1>4, <1>5
    <3> QED BY <2>2, <3>2, <1>1
  <2> QED BY <2>1, <2>2
<1>8. \A k \in 1..n : \A i \in c[k]..end(k) : SenderOf[items[i]] = SenderOf[items[c[k]]]
  <2> SUFFICES ASSUME NEW k \in 1..n,
                      {i \in c[k]..end(k) : SenderOf[items[i]] # SenderOf[items[c[k]]]} # {}
               PROVE  FALSE
    OBVIOUS
  <2> DEFINE W == {i \in c[k]..end(k) : SenderOf[items[i]] # SenderOf[items[c[k]]]}
  <2>0. c[k] \in 1..L /\ end(k) \in 1..L
    BY <1>5, <1>7
  <2>1. W \subseteq Nat /\ W # {}
    BY <2>0
  <2>2. PICK i \in W : \A j \in W : i <= j
    BY <2>1, NatLeast
  <2>3. i \in c[k]..end(k) /\ i # c[k] /\ i \in Nat
    BY <2>1
  <2>4. i - 1 \in c[k]..end(k) /\ i \in 2..L
    BY <2>0, <2>3
  <2>5. i - 1 \notin W
    BY <2>2, <2>4
  <2>6. SenderOf[items[i - 1]] = SenderOf[items[c[k]]]
    BY <2>4, <2>5
  <2>7. i \in B
    BY <2>4, <2>6, <1>3
  <2>8. PICK j \in 1..n : c[j] = i
    BY <2>7, <1>4
  <2>9. c[k] < c[j]
    BY <2>3, <2>8, <2>0
  <2>10. j > k
    <3>1. j < k => c[j] < c[k]
      BY <1>4
    <3> QED BY <3>1, <2>9, <1>5
  <2>11. k # n /\ k + 1 \in 1..n
    BY <2>10, <1>4
  <2>12. c[k + 1] <= c[j] /\ c[k + 1] \in 1..L
    <3>1. j = k + 1 \/ k + 1 < j
      BY <2>10
    <3> QED BY <3>1, <2>11, <1>4, <1>5
  <2>13. end(k) = c[k + 1] - 1
    BY <2>11
  <2> QED BY <2>3, <2>8, <2>12, <2>13, <1>5
<1>e. \A k \in 1..n : k # n => end(k) = c[k + 1] - 1
  OBVIOUS
<1> HIDE DEF end
<1>c. \A k \in 0..n : cut[k] = IF k = 0 THEN 0 ELSE end(k)
  OBVIOUS
<1>11. cut \in [0..n -> 0..L] /\ cut[0] = 0
  <2>1. \A k \in 0..n : k # 0 => end(k) \in 0..L
    BY <1>1, <1>4, <1>7
  <2>2. 0 \in 0..n /\ 0 \in 0..L
    BY <1>1, <1>4
  <2> QED BY <2>1, <2>2
<1> HIDE DEF cut
<1>9. \A k \in 1..n : cut[k - 1] = c[k] - 1
  <2> SUFFICES ASSUME NEW k \in 1..n
               PROVE  cut[k - 1] = c[k] - 1
    OBVIOUS
  <2>1. CASE k = 1
    BY <2>1, <1>6, <1>11
  <2>2. CASE k # 1
    <3>1. k - 1 \in 1..n /\ k - 1 # n /\ k - 1 # 0 /\ k - 1 \in 0..n /\ (k - 1) + 1 = k
      BY <2>2, <1>4
    <3>2. cut[k - 1] = end(k - 1) /\ end(k - 1) = c[(k - 1) + 1] - 1
      BY <3>1, <1>c, <1>e
    <3> QED BY <3>1, <3>2
  <2> QED BY <2>1, <2>2
<1>10. \A k \in 1..n : cut[k] = end(k)
  BY <1>4, <1>c
<1>12. g \in [1..n -> Seq(Msgs)]
  <2>1. \A k \in 1..n : SubSeq(items, c[k], end(k)) \in Seq(Msgs)
    BY <1>5, <1>7
  <2> QED BY <2>1, <1>g
<1>13. \A k \in 1..n : /\ cut[k-1] < cut[k] /\ cut[k-1] + 1 = c[k]
                       /\ g[k] = SubSeq(items, cut[k-1] + 1, cut[k])
                       /\ \A i \in (cut[k-1] + 1)..cut[k] :
                            SenderOf[items[i]] = SenderOf[items[cut[k-1] + 1]]
  <2> SUFFICES ASSUME NEW k \in 1..n
               PROVE  /\ cut[k-1] < cut[k] /\ cut[k-1] + 1 = c[k]
                      /\ g[k] = SubSeq(items, cut[k-1] + 1, cut[k])
                      /\ \A i \in (cut[k-1] + 1)..cut[k] :
                            SenderOf[items[i]] = SenderOf[items[cut[k-1] + 1]]
    OBVIOUS
  <2>1. cut[k-1] + 1 = c[k] /\ cut[k] = end(k) /\ cut[k-1] < cut[k]
    BY <1>5, <1>7, <1>9, <1>10
  <2> QED BY <2>1, <1>8, <1>g
<1> n \in Nat \ {0} /\ cut \in [0..n -> 0..L]
  BY <1>4, <1>6, <1>11
<1> SUFFICES \E n_1 \in Nat \ {0} : \E cut_1 \in [0..n_1 -> 0..L] :
           /\ g \in [1..n_1 -> Seq(Msgs)]
           /\ cut_1[0] = 0
           /\ \A k \in 1..n_1 :
                /\ cut_1[k-1] < cut_1[k]
                /\ g[k] = SubSeq(items, cut_1[k-1] + 1, cut_1[k])
                /\ \A i \in (cut_1[k-1] + 1)..cut_1[k] :
                     SenderOf[items[i]] = SenderOf[items[cut_1[k-1] + 1]]
  BY DEF g
<1> WITNESS n \in Nat \ {0}
<1> WITNESS cut \in [0..n -> 0..L]
<1> QED BY <1>11, <1>12, <1>13

-----------------------------------------------------------------------------
(* The hand of a turn and the batch behind it *)

\* Messages that may be told in one turn.
NoMix(ms) ==
  \A m, n \in ToSet(ms) :
    m # n => /\ RouteOf[m] = RouteOf[n] /\ SenderOf[m] = SenderOf[n]
             /\ {m, n} \cap Solo = {}

\* Messages that may be told in the turns of one batch, and in collect mode
\* the batch a summary may go to.
Batched(hand, rest, told, job) ==
  /\ \A m, n \in Batch(hand, rest) : m # n => RouteOf[m] = RouteOf[n] /\ {m, n} \cap Solo = {}
  /\ told # <<>> /\ job # "carry" =>
       \A m \in Batch(hand, rest) : m \notin Solo /\ RouteOf[m] # Unroutable

\* A prefix, place by place.
LEMMA PrefixIs ==
  ASSUME NEW S, NEW s \in Seq(S), NEW t \in Seq(S)
  PROVE  IsPrefix(s, t) <=> Len(s) <= Len(t) /\ \A i \in 1..Len(s) : s[i] = t[i]
<1> SUFFICES ASSUME Len(s) <= Len(t)
             PROVE  SubSeq(s, 1, Len(s)) = SubSeq(t, 1, Len(s))
                      <=> \A i \in 1..Len(s) : s[i] = t[i]
  BY DEF IsPrefix
<1> DEFINE u == SubSeq(t, 1, Len(s))
<1>1. u \in Seq(S) /\ Len(u) = Len(s) /\ \A i \in 1..Len(s) : u[i] = t[i]
  OBVIOUS
<1> HIDE DEF u
<1>2. SubSeq(s, 1, Len(s)) = s
  OBVIOUS
<1>3. s = u <=> \A i \in 1..Len(s) : s[i] = u[i]
  BY <1>1, SeqEqual
<1> QED BY <1>1, <1>2, <1>3 DEF u

\* Messages that do not cross routes share one.
LEMMA OneRoute ==
  ASSUME NEW items \in Seq(Msgs), ~Cross(items),
         NEW m \in ToSet(items), NEW n \in ToSet(items)
  PROVE  RouteOf[m] = RouteOf[n]
<1> DEFINE R == {RouteOf[x] : x \in ToSet(items)}
<1> SUFFICES ASSUME RouteOf[m] # RouteOf[n]
             PROVE  Cardinality(R) > 1
  BY DEF Cross
<1>1. [i \in 1..Len(items) |-> RouteOf[items[i]]] \in Surjection(1..Len(items), R)
  <2>1. \A i \in 1..Len(items) : RouteOf[items[i]] \in R
    BY ToSetMembers
  <2>2. \A r \in R : \E i \in 1..Len(items) : RouteOf[items[i]] = r
    BY ToSetMembers
  <2> HIDE DEF R
  <2> QED BY <2>1, <2>2 DEF Surjection
<1>2. IsFiniteSet(R)
  <2>1. IsFiniteSet(1..Len(items))
    BY FS_Interval, 1 \in Int, Len(items) \in Int, ZenonT(30)
  <2> HIDE DEF R
  <2> QED BY <1>1, <2>1, FS_Surjection
<1> DEFINE x == RouteOf[m]
           y == RouteOf[n]
<1>3. x \in R /\ y \in R /\ x # y
  OBVIOUS
<1> HIDE DEF x, y, R
<1>4. IsFiniteSet({x}) /\ Cardinality({x}) = 1
  BY FS_Singleton
<1>5. Cardinality({x} \cup {y}) = 2
  <2>1. y \notin {x}
    BY <1>3
  <2>2. Cardinality({x} \cup {y}) = Cardinality({x}) + 1
    BY <1>4, <2>1, FS_AddElement, Zenon
  <2> DEFINE c == Cardinality({x} \cup {y})
             d == Cardinality({x})
  <2>3. c = d + 1 /\ d = 1
    BY <1>4, <2>2, Zenon
  <2> HIDE DEF c, d
  <2>4. c = 2
    BY <2>3
  <2> QED BY <2>4 DEF c
<1>6. {x} \cup {y} \subseteq R
  BY <1>3
<1> DEFINE U == {x} \cup {y}
           c == Cardinality(R)
<1>7. Cardinality(U) = 2 /\ U \in SUBSET R
  BY <1>5, <1>6
<1> HIDE DEF U
<1>8. Cardinality(U) <= c
  BY <1>2, <1>7, FS_Subset
<1>10. c \in Nat
  BY <1>2, FS_CardinalityType
<1> HIDE DEF c
<1>11. c > 1
  BY <1>7, <1>8, <1>10
<1>9. Cardinality(R) > 1
  BY <1>11 DEF c
<1> QED BY <1>9 DEF R

\* The groups of a batch without cross-route messages and without runtime-only
\* metadata may each be told in one turn, and follow one another from the head.
LEMMA GroupsUsable ==
  ASSUME NEW items \in Seq(Msgs), items # <<>>,
         ~Cross(items), ToSet(items) \cap Solo = {}
  PROVE  LET g == AuthGroups(items) IN
         /\ g \in Seq(Seq(Msgs)) /\ Len(g) > 0
         /\ \A k \in 1..Len(g) : NoMix(g[k])
         /\ \A told, job : Batched(g[1], Tail(g), told, job)
         /\ IsPrefix(g[1], items)
         /\ Consecutive(items, Len(g[1]), Tail(g))
<1> DEFINE g == AuthGroups(items)
           L == Len(items)
<1>1. PICK n \in Nat \ {0} : \E cut \in [0..n -> 0..L] :
        /\ g \in [1..n -> Seq(Msgs)]
        /\ cut[0] = 0
        /\ \A k \in 1..n : /\ cut[k-1] < cut[k]
                           /\ g[k] = SubSeq(items, cut[k-1] + 1, cut[k])
                           /\ \A i \in (cut[k-1] + 1)..cut[k] :
                                SenderOf[items[i]] = SenderOf[items[cut[k-1] + 1]]
  BY GroupsSplit
<1>0. L \in Nat
  OBVIOUS
<1> HIDE DEF g
<1>2. PICK cut \in [0..n -> 0..L] :
        /\ g \in [1..n -> Seq(Msgs)]
        /\ cut[0] = 0
        /\ \A k \in 1..n : /\ cut[k-1] < cut[k]
                           /\ g[k] = SubSeq(items, cut[k-1] + 1, cut[k])
                           /\ \A i \in (cut[k-1] + 1)..cut[k] :
                                SenderOf[items[i]] = SenderOf[items[cut[k-1] + 1]]
  BY <1>1
<1>3. g \in Seq(Seq(Msgs)) /\ Len(g) = n
  BY <1>2
<1>4. \A k \in 1..n : cut[k] \in 0..L /\ cut[k-1] \in 0..L
  <2>1. \A k \in 1..n : k \in 0..n /\ k - 1 \in 0..n
    OBVIOUS
  <2> QED BY <2>1
<1>c. \A k \in 1..n : cut[k-1] < cut[k] /\ g[k] = SubSeq(items, cut[k-1] + 1, cut[k])
  BY <1>2
<1>s. \A k \in 1..n : \A i \in (cut[k-1] + 1)..cut[k] :
        SenderOf[items[i]] = SenderOf[items[cut[k-1] + 1]]
  BY <1>2
<1>5. \A k \in 1..n : /\ Len(g[k]) = cut[k] - cut[k-1]
                      /\ \A i \in 1..Len(g[k]) : g[k][i] = items[cut[k-1] + i]
  <2> SUFFICES ASSUME NEW k \in 1..n
               PROVE  /\ Len(g[k]) = cut[k] - cut[k-1]
                      /\ \A i \in 1..Len(g[k]) : g[k][i] = items[cut[k-1] + i]
    OBVIOUS
  <2> DEFINE a == cut[k-1] + 1
             b == cut[k]
  <2>0. cut[k] \in 0..L /\ cut[k-1] \in 0..L /\ cut[k-1] < cut[k]
    BY <1>4, <1>c
  <2>1. a \in 1..L /\ b \in 1..L /\ a <= b
    BY <1>0, <2>0
  <2>2. g[k] = SubSeq(items, a, b)
    BY <1>2
  <2>3. cut[k-1] = a - 1 /\ cut[k-1] \in Int
    BY <1>4
  <2> HIDE DEF a, b
  <2>4. /\ Len(SubSeq(items, a, b)) = b - a + 1
        /\ \A i \in 1..(b - a + 1) : SubSeq(items, a, b)[i] = items[a + i - 1]
    BY <2>1
  <2>5. b - a + 1 = b - cut[k-1]
    BY <2>1, <2>3
  <2>6. \A i \in 1..(b - a + 1) : a + i - 1 = cut[k-1] + i
    BY <2>1, <2>3
  <2> QED BY <2>2, <2>4, <2>5, <2>6 DEF b
<1>6. \A k \in 1..n : NoMix(g[k])
  <2> SUFFICES ASSUME NEW k \in 1..n, NEW x \in ToSet(g[k]), NEW y \in ToSet(g[k])
               PROVE  /\ RouteOf[x] = RouteOf[y] /\ SenderOf[x] = SenderOf[y]
                      /\ {x, y} \cap Solo = {}
    BY DEF NoMix
  <2>0. g[k] \in Seq(Msgs)
    BY <1>2
  <2> DEFINE h == g[k]
             b == cut[k-1]
  <2>7. /\ Len(h) = cut[k] - b /\ b \in 0..L /\ cut[k] \in 0..L
        /\ \A i \in 1..Len(h) : h[i] = items[b + i]
    BY <1>4, <1>5
  <2>8. \A i \in (b + 1)..cut[k] : SenderOf[items[i]] = SenderOf[items[b + 1]]
    BY <1>s
  <2> HIDE DEF h, b, L
  <2>9. \A z \in ToSet(h) : \E i \in 1..Len(h) : h[i] = z
    BY <2>0, ToSetMembers DEF h
  <2>1. PICK i \in 1..Len(h) : h[i] = x
    BY <2>9 DEF h
  <2>2. PICK j \in 1..Len(h) : h[j] = y
    BY <2>9 DEF h
  <2>3. \A z \in 1..Len(h) : b + z \in (b + 1)..cut[k] /\ b + z \in 1..L
    BY <1>0, <2>7
  <2>4. x = items[b + i] /\ y = items[b + j]
    BY <2>7, <2>1, <2>2
  <2>5. x \in ToSet(items) /\ y \in ToSet(items)
    <3>1. b + i \in 1..L /\ b + j \in 1..L
      BY <2>3
    <3> QED BY <3>1, <2>4, ToSetMembers DEF L
  <2>6. SenderOf[x] = SenderOf[y]
    <3>1. b + i \in (b + 1)..cut[k] /\ b + j \in (b + 1)..cut[k]
      BY <2>3
    <3> QED BY <3>1, <2>4, <2>8
  <2> QED BY <2>5, <2>6, OneRoute
<1>9. \A k \in 1..n : ToSet(g[k]) \subseteq ToSet(items)
  <2> SUFFICES ASSUME NEW k \in 1..n, NEW x \in ToSet(g[k])
               PROVE  x \in ToSet(items)
    OBVIOUS
  <2> DEFINE h == g[k]
             b == cut[k-1]
  <2>7. /\ Len(h) = cut[k] - b /\ b \in 0..L /\ cut[k] \in 0..L
        /\ \A i \in 1..Len(h) : h[i] = items[b + i]
    BY <1>4, <1>5
  <2>0. h \in Seq(Msgs)
    BY <1>2
  <2>9. x \in ToSet(h)
    OBVIOUS
  <2> HIDE DEF h, b, L
  <2>1. PICK i \in 1..Len(h) : h[i] = x
    BY <2>0, <2>9, ToSetMembers
  <2>2. x = items[b + i]
    BY <2>7, <2>1
  <2>3. Len(h) = cut[k] - b /\ b \in 0..L /\ cut[k] \in 0..L
    BY <2>7
  <2>4. b + i \in 1..L
    BY <1>0, <2>3, <2>1
  <2>5. \A j \in 1..L : items[j] \in ToSet(items)
    BY ToSetMembers DEF L
  <2> QED BY <2>2, <2>4, <2>5
<1>10. \A told, job : Batched(g[1], Tail(g), told, job)
  <2>1. Batch(g[1], Tail(g)) \subseteq ToSet(items)
    <3>1. /\ Tail(g) \in Seq(Seq(Msgs)) /\ Len(Tail(g)) = n - 1 /\ 1 \in 1..n
          /\ \A k \in 1..Len(Tail(g)) : Tail(g)[k] = g[k + 1] /\ k + 1 \in 1..n
      BY <1>3
    <3> QED BY <3>1, <1>9 DEF Batch
  <2>2. \A m \in ToSet(items) : m \notin Solo /\ RouteOf[m] # Unroutable
    BY DEF Cross
  <2> QED BY <2>1, <2>2, OneRoute DEF Batched
<1>7. IsPrefix(g[1], items) /\ Len(g[1]) = cut[1]
  <2>1. 1 \in 1..n /\ 1 - 1 = 0
    OBVIOUS
  <2>4. /\ Len(g[1]) = cut[1] - cut[0] /\ cut[0] = 0 /\ cut[1] \in 0..L
        /\ \A i \in 1..Len(g[1]) : g[1][i] = items[cut[0] + i]
    BY <2>1, <1>2, <1>4, <1>5
  <2>2. Len(g[1]) = cut[1] /\ cut[1] \in 0..L /\ \A i \in 1..Len(g[1]) : g[1][i] = items[i]
    BY <1>0, <2>4
  <2>3. g[1] \in Seq(Msgs)
    BY <2>1, <1>2
  <2> QED BY <2>2, <2>3, PrefixIs
<1>8. Consecutive(items, Len(g[1]), Tail(g))
  <2> DEFINE t == Tail(g)
             d == [k \in 0..(n - 1) |-> cut[k + 1]]
  <2>1. Len(t) = n - 1 /\ \A k \in 1..(n - 1) : t[k] = g[k + 1]
    BY <1>3
  <2> HIDE DEF t
  <2>2. \A k \in 0..(n - 1) : k + 1 \in 1..n
    OBVIOUS
  <2>3. d \in [0..(n - 1) -> 0..L] /\ d[0] = cut[1]
    BY <2>2, <1>4
  <2>4. \A k \in 1..(n - 1) : d[k-1] <= d[k] /\ t[k] = SubSeq(items, d[k-1] + 1, d[k])
    <3> SUFFICES ASSUME NEW k \in 1..(n - 1)
                 PROVE  d[k-1] <= d[k] /\ t[k] = SubSeq(items, d[k-1] + 1, d[k])
      OBVIOUS
    <3>1. k + 1 \in 1..n /\ k \in 1..n /\ k - 1 \in 0..(n - 1) /\ k \in 0..(n - 1)
          /\ (k + 1) - 1 = k /\ (k - 1) + 1 = k
      OBVIOUS
    <3>2. d[k] = cut[k + 1] /\ d[k - 1] = cut[k]
      BY <3>1
    <3>3. cut[k] < cut[k + 1] /\ g[k + 1] = SubSeq(items, cut[k] + 1, cut[k + 1])
      BY <3>1, <1>2
    <3>4. cut[k] \in Int /\ cut[k + 1] \in Int
      BY <3>1, <1>4
    <3>5. t[k] = g[k + 1]
      BY <2>1
    <3>6. t[k] = SubSeq(items, d[k - 1] + 1, d[k])
      BY <3>5, <3>2, <3>3
    <3> QED BY <3>6, <3>2, <3>3, <3>4
  <2> HIDE DEF d
  <2> QED BY <2>1, <2>3, <2>4, <1>7 DEF Consecutive, t
<1> QED BY <1>3, <1>6, <1>7, <1>8, <1>10 DEF g

-----------------------------------------------------------------------------
(* Queue objects and drains that fit together *)

QueueObjects ==
  [items : Seq(Msgs), over : Seq(Msgs), lines : Nat, sources : Seq(Msgs),
   mode : {"followup", "collect"}, cap : Nat \ {0}, drop : {"summarize", "old", "new"}]

DrainStates ==
  [pc : {"off", "sweep", "debounce", "resweep", "opening", "running"}, at : Nat,
   job : {"none", "item", "carry", "group", "summary"}, hand : Seq(Msgs),
   rest : Seq(Seq(Msgs)), told : Seq(Msgs), force : BOOLEAN]

\* A queue object whose messages differ and whose summary lines are of messages
\* it dropped.
Sound(Q) ==
  /\ Q \in QueueObjects
  /\ Q.lines <= Len(Q.over)
  /\ IsInjective(Q.items)

\* A drain that merges only messages that may be told in one turn.
Steady(D) ==
  /\ D \in DrainStates
  /\ D.pc \in {"sweep", "resweep"} => D.at > 0
  /\ NoMix(D.hand)
  /\ \A k \in 1..Len(D.rest) : NoMix(D.rest[k])
  /\ Batched(D.hand, D.rest, D.told, D.job)

\* The message a sweep has shown to the runner is at its index; the hand of a
\* turn is at the head and the rest of its batch behind it.
Laid(Q, D) ==
  /\ D.pc \in {"sweep", "resweep"} =>
       D.at \in 1..Len(Q.items) /\ D.hand = <<Q.items[D.at]>>
  /\ D.pc \in {"opening", "running"} =>
       IsPrefix(D.hand, Q.items) /\ Consecutive(Q.items, Len(D.hand), D.rest)

\* What the drain of Q turns to whenever it looks at its queue.
Fit(Q, D) ==
  /\ Steady(D)
  /\ Laid(Q, D)
  /\ D.pc = "off" => Empty(Q)
  /\ Q.over = <<>> => D.told = <<>> /\ D.job \notin {"carry", "summary"}

\* A turn of no message or one merges nothing.
LEMMA NoMixFew ==
  /\ NoMix(<<>>)
  /\ \A m : NoMix(<<m>>)
  /\ \A told, job : Batched(<<>>, <<>>, told, job)
  /\ \A m, told, job : told = <<>> \/ job = "carry" => Batched(<<m>>, <<>>, told, job)
<1>1. ToSet(<<>>) = {} /\ \A m : ToSet(<<m>>) = {m}
  BY DEF ToSet
<1>2. Batch(<<>>, <<>>) = {} /\ \A m : Batch(<<m>>, <<>>) = {m}
  BY <1>1 DEF Batch
<1> QED BY <1>1, <1>2 DEF NoMix, Batched

\* The fields of an idle drain.
LEMMA IdleDrain ==
  /\ Idle \in DrainStates
  /\ Idle.pc = "off" /\ Idle.at = 0 /\ Idle.job = "none" /\ Idle.hand = <<>>
  /\ Idle.rest = <<>> /\ Idle.told = <<>> /\ Idle.force = FALSE
BY DEF Idle, DrainStates

\* Every state that a drain turns to fits the queue it looked at: off,
LEMMA IdleFit ==
  ASSUME NEW Q, Sound(Q), Empty(Q)
  PROVE  Fit(Q, Idle)
BY NoMixFew DEF Fit, Steady, Laid, Idle, DrainStates

\* waiting for the debounce,
LEMMA WaitFit ==
  ASSUME NEW Q, Sound(Q), NEW force \in BOOLEAN
  PROVE  Fit(Q, [Idle EXCEPT !.pc = "debounce", !.force = force])
<1> DEFINE D == [Idle EXCEPT !.pc = "debounce", !.force = force]
<1>1. D \in DrainStates
  BY IdleDrain DEF DrainStates
<1>2. /\ D.pc = "debounce" /\ D.hand = <<>> /\ D.rest = <<>> /\ D.told = <<>>
      /\ D.job = "none"
  BY DEF Idle
<1> HIDE DEF D
<1>3. Steady(D) /\ Laid(Q, D)
  BY <1>1, <1>2, NoMixFew DEF Steady, Laid
<1> QED BY <1>2, <1>3 DEF Fit, D

\* showing an aborted message to the runner,
LEMMA DiscardingFit ==
  ASSUME NEW Q, Sound(Q), NEW upTo \in 0..Len(Q.items), AbortedAt(Q, upTo) # {},
         NEW pc \in {"sweep", "resweep"}, NEW force \in BOOLEAN
  PROVE  Fit(Q, Discarding(Q, upTo, pc, force))
<1> DEFINE i == Max(AbortedAt(Q, upTo))
           m == Q.items[i]
           D == Discarding(Q, upTo, pc, force)
<1>1. Q.items \in Seq(Msgs) /\ Len(Q.items) \in Nat
  BY DEF Sound, QueueObjects
<1>2. AbortedAt(Q, upTo) \in SUBSET (1..upTo) /\ upTo \in Nat /\ upTo <= Len(Q.items)
  BY <1>1 DEF AbortedAt
<1>3. i \in 1..upTo
  BY <1>2, MaxIn
<1>4. D = [Idle EXCEPT !.pc = pc, !.at = i, !.hand = <<m>>, !.force = force]
  BY DEF Discarding
<1> HIDE DEF i, D
<1>5. i \in 1..Len(Q.items) /\ i \in Nat /\ i > 0
  BY <1>1, <1>2, <1>3
<1>6. m \in Msgs
  BY <1>1, <1>5
<1>7. <<m>> \in Seq(Msgs)
  BY <1>6
<1>8. /\ D.pc = pc /\ D.at = i /\ D.hand = <<Q.items[i]>> /\ D.rest = <<>> /\ D.told = <<>>
      /\ D.job = "none"
  BY <1>4 DEF Idle
<1> HIDE DEF m
<1>9. D \in DrainStates
  BY <1>4, <1>5, <1>7, IdleDrain DEF DrainStates
<1>10. Steady(D)
  BY <1>5, <1>8, <1>9, NoMixFew DEF Steady
<1>11. Laid(Q, D)
  BY <1>5, <1>8 DEF Laid
<1> QED BY <1>8, <1>10, <1>11 DEF Fit, D

\* handing messages to a turn,
LEMMA TurnFit ==
  ASSUME NEW Q, Sound(Q), NEW job \in {"item", "carry", "group", "summary"},
         NEW hand \in Seq(Msgs), NEW rest \in Seq(Seq(Msgs)), NEW told \in Seq(Msgs),
         NEW force \in BOOLEAN,
         NoMix(hand), \A k \in 1..Len(rest) : NoMix(rest[k]),
         Batched(hand, rest, told, job),
         IsPrefix(hand, Q.items), Consecutive(Q.items, Len(hand), rest),
         Q.over = <<>> => told = <<>> /\ job \notin {"carry", "summary"}
  PROVE  Fit(Q, Turn(job, hand, rest, told, force))
<1> DEFINE D == Turn(job, hand, rest, told, force)
<1>1. /\ D.pc = "opening" /\ D.hand = hand /\ D.rest = rest /\ D.told = told
      /\ D.job = job
  BY DEF Turn, Idle
<1>2. D \in DrainStates
  BY DEF Turn, Idle, DrainStates
<1> HIDE DEF D
<1>3. Steady(D)
  BY <1>1, <1>2 DEF Steady
<1>4. Laid(Q, D)
  BY <1>1 DEF Laid
<1>5. D.pc # "off"
  BY <1>1
<1> QED BY <1>1, <1>3, <1>4, <1>5 DEF Fit, D

\* at the head of its loop,
LEMMA LoopedFit ==
  ASSUME NEW Q, Sound(Q), NEW force \in BOOLEAN
  PROVE  Fit(Q, Looped(Q, force))
<1>1. Len(Q.items) \in 0..Len(Q.items)
  BY DEF Sound, QueueObjects
<1>2. CASE Empty(Q)
  BY <1>2, IdleFit DEF Looped
<1>3. CASE ~Empty(Q) /\ AbortedAt(Q, Len(Q.items)) # {}
  BY <1>1, <1>3, DiscardingFit DEF Looped
<1>4. CASE ~Empty(Q) /\ ~(AbortedAt(Q, Len(Q.items)) # {})
  BY <1>4, WaitFit DEF Looped
<1> QED BY <1>2, <1>3, <1>4

\* No groups follow one another anywhere.
LEMMA ConsecutiveNone ==
  ASSUME NEW items \in Seq(Msgs), NEW n \in 0..Len(items)
  PROVE  Consecutive(items, n, <<>>)
<1>1. [k \in 0..0 |-> n] \in [0..Len(<<>>) -> 0..Len(items)]
  OBVIOUS
<1>2. [k \in 0..0 |-> n][0] = n
  OBVIOUS
<1>3. 1..Len(<<>>) = {}
  OBVIOUS
<1> QED BY <1>1, <1>2, <1>3 DEF Consecutive

\* A turn of a summary alone carries nothing from the head.
LEMMA NoneFirst ==
  ASSUME NEW items \in Seq(Msgs)
  PROVE  IsPrefix(<<>>, items) /\ Consecutive(items, Len(<<>>), <<>>)
<1>1. <<>> \in Seq(Msgs) /\ Len(<<>>) = 0 /\ 1..0 = {} /\ Len(items) \in Nat
  OBVIOUS
<1>2. IsPrefix(<<>>, items)
  <2>1. ASSUME NEW e \in Seq(Msgs), Len(e) = 0
        PROVE  IsPrefix(e, items)
    <3>1. Len(e) <= Len(items) /\ \A i \in 1..Len(e) : e[i] = items[i]
      BY <1>1, <2>1
    <3> QED BY <3>1, PrefixIs
  <2> QED BY <1>1, <2>1
<1>3. 0 \in 0..Len(items)
  BY <1>1
<1>4. Consecutive(items, 0, <<>>)
  BY <1>3, ConsecutiveNone
<1> QED BY <1>1, <1>2, <1>4

\* A turn of one message carries the head.
LEMMA HeadFirst ==
  ASSUME NEW items \in Seq(Msgs), items # <<>>
  PROVE  /\ <<Head(items)>> \in Seq(Msgs)
         /\ IsPrefix(<<Head(items)>>, items)
         /\ Consecutive(items, Len(<<Head(items)>>), <<>>)
<1> DEFINE h == <<Head(items)>>
<1>1. Len(items) \in Nat /\ Len(items) > 0
  BY EmptySeq, LenProperties
<1>2. Head(items) = items[1] /\ items[1] \in Msgs
  BY <1>1
<1>3. h \in Seq(Msgs) /\ Len(h) = 1 /\ h[1] = items[1]
  BY <1>2
<1> HIDE DEF h
<1>4. IsPrefix(h, items)
  BY <1>1, <1>3, PrefixIs
<1>5. Consecutive(items, Len(h), <<>>)
  BY <1>1, <1>3, ConsecutiveNone
<1> QED BY <1>3, <1>4, <1>5 DEF h

\* whatever turn it chooses,
LEMMA ChosenFit ==
  ASSUME NEW Q, Sound(Q), NEW force \in BOOLEAN
  PROVE  Fit(Q, Chosen(Q, force))
<1> DEFINE individually == force \/ Cross(Q.items) \/ ToSet(Q.items) \cap Solo # {}
           groups == AuthGroups(Q.items)
           hand == <<Head(Q.items)>>
           told == Summary(Q)
<1>1. Q.items \in Seq(Msgs) /\ Q.over \in Seq(Msgs) /\ Q.mode \in {"followup", "collect"}
  BY DEF Sound, QueueObjects
<1>2. told \in Seq(Msgs) /\ (Q.over = <<>> => told = <<>>)
  BY <1>1 DEF Summary
<1>3. <<>> \in Seq(Msgs) /\ <<>> \in Seq(Seq(Msgs)) /\ Len(<<>>) = 0 /\ 0 \in 0..Len(Q.items)
  BY <1>1
<1>4. \A k \in 1..Len(<<>>) : NoMix(<<>>[k])
  OBVIOUS
<1>5. CASE Q.items = <<>> /\ (Q.mode = "followup" \/ told = <<>>)
  <2>1. Chosen(Q, force) = Looped(Q, FALSE)
    BY <1>5 DEF Chosen
  <2> QED BY <2>1, LoopedFit
<1>6. CASE Q.items = <<>> /\ Q.mode = "collect" /\ told # <<>>
  <2>1. Chosen(Q, force) = Turn("summary", <<>>, <<>>, told, force)
    BY <1>6 DEF Chosen
  <2>2. IsPrefix(<<>>, Q.items) /\ Consecutive(Q.items, Len(<<>>), <<>>)
    BY <1>1, NoneFirst
  <2>3. Fit(Q, Turn("summary", <<>>, <<>>, told, force))
    <3> HIDE DEF told
    <3> QED BY <1>2, <1>3, <1>4, <1>6, <2>2, NoMixFew, TurnFit
  <2> QED BY <2>1, <2>3
<1>7. ASSUME Q.items # <<>>
      PROVE  /\ hand \in Seq(Msgs) /\ NoMix(hand)
             /\ \A t, job : t = <<>> \/ job = "carry" => Batched(hand, <<>>, t, job)
             /\ IsPrefix(hand, Q.items) /\ Consecutive(Q.items, Len(hand), <<>>)
  BY <1>1, <1>7, HeadFirst, NoMixFew
<1>8. CASE Q.items # <<>> /\ Q.mode = "collect" /\ individually
  <2>1. Chosen(Q, force) = Turn("item", hand, <<>>, <<>>, TRUE)
    BY <1>8 DEF Chosen
  <2> HIDE DEF hand
  <2>2. Fit(Q, Turn("item", hand, <<>>, <<>>, TRUE))
    BY <1>3, <1>4, <1>7, <1>8, TurnFit
  <2> QED BY <2>1, <2>2
<1>9. CASE Q.items # <<>> /\ Q.mode = "collect" /\ ~individually
  <2>1. Chosen(Q, force) = Turn("group", groups[1], Tail(groups), told, force)
    BY <1>9 DEF Chosen
  <2>2. /\ groups \in Seq(Seq(Msgs)) /\ Len(groups) > 0
        /\ \A k \in 1..Len(groups) : NoMix(groups[k])
        /\ \A t, job : Batched(groups[1], Tail(groups), t, job)
        /\ IsPrefix(groups[1], Q.items)
        /\ Consecutive(Q.items, Len(groups[1]), Tail(groups))
    BY <1>1, <1>9, GroupsUsable
  <2> DEFINE rest == Tail(groups)
  <2> HIDE DEF groups
  <2>3. groups[1] \in Seq(Msgs) /\ NoMix(groups[1])
    BY <2>2
  <2>4. /\ rest \in Seq(Seq(Msgs)) /\ Len(rest) = Len(groups) - 1
        /\ \A k \in 1..Len(rest) : rest[k] = groups[k + 1]
    BY <2>2
  <2>5. \A k \in 1..Len(rest) : NoMix(rest[k])
    BY <2>2, <2>4
  <2> HIDE DEF rest
  <2>6. IsPrefix(groups[1], Q.items) /\ Consecutive(Q.items, Len(groups[1]), rest)
    BY <2>2 DEF rest
  <2> HIDE DEF told
  <2>8. Batched(groups[1], rest, told, "group")
    BY <2>2 DEF rest
  <2>7. Fit(Q, Turn("group", groups[1], rest, told, force))
    BY <1>2, <2>3, <2>4, <2>5, <2>6, <2>8, TurnFit
  <2> QED BY <2>1, <2>7 DEF rest
<1>10. CASE Q.items # <<>> /\ Q.mode = "followup" /\ told # <<>>
  <2>1. Chosen(Q, force) = Turn("carry", hand, <<>>, told, force)
    BY <1>10 DEF Chosen
  <2> HIDE DEF hand, told
  <2>2. Fit(Q, Turn("carry", hand, <<>>, told, force))
    BY <1>2, <1>3, <1>4, <1>7, <1>10, TurnFit
  <2> QED BY <2>1, <2>2
<1>11. CASE Q.items # <<>> /\ Q.mode = "followup" /\ told = <<>>
  <2>1. Chosen(Q, force) = Turn("item", hand, <<>>, <<>>, force)
    BY <1>11 DEF Chosen
  <2> HIDE DEF hand
  <2>2. Fit(Q, Turn("item", hand, <<>>, <<>>, force))
    BY <1>3, <1>4, <1>7, <1>11, TurnFit
  <2> QED BY <2>1, <2>2
<1> HIDE DEF hand, groups, told, individually
<1> QED BY <1>1, <1>5, <1>6, <1>8, <1>9, <1>10, <1>11

\* and at the end of a sweep.
LEMMA SweptFit ==
  ASSUME NEW Q, Sound(Q), NEW force \in BOOLEAN, NEW pc
  PROVE  Fit(Q, Swept(Q, pc, force))
<1>1. CASE Empty(Q)
  BY <1>1, IdleFit DEF Swept
<1>2. CASE ~Empty(Q) /\ pc = "sweep"
  BY <1>2, WaitFit DEF Swept
<1>3. CASE ~Empty(Q) /\ pc # "sweep"
  BY <1>3, ChosenFit DEF Swept
<1> QED BY <1>1, <1>2, <1>3

-----------------------------------------------------------------------------
(* The contents of a queue object *)

\* The types of the fields of a sound queue object.
LEMMA SoundFields ==
  ASSUME NEW Q, Sound(Q)
  PROVE  /\ Q \in QueueObjects
         /\ Q.items \in Seq(Msgs) /\ Q.over \in Seq(Msgs) /\ Q.sources \in Seq(Msgs)
         /\ Q.lines \in Nat /\ Q.lines <= Len(Q.over)
         /\ Q.mode \in {"followup", "collect"} /\ Q.cap \in Nat \ {0}
         /\ Q.drop \in {"summarize", "old", "new"}
         /\ Len(Q.items) \in Nat /\ Len(Q.over) \in Nat /\ Len(Q.sources) \in Nat
         /\ IsInjective(Q.items)
BY DEF Sound, QueueObjects

\* A new queue object is sound and empty.
LEMMA BlankSound ==
  /\ Sound(Blank) /\ Empty(Blank)
  /\ Blank.items = <<>> /\ Blank.over = <<>> /\ Blank.sources = <<>> /\ Blank.drop = "new"
BY DEF Blank, Sound, QueueObjects, Empty, IsInjective

\* It stays sound with other messages that differ,
LEMMA ItemsSound ==
  ASSUME NEW Q, Sound(Q), NEW items \in Seq(Msgs), IsInjective(items)
  PROVE  Sound([Q EXCEPT !.items = items])
BY DEF Sound, QueueObjects

\* without its summary,
LEMMA WithoutSound ==
  ASSUME NEW Q, Sound(Q)
  PROVE  /\ Sound(Without(Q))
         /\ Without(Q).items = Q.items /\ Without(Q).over = <<>> /\ Without(Q).sources = <<>>
         /\ Without(Q).drop = Q.drop
<1>1. Without(Q) \in QueueObjects
  <2>1. <<>> \in Seq(Msgs) /\ 0 \in Nat /\ Q \in QueueObjects
    BY SoundFields
  <2> QED BY <2>1 DEF Without, QueueObjects
<1>2. /\ Without(Q).items = Q.items /\ Without(Q).over = <<>> /\ Without(Q).sources = <<>>
      /\ Without(Q).drop = Q.drop /\ Without(Q).lines = 0
  BY DEF Without, Sound, QueueObjects
<1> HIDE DEF Without
<1> QED BY <1>1, <1>2 DEF Sound

\* with the settings of a message that arrives,
LEMMA ConfiguredSound ==
  ASSUME NEW q, Sound(queue[q]),
         NEW s \in [mode : {"followup", "collect"}, cap : Nat \ {0},
                    drop : {"summarize", "old", "new"}]
  PROVE  /\ Sound(Configured(q, s))
         /\ Configured(q, s).drop = s.drop
         /\ q = registered =>
              /\ Configured(q, s).items = queue[q].items
              /\ Configured(q, s).over = queue[q].over
              /\ Configured(q, s).sources = queue[q].sources
         /\ q # registered =>
              /\ Configured(q, s).items = <<>> /\ Configured(q, s).over = <<>>
              /\ Configured(q, s).sources = <<>>
<1> DEFINE Q == IF q = registered THEN queue[q] ELSE Blank
           R == Configured(q, s)
<1>1. Sound(Q)
  BY BlankSound
<1>2. q # registered => Q.items = <<>> /\ Q.over = <<>> /\ Q.sources = <<>>
  BY BlankSound
<1>3. q = registered => Q = queue[q]
  OBVIOUS
<1>4. R = [Q EXCEPT !.mode = s.mode, !.cap = s.cap, !.drop = s.drop]
  BY DEF Configured
<1> HIDE DEF Q, R
<1>5. Q \in QueueObjects
  BY <1>1, SoundFields
<1>6. R \in QueueObjects
  BY <1>4, <1>5 DEF QueueObjects
<1>7. R.items = Q.items /\ R.over = Q.over /\ R.sources = Q.sources /\ R.lines = Q.lines
      /\ R.drop = s.drop
  BY <1>4, <1>5 DEF QueueObjects
<1>8. Sound(R)
  BY <1>1, <1>6, <1>7 DEF Sound
<1> QED BY <1>2, <1>3, <1>7, <1>8 DEF R

\* How many messages make room: never more than wait, and none in a queue that
\* turns messages away.
LEMMA OverflowIs ==
  ASSUME NEW Q, Sound(Q)
  PROVE  /\ Overflow(Q) \in 0..Len(Q.items)
         /\ Q.drop = "new" /\ ~Refused(Q) => Overflow(Q) = 0
<1>1. Len(Q.items) \in Nat /\ Q.cap \in Nat /\ Q.cap > 0
  BY SoundFields
<1> QED BY <1>1 DEF Overflow, Refused

\* and with a message that does not wait yet.
LEMMA AcceptedSound ==
  ASSUME NEW Q, Sound(Q), NEW m \in Msgs, m \notin ToSet(Q.items)
  PROVE  Sound(Accepted(Q, m)) /\ ~Empty(Accepted(Q, m))
<1> DEFINE k == Overflow(Q)
           out == SubSeq(Q.items, 1, k)
           kept == Append(Behead(Q.items, k), m)
           lines == IF k = 0 THEN Q.lines ELSE Min({Q.lines + k, Q.cap})
           all == Q.sources \o out
           sources == Behead(all, Trimmed(all, lines))
           over == Q.over \o out
           R == Accepted(Q, m)
<1>1. /\ Q \in QueueObjects /\ Q.items \in Seq(Msgs) /\ Len(Q.items) \in Nat
      /\ Q.over \in Seq(Msgs) /\ Len(Q.over) \in Nat /\ Q.sources \in Seq(Msgs)
      /\ Q.lines \in Nat /\ Q.lines <= Len(Q.over) /\ Q.cap \in Nat /\ IsInjective(Q.items)
  BY SoundFields
<1>2. k \in 0..Len(Q.items) /\ k \in Nat /\ k <= Len(Q.items)
  BY <1>1, OverflowIs
<1>r. R = IF Q.drop # "summarize" THEN [Q EXCEPT !.items = kept]
          ELSE [Q EXCEPT !.items = kept, !.over = over, !.lines = lines, !.sources = sources]
  <2>1. [Q EXCEPT !.items = kept, !.over = over, !.lines = lines, !.sources = sources]
        = [Q EXCEPT !.items = kept, !.over = @ \o out, !.lines = lines, !.sources = sources]
    OBVIOUS
  <2> QED BY <2>1 DEF Accepted
<1> HIDE DEF k
<1>3. out \in Seq(Msgs) /\ Len(out) = k
  BY <1>1, <1>2
<1> HIDE DEF out
<1>4. /\ Behead(Q.items, k) \in Seq(Msgs) /\ IsInjective(Behead(Q.items, k))
      /\ ToSet(Behead(Q.items, k)) \subseteq ToSet(Q.items)
  BY <1>1, <1>2, BeheadSeq, BeheadInjective
<1>5. kept \in Seq(Msgs) /\ IsInjective(kept) /\ kept # <<>>
  <2> DEFINE b == Behead(Q.items, k)
  <2>1. b \in Seq(Msgs) /\ IsInjective(b) /\ m \notin ToSet(b)
    BY <1>4
  <2> HIDE DEF b
  <2>2. Append(b, m) \in Seq(Msgs) /\ IsInjective(Append(b, m))
    BY <2>1, AppendInjectiveTo
  <2>3. Len(Append(b, m)) = Len(b) + 1 /\ Len(b) \in Nat
    BY <2>1
  <2>4. Append(b, m) # <<>>
    BY <2>3
  <2> QED BY <2>2, <2>4 DEF b
<1>6. lines \in Nat /\ lines <= Q.lines + k
  <2>1. Q.lines + k \in Nat
    BY <1>1, <1>2
  <2>2. Min({Q.lines + k, Q.cap}) \in Nat /\ Min({Q.lines + k, Q.cap}) <= Q.lines + k
    BY <1>1, <2>1, MinOfTwo
  <2> QED BY <1>1, <2>2
<1>7. over \in Seq(Msgs) /\ lines <= Len(over)
  <2>1. over \in Seq(Msgs) /\ Len(over) = Len(Q.over) + k
    <3>1. Q.over \in Seq(Msgs)
      BY <1>1
    <3> QED BY <3>1, <1>3, ConcatProperties
  <2> HIDE DEF over, lines
  <2>2. lines <= Len(Q.over) + k
    BY <1>1, <1>2, <1>6
  <2> QED BY <2>1, <2>2
<1>8. sources \in Seq(Msgs)
  <2>1. all \in Seq(Msgs)
    BY <1>1, <1>3
  <2> HIDE DEF all, lines
  <2>2. Trimmed(all, lines) \in Nat /\ Trimmed(all, lines) <= Len(all)
    BY <2>1, <1>6 DEF Trimmed
  <2> QED BY <2>1, <2>2, BeheadSeq
<1> HIDE DEF kept, lines, over, sources, R
<1>9. CASE Q.drop # "summarize"
  <2>1. R = [Q EXCEPT !.items = kept]
    BY <1>9, <1>r
  <2>2. R.items = kept
    BY <2>1, <1>1 DEF QueueObjects
  <2> QED BY <2>1, <2>2, <1>5, ItemsSound DEF Empty, R
<1>10. CASE Q.drop = "summarize"
  <2>1. R = [Q EXCEPT !.items = kept, !.over = over, !.lines = lines, !.sources = sources]
    BY <1>10, <1>r
  <2>2. R \in QueueObjects
    BY <2>1, <1>1, <1>5, <1>6, <1>7, <1>8 DEF QueueObjects
  <2>3. R.items = kept /\ R.over = over /\ R.lines = lines
    BY <2>1, <1>1 DEF QueueObjects
  <2> QED BY <2>2, <2>3, <1>5, <1>7 DEF Sound, Empty, R
<1> QED BY <1>9, <1>10

\* A queue that turns messages away only appends the ones it accepts.
LEMMA AcceptedNew ==
  ASSUME NEW Q, Sound(Q), NEW m \in Msgs, Q.drop = "new", ~Refused(Q)
  PROVE  /\ Accepted(Q, m) = [Q EXCEPT !.items = Append(Q.items, m)]
         /\ Completed(Q, m) = {}
<1>1. Overflow(Q) = 0 /\ Q.items \in Seq(Msgs)
  BY SoundFields, OverflowIs
<1>2. Behead(Q.items, 0) = Q.items
  BY <1>1, BeheadZero
<1>3. Accepted(Q, m) = [Q EXCEPT !.items = Append(Q.items, m)]
  BY <1>1, <1>2 DEF Accepted
<1>4. SubSeq(Q.items, 1, 0) = <<>> /\ ToSet(<<>>) = {}
  BY <1>1 DEF ToSet
<1>5. Completed(Q, m) = {}
  BY <1>1, <1>4 DEF Completed
<1> QED BY <1>3, <1>5

\* A queue that was served is sound, and holds what was behind the hand.
LEMMA ServedSound ==
  ASSUME NEW Q, Sound(Q), NEW D, Steady(D)
  PROVE  /\ Sound(Served(Q, D)) /\ (Empty(Q) => Empty(Served(Q, D)))
         /\ Served(Q, D).items = Behead(Q.items, Len(D.hand))
         /\ Q.over = <<>> /\ Q.sources = <<>> =>
              Served(Q, D).over = <<>> /\ Served(Q, D).sources = <<>>
         /\ Served(Q, D).drop = Q.drop
<1> DEFINE b == Behead(Q.items, Len(D.hand))
           R == [Q EXCEPT !.items = b]
<1>1. Q \in QueueObjects /\ Q.items \in Seq(Msgs) /\ IsInjective(Q.items)
  BY SoundFields
<1>2. D.hand \in Seq(Msgs) /\ Len(D.hand) \in Nat
  BY DEF Steady, DrainStates
<1>3. b \in Seq(Msgs) /\ IsInjective(b) /\ (Q.items = <<>> => b = <<>>)
  <2>1. CASE Len(D.hand) >= Len(Q.items)
    <3>1. b = <<>>
      BY <2>1, <1>1, <1>2, BeheadAll
    <3> QED BY <3>1 DEF IsInjective
  <2>2. CASE Len(D.hand) < Len(Q.items)
    <3>1. Q.items # <<>>
      BY <2>2, <1>2
    <3> QED BY <2>2, <3>1, <1>1, <1>2, BeheadSeq, BeheadInjective
  <2> QED BY <1>1, <1>2, <2>1, <2>2
<1> HIDE DEF b
<1>4. Sound(R)
  BY <1>3, ItemsSound
<1>5. /\ R.items = b /\ R.over = Q.over /\ R.sources = Q.sources /\ R.drop = Q.drop
  BY <1>1 DEF QueueObjects
<1>6. Served(Q, D) = IF D.told # <<>> THEN Without(R) ELSE R
  BY DEF Served, b
<1> HIDE DEF R
<1>7. CASE D.told # <<>>
  BY <1>3, <1>4, <1>5, <1>6, <1>7, WithoutSound DEF Empty, b
<1>8. CASE D.told = <<>>
  BY <1>3, <1>4, <1>5, <1>6, <1>8 DEF Empty, b
<1> QED BY <1>7, <1>8

-----------------------------------------------------------------------------
(* Registry, queue objects and drains, and the three ways a step changes them *)

Core(reg, qs, ds) ==
  /\ reg \in Queues \cup {NoQueue}
  /\ qs \in [Queues -> QueueObjects]
  /\ ds \in [Queues -> DrainStates]
  /\ \A q \in Queues : Sound(qs[q]) /\ Steady(ds[q]) /\ (~Empty(qs[q]) => reg = q)

\* With drop = "new" alone, also: nothing is summarized, and the registered
\* queue and its drain fit together.
Lined(reg, qs, ds) ==
  /\ \A q \in Queues :
       /\ qs[q].drop = "new" /\ qs[q].over = <<>> /\ qs[q].sources = <<>>
       /\ ds[q].told = <<>> /\ ds[q].job \notin {"carry", "summary"}
  /\ reg \in Queues => Laid(qs[reg], ds[reg])

\* The messages that wait in the registered queue.
Waiting(reg, qs) == IF reg = NoQueue THEN {} ELSE ToSet(qs[reg].items \o qs[reg].over)

\* The registry, the objects and the drains after Drains(q, Q, D).
RegD(reg, q, D) == IF D.pc = "off" /\ reg = q THEN NoQueue ELSE reg
QueD(qs, q, Q, D) == [qs EXCEPT ![q] = IF D.pc = "off" THEN Blank ELSE Q]

\* No queue object has the number that stands for none.
LEMMA NoQueueUnlisted == NoQueue \notin Queues
BY FollowupConstants DEF NoQueue

\* Core after Drains(q, Q, D).
LEMMA DrainsCore ==
  ASSUME NEW reg, NEW qs, NEW ds, Core(reg, qs, ds), NEW q \in Queues,
         NEW Q, Sound(Q), NEW D, Steady(D), D.pc = "off" => Empty(Q),
         ~Empty(Q) => reg = q
  PROVE  Core(RegD(reg, q, D), QueD(qs, q, Q, D), [ds EXCEPT ![q] = D])
<1> DEFINE R == IF D.pc = "off" THEN Blank ELSE Q
           reg1 == RegD(reg, q, D)
           qs1 == QueD(qs, q, Q, D)
           ds1 == [ds EXCEPT ![q] = D]
<1>1. Sound(R) /\ (~Empty(R) => reg = q /\ D.pc # "off")
  BY BlankSound
<1>2. R \in QueueObjects /\ D \in DrainStates
  BY <1>1, SoundFields DEF Steady
<1>3. qs1 = [qs EXCEPT ![q] = R]
  BY DEF QueD
<1>4. reg1 = IF D.pc = "off" /\ reg = q THEN NoQueue ELSE reg
  BY DEF RegD
<1> HIDE DEF R, reg1, qs1
<1>5. qs1 \in [Queues -> QueueObjects] /\ ds1 \in [Queues -> DrainStates]
  BY <1>2, <1>3 DEF Core
<1>6. qs1[q] = R /\ ds1[q] = D /\ \A p \in Queues \ {q} : qs1[p] = qs[p] /\ ds1[p] = ds[p]
  BY <1>3 DEF Core
<1>7. reg1 \in Queues \cup {NoQueue}
  BY <1>4 DEF Core
<1> HIDE DEF ds1
<1>8. \A p \in Queues : Sound(qs1[p]) /\ Steady(ds1[p]) /\ (~Empty(qs1[p]) => reg1 = p)
  <2> SUFFICES ASSUME NEW p \in Queues
               PROVE  Sound(qs1[p]) /\ Steady(ds1[p]) /\ (~Empty(qs1[p]) => reg1 = p)
    OBVIOUS
  <2>1. CASE p = q
    BY <2>1, <1>1, <1>4, <1>6 DEF Core
  <2>2. CASE p # q
    BY <2>2, <1>4, <1>6 DEF Core
  <2> QED BY <2>1, <2>2
<1> QED BY <1>5, <1>7, <1>8 DEF Core, reg1, qs1, ds1

\* Lined after it.
LEMMA DrainsLined ==
  ASSUME NEW reg, NEW qs, NEW ds, Core(reg, qs, ds), Lined(reg, qs, ds), NEW q \in Queues,
         NEW Q, Q.drop = "new", Q.over = <<>>, Q.sources = <<>>,
         NEW D, D.told = <<>>, D.job \notin {"carry", "summary"},
         reg = q => Laid(Q, D)
  PROVE  Lined(RegD(reg, q, D), QueD(qs, q, Q, D), [ds EXCEPT ![q] = D])
<1> DEFINE R == IF D.pc = "off" THEN Blank ELSE Q
           reg1 == RegD(reg, q, D)
           qs1 == QueD(qs, q, Q, D)
           ds1 == [ds EXCEPT ![q] = D]
<1>1. R.drop = "new" /\ R.over = <<>> /\ R.sources = <<>>
  BY BlankSound
<1>2. D.pc # "off" => R = Q
  OBVIOUS
<1>3. qs1 = [qs EXCEPT ![q] = R]
  BY DEF QueD
<1>4. reg1 = IF D.pc = "off" /\ reg = q THEN NoQueue ELSE reg
  BY DEF RegD
<1> HIDE DEF R, reg1, qs1
<1>6. qs1[q] = R /\ ds1[q] = D /\ \A p \in Queues \ {q} : qs1[p] = qs[p] /\ ds1[p] = ds[p]
  BY <1>3 DEF Core
<1> HIDE DEF ds1
<1>7. \A p \in Queues :
        /\ qs1[p].drop = "new" /\ qs1[p].over = <<>> /\ qs1[p].sources = <<>>
        /\ ds1[p].told = <<>> /\ ds1[p].job \notin {"carry", "summary"}
  <2> SUFFICES ASSUME NEW p \in Queues
               PROVE  /\ qs1[p].drop = "new" /\ qs1[p].over = <<>> /\ qs1[p].sources = <<>>
                      /\ ds1[p].told = <<>> /\ ds1[p].job \notin {"carry", "summary"}
    OBVIOUS
  <2>1. CASE p = q
    BY <2>1, <1>1, <1>6
  <2>2. CASE p # q
    BY <2>2, <1>6 DEF Lined
  <2> QED BY <2>1, <2>2
<1>8. ASSUME reg1 \in Queues
      PROVE  Laid(qs1[reg1], ds1[reg1])
  <2>1. reg1 = reg /\ (reg = q => D.pc # "off")
    BY <1>4, <1>8, NoQueueUnlisted
  <2>2. CASE reg = q
    BY <2>1, <2>2, <1>2, <1>6
  <2>3. CASE reg # q
    BY <2>1, <2>3, <1>6, <1>8 DEF Lined
  <2> QED BY <2>2, <2>3
<1> QED BY <1>7, <1>8 DEF Lined, reg1, qs1, ds1

\* What waits after Drains(q, Q, D).
LEMMA DrainsWaiting ==
  ASSUME NEW reg, NEW qs, NEW ds, Core(reg, qs, ds), NEW q \in Queues,
         NEW Q, Sound(Q), Q.over = <<>>, NEW D, D.pc = "off" => Empty(Q)
  PROVE  /\ reg = q => Waiting(RegD(reg, q, D), QueD(qs, q, Q, D)) = ToSet(Q.items)
         /\ reg # q => Waiting(RegD(reg, q, D), QueD(qs, q, Q, D)) = Waiting(reg, qs)
<1> DEFINE R == IF D.pc = "off" THEN Blank ELSE Q
           qs1 == QueD(qs, q, Q, D)
<1>1. qs1[q] = R /\ \A p \in Queues \ {q} : qs1[p] = qs[p]
  BY DEF QueD, Core
<1>2. Q.items \in Seq(Msgs) /\ Q.items \o <<>> = Q.items
  BY SoundFields
<1> HIDE DEF qs1
<1>3. CASE reg = q /\ D.pc = "off"
  <2>1. RegD(reg, q, D) = NoQueue /\ ToSet(Q.items) = {}
    BY <1>3 DEF RegD, Empty, ToSet
  <2> QED BY <1>3, <2>1 DEF Waiting
<1>4. CASE reg = q /\ D.pc # "off"
  <2>1. RegD(reg, q, D) = q /\ q # NoQueue /\ qs1[q] = Q
    BY <1>1, <1>4, NoQueueUnlisted DEF RegD
  <2> QED BY <1>2, <1>4, <2>1 DEF Waiting, qs1
<1>5. CASE reg # q
  <2>1. RegD(reg, q, D) = reg
    BY <1>5 DEF RegD
  <2>2. reg # NoQueue => qs1[reg] = qs[reg]
    BY <1>1, <1>5 DEF Core
  <2> QED BY <1>5, <2>1, <2>2 DEF Waiting, qs1
<1> QED BY <1>3, <1>4, <1>5

\* An object that becomes the registered one: it is it already, or none is and
\* its drain is off.
LEMMA Adopt ==
  ASSUME NEW reg, NEW qs, NEW ds, Core(reg, qs, ds), NEW q \in Queues,
         reg = q \/ (reg = NoQueue /\ ds[q].pc = "off")
  PROVE  /\ Core(q, qs, ds)
         /\ Waiting(q, qs) = Waiting(reg, qs)
         /\ Lined(reg, qs, ds) => Lined(q, qs, ds)
<1>0. q # NoQueue
  BY NoQueueUnlisted
<1>1. Core(q, qs, ds)
  <2>1. \A p \in Queues : ~Empty(qs[p]) => q = p
    BY NoQueueUnlisted DEF Core
  <2> QED BY <2>1 DEF Core
<1>2. Waiting(q, qs) = Waiting(reg, qs)
  <2>1. CASE reg = q
    BY <2>1
  <2>2. CASE reg = NoQueue
    <3>1. Empty(qs[q])
      BY <2>2, <1>0 DEF Core
    <3>2. qs[q].items \o qs[q].over = <<>>
      BY <3>1 DEF Empty
    <3> QED BY <2>2, <3>2, <1>0 DEF Waiting, ToSet
  <2> QED BY <2>1, <2>2
<1>3. ASSUME Lined(reg, qs, ds)
      PROVE  Lined(q, qs, ds)
  <2>1. Laid(qs[q], ds[q])
    <3>1. CASE reg = q
      BY <3>1, <1>3 DEF Lined
    <3>2. CASE ds[q].pc = "off"
      BY <3>2 DEF Laid
    <3> QED BY <3>1, <3>2
  <2> QED BY <2>1, <1>3 DEF Lined
<1> QED BY <1>1, <1>2, <1>3

\* The registered object gets new contents.
LEMMA RefillCore ==
  ASSUME NEW qs, NEW ds, NEW q \in Queues, Core(q, qs, ds), NEW R, Sound(R)
  PROVE  Core(q, [qs EXCEPT ![q] = R], ds)
<1> DEFINE qs1 == [qs EXCEPT ![q] = R]
<1>1. R \in QueueObjects
  BY SoundFields
<1>2. qs1 \in [Queues -> QueueObjects]
  BY <1>1 DEF Core
<1>3. qs1[q] = R /\ \A p \in Queues \ {q} : qs1[p] = qs[p]
  BY DEF Core
<1> HIDE DEF qs1
<1>4. \A p \in Queues : Sound(qs1[p]) /\ Steady(ds[p]) /\ (~Empty(qs1[p]) => q = p)
  <2> SUFFICES ASSUME NEW p \in Queues
               PROVE  Sound(qs1[p]) /\ Steady(ds[p]) /\ (~Empty(qs1[p]) => q = p)
    OBVIOUS
  <2>1. CASE p = q
    BY <2>1, <1>3 DEF Core
  <2>2. CASE p # q
    BY <2>2, <1>3 DEF Core
  <2> QED BY <2>1, <2>2
<1> QED BY <1>2, <1>4 DEF Core, qs1

\* Then Lined holds if the drain still fits them.
LEMMA RefillLined ==
  ASSUME NEW qs, NEW ds, NEW q \in Queues, Core(q, qs, ds), Lined(q, qs, ds),
         NEW R, Sound(R), R.drop = "new", R.over = <<>>, R.sources = <<>>, Laid(R, ds[q])
  PROVE  /\ Lined(q, [qs EXCEPT ![q] = R], ds)
         /\ Waiting(q, [qs EXCEPT ![q] = R]) = ToSet(R.items)
<1> DEFINE qs1 == [qs EXCEPT ![q] = R]
<1>3. qs1[q] = R /\ \A p \in Queues \ {q} : qs1[p] = qs[p]
  BY DEF Core
<1> HIDE DEF qs1
<1>4. \A p \in Queues :
        /\ qs1[p].drop = "new" /\ qs1[p].over = <<>> /\ qs1[p].sources = <<>>
        /\ ds[p].told = <<>> /\ ds[p].job \notin {"carry", "summary"}
  <2> SUFFICES ASSUME NEW p \in Queues
               PROVE  /\ qs1[p].drop = "new" /\ qs1[p].over = <<>> /\ qs1[p].sources = <<>>
                      /\ ds[p].told = <<>> /\ ds[p].job \notin {"carry", "summary"}
    OBVIOUS
  <2>1. CASE p = q
    BY <2>1, <1>3 DEF Lined
  <2>2. CASE p # q
    BY <2>2, <1>3 DEF Lined
  <2> QED BY <2>1, <2>2
<1>5. R.items \o <<>> = R.items
  BY SoundFields
<1>6. Waiting(q, qs1) = ToSet(R.items)
  BY <1>3, <1>5, NoQueueUnlisted DEF Waiting
<1> QED BY <1>3, <1>4, <1>6 DEF Lined, qs1

\* Stretches of a sequence are stretches of every longer one.
LEMMA SubSeqAgree ==
  ASSUME NEW S, NEW s \in Seq(S), NEW t \in Seq(S), Len(s) <= Len(t),
         \A i \in 1..Len(s) : t[i] = s[i],
         NEW a \in 1..(Len(s) + 1), NEW b \in 0..Len(s)
  PROVE  SubSeq(s, a, b) = SubSeq(t, a, b)
<1>0. Len(s) \in Nat /\ Len(t) \in Nat /\ a \in Int /\ b \in Int
  OBVIOUS
<1>1. CASE b < a
  BY <1>0, <1>1, SubSeqEmpty
<1>2. CASE a <= b
  <2> DEFINE u == SubSeq(s, a, b)
             v == SubSeq(t, a, b)
  <2>1. u \in Seq(S) /\ Len(u) = b - a + 1 /\ \A i \in 1..(b - a + 1) : u[i] = s[a + i - 1]
    BY <1>0, <1>2
  <2>2. v \in Seq(S) /\ Len(v) = b - a + 1 /\ \A i \in 1..(b - a + 1) : v[i] = t[a + i - 1]
    BY <1>0, <1>2
  <2> HIDE DEF u, v
  <2>3. \A i \in 1..(b - a + 1) : a + i - 1 \in 1..Len(s)
    BY <1>0, <1>2
  <2>4. \A i \in 1..Len(u) : u[i] = v[i]
    BY <2>1, <2>2, <2>3
  <2>5. u = v
    BY <2>1, <2>2, <2>4, SeqEqual
  <2> QED BY <2>5 DEF u, v
<1> QED BY <1>0, <1>1, <1>2

\* The hand and the batch of a drain stay where they are when messages are added
\* at the end.
LEMMA LaidAppend ==
  ASSUME NEW Q, Sound(Q), NEW D, Steady(D), Laid(Q, D),
         NEW R, Sound(R), NEW m \in Msgs,
         R.items = Q.items \/ R.items = Append(Q.items, m)
  PROVE  Laid(R, D)
<1>1. CASE R.items = Q.items
  BY <1>1 DEF Laid
<1>2. CASE R.items = Append(Q.items, m)
  <2> DEFINE s == Q.items
             t == R.items
             h == D.hand
  <2>1. s \in Seq(Msgs) /\ h \in Seq(Msgs) /\ D.rest \in Seq(Seq(Msgs)) /\ t \in Seq(Msgs)
    BY SoundFields DEF Steady, DrainStates
  <2>2. Len(t) = Len(s) + 1 /\ Len(s) \in Nat /\ \A i \in 1..Len(s) : t[i] = s[i]
    BY <2>1, <1>2
  <2>3. ASSUME D.pc \in {"sweep", "resweep"}
        PROVE  D.at \in 1..Len(t) /\ h = <<t[D.at]>>
    <3>1. D.at \in 1..Len(s) /\ h = <<s[D.at]>>
      BY <2>3 DEF Laid
    <3> HIDE DEF h, s, t
    <3> QED BY <3>1, <2>2
  <2>4. ASSUME D.pc \in {"opening", "running"}
        PROVE  IsPrefix(h, t) /\ Consecutive(t, Len(h), D.rest)
    <3>1. IsPrefix(h, s) /\ Consecutive(s, Len(h), D.rest)
      BY <2>4 DEF Laid
    <3> HIDE DEF h, s, t
    <3>2. Len(h) <= Len(s) /\ \A i \in 1..Len(h) : h[i] = s[i]
      BY <3>1, <2>1, PrefixIs
    <3>3. IsPrefix(h, t)
      <4>1. Len(h) \in Nat /\ Len(h) <= Len(t) /\ \A i \in 1..Len(h) : h[i] = t[i]
        BY <3>2, <2>1, <2>2
      <4> QED BY <4>1, <2>1, PrefixIs
    <3>4. PICK cut \in [0..Len(D.rest) -> 0..Len(s)] :
            /\ cut[0] = Len(h)
            /\ \A k \in 1..Len(D.rest) :
                 cut[k-1] <= cut[k] /\ D.rest[k] = SubSeq(s, cut[k-1] + 1, cut[k])
      BY <3>1 DEF Consecutive
    <3>5. cut \in [0..Len(D.rest) -> 0..Len(t)]
      BY <2>2
    <3>6. \A k \in 1..Len(D.rest) :
            SubSeq(s, cut[k-1] + 1, cut[k]) = SubSeq(t, cut[k-1] + 1, cut[k])
      <4> SUFFICES ASSUME NEW k \in 1..Len(D.rest)
                   PROVE  SubSeq(s, cut[k-1] + 1, cut[k]) = SubSeq(t, cut[k-1] + 1, cut[k])
        OBVIOUS
      <4>1. Len(D.rest) \in Nat
        BY <2>1
      <4>2. k - 1 \in 0..Len(D.rest) /\ k \in 0..Len(D.rest)
        BY <4>1
      <4> DEFINE a == cut[k-1] + 1
                 b == cut[k]
      <4>3. a \in 1..(Len(s) + 1) /\ b \in 0..Len(s)
        BY <4>2, <2>2
      <4> HIDE DEF a, b
      <4>5. Len(s) <= Len(t) /\ \A i \in 1..Len(s) : t[i] = s[i]
        BY <2>2
      <4>4. SubSeq(s, a, b) = SubSeq(t, a, b)
        BY <4>3, <4>5, <2>1, SubSeqAgree
      <4> QED BY <4>4 DEF a, b
    <3>7. Consecutive(t, Len(h), D.rest)
      BY <3>4, <3>5, <3>6 DEF Consecutive
    <3> QED BY <3>3, <3>7
  <2> QED BY <2>3, <2>4 DEF Laid
<1> QED BY <1>1, <1>2

-----------------------------------------------------------------------------
(* What a drain does to its queue *)

\* The drain of q goes on with contents Q to D and lets go of gone.
Moved(q, Q, D, gone) ==
  /\ Sound(Q) /\ Steady(D)
  /\ D.pc = "off" => Empty(Q)
  /\ Empty(queue[q]) => Empty(Q)
  /\ Lined(registered, queue, drain) =>
       /\ Q.drop = "new" /\ Q.over = <<>> /\ Q.sources = <<>>
       /\ D.told = <<>> /\ D.job \notin {"carry", "summary"}
       /\ registered = q =>
            Laid(Q, D) /\ ToSet(queue[q].items) \subseteq ToSet(Q.items) \cup gone

\* A sweep takes off the one message the runner was shown.
LEMMA AfterSweepIs ==
  ASSUME NEW P, Sound(P), NEW D, Steady(D), D.pc \in {"sweep", "resweep"}
  PROVE  /\ Sound(AfterSweep(P, D))
         /\ Empty(P) => Empty(AfterSweep(P, D))
         /\ AfterSweep(P, D).items = SweptItems(P, D)
         /\ AfterSweep(P, D).drop = P.drop
         /\ P.over = <<>> /\ P.sources = <<>> =>
              AfterSweep(P, D).over = <<>> /\ AfterSweep(P, D).sources = <<>>
         /\ Laid(P, D) => ToSet(P.items) \subseteq ToSet(SweptItems(P, D)) \cup ToSet(D.hand)
<1> DEFINE t == SweptItems(P, D)
           R == AfterSweep(P, D)
<1>1. /\ P \in QueueObjects /\ P.items \in Seq(Msgs) /\ Len(P.items) \in Nat
      /\ IsInjective(P.items)
  BY SoundFields
<1>2. D.at \in Nat /\ D.at > 0
  BY DEF Steady, DrainStates
<1>3. t \in Seq(Msgs) /\ IsInjective(t) /\ (P.items = <<>> => t = <<>>)
  <2>1. CASE D.at > Len(P.items)
    BY <2>1, <1>1 DEF SweptItems
  <2>2. CASE D.at <= Len(P.items)
    <3>1. D.at \in 1..Len(P.items)
      BY <2>2, <1>1, <1>2
    <3>2. P.items # <<>>
      BY <3>1
    <3>3. t = RemoveAt(P.items, D.at)
      BY <2>2, <1>1, <1>2 DEF SweptItems
    <3> HIDE DEF t
    <3> QED BY <3>1, <3>2, <3>3, <1>1, RemoveSeq, RemoveInjective
  <2> QED BY <1>1, <1>2, <2>1, <2>2
<1>4. R = IF t = <<>> THEN [Without(P) EXCEPT !.items = <<>>] ELSE [P EXCEPT !.items = t]
  BY DEF AfterSweep
<1>5. ASSUME Laid(P, D)
      PROVE  ToSet(P.items) \subseteq ToSet(t) \cup ToSet(D.hand)
  <2>1. D.at \in 1..Len(P.items) /\ D.hand = <<P.items[D.at]>>
    BY <1>5 DEF Laid
  <2>2. t = RemoveAt(P.items, D.at)
    BY <2>1, <1>1, <1>2 DEF SweptItems
  <2>3. ToSet(D.hand) = {P.items[D.at]}
    BY <2>1 DEF ToSet
  <2> HIDE DEF t
  <2>4. \A m \in ToSet(P.items) : m \in ToSet(t) \/ m = P.items[D.at]
    BY <2>1, <2>2, <1>1, RemoveKeeps
  <2> QED BY <2>3, <2>4
<1> HIDE DEF t, R
<1>6. CASE t = <<>>
  <2> DEFINE W == Without(P)
  <2>1. Sound(W) /\ W.over = <<>> /\ W.sources = <<>> /\ W.drop = P.drop
    BY WithoutSound
  <2>2. W \in QueueObjects
    BY <2>1, SoundFields
  <2> HIDE DEF W
  <2>3. R = [W EXCEPT !.items = <<>>]
    BY <1>4, <1>6 DEF W
  <2>4. R.items = <<>> /\ R.over = <<>> /\ R.sources = <<>> /\ R.drop = P.drop
    BY <2>1, <2>2, <2>3 DEF QueueObjects
  <2>5. Sound(R)
    BY <2>1, <2>3, <1>3, <1>6, ItemsSound
  <2> QED BY <2>4, <2>5, <1>5, <1>6 DEF Empty, t, R
<1>7. CASE t # <<>>
  <2>1. R = [P EXCEPT !.items = t]
    BY <1>4, <1>7
  <2>2. R.items = t /\ R.over = P.over /\ R.sources = P.sources /\ R.drop = P.drop
    BY <2>1, <1>1 DEF QueueObjects
  <2>3. Sound(R)
    BY <2>1, <1>3, ItemsSound
  <2> QED BY <2>2, <2>3, <1>3, <1>5, <1>7 DEF Empty, t, R
<1> QED BY <1>6, <1>7

\* A drain that turns to a state that fits its contents moves.
LEMMA FitMoves ==
  ASSUME NEW q \in Queues, Core(registered, queue, drain),
         NEW Q, Sound(Q), NEW D, Fit(Q, D), NEW gone,
         Empty(queue[q]) => Empty(Q), Q.drop = queue[q].drop,
         queue[q].over = <<>> /\ queue[q].sources = <<>> =>
           Q.over = <<>> /\ Q.sources = <<>>,
         Lined(registered, queue, drain) /\ registered = q =>
           ToSet(queue[q].items) \subseteq ToSet(Q.items) \cup gone
  PROVE  Moved(q, Q, D, gone)
<1>1. Lined(registered, queue, drain) =>
        Q.drop = "new" /\ Q.over = <<>> /\ Q.sources = <<>>
  BY DEF Lined
<1>2. Steady(D) /\ Laid(Q, D) /\ (D.pc = "off" => Empty(Q))
      /\ (Q.over = <<>> => D.told = <<>> /\ D.job \notin {"carry", "summary"})
  BY DEF Fit
<1> QED BY <1>1, <1>2 DEF Moved

\* Every step of a drain moves: it lets go of the message it has shown,
LEMMA DiscardMoves ==
  ASSUME NEW q \in Queues, Core(registered, queue, drain), Discard(q)
  PROVE  \E Q, D : /\ Moved(q, Q, D, ToSet(drain[q].hand))
                   /\ drain' = [drain EXCEPT ![q] = D]
                   /\ registered' = RegD(registered, q, D)
                   /\ queue' = QueD(queue, q, Q, D)
<1> DEFINE P == queue[q]
           D0 == drain[q]
           t == SweptItems(P, D0)
           Q == AfterSweep(P, D0)
<1>1. Sound(P) /\ Steady(D0) /\ D0.pc \in {"sweep", "resweep"}
  BY DEF Core, Discard
<1>2. /\ Sound(Q) /\ (Empty(P) => Empty(Q)) /\ Q.items = t /\ Q.drop = P.drop
      /\ (P.over = <<>> /\ P.sources = <<>> => Q.over = <<>> /\ Q.sources = <<>>)
      /\ (Laid(P, D0) => ToSet(P.items) \subseteq ToSet(t) \cup ToSet(D0.hand))
  BY <1>1, AfterSweepIs
<1>3. Lined(registered, queue, drain) /\ registered = q => Laid(P, D0)
  BY DEF Lined
<1>4. D0.at \in Nat /\ D0.at > 0 /\ D0.force \in BOOLEAN
  BY <1>1 DEF Steady, DrainStates
<1>n. Len(t) \in Nat
  BY <1>2, SoundFields
<1>d. /\ D0.at - 1 > Len(t) => Drains(q, P, Looped(P, FALSE))
      /\ D0.at - 1 <= Len(t) /\ AbortedAt(Q, D0.at - 1) # {} =>
           Drains(q, Q, Discarding(Q, D0.at - 1, D0.pc, D0.force))
  <2>1. ~(D0.at - 1 > Len(t) /\ D0.at - 1 <= Len(t))
    BY <1>4, <1>n
  <2>2. (CASE D0.at - 1 > Len(t) -> Drains(q, P, Looped(P, FALSE))
          [] D0.at - 1 <= Len(t) /\ AbortedAt(Q, D0.at - 1) # {} ->
               Drains(q, Q, Discarding(Q, D0.at - 1, D0.pc, D0.force))
          [] OTHER -> Drains(q, Q, Swept(Q, D0.pc, D0.force)))
    BY Zenon DEF Discard
  <2> QED BY <2>1, <2>2, Zenon
<1>5. CASE D0.at - 1 > Len(t)
  <2>1. Drains(q, P, Looped(P, FALSE))
    BY <1>d, <1>5
  <2>2. Moved(q, P, Looped(P, FALSE), ToSet(D0.hand))
    BY <1>1, LoopedFit, FitMoves
  <2> QED BY <2>1, <2>2 DEF Drains, RegD, QueD
<1>6. CASE D0.at - 1 <= Len(t) /\ AbortedAt(Q, D0.at - 1) # {}
  <2> DEFINE D == Discarding(Q, D0.at - 1, D0.pc, D0.force)
  <2>1. Drains(q, Q, D)
    BY <1>d, <1>6
  <2>2. D0.at - 1 \in 0..Len(Q.items)
    BY <1>2, <1>4, <1>6, SoundFields
  <2>3. Fit(Q, D)
    BY <2>2, <1>1, <1>2, <1>4, <1>6, DiscardingFit
  <2> HIDE DEF D
  <2>4. Moved(q, Q, D, ToSet(D0.hand))
    BY <2>3, <1>2, <1>3, FitMoves
  <2> QED BY <2>1, <2>4 DEF Drains, RegD, QueD
<1>7. CASE ~(D0.at - 1 > Len(t)) /\ ~(D0.at - 1 <= Len(t) /\ AbortedAt(Q, D0.at - 1) # {})
  <2> DEFINE D == Swept(Q, D0.pc, D0.force)
  <2>1. Drains(q, Q, D)
    BY <1>7 DEF Discard
  <2>3. Fit(Q, D)
    BY <1>2, <1>4, SweptFit
  <2> HIDE DEF D
  <2>4. Moved(q, Q, D, ToSet(D0.hand))
    BY <2>3, <1>2, <1>3, FitMoves
  <2> QED BY <2>1, <2>4 DEF Drains, RegD, QueD
<1> QED BY <1>5, <1>6, <1>7

\* of nothing when the debounce ends,
LEMMA DebouncedMoves ==
  ASSUME NEW q \in Queues, Core(registered, queue, drain), Debounced(q)
  PROVE  \E Q, D : /\ Moved(q, Q, D, {})
                   /\ drain' = [drain EXCEPT ![q] = D]
                   /\ registered' = RegD(registered, q, D)
                   /\ queue' = QueD(queue, q, Q, D)
<1> DEFINE Q == queue[q]
           force == drain[q].force
<1>1. Sound(Q) /\ force \in BOOLEAN /\ Len(Q.items) \in 0..Len(Q.items)
  BY SoundFields DEF Core, Steady, DrainStates
<1>2. CASE AbortedAt(Q, Len(Q.items)) # {}
  <2> DEFINE D == Discarding(Q, Len(Q.items), "resweep", force)
  <2>1. Drains(q, Q, D)
    BY <1>2 DEF Debounced
  <2>2. Fit(Q, D)
    BY <1>1, <1>2, DiscardingFit
  <2> HIDE DEF D
  <2>3. Moved(q, Q, D, {})
    BY <2>2, <1>1, FitMoves
  <2> QED BY <2>1, <2>3 DEF Drains, RegD, QueD
<1>3. CASE ~(AbortedAt(Q, Len(Q.items)) # {})
  <2> DEFINE D == Swept(Q, "resweep", force)
  <2>1. Drains(q, Q, D)
    BY <1>3 DEF Debounced
  <2>2. Fit(Q, D)
    BY <1>1, SweptFit
  <2> HIDE DEF D
  <2>3. Moved(q, Q, D, {})
    BY <2>2, <1>1, FitMoves
  <2> QED BY <2>1, <2>3 DEF Drains, RegD, QueD
<1> QED BY <1>2, <1>3

\* of nothing when its turn throws,
LEMMA ThrowsMoves ==
  ASSUME NEW q \in Queues, Core(registered, queue, drain), Throws(q)
  PROVE  \E Q, D : /\ Moved(q, Q, D, {})
                   /\ drain' = [drain EXCEPT ![q] = D]
                   /\ registered' = RegD(registered, q, D)
                   /\ queue' = QueD(queue, q, Q, D)
<1> DEFINE P == queue[q]
           Q == IF drain[q].told # <<>> THEN [P EXCEPT !.sources = <<>>] ELSE P
           D == Looped(Q, FALSE)
<1>1. Sound(P) /\ P \in QueueObjects
  BY SoundFields DEF Core
<1>2. /\ Sound(Q) /\ Q.items = P.items /\ Q.over = P.over /\ Q.drop = P.drop
      /\ (P.sources = <<>> => Q.sources = <<>>)
  <2> DEFINE R == [P EXCEPT !.sources = <<>>]
  <2>1. R \in QueueObjects
    <3>1. <<>> \in Seq(Msgs)
      OBVIOUS
    <3> QED BY <3>1, <1>1 DEF QueueObjects
  <2>2. R.items = P.items /\ R.over = P.over /\ R.drop = P.drop /\ R.lines = P.lines
        /\ R.sources = <<>>
    BY <1>1 DEF QueueObjects
  <2> HIDE DEF R
  <2>3. Sound(R)
    BY <2>1, <2>2, <1>1 DEF Sound
  <2> QED BY <2>2, <2>3, <1>1 DEF R
<1>3. Drains(q, Q, D)
  BY DEF Throws
<1> HIDE DEF Q
<1>4. Fit(Q, D)
  BY <1>2, LoopedFit
<1> HIDE DEF D
<1>5. Moved(q, Q, D, {})
  BY <1>2, <1>4, FitMoves DEF Empty
<1> QED BY <1>3, <1>5 DEF Drains, RegD, QueD

\* A stretch of a queue after some messages are taken off its head.
LEMMA SubSeqShift ==
  ASSUME NEW S, NEW s \in Seq(S), NEW n \in 0..Len(s),
         NEW a \in n..Len(s), NEW b \in a..Len(s)
  PROVE  SubSeq(Behead(s, n), (a - n) + 1, b - n) = SubSeq(s, a + 1, b)
<1> DEFINE t == Behead(s, n)
           u == SubSeq(t, (a - n) + 1, b - n)
           v == SubSeq(s, a + 1, b)
<1>0. Len(s) \in Nat /\ n \in Nat /\ n <= Len(s) /\ a \in Nat /\ b \in Nat /\ n <= a /\ a <= b
      /\ b <= Len(s)
  OBVIOUS
<1>1. /\ t \in Seq(S) /\ Len(t) = Len(s) - n
      /\ \A i \in 1..(Len(s) - n) : t[i] = s[n + i]
  BY <1>0, BeheadSeq
<1> HIDE DEF t
<1>2. v \in Seq(S) /\ Len(v) = b - a /\ \A i \in 1..(b - a) : v[i] = s[a + i]
  BY <1>0
<1>3. /\ u \in Seq(S) /\ Len(u) = b - a
      /\ \A i \in 1..(b - a) : u[i] = t[(a - n) + i]
  <2> DEFINE x == (a - n) + 1
             y == b - n
  <2>1. x \in 1..(Len(t) + 1) /\ y \in 0..Len(t) /\ y - x + 1 = b - a /\ x \in Int /\ y \in Int
    BY <1>0, <1>1
  <2>2. \A i \in 1..(b - a) : x + i - 1 = (a - n) + i
    BY <1>0
  <2> HIDE DEF x, y
  <2>3. CASE x <= y
    <3>1. SubSeq(t, x, y) \in Seq(S) /\ Len(SubSeq(t, x, y)) = y - x + 1
          /\ \A i \in 1..(y - x + 1) : SubSeq(t, x, y)[i] = t[x + i - 1]
      BY <1>1, <2>1, <2>3
    <3> QED BY <2>1, <2>2, <3>1 DEF x, y
  <2>4. CASE y < x
    <3>1. SubSeq(t, x, y) = <<>>
      BY <2>1, <2>4, SubSeqEmpty
    <3>2. b - a = 0
      BY <1>0, <2>1, <2>4
    <3> QED BY <3>1, <3>2 DEF x, y
  <2> QED BY <2>1, <2>3, <2>4
<1> HIDE DEF u, v
<1>4. \A i \in 1..(b - a) : (a - n) + i \in 1..(Len(s) - n) /\ n + ((a - n) + i) = a + i
  BY <1>0
<1>5. \A i \in 1..Len(u) : u[i] = v[i]
  BY <1>1, <1>2, <1>3, <1>4
<1>6. u = v
  BY <1>2, <1>3, <1>5, SeqEqual
<1> QED BY <1>6 DEF u, v, t

\* The next turn of a batch takes the messages that the one before it left at
\* the head.
LEMMA NextGroupLaid ==
  ASSUME NEW s \in Seq(Msgs), NEW h \in Seq(Msgs), NEW r \in Seq(Seq(Msgs)), r # <<>>,
         IsPrefix(h, s), Consecutive(s, Len(h), r)
  PROVE  /\ IsPrefix(Head(r), Behead(s, Len(h)))
         /\ Consecutive(Behead(s, Len(h)), Len(Head(r)), Tail(r))
<1> DEFINE n == Len(h)
           N == Len(r)
           t == Behead(s, n)
           w == Tail(r)
<1>0. /\ n \in Nat /\ N \in Nat /\ N > 0 /\ Len(s) \in Nat
      /\ Head(r) = r[1] /\ r[1] \in Seq(Msgs)
      /\ Len(w) = N - 1 /\ \A k \in 1..(N - 1) : w[k] = r[k + 1]
  BY EmptySeq, LenProperties
<1> HIDE DEF w
<1>1. n <= Len(s) /\ \A i \in 1..n : h[i] = s[i]
  BY PrefixIs
<1>2. PICK cut \in [0..N -> 0..Len(s)] :
        /\ cut[0] = n
        /\ \A k \in 1..N : cut[k-1] <= cut[k] /\ r[k] = SubSeq(s, cut[k-1] + 1, cut[k])
  BY DEF Consecutive
<1>3. /\ t \in Seq(Msgs) /\ Len(t) = Len(s) - n
      /\ \A i \in 1..(Len(s) - n) : t[i] = s[n + i]
  BY <1>0, <1>1, BeheadSeq
<1> HIDE DEF n, N, t
<1>p. \A k \in 0..N : cut[k] \in 0..Len(s) /\ cut[k] \in Int
  <2>1. \A k \in 0..N : cut[k] \in 0..Len(s)
    BY <1>2
  <2>2. \A i \in 0..Len(s) : i \in Int
    BY <1>0
  <2> QED BY <2>1, <2>2
<1>4. \A k \in 0..N : cut[k] \in n..Len(s)
  <2> DEFINE W == {k \in 0..N : cut[k] < n}
  <2>a. \A k \in 0..N : cut[k] \in n..Len(s) \/ cut[k] < n
    BY <1>0, <1>p
  <2> SUFFICES ASSUME W # {}
               PROVE  FALSE
    BY <2>a
  <2>0. W \subseteq Nat
    BY <1>0
  <2>1. PICK k \in W : \A j \in W : k <= j
    BY <2>0, NatLeast, Zenon
  <2>b. k \in 0..N /\ cut[k] < n /\ ~(n < n)
    BY <1>0
  <2>c. k # 0
    BY <2>b, <1>2
  <2>2. k # 0 /\ k \in 1..N /\ k - 1 \in 0..N
    BY <2>b, <2>c, <1>0
  <2>3. k - 1 \notin W
    BY <2>1, <2>2
  <2>4. cut[k-1] >= n /\ cut[k-1] <= cut[k] /\ cut[k] < n
    BY <2>2, <2>3, <1>0, <1>2
  <2>5. cut[k-1] \in Int /\ cut[k] \in Int
    BY <2>2, <1>0
  <2> QED BY <2>4, <2>5, <1>0
<1>5. \A k \in 1..N : /\ cut[k] \in cut[k-1]..Len(s) /\ cut[k-1] \in n..Len(s)
                      /\ r[k] = SubSeq(t, (cut[k-1] - n) + 1, cut[k] - n)
  <2> SUFFICES ASSUME NEW k \in 1..N
               PROVE  /\ cut[k] \in cut[k-1]..Len(s) /\ cut[k-1] \in n..Len(s)
                      /\ r[k] = SubSeq(t, (cut[k-1] - n) + 1, cut[k] - n)
    OBVIOUS
  <2>1. k - 1 \in 0..N /\ k \in 0..N
    BY <1>0
  <2>2. cut[k-1] \in n..Len(s) /\ cut[k] \in n..Len(s) /\ cut[k-1] <= cut[k]
    BY <2>1, <1>2, <1>4
  <2>3. cut[k] \in cut[k-1]..Len(s)
    BY <2>2, <1>0
  <2>4. n \in 0..Len(s)
    BY <1>0, <1>1
  <2> DEFINE a == cut[k-1]
             b == cut[k]
  <2>5. a \in n..Len(s) /\ b \in a..Len(s) /\ r[k] = SubSeq(s, a + 1, b)
    BY <2>2, <2>3, <1>2
  <2> HIDE DEF a, b
  <2>6. SubSeq(Behead(s, n), (a - n) + 1, b - n) = SubSeq(s, a + 1, b)
    BY <2>4, <2>5, SubSeqShift
  <2> QED BY <2>2, <2>3, <2>5, <2>6 DEF t, a, b
<1>6. Len(r[1]) = cut[1] - n /\ IsPrefix(r[1], t)
  <2>1. 1 \in 1..N /\ 1 - 1 = 0
    BY <1>0
  <2>2. cut[1] \in n..Len(s) /\ r[1] = SubSeq(t, (n - n) + 1, cut[1] - n)
    BY <2>1, <1>2, <1>5
  <2> DEFINE b == cut[1] - n
  <2>3. b \in 0..Len(t) /\ (n - n) + 1 = 1
    <3>1. cut[1] \in Int /\ n <= cut[1] /\ cut[1] <= Len(s)
      BY <2>2, <1>0
    <3> QED BY <3>1, <1>0, <1>3
  <2> HIDE DEF b
  <2>4. r[1] = SubSeq(t, 1, b)
    BY <2>2, <2>3 DEF b
  <2>5. Len(SubSeq(t, 1, b)) = b /\ \A i \in 1..b : SubSeq(t, 1, b)[i] = t[i]
    BY <2>3, <1>3
  <2>6. Len(r[1]) = b /\ b <= Len(t) /\ \A i \in 1..Len(r[1]) : r[1][i] = t[i]
    BY <2>3, <2>4, <2>5, <1>3
  <2>7. IsPrefix(r[1], t)
    BY <2>6, <1>0, <1>3, PrefixIs
  <2> QED BY <2>6, <2>7 DEF b
<1>7. Consecutive(t, cut[1] - n, w)
  <2> DEFINE d == [k \in 0..(N - 1) |-> cut[k + 1] - n]
  <2>1. \A k \in 0..(N - 1) : k + 1 \in 0..N
    BY <1>0
  <2>2. \A k \in 0..(N - 1) : cut[k + 1] - n \in 0..Len(t)
    BY <2>1, <1>0, <1>3, <1>4
  <2>3. d \in [0..Len(w) -> 0..Len(t)] /\ d[0] = cut[1] - n
    <3>1. 0 \in 0..(N - 1) /\ 0 + 1 = 1
      BY <1>0
    <3> QED BY <2>2, <3>1, <1>0
  <2>4. \A k \in 1..Len(w) : d[k-1] <= d[k] /\ w[k] = SubSeq(t, d[k-1] + 1, d[k])
    <3> SUFFICES ASSUME NEW k \in 1..(N - 1)
                 PROVE  d[k-1] <= d[k] /\ w[k] = SubSeq(t, d[k-1] + 1, d[k])
      BY <1>0
    <3>1. /\ k + 1 \in 1..N /\ k - 1 \in 0..(N - 1) /\ k \in 0..(N - 1)
          /\ (k + 1) - 1 = k /\ (k - 1) + 1 = k /\ k \in 0..N /\ k + 1 \in 0..N
      BY <1>0
    <3>2. d[k] = cut[k + 1] - n /\ d[k - 1] = cut[k] - n
      BY <3>1
    <3>3. cut[k] <= cut[k + 1] /\ r[k + 1] = SubSeq(t, (cut[k] - n) + 1, cut[k + 1] - n)
      BY <3>1, <1>2, <1>5
    <3>4. cut[k] \in Int /\ cut[k + 1] \in Int
      BY <3>1, <1>p
    <3>5. w[k] = r[k + 1]
      BY <1>0
    <3>6. w[k] = SubSeq(t, d[k - 1] + 1, d[k])
      BY <3>2, <3>3, <3>5
    <3>7. d[k-1] <= d[k]
      BY <3>2, <3>3, <3>4, <1>0
    <3> QED BY <3>6, <3>7
  <2> HIDE DEF d
  <2> QED BY <2>3, <2>4 DEF Consecutive
<1> QED BY <1>0, <1>6, <1>7 DEF t, w, n

\* and of the hand of a turn that ended well.
LEMMA FinishMoves ==
  ASSUME NEW q \in Queues, Core(registered, queue, drain), Finish(q)
  PROVE  \E Q, D : /\ Moved(q, Q, D, ToSet(drain[q].hand))
                   /\ drain' = [drain EXCEPT ![q] = D]
                   /\ registered' = RegD(registered, q, D)
                   /\ queue' = QueD(queue, q, Q, D)
<1> DEFINE P == queue[q]
           D0 == drain[q]
           h == D0.hand
           r == D0.rest
           Q == Served(P, D0)
           gone == ToSet(h)
<1>1. Sound(P) /\ Steady(D0) /\ D0.pc = "running"
  BY DEF Core, Finish
<1>2. /\ Sound(Q) /\ (Empty(P) => Empty(Q)) /\ Q.items = Behead(P.items, Len(h))
      /\ (P.over = <<>> /\ P.sources = <<>> => Q.over = <<>> /\ Q.sources = <<>>)
      /\ Q.drop = P.drop
  BY <1>1, ServedSound
<1>3. /\ P.items \in Seq(Msgs) /\ h \in Seq(Msgs) /\ r \in Seq(Seq(Msgs))
      /\ D0.force \in BOOLEAN /\ \A k \in 1..Len(r) : NoMix(r[k])
      /\ \A m, n \in Batch(h, r) : m # n => RouteOf[m] = RouteOf[n] /\ {m, n} \cap Solo = {}
  BY <1>1, SoundFields DEF Steady, Batched, DrainStates
<1>4. Lined(registered, queue, drain) /\ registered = q =>
        IsPrefix(h, P.items) /\ Consecutive(P.items, Len(h), r)
  BY <1>1 DEF Lined, Laid
<1>5. Lined(registered, queue, drain) /\ registered = q =>
        ToSet(P.items) \subseteq ToSet(Q.items) \cup gone
  <2> SUFFICES ASSUME IsPrefix(h, P.items)
               PROVE  ToSet(P.items) \subseteq ToSet(Behead(P.items, Len(h))) \cup ToSet(h)
    BY <1>2, <1>4
  <2> DEFINE s == P.items
             t == Behead(s, Len(h))
  <2>0. s \in Seq(Msgs)
    BY <1>3
  <2>1. Len(h) \in Nat /\ Len(h) <= Len(s) /\ \A i \in 1..Len(h) : h[i] = s[i]
    BY <1>3, PrefixIs
  <2>2. /\ t \in Seq(Msgs) /\ Len(t) = Len(s) - Len(h)
        /\ \A i \in 1..(Len(s) - Len(h)) : t[i] = s[Len(h) + i]
    BY <2>0, <2>1, BeheadSeq
  <2> HIDE DEF s, t, h
  <2> SUFFICES ASSUME NEW m \in ToSet(s)
               PROVE  m \in ToSet(t) \cup ToSet(h)
    BY DEF s, t, h
  <2>3. PICK i \in 1..Len(s) : s[i] = m
    BY <2>0, ToSetMembers
  <2>4. CASE i <= Len(h)
    <3>1. i \in 1..Len(h) /\ h[i] = m
      BY <2>0, <2>1, <2>3, <2>4
    <3> QED BY <3>1, <1>3, ToSetMembers
  <2>5. CASE i > Len(h)
    <3>1. i - Len(h) \in 1..Len(t) /\ Len(h) + (i - Len(h)) = i
      BY <2>0, <2>1, <2>2, <2>5
    <3>2. t[i - Len(h)] = m
      BY <3>1, <2>2, <2>3
    <3> QED BY <3>1, <3>2, <2>2, ToSetMembers
  <2> QED BY <2>1, <2>4, <2>5, <2>3, <2>0
<1> HIDE DEF Q, gone
<1>6. CASE r # <<>>
  <2> DEFINE D == Turn("group", Head(r), Tail(r), <<>>, D0.force)
  <2>1. Drains(q, Q, D)
    BY <1>6 DEF Finish, Q
  <2>2. /\ Head(r) = r[1] /\ Head(r) \in Seq(Msgs) /\ Tail(r) \in Seq(Seq(Msgs))
        /\ Len(Tail(r)) = Len(r) - 1 /\ 1 \in 1..Len(r)
        /\ \A k \in 1..Len(Tail(r)) : Tail(r)[k] = r[k + 1] /\ k + 1 \in 1..Len(r)
    BY <1>3, <1>6, EmptySeq, LenProperties
  <2>3. NoMix(Head(r)) /\ \A k \in 1..Len(Tail(r)) : NoMix(Tail(r)[k])
    BY <2>2, <1>3
  <2>4. /\ D.pc = "opening" /\ D.hand = Head(r) /\ D.rest = Tail(r) /\ D.told = <<>>
        /\ D.job = "group"
    BY DEF Turn, Idle
  <2>5. D \in DrainStates
    <3>1. <<>> \in Seq(Msgs)
      OBVIOUS
    <3> QED BY <3>1, <2>2, <1>3, IdleDrain DEF Turn, DrainStates
  <2>6. Lined(registered, queue, drain) /\ registered = q => Laid(Q, D)
    <3> SUFFICES ASSUME IsPrefix(h, P.items), Consecutive(P.items, Len(h), r)
                 PROVE  IsPrefix(Head(r), Q.items) /\ Consecutive(Q.items, Len(Head(r)), Tail(r))
      BY <1>4, <2>4 DEF Laid
    <3> QED BY <1>2, <1>3, <1>6, NextGroupLaid
  <2> HIDE DEF D
  <2>10. Batched(Head(r), Tail(r), <<>>, "group")
    <3>1. Batch(Head(r), Tail(r)) \subseteq Batch(h, r)
      BY <2>2 DEF Batch
    <3> QED BY <3>1, <1>3 DEF Batched
  <2>7. Steady(D)
    BY <2>3, <2>4, <2>5, <2>10 DEF Steady
  <2>8. Lined(registered, queue, drain) =>
          Q.drop = "new" /\ Q.over = <<>> /\ Q.sources = <<>>
    BY <1>2 DEF Lined
  <2>9. Moved(q, Q, D, gone)
    BY <1>2, <1>5, <2>4, <2>6, <2>7, <2>8 DEF Moved
  <2> QED BY <2>1, <2>9 DEF Drains, RegD, QueD, gone
<1>7. CASE r = <<>>
  <2> DEFINE D == Looped(Q, D0.force)
  <2>1. Drains(q, Q, D)
    BY <1>7 DEF Finish, Q
  <2>2. Fit(Q, D)
    BY <1>2, <1>3, LoopedFit
  <2> HIDE DEF D
  <2>3. Moved(q, Q, D, gone)
    BY <2>2, <1>2, <1>5, FitMoves
  <2> QED BY <2>1, <2>3 DEF Drains, RegD, QueD, gone
<1> QED BY <1>6, <1>7

\* What a drain that moves keeps.
LEMMA MovedCore ==
  ASSUME NEW q \in Queues, Core(registered, queue, drain),
         NEW Q, NEW D, NEW gone, Moved(q, Q, D, gone)
  PROVE  /\ Core(RegD(registered, q, D), QueD(queue, q, Q, D), [drain EXCEPT ![q] = D])
         /\ Lined(registered, queue, drain) =>
              /\ Lined(RegD(registered, q, D), QueD(queue, q, Q, D), [drain EXCEPT ![q] = D])
              /\ Waiting(registered, queue)
                   \subseteq Waiting(RegD(registered, q, D), QueD(queue, q, Q, D)) \cup gone
<1>1. /\ Sound(Q) /\ Steady(D) /\ (D.pc = "off" => Empty(Q))
      /\ (~Empty(Q) => registered = q)
  BY DEF Moved, Core
<1>2. Core(RegD(registered, q, D), QueD(queue, q, Q, D), [drain EXCEPT ![q] = D])
  BY <1>1, DrainsCore
<1>3. ASSUME Lined(registered, queue, drain)
      PROVE  /\ Lined(RegD(registered, q, D), QueD(queue, q, Q, D), [drain EXCEPT ![q] = D])
             /\ Waiting(registered, queue)
                  \subseteq Waiting(RegD(registered, q, D), QueD(queue, q, Q, D)) \cup gone
  <2>1. /\ Q.drop = "new" /\ Q.over = <<>> /\ Q.sources = <<>>
        /\ D.told = <<>> /\ D.job \notin {"carry", "summary"}
        /\ (registered = q =>
             Laid(Q, D) /\ ToSet(queue[q].items) \subseteq ToSet(Q.items) \cup gone)
    BY <1>3 DEF Moved
  <2>2. Lined(RegD(registered, q, D), QueD(queue, q, Q, D), [drain EXCEPT ![q] = D])
    BY <2>1, <1>3, DrainsLined
  <2>3. /\ registered = q =>
             Waiting(RegD(registered, q, D), QueD(queue, q, Q, D)) = ToSet(Q.items)
        /\ registered # q =>
             Waiting(RegD(registered, q, D), QueD(queue, q, Q, D)) = Waiting(registered, queue)
    BY <1>1, <2>1, DrainsWaiting
  <2>4. registered = q => Waiting(registered, queue) = ToSet(queue[q].items)
    <3>1. queue[q].over = <<>> /\ queue[q].items \in Seq(Msgs) /\ q # NoQueue
      BY <1>3, SoundFields, NoQueueUnlisted DEF Core, Lined
    <3>2. queue[q].items \o <<>> = queue[q].items
      BY <3>1
    <3> QED BY <3>1, <3>2 DEF Waiting
  <2> QED BY <2>1, <2>2, <2>3, <2>4
<1> QED BY <1>2, <1>3

\* Core and Lined when the drain of the registered object is scheduled.
LEMMA ScheduledCore ==
  ASSUME NEW q \in Queues, Core(q, queue, drain), NEW Q, Sound(Q), Scheduled(q, Q)
  PROVE  /\ Core(registered, queue, drain)'
         /\ Lined(q, queue, drain) /\ Q.drop = "new" /\ Q.over = <<>> /\ Q.sources = <<>>
              /\ Laid(Q, drain[q]) =>
              /\ Lined(registered, queue, drain)'
              /\ Waiting(registered, queue)' = ToSet(Q.items)
<1> DEFINE D == IF drain[q].pc = "off" THEN Looped(Q, FALSE) ELSE drain[q]
<1>1. Fit(Q, Looped(Q, FALSE))
  BY LoopedFit
<1>2. Steady(drain[q])
  BY DEF Core
<1>3. Steady(D) /\ (D.pc = "off" => Empty(Q))
  BY <1>1, <1>2 DEF Fit
<1>4. ASSUME Lined(q, queue, drain), Q.over = <<>>, Laid(Q, drain[q])
      PROVE  Laid(Q, D) /\ D.told = <<>> /\ D.job \notin {"carry", "summary"}
  BY <1>1, <1>4 DEF Fit, Lined
<1>5. /\ drain' = [drain EXCEPT ![q] = D]
      /\ registered' = RegD(q, q, D)
      /\ queue' = QueD(queue, q, Q, D)
  BY DEF Scheduled, RegD, QueD
<1> HIDE DEF D
<1>6. Core(RegD(q, q, D), QueD(queue, q, Q, D), [drain EXCEPT ![q] = D])
  BY <1>3, DrainsCore
<1>7. ASSUME Lined(q, queue, drain), Q.drop = "new", Q.over = <<>>, Q.sources = <<>>,
             Laid(Q, drain[q])
      PROVE  /\ Lined(RegD(q, q, D), QueD(queue, q, Q, D), [drain EXCEPT ![q] = D])
             /\ Waiting(RegD(q, q, D), QueD(queue, q, Q, D)) = ToSet(Q.items)
  BY <1>3, <1>4, <1>7, DrainsLined, DrainsWaiting
<1> QED BY <1>5, <1>6, <1>7

-----------------------------------------------------------------------------
(* A message arrives *)

\* The settings a message carries are settings.
LEMMA SettingsOK ==
  ASSUME policy \in Policies, NEW s \in policy
  PROVE  s \in [mode : {"followup", "collect"}, cap : Nat \ {0},
                drop : {"summarize", "old", "new"}]
BY FollowupConstants

\* Only messages with drop = "new" come in.
NewOnly == \A S \in Policies : \A s \in S : s.drop = "new"

\* What an arrival does to fates and lifecycles when nothing is dropped for it.
Arrives(m, joins) ==
  /\ fate' = [n \in Msgs |-> IF n = m
                             THEN IF joins THEN "queued"
                                  ELSE IF fate[m] = "new" THEN "refused" ELSE fate[m]
                             ELSE fate[n]]
  /\ settled' = settled

\* The object q gets contents R, and its drain may start.
Writes(q, R) ==
  \/ registered' = q /\ queue' = [queue EXCEPT ![q] = R] /\ drain' = drain
  \/ Scheduled(q, R)

\* The object that is registered next exists and its drain is off.
LEMMA UnusedLeast ==
  Unused # {} => Min(Unused) \in Queues /\ drain[Min(Unused)].pc = "off"
<1>1. Unused \in SUBSET Nat
  BY FollowupConstants DEF Unused
<1>2. Unused # {} => Min(Unused) \in Unused
  BY <1>1, MinIn
<1> QED BY <1>2 DEF Unused

\* A message that arrives leaves the session alone, or one object that is or
\* becomes the registered one gets new contents: under drop = "new" the messages
\* that waited, and this one if it is accepted.
LEMMA EnqueueWrites ==
  ASSUME Core(registered, queue, drain), policy \in Policies,
         NEW m \in Msgs, NEW s \in policy, Enqueue(m, s)
  PROVE  \/ registered' = registered /\ queue' = queue /\ drain' = drain /\ Arrives(m, FALSE)
         \/ \E q \in Queues : \E R :
              /\ registered = q \/ (registered = NoQueue /\ drain[q].pc = "off")
              /\ Sound(R) /\ Writes(q, R)
              /\ Lined(registered, queue, drain) /\ s.drop = "new" =>
                   /\ R.drop = "new" /\ R.over = <<>> /\ R.sources = <<>>
                   /\ Laid(R, drain[q])
                   /\ \/ ToSet(R.items) = Waiting(registered, queue) /\ Arrives(m, FALSE)
                      \/ ToSet(R.items) = Waiting(registered, queue) \cup {m} /\ Arrives(m, TRUE)
<1> DEFINE Q(q) == Configured(q, s)
           ignored == m \in aborted
           joins(q) == ~ignored /\ ~Duplicate(Q(q), m) /\ ~Refused(Q(q))
           R(q) == IF joins(q) THEN Accepted(Q(q), m) ELSE IF ignored THEN queue[q] ELSE Q(q)
<1>1. PICK q \in Queues :
        /\ IF registered # NoQueue THEN q = registered
           ELSE Unused # {} /\ q = Min(Unused)
        /\ CASE ignored /\ registered = NoQueue ->
                  UNCHANGED <<registered, queue, drain>>
             [] RunActive /\ ~(ignored /\ registered = NoQueue) ->
                  /\ registered' = q
                  /\ queue' = [queue EXCEPT ![q] = R(q)]
                  /\ UNCHANGED drain
             [] OTHER -> Scheduled(q, R(q))
        /\ IF joins(q) THEN Settle(Completed(Q(q), m)) ELSE UNCHANGED settled
        /\ fate' = [n \in Msgs |->
              IF n = m
              THEN IF joins(q) THEN "queued" ELSE IF fate[m] = "new" THEN "refused" ELSE fate[m]
              ELSE IF joins(q) /\ Q(q).drop = "old" /\ n \in Completed(Q(q), m)
                   THEN "gone" ELSE fate[n]]
  BY Zenon DEF Enqueue
<1>2. CASE ignored /\ registered = NoQueue
  <2>1. registered' = registered /\ queue' = queue /\ drain' = drain
    BY <1>1, <1>2, Zenon
  <2>2. ~joins(q)
    BY <1>2
  <2> HIDE DEF joins, R, Q
  <2>3. Arrives(m, FALSE)
    BY <1>1, <2>2 DEF Arrives
  <2> QED BY <2>1, <2>3
<1>3. CASE ~(ignored /\ registered = NoQueue)
  <2> DEFINE C == Configured(q, s)
             P == queue[q]
  <2>0. registered = q \/ (registered = NoQueue /\ drain[q].pc = "off")
    BY <1>1, UnusedLeast
  <2>1. Writes(q, R(q))
    <3>1. (CASE RunActive -> /\ registered' = q /\ queue' = [queue EXCEPT ![q] = R(q)]
                             /\ drain' = drain
             [] OTHER -> Scheduled(q, R(q)))
      BY <1>1, <1>3, Zenon
    <3> HIDE DEF R
    <3> QED BY <3>1, Zenon DEF Writes
  <2>2. Sound(P) /\ Steady(drain[q])
    BY DEF Core
  <2>3. /\ Sound(C) /\ C.drop = s.drop
        /\ (q = registered => C.items = P.items /\ C.over = P.over /\ C.sources = P.sources)
        /\ (q # registered => C.items = <<>> /\ C.over = <<>> /\ C.sources = <<>>)
    BY <2>2, SettingsOK, ConfiguredSound
  <2>4. ~Duplicate(C, m) => m \notin ToSet(C.items)
    BY DEF Duplicate
  <2> HIDE DEF C, P
  <2>5. Sound(R(q))
    <3>1. CASE joins(q)
      BY <3>1, <2>3, <2>4, AcceptedSound DEF C
    <3>2. CASE ~joins(q)
      BY <3>2, <2>2, <2>3 DEF C, P
    <3> QED BY <3>1, <3>2
  <2>6. ASSUME Lined(registered, queue, drain), s.drop = "new"
        PROVE  /\ R(q).drop = "new" /\ R(q).over = <<>> /\ R(q).sources = <<>>
               /\ Laid(R(q), drain[q])
               /\ \/ ToSet(R(q).items) = Waiting(registered, queue) /\ Arrives(m, FALSE)
                  \/ ToSet(R(q).items) = Waiting(registered, queue) \cup {m} /\ Arrives(m, TRUE)
    <3>1. /\ P.drop = "new" /\ P.over = <<>> /\ P.sources = <<>>
          /\ C.drop = "new" /\ C.over = <<>> /\ C.sources = <<>>
      BY <2>3, <2>6 DEF Lined, P
    <3>2. q # NoQueue /\ C.items \in Seq(Msgs) /\ P.items \in Seq(Msgs)
      BY <2>2, <2>3, NoQueueUnlisted, SoundFields
    <3>3. ToSet(C.items) = Waiting(registered, queue)
          /\ (registered = q => ToSet(P.items) = Waiting(registered, queue))
      <4>1. CASE registered = q
        <5>1. P.items \o <<>> = P.items
          BY <3>2
        <5> QED BY <5>1, <4>1, <2>3, <3>1, <3>2 DEF Waiting, P
      <4>2. CASE registered # q
        <5>1. registered = NoQueue /\ C.items = <<>>
          BY <4>2, <2>0, <2>3
        <5>2. ToSet(C.items) = {}
          BY <5>1 DEF ToSet
        <5> QED BY <5>1, <5>2, <4>2 DEF Waiting
      <4> QED BY <4>1, <4>2
    <3>4. ignored => registered = q
      BY <1>3, <2>0
    <3>5. Laid(P, drain[q]) /\ (C.items = P.items \/ drain[q].pc = "off")
      <4>1. CASE registered = q
        BY <4>1, <2>3, <2>6 DEF Lined, P
      <4>2. CASE drain[q].pc = "off" /\ registered # q
        BY <4>2 DEF Laid
      <4> QED BY <2>0, <4>1, <4>2
    <3>6. ASSUME NEW X, Sound(X), X.items = C.items \/ X.items = Append(C.items, m)
          PROVE  Laid(X, drain[q])
      <4>1. CASE drain[q].pc = "off"
        BY <4>1 DEF Laid
      <4>2. CASE C.items = P.items
        BY <4>2, <2>2, <3>5, <3>6, LaidAppend
      <4> QED BY <3>5, <4>1, <4>2
    <3>7. CASE joins(q)
      <4>1. /\ Accepted(C, m) = [C EXCEPT !.items = Append(C.items, m)]
            /\ Completed(C, m) = {}
        BY <3>1, <3>7, <2>3, AcceptedNew DEF C
      <4>2. R(q) = [C EXCEPT !.items = Append(C.items, m)]
        BY <3>7, <4>1 DEF C
      <4>3. C \in QueueObjects
        BY <2>3, SoundFields
      <4>4. /\ R(q).items = Append(C.items, m) /\ R(q).drop = "new"
            /\ R(q).over = <<>> /\ R(q).sources = <<>>
        BY <4>2, <4>3, <3>1 DEF QueueObjects
      <4>5. ToSet(R(q).items) = Waiting(registered, queue) \cup {m}
        <5>1. ToSet(Append(C.items, m)) = ToSet(C.items) \cup {m}
          BY <3>2, ToSetAppend
        <5> HIDE DEF R
        <5> QED BY <5>1, <4>4, <3>3
      <4>6. Laid(R(q), drain[q])
        BY <4>4, <2>5, <3>6
      <4>7. Completed(Q(q), m) = {} /\ Q(q).drop = "new"
        BY <4>1, <3>1 DEF C
      <4> HIDE DEF R, Q, joins
      <4>8. Settle({})
        BY <1>1, <3>7, <4>7
      <4>9. Arrives(m, TRUE)
        BY <1>1, <3>7, <4>7, <4>8 DEF Arrives, Settle
      <4> QED BY <4>4, <4>5, <4>6, <4>9
    <3>8. CASE ~joins(q)
      <4>1. R(q) = IF ignored THEN P ELSE C
        BY <3>8 DEF C, P
      <4>2. /\ R(q).drop = "new" /\ R(q).over = <<>> /\ R(q).sources = <<>>
            /\ Laid(R(q), drain[q])
            /\ ToSet(R(q).items) = Waiting(registered, queue)
        <5>1. CASE ignored
          BY <5>1, <4>1, <3>1, <3>3, <3>4, <3>5
        <5>2. CASE ~ignored
          <6>1. R(q) = C
            BY <4>1, <5>2
          <6>2. Laid(C, drain[q])
            BY <2>3, <3>6
          <6> HIDE DEF R
          <6> QED BY <6>1, <6>2, <3>1, <3>3
        <5> QED BY <5>1, <5>2
      <4> HIDE DEF R, Q, joins
      <4>3. Arrives(m, FALSE)
        BY <1>1, <3>8 DEF Arrives
      <4> QED BY <4>2, <4>3
    <3> QED BY <3>7, <3>8
  <2> QED BY <2>0, <2>1, <2>5, <2>6
<1> QED BY <1>2, <1>3

-----------------------------------------------------------------------------
(* The other steps that touch the registry, the queues or the drains *)

\* Core and Lined, action by action: a follow-up turn starts,
LEMMA OpenCore ==
  ASSUME NEW q \in Queues, Core(registered, queue, drain), Open(q)
  PROVE  /\ Core(registered, queue, drain)'
         /\ Lined(registered, queue, drain) => Lined(registered, queue, drain)'
<1> DEFINE D0 == drain[q]
           D == [D0 EXCEPT !.pc = "running"]
<1>1. registered' = registered /\ queue' = queue /\ drain' = [drain EXCEPT ![q] = D]
  BY DEF Open, Core
<1>2. Steady(D0) /\ D0 \in DrainStates /\ D0.pc = "opening"
  BY DEF Core, Steady, Open
<1>3. D \in DrainStates
  BY <1>2 DEF DrainStates
<1>4. /\ D.pc = "running" /\ D.hand = D0.hand /\ D.rest = D0.rest /\ D.told = D0.told
      /\ D.job = D0.job
  BY <1>2 DEF DrainStates
<1> HIDE DEF D
<1>5. Steady(D)
  BY <1>2, <1>3, <1>4 DEF Steady
<1>6. drain'[q] = D /\ \A p \in Queues \ {q} : drain'[p] = drain[p]
  BY <1>1 DEF Core
<1>7. Core(registered, queue, drain')
  <2>1. drain' \in [Queues -> DrainStates]
    BY <1>1, <1>3 DEF Core
  <2>2. \A p \in Queues : Steady(drain'[p])
    BY <1>5, <1>6 DEF Core
  <2> QED BY <2>1, <2>2 DEF Core
<1>8. ASSUME Lined(registered, queue, drain)
      PROVE  Lined(registered, queue, drain')
  <2>1. \A p \in Queues : drain'[p].told = <<>> /\ drain'[p].job \notin {"carry", "summary"}
    BY <1>4, <1>6, <1>8 DEF Lined
  <2>2. registered \in Queues => Laid(queue[registered], drain'[registered])
    <3>1. CASE registered = q
      <4>1. Laid(queue[q], D0)
        BY <3>1, <1>8 DEF Lined
      <4>2. Laid(queue[q], D)
        BY <4>1, <1>2, <1>4 DEF Laid
      <4> QED BY <3>1, <4>2, <1>6
    <3>2. CASE registered # q
      BY <3>2, <1>6, <1>8 DEF Lined
    <3> QED BY <3>1, <3>2
  <2> QED BY <2>1, <2>2, <1>8 DEF Lined
<1> QED BY <1>1, <1>7, <1>8

\* the queue is cleared,
LEMMA ClearCore ==
  ASSUME Core(registered, queue, drain), Clear
  PROVE  /\ Core(registered, queue, drain)'
         /\ registered' = NoQueue
         /\ Lined(registered, queue, drain) => Lined(registered, queue, drain)'
<1> DEFINE q == registered
           Q == queue[q]
           E == IF drain[q].pc = "off" THEN Blank ELSE [Without(Q) EXCEPT !.items = <<>>]
           qs1 == [queue EXCEPT ![q] = E]
<1>1. /\ q \in Queues /\ registered' = NoQueue /\ drain' = drain
      /\ queue' = qs1
  BY DEF Clear, Core
<1>2. Sound(Q)
  BY <1>1 DEF Core
<1>3. /\ Sound(E) /\ Empty(E) /\ E.over = <<>> /\ E.sources = <<>>
      /\ (Q.drop = "new" => E.drop = "new")
  <2> DEFINE W == Without(Q)
             F == [W EXCEPT !.items = <<>>]
  <2>1. Sound(W) /\ W.over = <<>> /\ W.sources = <<>> /\ W.drop = Q.drop /\ W \in QueueObjects
    BY <1>2, WithoutSound, SoundFields
  <2> HIDE DEF W
  <2>2. /\ F.items = <<>> /\ F.over = <<>> /\ F.sources = <<>> /\ F.drop = Q.drop
    BY <2>1 DEF QueueObjects
  <2>3. <<>> \in Seq(Msgs) /\ IsInjective(<<>>)
    BY DEF IsInjective
  <2>4. Sound(F)
    BY <2>1, <2>3, ItemsSound
  <2> QED BY <2>2, <2>4, BlankSound DEF Empty, W
<1> HIDE DEF E
<1>4. Core(q, qs1, drain)
  BY <1>1, <1>3, RefillCore
<1>5. \A p \in Queues : Empty(qs1[p])
  <2> SUFFICES ASSUME NEW p \in Queues
               PROVE  Empty(qs1[p])
    OBVIOUS
  <2>1. CASE p = q
    BY <2>1, <1>3 DEF Core
  <2>2. CASE p # q
    BY <2>2 DEF Core
  <2> QED BY <2>1, <2>2
<1>6. Core(NoQueue, qs1, drain)
  <2> HIDE DEF qs1
  <2> QED BY <1>4, <1>5 DEF Core
<1>7. ASSUME Lined(registered, queue, drain)
      PROVE  Lined(NoQueue, qs1, drain)
  <2>1. Q.drop = "new"
    BY <1>1, <1>7 DEF Lined
  <2>2. \A p \in Queues : qs1[p].drop = "new" /\ qs1[p].over = <<>> /\ qs1[p].sources = <<>>
    <3> SUFFICES ASSUME NEW p \in Queues
                 PROVE  qs1[p].drop = "new" /\ qs1[p].over = <<>> /\ qs1[p].sources = <<>>
      OBVIOUS
    <3>1. CASE p = q
      BY <2>1, <3>1, <1>3 DEF Core
    <3>2. CASE p # q
      BY <3>2, <1>7 DEF Core, Lined
    <3> QED BY <3>1, <3>2
  <2> QED BY <2>2, <1>7, NoQueueUnlisted DEF Lined
<1> HIDE DEF qs1
<1> QED BY <1>1, <1>6, <1>7

\* a turn of the reply agent ends,
LEMMA EndTurnCore ==
  ASSUME Core(registered, queue, drain), EndTurn
  PROVE  /\ Core(registered, queue, drain)'
         /\ Lined(registered, queue, drain) =>
              /\ Lined(registered, queue, drain)'
              /\ Waiting(registered, queue)' = Waiting(registered, queue)
<1>1. CASE registered = NoQueue
  BY <1>1 DEF EndTurn
<1>2. CASE registered # NoQueue
  <2> DEFINE q == registered
             Q == queue[q]
  <2>1. q \in Queues /\ Scheduled(q, Q)
    BY <1>2 DEF EndTurn, Core
  <2>2. Sound(Q) /\ Q.items \in Seq(Msgs)
    BY <2>1, SoundFields DEF Core
  <2>3. Core(registered, queue, drain)'
    BY <2>1, <2>2, ScheduledCore
  <2>4. ASSUME Lined(registered, queue, drain)
        PROVE  /\ Lined(registered, queue, drain)'
               /\ Waiting(registered, queue)' = Waiting(registered, queue)
    <3>1. Q.drop = "new" /\ Q.over = <<>> /\ Q.sources = <<>> /\ Laid(Q, drain[q])
      BY <2>1, <2>4 DEF Lined
    <3>2. Lined(registered, queue, drain)' /\ Waiting(registered, queue)' = ToSet(Q.items)
      BY <2>1, <2>2, <2>4, <3>1, ScheduledCore
    <3>3. Q.items \o <<>> = Q.items
      BY <2>2
    <3>4. Waiting(registered, queue) = ToSet(Q.items)
      BY <1>2, <3>1, <3>3 DEF Waiting
    <3> QED BY <3>2, <3>4
  <2> QED BY <2>3, <2>4
<1> QED BY <1>1, <1>2

\* a message arrives,
LEMMA EnqueueCore ==
  ASSUME Core(registered, queue, drain), policy \in Policies,
         NEW m \in Msgs, NEW s \in policy, Enqueue(m, s)
  PROVE  /\ Core(registered, queue, drain)'
         /\ Lined(registered, queue, drain) /\ s.drop = "new" =>
              /\ Lined(registered, queue, drain)'
              /\ \/ /\ Waiting(registered, queue)' = Waiting(registered, queue)
                    /\ Arrives(m, FALSE)
                 \/ /\ Waiting(registered, queue)' = Waiting(registered, queue) \cup {m}
                    /\ Arrives(m, TRUE)
<1>1. CASE registered' = registered /\ queue' = queue /\ drain' = drain /\ Arrives(m, FALSE)
  BY <1>1
<1>2. ASSUME NEW q \in Queues, NEW R,
             registered = q \/ (registered = NoQueue /\ drain[q].pc = "off"),
             Sound(R), Writes(q, R),
             Lined(registered, queue, drain) /\ s.drop = "new" =>
               /\ R.drop = "new" /\ R.over = <<>> /\ R.sources = <<>>
               /\ Laid(R, drain[q])
               /\ \/ ToSet(R.items) = Waiting(registered, queue) /\ Arrives(m, FALSE)
                  \/ ToSet(R.items) = Waiting(registered, queue) \cup {m} /\ Arrives(m, TRUE)
      PROVE  /\ Core(registered, queue, drain)'
             /\ Lined(registered, queue, drain) /\ s.drop = "new" =>
                  /\ Lined(registered, queue, drain)'
                  /\ Waiting(registered, queue)' = ToSet(R.items)
  <2>1. Core(q, queue, drain) /\ (Lined(registered, queue, drain) => Lined(q, queue, drain))
    BY <1>2, Adopt
  <2>2. CASE Scheduled(q, R)
    BY <2>1, <2>2, <1>2, ScheduledCore
  <2>3. CASE registered' = q /\ queue' = [queue EXCEPT ![q] = R] /\ drain' = drain
    <3>1. Core(q, [queue EXCEPT ![q] = R], drain)
      BY <2>1, <1>2, RefillCore
    <3>2. ASSUME Lined(registered, queue, drain), s.drop = "new"
          PROVE  /\ Lined(q, [queue EXCEPT ![q] = R], drain)
                 /\ Waiting(q, [queue EXCEPT ![q] = R]) = ToSet(R.items)
      BY <2>1, <3>2, <1>2, RefillLined
    <3> QED BY <2>3, <3>1, <3>2
  <2> QED BY <2>2, <2>3, <1>2 DEF Writes
<1>3. CASE \E q \in Queues : \E R :
             /\ registered = q \/ (registered = NoQueue /\ drain[q].pc = "off")
             /\ Sound(R) /\ Writes(q, R)
             /\ Lined(registered, queue, drain) /\ s.drop = "new" =>
                  /\ R.drop = "new" /\ R.over = <<>> /\ R.sources = <<>>
                  /\ Laid(R, drain[q])
                  /\ \/ ToSet(R.items) = Waiting(registered, queue) /\ Arrives(m, FALSE)
                     \/ ToSet(R.items) = Waiting(registered, queue) \cup {m} /\ Arrives(m, TRUE)
  <2>0. PICK q \in Queues : \E R :
             /\ registered = q \/ (registered = NoQueue /\ drain[q].pc = "off")
             /\ Sound(R) /\ Writes(q, R)
             /\ Lined(registered, queue, drain) /\ s.drop = "new" =>
                  /\ R.drop = "new" /\ R.over = <<>> /\ R.sources = <<>>
                  /\ Laid(R, drain[q])
                  /\ \/ ToSet(R.items) = Waiting(registered, queue) /\ Arrives(m, FALSE)
                     \/ ToSet(R.items) = Waiting(registered, queue) \cup {m} /\ Arrives(m, TRUE)
    BY <1>3
  <2>1. PICK R :
             /\ registered = q \/ (registered = NoQueue /\ drain[q].pc = "off")
             /\ Sound(R) /\ Writes(q, R)
             /\ Lined(registered, queue, drain) /\ s.drop = "new" =>
                  /\ R.drop = "new" /\ R.over = <<>> /\ R.sources = <<>>
                  /\ Laid(R, drain[q])
                  /\ \/ ToSet(R.items) = Waiting(registered, queue) /\ Arrives(m, FALSE)
                     \/ ToSet(R.items) = Waiting(registered, queue) \cup {m} /\ Arrives(m, TRUE)
    BY <2>0
  <2>2. /\ Core(registered, queue, drain)'
        /\ Lined(registered, queue, drain) /\ s.drop = "new" =>
             /\ Lined(registered, queue, drain)'
             /\ Waiting(registered, queue)' = ToSet(R.items)
    BY <2>1, <1>2
  <2> QED BY <2>1, <2>2
<1> QED BY <1>1, <1>3, EnqueueWrites

\* A drain goes on, letting go of what its step is said to let go of.
LEMMA DrainCore ==
  ASSUME Core(registered, queue, drain), NEW q \in Queues, NEW gone,
         \/ Discard(q) /\ gone = ToSet(drain[q].hand)
         \/ Finish(q) /\ gone = ToSet(drain[q].hand)
         \/ Debounced(q) /\ gone = {}
         \/ Throws(q) /\ gone = {}
  PROVE  /\ Core(registered, queue, drain)'
         /\ Lined(registered, queue, drain) =>
              /\ Lined(registered, queue, drain)'
              /\ Waiting(registered, queue) \subseteq Waiting(registered, queue)' \cup gone
<1>1. \E Q, D : /\ Moved(q, Q, D, gone)
                /\ drain' = [drain EXCEPT ![q] = D]
                /\ registered' = RegD(registered, q, D)
                /\ queue' = QueD(queue, q, Q, D)
  BY DiscardMoves, FinishMoves, DebouncedMoves, ThrowsMoves
<1>2. PICK Q, D : /\ Moved(q, Q, D, gone)
                  /\ drain' = [drain EXCEPT ![q] = D]
                  /\ registered' = RegD(registered, q, D)
                  /\ queue' = QueD(queue, q, Q, D)
  BY <1>1
<1> QED BY <1>2, MovedCore

-----------------------------------------------------------------------------
(* Types, and what holds whatever the settings *)

\* What holds of every session, whatever settings its messages carry.
QueueIInv ==
  /\ Core(registered, queue, drain)
  /\ turn \in BOOLEAN /\ foreign \in BOOLEAN /\ policy \in Policies
  /\ aborted \subseteq Abortable /\ recent \subseteq Redelivered
  /\ settled \subseteq Solo /\ fate \in [Msgs -> Fates]
  /\ turns \in 0..MaxTurns /\ failures \in 0..MaxFailures

\* The initial states satisfy the invariant.
LEMMA InitQueue == Init => QueueIInv
<1> SUFFICES ASSUME Init
             PROVE  QueueIInv
  OBVIOUS
<1>1. /\ Sound(Blank) /\ Empty(Blank) /\ Blank \in QueueObjects
  BY BlankSound, SoundFields
<1>2. Steady(Idle) /\ Idle \in DrainStates
  BY IdleDrain, NoMixFew DEF Steady
<1>3. Core(registered, queue, drain)
  BY <1>1, <1>2 DEF Init, Core
<1>4. fate \in [Msgs -> Fates] /\ turns \in 0..MaxTurns /\ failures \in 0..MaxFailures
  BY FollowupConstants DEF Init, Fates
<1> QED BY <1>3, <1>4 DEF Init, QueueIInv

\* Every step keeps its part about queue objects and drains.
LEMMA NextCore ==
  ASSUME QueueIInv, [Next]_vars
  PROVE  Core(registered, queue, drain)'
<1> USE DEF QueueIInv
<1>1. ASSUME NEW m \in Msgs, NEW s \in policy, Enqueue(m, s)
      PROVE  Core(registered, queue, drain)'
  BY <1>1, EnqueueCore
<1>2. ASSUME NEW q \in Queues, Drain(q)
      PROVE  Core(registered, queue, drain)'
  <2>1. CASE Open(q)
    BY <2>1, OpenCore
  <2>2. CASE Discard(q) \/ Finish(q) \/ Debounced(q) \/ Throws(q)
    BY <2>2, DrainCore
  <2> QED BY <1>2, <2>1, <2>2 DEF Drain, Rejected, Fail
<1>3. CASE EndTurn
  BY <1>3, EndTurnCore
<1>4. CASE Clear
  BY <1>4, ClearCore
<1>5. CASE StartTurn \/ BeginForeign \/ EndForeign
  BY <1>5 DEF StartTurn, BeginForeign, EndForeign
<1>6. ASSUME NEW m \in Msgs, Abort(m) \/ Forget(m)
      PROVE  Core(registered, queue, drain)'
  BY <1>6 DEF Abort, Forget
<1>7. CASE UNCHANGED vars
  BY <1>7 DEF vars
<1> QED BY <1>1, <1>2, <1>3, <1>4, <1>5, <1>6, <1>7 DEF Next

\* Only messages with a lifecycle are recorded as completed.
LEMMA SettleSolo ==
  ASSUME settled \subseteq Solo, NEW ms, Settle(ms)
  PROVE  settled' \subseteq Solo
BY DEF Settle

\* A fate that is given to messages is a fate.
LEMMA BecomesFate ==
  ASSUME fate \in [Msgs -> Fates], NEW ms, NEW what \in Fates, Becomes(ms, what)
  PROVE  fate' \in [Msgs -> Fates]
BY DEF Becomes

\* Every step keeps the invariant.
LEMMA NextQueue ==
  ASSUME QueueIInv, [Next]_vars
  PROVE  QueueIInv'
<1> DEFINE Rest ==
             /\ turn' \in BOOLEAN /\ foreign' \in BOOLEAN /\ policy' \in Policies
             /\ aborted' \subseteq Abortable /\ recent' \subseteq Redelivered
             /\ settled' \subseteq Solo /\ fate' \in [Msgs -> Fates]
             /\ turns' \in 0..MaxTurns /\ failures' \in 0..MaxFailures
<1>1. Core(registered, queue, drain)'
  BY NextCore
<1>2. /\ turn \in BOOLEAN /\ foreign \in BOOLEAN /\ policy \in Policies
      /\ aborted \subseteq Abortable /\ recent \subseteq Redelivered
      /\ settled \subseteq Solo /\ fate \in [Msgs -> Fates]
      /\ turns \in 0..MaxTurns /\ failures \in 0..MaxFailures
  BY DEF QueueIInv
<1>3. MaxTurns \in Nat /\ MaxFailures \in Nat
  BY FollowupConstants
<1>4. {"new", "refused", "queued", "delivered", "told", "gone"} \subseteq Fates
  BY DEF Fates
<1>5. ASSUME NEW m \in Msgs, NEW s \in policy, Enqueue(m, s)
      PROVE  Rest
  <2>1. /\ turn' = turn /\ foreign' = foreign /\ aborted' = aborted /\ policy' = policy
        /\ turns' = turns /\ failures' = failures
    BY <1>5 DEF Enqueue
  <2>2. PICK q \in Queues, joins \in BOOLEAN :
          /\ recent' = IF joins THEN recent \cup ({m} \cap Redelivered) ELSE recent
          /\ IF joins THEN Settle(Completed(Configured(q, s), m)) ELSE UNCHANGED settled
          /\ fate' = [n \in Msgs |->
                IF n = m
                THEN IF joins THEN "queued" ELSE IF fate[m] = "new" THEN "refused" ELSE fate[m]
                ELSE IF /\ joins /\ Configured(q, s).drop = "old"
                        /\ n \in Completed(Configured(q, s), m)
                     THEN "gone" ELSE fate[n]]
    <3>1. PICK q \in Queues :
            LET Q == Configured(q, s)
                joins == ~(m \in aborted) /\ ~Duplicate(Q, m) /\ ~Refused(Q)
            IN  /\ recent' = IF joins THEN recent \cup ({m} \cap Redelivered) ELSE recent
                /\ IF joins THEN Settle(Completed(Q, m)) ELSE UNCHANGED settled
                /\ fate' = [n \in Msgs |->
                      IF n = m
                      THEN IF joins THEN "queued"
                           ELSE IF fate[m] = "new" THEN "refused" ELSE fate[m]
                      ELSE IF joins /\ Q.drop = "old" /\ n \in Completed(Q, m)
                           THEN "gone" ELSE fate[n]]
      BY <1>5, Zenon DEF Enqueue
    <3> DEFINE joins == ~(m \in aborted) /\ ~Duplicate(Configured(q, s), m)
                        /\ ~Refused(Configured(q, s))
    <3>2. joins \in BOOLEAN
      OBVIOUS
    <3> QED BY <3>1, <3>2, Zenon
  <2>3. recent' \subseteq Redelivered
    BY <2>2, <1>2
  <2>4. settled' \subseteq Solo
    BY <2>2, <1>2, SettleSolo
  <2>5. fate' \in [Msgs -> Fates]
    <3> DEFINE f(n) == IF n = m
                       THEN IF joins THEN "queued"
                            ELSE IF fate[m] = "new" THEN "refused" ELSE fate[m]
                       ELSE IF /\ joins /\ Configured(q, s).drop = "old"
                               /\ n \in Completed(Configured(q, s), m)
                            THEN "gone" ELSE fate[n]
    <3>1. \A n \in Msgs : f(n) \in Fates
      BY <1>2, <1>4
    <3>2. fate' = [n \in Msgs |-> f(n)]
      BY <2>2, Zenon
    <3> HIDE DEF f
    <3> QED BY <3>1, <3>2
  <2> QED BY <2>1, <2>3, <2>4, <2>5, <1>2
<1>6. ASSUME NEW q \in Queues, Drain(q)
      PROVE  Rest
  <2>1. CASE Discard(q)
    <3>1. /\ turn' = turn /\ foreign' = foreign /\ aborted' = aborted /\ policy' = policy
          /\ recent' = recent /\ turns' = turns /\ failures' = failures
      BY <2>1 DEF Discard
    <3>2. settled' \subseteq Solo
      <4>1. \E ms : Settle(ms)
        BY <2>1, Zenon DEF Discard
      <4> QED BY <4>1, <1>2, SettleSolo
    <3>3. fate' \in [Msgs -> Fates]
      <4>1. \E ms : Becomes(ms, "gone")
        BY <2>1, Zenon DEF Discard
      <4> QED BY <4>1, <1>2, <1>4, BecomesFate
    <3> QED BY <3>1, <3>2, <3>3, <1>2
  <2>2. CASE Debounced(q)
    BY <2>2, <1>2 DEF Debounced
  <2>3. CASE Open(q)
    BY <2>3, <1>2 DEF Open
  <2>4. CASE Finish(q)
    <3>1. /\ turn' = turn /\ foreign' = foreign /\ aborted' = aborted /\ policy' = policy
          /\ recent' = recent /\ turns' = turns /\ failures' = failures
      BY <2>4 DEF Finish
    <3>2. settled' \subseteq Solo
      <4>1. SettleTurn(q)
        BY <2>4, Zenon DEF Finish
      <4> QED BY <4>1, <1>2, SettleSolo DEF SettleTurn
    <3>3. fate' \in [Msgs -> Fates]
      <4>1. PICK delivered : fate' = [m \in Msgs |->
               IF m \in delivered THEN "delivered"
               ELSE IF m \in ToSet(drain[q].told) THEN "told" ELSE fate[m]]
        BY <2>4, Zenon DEF Finish
      <4> DEFINE f(m) == IF m \in delivered THEN "delivered"
                         ELSE IF m \in ToSet(drain[q].told) THEN "told" ELSE fate[m]
      <4>2. \A m \in Msgs : f(m) \in Fates
        BY <1>2, <1>4
      <4>3. fate' = [m \in Msgs |-> f(m)]
        BY <4>1, Zenon
      <4> HIDE DEF f
      <4> QED BY <4>2, <4>3
    <3> QED BY <3>1, <3>2, <3>3, <1>2
  <2>5. CASE Rejected(q) \/ Fail(q)
    <3>1. /\ turn' = turn /\ foreign' = foreign /\ aborted' = aborted /\ policy' = policy
          /\ recent' = recent /\ turns' = turns /\ fate' = fate
      BY <2>5 DEF Rejected, Fail, Throws
    <3>2. settled' \subseteq Solo
      <4>1. SettleTurn(q)
        BY <2>5, Zenon DEF Rejected, Fail, Throws
      <4> QED BY <4>1, <1>2, SettleSolo DEF SettleTurn
    <3>3. failures' \in 0..MaxFailures
      BY <2>5, <1>2, <1>3 DEF Rejected, Fail
    <3> QED BY <3>1, <3>2, <3>3, <1>2
  <2> QED BY <1>6, <2>1, <2>2, <2>3, <2>4, <2>5 DEF Drain
<1>7. ASSUME StartTurn
      PROVE  Rest
  BY <1>2, <1>3, <1>7 DEF StartTurn
<1>8. ASSUME EndTurn
      PROVE  Rest
  BY <1>2, <1>8 DEF EndTurn
<1>9. ASSUME BeginForeign \/ EndForeign
      PROVE  Rest
  BY <1>2, <1>9 DEF BeginForeign, EndForeign
<1>10. ASSUME Clear
       PROVE  Rest
  <2>1. /\ turn' = turn /\ foreign' = foreign /\ aborted' = aborted /\ policy' = policy
        /\ recent' = recent /\ turns' = turns /\ failures' = failures
    BY <1>10 DEF Clear
  <2>2. settled' \subseteq Solo
    <3>1. \E ms : Settle(ms)
      BY <1>10, Zenon DEF Clear
    <3> QED BY <3>1, <1>2, SettleSolo
  <2>3. fate' \in [Msgs -> Fates]
    <3>1. \E ms : Becomes(ms, "gone")
      BY <1>10, Zenon DEF Clear
    <3> QED BY <3>1, <1>2, <1>4, BecomesFate
  <2> QED BY <2>1, <2>2, <2>3, <1>2
<1>11. ASSUME NEW m \in Msgs, Abort(m) \/ Forget(m)
       PROVE  Rest
  BY <1>2, <1>11 DEF Abort, Forget
<1>12. ASSUME UNCHANGED vars
       PROVE  Rest
  BY <1>2, <1>12 DEF vars
<1>13. Rest
  <2> HIDE DEF Rest
  <2> QED BY <1>5, <1>6, <1>7, <1>8, <1>9, <1>10, <1>11, <1>12 DEF Next
<1> QED BY <1>1, <1>13 DEF QueueIInv

\* The invariant of a session whatever its settings: the types, one registered
\* queue object, messages that differ, and turns that merge only what may be.
THEOREM QueueInvariance == Spec => []QueueIInv
<1>1. Init => QueueIInv
  BY InitQueue
<1>2. QueueIInv /\ [Next]_vars => QueueIInv'
  BY NextQueue
<1> QED BY <1>1, <1>2, PTL DEF Spec

\* The invariant says what TypeOK says.
LEMMA QueueTypes ==
  ASSUME QueueIInv
  PROVE  TypeOK
<1>1. ASSUME NEW q \in Queues
      PROVE  /\ queue[q].items \in Seq(Msgs) /\ queue[q].over \in Seq(Msgs)
             /\ queue[q].sources \in Seq(Msgs)
             /\ queue[q].lines \in 0..Len(queue[q].over)
  <2>1. Sound(queue[q])
    BY DEF QueueIInv, Core
  <2>2. /\ queue[q].items \in Seq(Msgs) /\ queue[q].over \in Seq(Msgs)
        /\ queue[q].sources \in Seq(Msgs) /\ Len(queue[q].over) \in Nat
        /\ queue[q].lines \in Nat /\ queue[q].lines <= Len(queue[q].over)
    BY <2>1, SoundFields
  <2> QED BY <2>2
<1>2. ASSUME NEW q \in Queues
      PROVE  /\ drain[q].pc \in {"off", "sweep", "debounce", "resweep", "opening", "running"}
             /\ drain[q].job \in {"none", "item", "carry", "group", "summary"}
             /\ drain[q].hand \in Seq(Msgs) /\ drain[q].rest \in Seq(Seq(Msgs))
             /\ drain[q].told \in Seq(Msgs) /\ drain[q].force \in BOOLEAN
  <2>1. drain[q] \in DrainStates
    BY DEF QueueIInv, Core
  <2> QED BY <2>1 DEF DrainStates
<1>3. registered \in Queues \cup {NoQueue}
  BY DEF QueueIInv, Core
<1> QED BY <1>1, <1>2, <1>3 DEF QueueIInv, TypeOK

\* Every variable of a session keeps its type, and a summary never has more
\* lines than it has messages (queue-helpers.ts, applyQueueDropPolicy).
THEOREM QueueTypesHold == Spec => []TypeOK
BY QueueInvariance, QueueTypes, PTL

\* Only the registered queue object holds messages: a drain that restarts, and
\* one that ends after its queue was cleared and replaced, never acts for a
\* queue that is not its own (drain.ts:459-471).
THEOREM RegisteredAlways == Spec => []RegisteredHolds
<1>1. QueueIInv => RegisteredHolds
  BY DEF QueueIInv, Core, RegisteredHolds
<1> QED BY <1>1, QueueInvariance, PTL

\* A message a channel redelivers waits at most once, also when its remembered
\* id has expired and whatever was dropped meanwhile (enqueue.ts:41-57).
THEOREM OncePerQueueAlways == Spec => []OncePerQueue
<1>1. QueueIInv => OncePerQueue
  BY DEF QueueIInv, Core, Sound, OncePerQueue
<1> QED BY <1>1, QueueInvariance, PTL

\* No turn is handed messages of two senders and no batch messages of two
\* routes, nor one with runtime-only metadata next to others, and in collect
\* mode a summary goes only to a batch of routable messages without it, under
\* any settings and for batches of any length (drain.ts:325-410).
THEOREM NeverMixed == Spec => []MixedNeverMerged
<1>1. QueueIInv => MixedNeverMerged
  BY DEF QueueIInv, Core, Steady, NoMix, Batched, MixedNeverMerged
<1> QED BY <1>1, QueueInvariance, PTL

-----------------------------------------------------------------------------
(* Nothing is lost when a full queue turns messages away *)

\* A session with drop = "new": its queue and drain fit together, no message is
\* lost and no lifecycle is left open.
NewIInv ==
  /\ Lined(registered, queue, drain)
  /\ Accounted
  /\ LifecycleSettled

\* What the session owes is what waits in the registered queue.
LEMMA PendingWaits ==
  /\ Pending = Waiting(registered, queue)
  /\ Pending' = Waiting(registered, queue)'
BY DEF Pending, Waiting

\* The initial states satisfy it.
LEMMA InitNew == Init => NewIInv
<1> SUFFICES ASSUME Init
             PROVE  NewIInv
  OBVIOUS
<1>1. Lined(registered, queue, drain)
  BY BlankSound, IdleDrain, NoQueueUnlisted DEF Init, Lined
<1>2. Accounted /\ LifecycleSettled
  BY FollowupConstants DEF Init, Accounted, LifecycleSettled
<1> QED BY <1>1, <1>2 DEF NewIInv

\* A step that lets go of some waiting messages keeps the account when it
\* closes their lifecycles and leaves none of them queued.
LEMMA StepAccounts ==
  ASSUME Accounted, LifecycleSettled, NEW gone,
         Pending \subseteq Pending' \cup gone,
         settled \subseteq settled', gone \cap Solo \subseteq settled',
         \A m \in Msgs : fate'[m] = "queued" => fate[m] = "queued" /\ m \notin gone,
         \A m \in Solo : fate'[m] \notin {"new", "refused"} =>
           fate[m] \notin {"new", "refused"} \/ m \in settled'
  PROVE  (Accounted /\ LifecycleSettled)'
<1> DEFINE P1 == Pending'
<1>1. \A m \in Msgs : fate'[m] = "queued" => m \in P1
  BY DEF Accounted
<1>2. \A m \in Solo : fate'[m] \notin {"new", "refused"} => m \in settled' \cup P1
  BY DEF LifecycleSettled
<1> QED BY <1>1, <1>2 DEF Accounted, LifecycleSettled

\* A step that lets go of no message keeps it.
LEMMA StepHolds ==
  ASSUME Accounted, LifecycleSettled, Pending \subseteq Pending', settled \subseteq settled',
         fate' = fate
  PROVE  (Accounted /\ LifecycleSettled)'
<1> DEFINE P1 == Pending'
<1>1. \A m \in Msgs : fate'[m] = "queued" => m \in P1
  BY DEF Accounted
<1>2. \A m \in Solo : fate'[m] \notin {"new", "refused"} => m \in settled' \cup P1
  BY DEF LifecycleSettled
<1> QED BY <1>1, <1>2 DEF Accounted, LifecycleSettled

\* Under drop = "new" every step keeps it.
LEMMA NextNew ==
  ASSUME NewOnly, QueueIInv, NewIInv, [Next]_vars
  PROVE  NewIInv'
<1> DEFINE Lined0 == Lined(registered, queue, drain)
           Lined1 == Lined(registered, queue, drain)'
           Steps(gone) ==
             /\ Pending \subseteq Pending' \cup gone
             /\ settled \subseteq settled' /\ gone \cap Solo \subseteq settled'
             /\ \A m \in Msgs : fate'[m] = "queued" => fate[m] = "queued" /\ m \notin gone
             /\ \A m \in Solo : fate'[m] \notin {"new", "refused"} =>
                  fate[m] \notin {"new", "refused"} \/ m \in settled'
<1>1. /\ Lined0 /\ Accounted /\ LifecycleSettled
      /\ Core(registered, queue, drain) /\ policy \in Policies
      /\ fate \in [Msgs -> Fates] /\ settled \subseteq Solo /\ Solo \subseteq Msgs
  BY FollowupConstants DEF NewIInv, QueueIInv
<1>2. ASSUME NEW m \in Msgs, NEW s \in policy, Enqueue(m, s)
      PROVE  Lined1 /\ (Accounted /\ LifecycleSettled)'
  <2>1. s.drop = "new"
    BY <1>1 DEF NewOnly
  <2>2. /\ Lined1
        /\ \/ Pending' = Pending /\ Arrives(m, FALSE)
           \/ Pending' = Pending \cup {m} /\ Arrives(m, TRUE)
    BY <1>1, <1>2, <2>1, EnqueueCore, PendingWaits
  <2> DEFINE P0 == Pending
             P1 == Pending'
  <2>3. CASE P1 = P0 /\ Arrives(m, FALSE)
    <3>1. /\ settled' = settled
          /\ \A n \in Msgs : fate'[n] = fate[n] \/ fate'[n] = "refused"
      BY <2>3 DEF Arrives
    <3> QED BY <2>2, <2>3, <3>1, <1>1 DEF Accounted, LifecycleSettled
  <2>4. CASE P1 = P0 \cup {m} /\ Arrives(m, TRUE)
    <3>1. /\ settled' = settled
          /\ \A n \in Msgs : fate'[n] = fate[n] \/ n = m
      BY <2>4 DEF Arrives
    <3> QED BY <2>2, <2>4, <3>1, <1>1 DEF Accounted, LifecycleSettled
  <2> QED BY <2>2, <2>3, <2>4
<1>3. ASSUME NEW q \in Queues, Discard(q)
      PROVE  Lined1 /\ (Accounted /\ LifecycleSettled)'
  <2> DEFINE h == ToSet(drain[q].hand)
  <2>1. Lined1 /\ Pending \subseteq Pending' \cup h
    BY <1>1, <1>3, DrainCore, PendingWaits
  <2>2. PICK ms : settled' = settled \cup ((h \cup ms) \cap Solo)
    BY <1>3, Zenon DEF Discard, Settle
  <2>3. fate' = [m \in Msgs |-> IF m \in {n \in h : fate[n] = "queued"} THEN "gone" ELSE fate[m]]
    BY <1>3, Zenon DEF Discard, Becomes
  <2> HIDE DEF h
  <2>4. settled \subseteq settled' /\ h \cap Solo \subseteq settled'
    BY <2>2
  <2>5. \A m \in Msgs : /\ fate'[m] = "queued" => fate[m] = "queued" /\ m \notin h
                        /\ fate'[m] = fate[m] \/ fate[m] = "queued"
    BY <2>3
  <2>6. Steps(h)
    BY <2>1, <2>4, <2>5, <1>1
  <2> QED BY <2>1, <2>6, <1>1, StepAccounts
<1>4. ASSUME NEW q \in Queues, Finish(q)
      PROVE  Lined1 /\ (Accounted /\ LifecycleSettled)'
  <2> DEFINE h == ToSet(drain[q].hand)
  <2>1. Lined1 /\ Pending \subseteq Pending' \cup h
    BY <1>1, <1>4, DrainCore, PendingWaits
  <2>2. PICK ms : settled' = settled \cup ((h \cup ms) \cap Solo)
    BY <1>4, Zenon DEF Finish, SettleTurn, Settle
  <2>3. drain[q].job # "carry" /\ ToSet(drain[q].told) = {}
    BY <1>1 DEF Lined, ToSet
  <2>4. fate' = [m \in Msgs |-> IF m \in (IF drain[q].job = "carry" THEN {} ELSE h)
                                THEN "delivered"
                                ELSE IF m \in ToSet(drain[q].told) THEN "told" ELSE fate[m]]
    BY <1>4, Zenon DEF Finish
  <2> HIDE DEF h
  <2>5. settled \subseteq settled' /\ h \cap Solo \subseteq settled'
    BY <2>2
  <2>6. \A m \in Msgs : IF m \in h THEN fate'[m] = "delivered" ELSE fate'[m] = fate[m]
    BY <2>3, <2>4
  <2>7. Steps(h)
    BY <2>1, <2>5, <2>6, <1>1
  <2> QED BY <2>1, <2>7, <1>1, StepAccounts
<1>5. ASSUME NEW q \in Queues, Debounced(q) \/ Rejected(q) \/ Fail(q)
      PROVE  Lined1 /\ (Accounted /\ LifecycleSettled)'
  <2>1. Debounced(q) \/ Throws(q)
    BY <1>5 DEF Rejected, Fail
  <2>2. Lined1 /\ Pending \subseteq Pending'
    <3>1. \E none : none = {} /\ ((Debounced(q) /\ none = {}) \/ (Throws(q) /\ none = {}))
      BY <2>1
    <3>2. PICK none : none = {} /\ ((Debounced(q) /\ none = {}) \/ (Throws(q) /\ none = {}))
      BY <3>1
    <3>3. Lined1 /\ Pending \subseteq Pending' \cup none
      BY <1>1, <3>2, DrainCore, PendingWaits
    <3> QED BY <3>2, <3>3
  <2>3. fate' = fate /\ settled \subseteq settled'
    <3>1. CASE Debounced(q)
      BY <3>1 DEF Debounced
    <3>2. CASE Throws(q)
      BY <3>2 DEF Throws, SettleTurn, Settle
    <3> QED BY <2>1, <3>1, <3>2
  <2> QED BY <2>2, <2>3, <1>1, StepHolds
<1>6. ASSUME NEW q \in Queues, Open(q)
      PROVE  Lined1 /\ (Accounted /\ LifecycleSettled)'
  <2>1. Lined1
    BY <1>1, <1>6, OpenCore
  <2>2. registered' = registered /\ queue' = queue /\ settled' = settled /\ fate' = fate
    BY <1>6 DEF Open
  <2>3. Pending' = Pending
    BY <2>2 DEF Pending
  <2> QED BY <2>1, <2>2, <2>3, <1>1, StepHolds
<1>7. ASSUME EndTurn
      PROVE  Lined1 /\ (Accounted /\ LifecycleSettled)'
  <2>1. Lined1 /\ Pending' = Pending
    BY <1>1, <1>7, EndTurnCore, PendingWaits
  <2>2. settled' = settled /\ fate' = fate
    BY <1>7 DEF EndTurn
  <2> QED BY <2>1, <2>2, <1>1, StepHolds
<1>8. ASSUME Clear
      PROVE  Lined1 /\ (Accounted /\ LifecycleSettled)'
  <2> DEFINE Q == queue[registered]
             g == ToSet(Q.items)
  <2>1. Lined1 /\ Clear /\ registered \in Queues
    BY <1>1, <1>8, ClearCore DEF Clear, Core
  <2>2. Q.over = <<>> /\ Q.sources = <<>> /\ Q.items \in Seq(Msgs)
    BY <1>1, <2>1, SoundFields DEF Core, Lined
  <2>3. Q.items \o <<>> = Q.items
    BY <2>2
  <2>4. Pending = g
    BY <2>1, <2>2, <2>3, NoQueueUnlisted DEF Pending
  <2>5. settled' = settled \cup (ToSet(Q.items \o Q.sources) \cap Solo)
    BY <1>8, Zenon DEF Clear, Settle
  <2>6. fate' = [m \in Msgs |->
                  IF m \in {n \in ToSet(Q.items \o Q.over) : fate[n] = "queued"}
                  THEN "gone" ELSE fate[m]]
    BY <1>8, Zenon DEF Clear, Becomes
  <2>7. /\ settled' = settled \cup (g \cap Solo)
        /\ fate' = [m \in Msgs |-> IF m \in {n \in g : fate[n] = "queued"}
                                   THEN "gone" ELSE fate[m]]
    BY <2>2, <2>3, <2>5, <2>6
  <2> HIDE DEF Q, g
  <2>8. \A m \in Msgs : /\ fate'[m] = "queued" => fate[m] = "queued" /\ m \notin g
                        /\ fate'[m] = fate[m] \/ fate[m] = "queued"
    BY <2>7
  <2>9. settled \subseteq settled' /\ g \cap Solo \subseteq settled'
    BY <2>7
  <2>10. Steps(g)
    BY <2>4, <2>8, <2>9, <1>1
  <2> QED BY <2>1, <2>10, <1>1, StepAccounts
<1>9. ASSUME \/ StartTurn \/ BeginForeign \/ EndForeign \/ UNCHANGED vars
             \/ \E m \in Msgs : Abort(m) \/ Forget(m)
      PROVE  Lined1 /\ (Accounted /\ LifecycleSettled)'
  <2>1. UNCHANGED <<registered, queue, drain, settled, fate>>
    BY <1>9 DEF StartTurn, BeginForeign, EndForeign, Abort, Forget, vars
  <2> QED BY <1>1, <2>1 DEF Accounted, LifecycleSettled, Pending
<1>10. Lined1 /\ (Accounted /\ LifecycleSettled)'
  <2> HIDE DEF Lined1
  <2> QED BY <1>2, <1>3, <1>4, <1>5, <1>6, <1>7, <1>8, <1>9 DEF Next, Drain
<1> QED BY <1>10 DEF NewIInv

\* So it holds of every behaviour.
LEMMA NewInvariance == NewOnly /\ Spec => []NewIInv
<1> SUFFICES ASSUME NewOnly
             PROVE  Spec => []NewIInv
  OBVIOUS
<1>1. Init => NewIInv
  BY InitNew
<1>2. QueueIInv /\ NewIInv /\ [Next]_vars => NewIInv'
  BY NextNew
<1>3. Spec => []QueueIInv
  BY QueueInvariance
<1> QED BY <1>1, <1>2, <1>3, PTL DEF Spec

\* When a full queue turns messages away, no message it accepted is lost,
\* whatever fails, aborts or is cleared meanwhile.  With drop = "old" this is
\* false, see the run followup_lost_old (enqueue.ts, drain.ts:413).
THEOREM NothingLost ==
  ASSUME NewOnly
  PROVE  Spec => []Accounted
<1>1. NewIInv => Accounted
  BY DEF NewIInv
<1>2. Spec => []NewIInv
  BY NewInvariance
<1> QED BY <1>1, <1>2, PTL

\* Then a turn and the batch behind it stay at the head of the queue they were
\* taken from, so that taking that many messages off the head takes these
\* (queue-helpers.ts:149-160, drain.ts:413).
THEOREM HandStays ==
  ASSUME NewOnly
  PROVE  Spec => []HandIsHead
<1>1. NewIInv => HandIsHead
  BY DEF NewIInv, Lined, Laid, HandIsHead
<1>2. Spec => []NewIInv
  BY NewInvariance
<1> QED BY <1>1, <1>2, PTL

\* Then the lifecycle of every message that was accepted is completed, or the
\* message still waits in the registered queue (types.ts:126-145).
THEOREM LifecyclesClose ==
  ASSUME NewOnly
  PROVE  Spec => []LifecycleSettled
<1>1. NewIInv => LifecycleSettled
  BY DEF NewIInv
<1>2. Spec => []NewIInv
  BY NewInvariance
<1> QED BY <1>1, <1>2, PTL

=============================================================================
