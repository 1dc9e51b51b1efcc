----------------------- MODULE ConditionVariableProofs -----------------------
(* Theorems about ConditionVariable, for any number of threads, any range   *)
(* of the counter that holds them, any number of tokens and of timeouts.    *)
EXTENDS ConditionVariable, FiniteSetTheorems, TLAPS

(* How clients must use RtlWakeAllConditionVariable: with the lock held.    *)
AllUnderLock == \A u \in Uses : "all" \in u.kinds => u.locked

(* The lock excludes, testers and wakers hold it as they should.            *)
LockOK ==
    /\ \A t, u \in Threads : t # u /\ holds[t] = "exclusive" => holds[u] = "no"
    /\ \A t \in Threads :
         /\ pc[t] \in {"Test", "Unlock"} => holds[t] = mode[t]
         /\ pc[t] \in WakeSteps \cup {"Unheld"} /\ use.locked => holds[t] = "exclusive"
         /\ pc[t] \in WakeSteps => kind[t] \in use.kinds

(* A waker that has released nothing yet claimed a sleeper; with the lock   *)
(* held nobody moves the counter beside it.                                 *)
RoundOK == \A t \in Threads :
    /\ pc[t] = "Release" => Count[t] >= 0
    /\ use.locked /\ pc[t] = "Release" => Counter = Count[t]
    /\ use.locked /\ pc[t] = "Decrement" => Counter >= 1

(* The wakers that will take one from the counter.                          *)
Takers == {t \in Threads : pc[t] = "Decrement"}

Positive(n) == IF n >= 0 THEN n ELSE 0

(* The counter is above zero by the sleepers nobody has claimed and by some *)
(* of the timeouts, and below zero by no more than the wakers that overtook *)
(* each other.                                                              *)
CountOK ==
    LET unclaimed == Cardinality(Waiting) - Cardinality(Pending)
    IN  /\ unclaimed <= Positive(Counter)
        /\ Positive(Counter) <= unclaimed + timeouts
        /\ Cardinality(Takers) - Cardinality(Threads) <= Counter

CvInv == TypeOK /\ LockOK /\ RoundOK /\ CountOK

-----------------------------------------------------------------------------
(* Subsets of Threads that gain or lose one member.                         *)
LEMMA OneMore ==
    ASSUME NEW S \in SUBSET Threads, NEW t \in Threads \ S
    PROVE  Cardinality(S \cup {t}) = Cardinality(S) + 1
<1>1. IsFiniteSet(S)
  BY CvAssumption, FS_Subset
<1> QED BY <1>1, FS_AddElement

LEMMA OneLess ==
    ASSUME NEW S \in SUBSET Threads, NEW t \in S
    PROVE  Cardinality(S \ {t}) = Cardinality(S) - 1
<1>1. IsFiniteSet(S)
  BY CvAssumption, FS_Subset
<1> QED BY <1>1, FS_RemoveElement

LEMMA AtMostAll ==
    ASSUME NEW S \in SUBSET Threads
    PROVE  /\ Cardinality(S) \in Nat
           /\ Cardinality(Threads) \in Nat
           /\ Cardinality(S) <= Cardinality(Threads)
<1>1. IsFiniteSet(S)
  BY CvAssumption, FS_Subset
<1> QED BY <1>1, CvAssumption, FS_Subset, FS_CardinalityType

(* No step of the counter wraps, neither up ...                             *)
LEMMA NoWrap ==
    ASSUME TypeOK, CountOK
    PROVE  /\ Increment(Counter) = Counter + 1
           /\ Takers # {} => Decrement(Counter) = Counter - 1
           /\ Counter \in -Cardinality(Threads) .. Cardinality(Threads) + timeouts
<1>1. /\ Cardinality(Waiting) \in Nat /\ Cardinality(Pending) \in Nat
      /\ Cardinality(Takers) \in Nat /\ Cardinality(Threads) \in Nat
      /\ Cardinality(Waiting) <= Cardinality(Threads)
  BY AtMostAll DEF Waiting, Pending, Takers
<1>2. Takers # {} => Cardinality(Takers) > 0
  <2> SUFFICES ASSUME NEW t \in Takers PROVE Cardinality(Takers) > 0
    OBVIOUS
  <2>1. Cardinality(Takers \ {t}) = Cardinality(Takers) - 1
    BY OneLess DEF Takers
  <2>2. Cardinality(Takers \ {t}) \in Nat
    BY AtMostAll DEF Takers
  <2> QED BY <1>1, <2>1, <2>2
<1>3. /\ Counter \in Int /\ timeouts \in Nat /\ timeouts <= MaxTimeouts
      /\ MinLong \in Int /\ MaxLong \in Int /\ MaxTimeouts \in Nat
      /\ MinLong <= -Cardinality(Threads)
      /\ Cardinality(Threads) + MaxTimeouts < MaxLong
  BY CvAssumption DEF TypeOK
<1>4. Counter \in -Cardinality(Threads) .. Cardinality(Threads) + timeouts
  BY <1>1, <1>3 DEF CountOK, Positive
<1>5. Counter # MaxLong
  BY <1>1, <1>3, <1>4
<1>6. Takers # {} => Counter # MinLong
  BY <1>1, <1>2, <1>3 DEF CountOK
<1> QED BY <1>4, <1>5, <1>6 DEF Increment, Decrement

LEMMA CvInit == Init => CvInv
<1> SUFFICES ASSUME Init PROVE CvInv
  OBVIOUS
<1>1. TypeOK
  <2>1. Cardinality(Threads) \in Nat
    BY CvAssumption, FS_CardinalityType
  <2>2. 0 \in MinLong .. MaxLong
    BY <2>1, CvAssumption
  <2> QED BY <2>2, CvAssumption DEF Init, TypeOK
<1>2. LockOK /\ RoundOK
  BY DEF Init, LockOK, RoundOK, WakeSteps
<1>3. CountOK
  <2>1. Waiting = {} /\ Pending = {} /\ Takers = {}
    BY DEF Init, Waiting, Pending, Takers
  <2>2. Cardinality({}) = 0 /\ Cardinality(Threads) \in Nat
    BY FS_EmptySet, FS_CardinalityType, CvAssumption
  <2> QED BY <2>1, <2>2 DEF Init, CountOK, Positive
<1> QED BY <1>1, <1>2, <1>3 DEF CvInv

-----------------------------------------------------------------------------
(* CountOK when the three sets and the counter stay as they are.            *)
LEMMA SameCounts ==
    ASSUME CountOK, UNCHANGED <<Counter, timeouts, Waiting, Pending, Takers>>
    PROVE  CountOK'
BY DEF CountOK, Positive

(* The lock is taken in mode m, and nothing that depends on it is lost.     *)
LEMMA Excludes ==
    ASSUME TypeOK, LockOK, NEW t \in Threads, NEW m \in {"shared", "exclusive"},
           Take(t, m)
    PROVE  \A u, v \in Threads : u # v /\ holds'[u] = "exclusive" => holds'[v] = "no"
BY DEF TypeOK, LockOK, Take, CanTake

(* Every step keeps the invariant.                                          *)
LEMMA CvStep == AllUnderLock /\ CvInv /\ [Next]_vars => CvInv'
<1> SUFFICES ASSUME AllUnderLock, CvInv, [Next]_vars PROVE CvInv'
  OBVIOUS
<1>0. TypeOK /\ LockOK /\ RoundOK /\ CountOK
  BY DEF CvInv
<1>a. /\ Cardinality(Waiting) \in Nat /\ Cardinality(Pending) \in Nat
      /\ Cardinality(Takers) \in Nat /\ Cardinality(Threads) \in Nat
      /\ Counter \in Int /\ timeouts \in Nat /\ MinLong \in Int /\ MaxLong \in Int
  BY <1>0, AtMostAll, CvAssumption DEF TypeOK, Waiting, Pending, Takers
<1> USE DEF SleepSteps, WakeSteps, Goto
<1>1. ASSUME NEW t \in Threads, NEW m \in Modes, EnterToTest(t, m) PROVE CvInv'
  <2>1. m \in {"shared", "exclusive"}
    BY CvAssumption
  <2>2. TypeOK'
    BY <1>0, <1>1, <2>1 DEF TypeOK, EnterToTest, Take
  <2>3. LockOK'
    <3>1. Take(t, m)
      BY <1>1 DEF EnterToTest
    <3>2. \A u, v \in Threads : u # v /\ holds'[u] = "exclusive" => holds'[v] = "no"
      BY <1>0, <2>1, <3>1, Excludes
    <3> QED BY <1>0, <1>1, <3>2 DEF TypeOK, LockOK, EnterToTest, Take
  <2>4. RoundOK'
    BY <1>0, <1>1 DEF TypeOK, RoundOK, EnterToTest
  <2>5. UNCHANGED <<Waiting, Pending, Takers>>
    BY <1>0, <1>1 DEF TypeOK, EnterToTest, Waiting, Pending, Takers
  <2>6. CountOK'
    BY <1>0, <1>1, <2>5, SameCounts DEF EnterToTest
  <2> QED BY <2>2, <2>3, <2>4, <2>6 DEF CvInv
<1>2. ASSUME NEW t \in Threads, NEW k \in {"one", "all"}, EnterToWake(t, k) PROVE CvInv'
  <2>1. TypeOK'
    BY <1>0, <1>2, CvAssumption DEF TypeOK, EnterToWake
  <2>2. LockOK'
    BY <1>0, <1>2 DEF TypeOK, LockOK, EnterToWake, CanTake
  <2>3. RoundOK'
    BY <1>0, <1>2 DEF TypeOK, RoundOK, EnterToWake
  <2>4. UNCHANGED <<Waiting, Pending, Takers>>
    BY <1>0, <1>2 DEF TypeOK, EnterToWake, Waiting, Pending, Takers
  <2>5. CountOK'
    BY <1>0, <1>2, <2>4, SameCounts DEF EnterToWake
  <2> QED BY <2>1, <2>2, <2>3, <2>5 DEF CvInv
<1>3. ASSUME NEW t \in Threads, Consume(t) PROVE CvInv'
  <2>1. TypeOK'
    BY <1>0, <1>3, CvAssumption DEF TypeOK, Consume, Leave
  <2>2. LockOK'
    BY <1>0, <1>3 DEF TypeOK, LockOK, Consume, Leave
  <2>3. RoundOK'
    BY <1>0, <1>3 DEF TypeOK, RoundOK, Consume
  <2>4. UNCHANGED <<Waiting, Pending, Takers>>
    BY <1>0, <1>3 DEF TypeOK, Consume, Waiting, Pending, Takers
  <2>5. CountOK'
    BY <1>0, <1>3, <2>4, SameCounts DEF Consume
  <2> QED BY <2>1, <2>2, <2>3, <2>5 DEF CvInv
<1>4. ASSUME NEW t \in Threads, RtlSleepConditionVariable(t) PROVE CvInv'
  <2>1. Counter' = Counter + 1 /\ Counter' \in MinLong .. MaxLong
    <3>1. Counter' = Counter + 1
      BY <1>0, <1>4, NoWrap DEF RtlSleepConditionVariable
    <3>2. Increment(Counter) \in MinLong .. MaxLong
      BY <1>0, <1>a DEF TypeOK, Increment
    <3> QED BY <1>4, <3>1, <3>2 DEF RtlSleepConditionVariable
  <2>2. TypeOK'
    BY <1>0, <1>4, <2>1 DEF TypeOK, RtlSleepConditionVariable
  <2>3. LockOK'
    BY <1>0, <1>4 DEF TypeOK, LockOK, RtlSleepConditionVariable
  <2>4. RoundOK'
    <3>1. holds[t] # "no"
      BY <1>0, <1>4 DEF TypeOK, LockOK, RtlSleepConditionVariable
    <3>2. use.locked => \A u \in Threads : pc[u] \notin WakeSteps
      BY <1>0, <1>4, <3>1 DEF LockOK, RtlSleepConditionVariable
    <3> QED BY <1>0, <1>4, <3>2 DEF TypeOK, RoundOK, RtlSleepConditionVariable
  <2>5. CountOK'
    <3>1. Pending' = Pending /\ Takers' = Takers
      BY <1>0, <1>4 DEF TypeOK, RtlSleepConditionVariable, Pending, Takers
    <3>2. CASE Counter + 1 > 0
      <4>1. Waiting' = Waiting \cup {t} /\ t \notin Waiting
        BY <1>0, <1>4, <2>1, <3>2 DEF TypeOK, RtlSleepConditionVariable, Waiting
      <4>2. Cardinality(Waiting') = Cardinality(Waiting) + 1
        BY <4>1, OneMore DEF Waiting
      <4> QED BY <1>0, <1>4, <1>a, <2>1, <3>1, <3>2, <4>2
                 DEF CountOK, Positive, RtlSleepConditionVariable
    <3>3. CASE ~(Counter + 1 > 0)
      <4>1. Waiting' = Waiting
        BY <1>0, <1>4, <2>1, <3>3 DEF TypeOK, RtlSleepConditionVariable, Waiting
      <4> QED BY <1>0, <1>4, <1>a, <2>1, <3>1, <3>3, <4>1
                 DEF CountOK, Positive, RtlSleepConditionVariable
    <3> QED BY <3>2, <3>3
  <2> QED BY <2>2, <2>3, <2>4, <2>5 DEF CvInv
<1>5. ASSUME NEW t \in Threads, SleepUnlock(t) PROVE CvInv'
  <2>1. TypeOK'
    BY <1>0, <1>5 DEF TypeOK, SleepUnlock, Leave
  <2>2. LockOK'
    BY <1>0, <1>5 DEF TypeOK, LockOK, SleepUnlock, Leave
  <2>3. RoundOK'
    BY <1>0, <1>5 DEF TypeOK, RoundOK, SleepUnlock
  <2>4. UNCHANGED <<Waiting, Pending, Takers>>
    BY <1>0, <1>5 DEF TypeOK, SleepUnlock, Waiting, Pending, Takers
  <2>5. CountOK'
    BY <1>0, <1>5, <2>4, SameCounts DEF SleepUnlock
  <2> QED BY <2>1, <2>2, <2>3, <2>5 DEF CvInv
<1>6. ASSUME NEW t \in Threads, SleepTimeout(t) PROVE CvInv'
  <2>1. TypeOK'
    BY <1>0, <1>6, CvAssumption DEF TypeOK, SleepTimeout
  <2>2. LockOK' /\ RoundOK'
    BY <1>0, <1>6 DEF TypeOK, LockOK, RoundOK, SleepTimeout
  <2>3. Pending' = Pending /\ Takers' = Takers /\ Waiting' = Waiting \ {t} /\ t \in Waiting
    BY <1>0, <1>6 DEF TypeOK, SleepTimeout, Waiting, Pending, Takers
  <2>4. Cardinality(Waiting') = Cardinality(Waiting) - 1
    BY <2>3, OneLess DEF Waiting
  <2>5. CountOK'
    BY <1>0, <1>6, <1>a, <2>3, <2>4 DEF CountOK, Positive, SleepTimeout
  <2> QED BY <2>1, <2>2, <2>5 DEF CvInv
<1>7. ASSUME NEW t \in Threads, SleepReacquire(t) PROVE CvInv'
  <2>1. mode[t] \in {"shared", "exclusive"}
    BY <1>0 DEF TypeOK
  <2>2. TypeOK'
    BY <1>0, <1>7, <2>1 DEF TypeOK, SleepReacquire, Take
  <2>3. LockOK'
    <3>1. Take(t, mode[t])
      BY <1>7 DEF SleepReacquire
    <3>2. \A u, v \in Threads : u # v /\ holds'[u] = "exclusive" => holds'[v] = "no"
      BY <1>0, <2>1, <3>1, Excludes
    <3> QED BY <1>0, <1>7, <3>2 DEF TypeOK, LockOK, SleepReacquire, Take
  <2>4. RoundOK'
    BY <1>0, <1>7 DEF TypeOK, RoundOK, SleepReacquire
  <2>5. UNCHANGED <<Waiting, Pending, Takers>>
    BY <1>0, <1>7 DEF TypeOK, SleepReacquire, Waiting, Pending, Takers
  <2>6. CountOK'
    BY <1>0, <1>7, <2>5, SameCounts DEF SleepReacquire
  <2> QED BY <2>2, <2>3, <2>4, <2>6 DEF CvInv
<1>8. ASSUME NEW t \in Threads, WakeCheck(t) PROVE CvInv'
  <2>1. TypeOK'
    BY <1>0, <1>8 DEF TypeOK, WakeCheck
  <2>2. LockOK'
    BY <1>0, <1>8 DEF TypeOK, LockOK, WakeCheck
  <2>3. RoundOK'
    BY <1>0, <1>8, <1>a DEF TypeOK, RoundOK, WakeCheck, SomeoneSleeps
  <2>4. CountOK'
    <3>1. Waiting' = Waiting /\ Pending' = Pending
      BY <1>0, <1>8 DEF TypeOK, WakeCheck, Waiting, Pending
    <3>2. CASE Counter > 0
      <4>1. Cardinality(Takers') \in Nat /\ Cardinality(Takers') <= Cardinality(Threads)
        BY AtMostAll DEF Takers
      <4> QED BY <1>0, <1>8, <1>a, <3>1, <3>2, <4>1 DEF CountOK, WakeCheck
    <3>3. CASE ~(Counter > 0)
      <4>1. Takers' = Takers
        BY <1>0, <1>8, <3>3 DEF TypeOK, WakeCheck, SomeoneSleeps, Takers
      <4> QED BY <1>0, <1>8, <3>1, <4>1, SameCounts DEF WakeCheck
    <3> QED BY <3>2, <3>3
  <2> QED BY <2>1, <2>2, <2>3, <2>4 DEF CvInv
<1>9. ASSUME NEW t \in Threads, WakeDecrement(t) PROVE CvInv'
  <2>1. /\ Counter' = Counter - 1 /\ Counter' \in MinLong .. MaxLong
        /\ Count' = [Count EXCEPT ![t] = Counter - 1]
        /\ t \in Takers
    <3>1. t \in Takers
      BY <1>9 DEF WakeDecrement, Takers
    <3>2. Decrement(Counter) = Counter - 1
      BY <1>0, <3>1, NoWrap
    <3>3. Decrement(Counter) \in MinLong .. MaxLong
      BY <1>0, <1>a DEF TypeOK, Decrement
    <3> QED BY <1>9, <3>1, <3>2, <3>3 DEF WakeDecrement
  <2>2. kind[t] = "all" => Counter - 1 >= 0
    <3>1. kind[t] = "all" => use.locked
      BY <1>0, <1>9 DEF AllUnderLock, TypeOK, LockOK, WakeDecrement
    <3> QED BY <1>0, <1>9, <1>a, <3>1 DEF RoundOK, WakeDecrement
  <2>3. pc' = [pc EXCEPT ![t] = IF Counter - 1 >= 0 THEN "Release" ELSE "Unheld"]
    BY <1>9, <1>a, <2>1, <2>2 DEF WakeDecrement, Claims, NextRound, GoesRound
  <2>4. TypeOK'
    BY <1>0, <1>9, <2>1, <2>3 DEF TypeOK, WakeDecrement
  <2>5. LockOK'
    BY <1>0, <1>9, <2>3 DEF TypeOK, LockOK, WakeDecrement
  <2>6. RoundOK'
    <3>1. use.locked => \A u \in Threads \ {t} : pc[u] \notin WakeSteps
      BY <1>0, <1>9 DEF LockOK, WakeDecrement
    <3> QED BY <1>0, <1>9, <1>a, <2>1, <2>3, <3>1 DEF TypeOK, RoundOK, WakeDecrement
  <2>7. CountOK'
    <3>1. Waiting' = Waiting /\ Takers' = Takers \ {t}
      BY <1>0, <1>9, <2>3 DEF TypeOK, WakeDecrement, Waiting, Takers
    <3>2. Cardinality(Takers') = Cardinality(Takers) - 1
      BY <2>1, <3>1, OneLess DEF Takers
    <3>3. CASE Counter - 1 >= 0
      <4>1. Pending' = Pending \cup {t} /\ t \notin Pending
        BY <1>0, <1>9, <2>3, <3>3 DEF TypeOK, WakeDecrement, Pending
      <4>2. Cardinality(Pending') = Cardinality(Pending) + 1
        BY <4>1, OneMore DEF Pending
      <4> QED BY <1>0, <1>9, <1>a, <2>1, <3>1, <3>2, <3>3, <4>2
                 DEF CountOK, Positive, WakeDecrement
    <3>4. CASE ~(Counter - 1 >= 0)
      <4>1. Pending' = Pending
        BY <1>0, <1>9, <2>3, <3>4 DEF TypeOK, WakeDecrement, Pending
      <4> QED BY <1>0, <1>9, <1>a, <2>1, <3>1, <3>2, <3>4, <4>1
                 DEF CountOK, Positive, WakeDecrement
    <3> QED BY <3>3, <3>4
  <2> QED BY <2>4, <2>5, <2>6, <2>7 DEF CvInv
<1>10. ASSUME NEW t \in Threads, NEW u \in Threads, Rendezvous(t, u) PROVE CvInv'
  <2>1. kind[t] = "all" => use.locked
    BY <1>0, <1>10 DEF AllUnderLock, TypeOK, LockOK, Rendezvous
  <2>2. NextRound(t, Count[t]) \in {"Decrement", "Unheld"}
    BY DEF NextRound
  <2>3. NextRound(t, Count[t]) = "Decrement" => use.locked /\ Counter >= 1
    BY <1>0, <1>10, <1>a, <2>1 DEF TypeOK, RoundOK, NextRound, GoesRound, Rendezvous
  <2>4. TypeOK'
    BY <1>0, <1>10, <2>2 DEF TypeOK, Rendezvous
  <2>5. LockOK'
    BY <1>0, <1>10, <2>2 DEF TypeOK, LockOK, Rendezvous
  <2>6. RoundOK'
    BY <1>0, <1>10, <2>2, <2>3 DEF TypeOK, RoundOK, Rendezvous
  <2>7. CountOK'
    <3>1. /\ Waiting' = Waiting \ {u} /\ u \in Waiting
          /\ Pending' = Pending \ {t} /\ t \in Pending
      BY <1>0, <1>10, <2>2 DEF TypeOK, Rendezvous, Waiting, Pending
    <3>2. /\ Cardinality(Waiting') = Cardinality(Waiting) - 1
          /\ Cardinality(Pending') = Cardinality(Pending) - 1
      BY <3>1, OneLess DEF Waiting, Pending
    <3>3. Cardinality(Takers') - Cardinality(Threads) <= Counter
      <4>1. CASE NextRound(t, Count[t]) = "Decrement"
        <5>1. Cardinality(Takers') \in Nat /\ Cardinality(Takers') <= Cardinality(Threads)
          BY AtMostAll DEF Takers
        <5> QED BY <1>a, <2>3, <4>1, <5>1
      <4>2. CASE NextRound(t, Count[t]) = "Unheld"
        <5>1. Takers' = Takers
          BY <1>0, <1>10, <4>2 DEF TypeOK, Rendezvous, Takers
        <5> QED BY <1>0, <5>1 DEF CountOK
      <4> QED BY <2>2, <4>1, <4>2
    <3> QED BY <1>0, <1>10, <1>a, <3>2, <3>3 DEF CountOK, Positive, Rendezvous
  <2> QED BY <2>4, <2>5, <2>6, <2>7 DEF CvInv
<1>11. ASSUME NEW t \in Threads, WakeReturn(t) PROVE CvInv'
  <2>1. TypeOK'
    <3>1. 0 \in MinLong .. MaxLong
      BY <1>a, CvAssumption
    <3> QED BY <1>0, <1>11, <3>1 DEF TypeOK, WakeReturn, Leave
  <2>2. LockOK'
    BY <1>0, <1>11 DEF TypeOK, LockOK, WakeReturn, Leave
  <2>3. RoundOK'
    BY <1>0, <1>11 DEF TypeOK, RoundOK, WakeReturn
  <2>4. UNCHANGED <<Waiting, Pending, Takers>>
    BY <1>0, <1>11 DEF TypeOK, WakeReturn, Waiting, Pending, Takers
  <2>5. CountOK'
    BY <1>0, <1>11, <2>4, SameCounts DEF WakeReturn
  <2> QED BY <2>1, <2>2, <2>3, <2>5 DEF CvInv
<1>12. CASE UNCHANGED vars
  <2>1. TypeOK' /\ LockOK' /\ RoundOK'
    BY <1>0, <1>12 DEF vars, TypeOK, LockOK, RoundOK
  <2>2. UNCHANGED <<Waiting, Pending, Takers>>
    BY <1>12 DEF vars, Waiting, Pending, Takers
  <2>3. CountOK'
    BY <1>0, <1>12, <2>2, SameCounts DEF vars
  <2> QED BY <2>1, <2>3 DEF CvInv
<1> QED
  BY <1>1, <1>2, <1>3, <1>4, <1>5, <1>6, <1>7, <1>8, <1>9, <1>10, <1>11, <1>12
     DEF Next, Step

(* The invariant in every reachable state.                                  *)
LEMMA CvInvariant == ASSUME AllUnderLock PROVE Spec => []CvInv
<1>1. CvInv /\ [Next]_vars => CvInv'
  BY CvStep
<1> QED BY CvInit, <1>1, PTL DEF Spec

-----------------------------------------------------------------------------
(* Types: the counter stays in the range of a LONG.                         *)
THEOREM CvTypeCorrect == ASSUME AllUnderLock PROVE Spec => []TypeOK
<1>1. CvInv => TypeOK
  BY DEF CvInv
<1> QED BY <1>1, CvInvariant, PTL

(* It keeps within one per thread, and one per timeout above that.          *)
THEOREM CounterIsBounded == ASSUME AllUnderLock PROVE Spec => []CounterBounded
<1>1. CvInv => CounterBounded
  BY NoWrap DEF CvInv, CounterBounded
<1> QED BY <1>1, CvInvariant, PTL

(* No sleeper is invisible to a waker that reads the counter ...            *)
THEOREM NoSleeperIsInvisible == ASSUME AllUnderLock PROVE Spec => []NeverUndercounts
<1>1. CvInv => NeverUndercounts
  BY DEF CvInv, CountOK, Positive, NeverUndercounts
<1> QED BY <1>1, CvInvariant, PTL

(* ... and until a wait times out the counter is exactly the number of      *)
(* sleepers nobody has claimed, however wakers overtake each other.         *)
THEOREM CounterIsExact == ASSUME AllUnderLock PROVE Spec => []Accounting
<1>1. CvInv => Accounting
  <2> SUFFICES ASSUME CvInv, timeouts = 0 PROVE Accounting
    BY DEF Accounting
  <2>1. /\ Cardinality(Waiting) \in Nat /\ Cardinality(Pending) \in Nat
        /\ Counter \in Int
    BY AtMostAll, CvAssumption DEF CvInv, TypeOK, Waiting, Pending
  <2> QED BY <2>1 DEF CvInv, CountOK, Positive, Accounting
<1> QED BY <1>1, CvInvariant, PTL

(* A thread tests the predicate under its lock, before and after a sleep.   *)
THEOREM PredicateTestedUnderLock == ASSUME AllUnderLock PROVE Spec => []TestsUnderLock
<1>1. CvInv => TestsUnderLock
  BY DEF CvInv, LockOK, TestsUnderLock
<1> QED BY <1>1, CvInvariant, PTL

(* A wake of all with the lock held returns only when nobody sleeps.        *)
THEOREM WakeAllLeavesNobody == ASSUME AllUnderLock PROVE Spec => WakeAllEmpties
<1> DEFINE A == \A t \in Threads :
                  pc[t] \in WakeSteps /\ kind[t] = "all" /\ pc'[t] = "Unheld"
                    => Waiting' = {}
<1>1. CvInv /\ [Next]_vars => [A]_vars
  <2> SUFFICES ASSUME CvInv, [Next]_vars, NEW t \in Threads,
                      pc[t] \in WakeSteps, kind[t] = "all", pc'[t] = "Unheld"
               PROVE  Waiting' = {}
    OBVIOUS
  <2>0. TypeOK /\ LockOK /\ RoundOK /\ CountOK
    BY DEF CvInv
  <2>1. use.locked /\ \A u \in Threads \ {t} : pc[u] \notin WakeSteps
    BY <2>0 DEF AllUnderLock, TypeOK, LockOK, WakeSteps
  <2>2. \/ WakeCheck(t) /\ ~SomeoneSleeps
        \/ WakeDecrement(t)
        \/ \E u \in Threads : Rendezvous(t, u)
    BY <2>0 DEF Next, Step, vars, TypeOK, WakeSteps, Goto, EnterToTest, EnterToWake, Consume,
       RtlSleepConditionVariable, SleepUnlock, WakeCheck, WakeDecrement, WakeReturn,
       SleepTimeout, SleepReacquire, Rendezvous
  <2>3. /\ Cardinality(Waiting) \in Nat /\ Cardinality(Waiting') \in Nat
        /\ Counter \in Int
    BY <2>0, AtMostAll, CvAssumption DEF TypeOK, Waiting
  <2>4. \A S \in SUBSET Threads : Cardinality(S) = 0 => S = {}
    BY CvAssumption, FS_Subset, FS_EmptySet
  <2>5. CASE WakeCheck(t) /\ ~SomeoneSleeps
    <3>1. Waiting' = Waiting /\ Pending = {}
      BY <2>0, <2>1, <2>5 DEF TypeOK, WakeSteps, WakeCheck, Goto, Waiting, Pending
    <3>2. Cardinality(Waiting) = 0
      BY <2>0, <2>3, <2>5, <3>1, FS_EmptySet DEF CountOK, Positive, SomeoneSleeps
    <3> QED BY <2>4, <3>1, <3>2 DEF Waiting
  <2>6. CASE WakeDecrement(t)
    <3>1. Counter >= 1 /\ t \in Takers
      BY <2>0, <2>1, <2>6 DEF RoundOK, WakeDecrement, Takers
    <3>2. Decrement(Counter) = Counter - 1
      BY <2>0, <3>1, NoWrap
    <3>3. pc'[t] = "Release"
      BY <2>0, <2>3, <2>6, <3>1, <3>2 DEF TypeOK, WakeDecrement, Goto, Claims
    <3> QED BY <3>3
  <2>7. ASSUME NEW u \in Threads, Rendezvous(t, u) PROVE Waiting' = {}
    <3>1. NextRound(t, Count[t]) = "Unheld"
      BY <2>0, <2>7 DEF TypeOK, Rendezvous
    <3>2. Counter = 0
      BY <2>0, <2>1, <2>7, <3>1 DEF RoundOK, Rendezvous, NextRound, GoesRound
    <3>3. Pending = {t} /\ Waiting' = Waiting \ {u} /\ u \in Waiting
      BY <2>0, <2>1, <2>7, <3>1 DEF TypeOK, WakeSteps, Rendezvous, Waiting, Pending
    <3>4. Cardinality(Waiting') = Cardinality(Waiting) - 1 /\ Cardinality(Pending) = 1
      BY <3>3, OneLess, FS_Singleton, ZenonT(40) DEF Waiting
    <3>5. Cardinality(Waiting') = 0
      BY <2>0, <2>3, <3>2, <3>4 DEF CountOK, Positive
    <3> QED BY <2>4, <3>3, <3>5 DEF Waiting
  <2>8. CASE \E u \in Threads : Rendezvous(t, u)
    <3>1. PICK u \in Threads : Rendezvous(t, u)
      BY <2>8
    <3> QED BY <2>7, <3>1
  <2> QED BY <2>2, <2>5, <2>6, <2>8
<1> QED BY <1>1, CvInvariant, PTL DEF Spec, WakeAllEmpties

-----------------------------------------------------------------------------
(* The counter implements the sleepers it counts.                           *)

Wakes == [t \in Threads |-> IF pc[t] \in WakeSteps THEN kind[t] ELSE "no"]

LEMMA SameCardinality == ASSUME NEW S PROVE Promise!Cardinality(S) = Cardinality(S)
BY DEF Promise!Cardinality, Cardinality

(* A step that leaves sleepers, wakers and claims as they are.              *)
LEMMA Unseen ==
    ASSUME UNCHANGED <<Waiting, Wakes, Pending, timeouts>>
    PROVE  UNCHANGED Promise!vars
BY DEF Promise!vars, Wakes

(* With the lock held a wake of all is alone among the wakes.               *)
LEMMA AllIsAlone ==
    ASSUME AllUnderLock, CvInv, NEW t \in Threads, pc[t] \in WakeSteps, kind[t] = "all"
    PROVE  use.locked /\ Pending \subseteq {t}
BY DEF AllUnderLock, CvInv, TypeOK, LockOK, WakeSteps, Pending

(* Below one, the counter says that each sleeper has a waker coming ...     *)
LEMMA NobodyUnclaimed ==
    ASSUME CvInv, Counter <= 0
    PROVE  Cardinality(Waiting) <= Cardinality(Pending)
<1>1. /\ Cardinality(Waiting) \in Nat /\ Cardinality(Pending) \in Nat
      /\ Counter \in Int
  BY AtMostAll, CvAssumption DEF CvInv, TypeOK, Waiting, Pending
<1> QED BY <1>1 DEF CvInv, CountOK, Positive

(* ... and above zero that some sleeper has none, unless a wait timed out.  *)
LEMMA SomeoneUnclaimed ==
    ASSUME CvInv, Counter >= 1
    PROVE  timeouts > 0 \/ Cardinality(Pending) < Cardinality(Waiting)
<1>1. /\ Cardinality(Waiting) \in Nat /\ Cardinality(Pending) \in Nat
      /\ Counter \in Int /\ timeouts \in Nat
  BY AtMostAll, CvAssumption DEF CvInv, TypeOK, Waiting, Pending
<1> QED BY <1>1 DEF CvInv, CountOK, Positive

(* A waker that claims no sleeper.                                          *)
LEMMA GivesUp ==
    ASSUME AllUnderLock, CvInv, NEW t \in Threads,
           pc[t] \in {"Check", "Decrement"}, Counter <= 0,
           pc' = [pc EXCEPT ![t] = "Unheld"],
           UNCHANGED <<kind, timeouts>>
    PROVE  Promise!GiveUp(t)
<1>1. TypeOK
  BY DEF CvInv
<1>2. Waiting' = Waiting /\ Pending' = Pending
  BY <1>1 DEF TypeOK, Waiting, Pending
<1>3. Wakes' = [Wakes EXCEPT ![t] = "no"]
  BY <1>1 DEF TypeOK, Wakes, WakeSteps
<1>4. Wakes[t] = kind[t] /\ Wakes[t] # "no" /\ t \notin Pending
  BY <1>1 DEF TypeOK, Wakes, WakeSteps, Pending
<1>5. kind[t] = "all" => Waiting = {}
  <2> SUFFICES ASSUME kind[t] = "all" PROVE Waiting = {}
    OBVIOUS
  <2>1. Pending = {}
    BY <1>4, AllIsAlone DEF WakeSteps
  <2>2. Cardinality(Waiting) = 0
    BY <2>1, NobodyUnclaimed, AtMostAll, FS_EmptySet DEF Waiting
  <2>3. \A S \in SUBSET Threads : Cardinality(S) = 0 => S = {}
    BY CvAssumption, FS_Subset, FS_EmptySet
  <2>4. Waiting \in SUBSET Threads
    BY DEF Waiting
  <2> QED BY <2>2, <2>3, <2>4
<1> QED BY <1>2, <1>3, <1>4, <1>5, NobodyUnclaimed, SameCardinality DEF Promise!GiveUp, Wakes

(* A waker that meets a sleeper.                                            *)
LEMMA Rouses ==
    ASSUME AllUnderLock, CvInv, NEW t \in Threads, NEW u \in Threads, Rendezvous(t, u)
    PROVE  Promise!Rouse(t, u)
<1>0. TypeOK /\ RoundOK /\ CountOK
  BY DEF CvInv
<1>1. NextRound(t, Count[t]) \in {"Decrement", "Unheld"}
  BY DEF NextRound
<1>2. /\ Waiting' = Waiting \ {u} /\ u \in Waiting
      /\ Pending' = Pending \ {t} /\ t \in Pending
  BY <1>0, <1>1 DEF TypeOK, Rendezvous, Waiting, Pending
<1>3. /\ Cardinality(Waiting') = Cardinality(Waiting) - 1
      /\ Cardinality(Pending') = Cardinality(Pending) - 1
  BY <1>2, OneLess DEF Waiting, Pending
<1>4. /\ Cardinality(Waiting) \in Nat /\ Cardinality(Waiting') \in Nat
      /\ Cardinality(Pending') \in Nat /\ Counter \in Int /\ timeouts \in Nat
  BY <1>0, AtMostAll, CvAssumption DEF TypeOK, Waiting, Pending
<1>5. \A S \in SUBSET Threads : Cardinality(S) = 0 => S = {}
  BY CvAssumption, FS_Subset, FS_EmptySet
<1>6. timeouts' = timeouts /\ Wakes[t] = kind[t]
  BY <1>0 DEF TypeOK, Rendezvous, Wakes, WakeSteps
<1>7. kind[t] = "all" => Cardinality(Pending') = 0 /\ Counter = Count[t]
  <2> SUFFICES ASSUME kind[t] = "all"
               PROVE  Cardinality(Pending') = 0 /\ Counter = Count[t]
    OBVIOUS
  <2>1. use.locked /\ Pending \subseteq {t}
    BY AllIsAlone DEF Rendezvous, WakeSteps
  <2>2. Counter = Count[t]
    BY <1>0, <2>1 DEF RoundOK, Rendezvous
  <2>3. Pending' = {}
    BY <1>2, <2>1
  <2> QED BY <2>2, <2>3, FS_EmptySet
<1>8. CASE NextRound(t, Count[t]) = "Unheld"
  <2>1. Wakes' = [Wakes EXCEPT ![t] = "no"]
    BY <1>0, <1>8 DEF TypeOK, Rendezvous, Wakes, WakeSteps
  <2>2. kind[t] = "one" \/ Waiting' = {}
    <3> SUFFICES ASSUME kind[t] = "all" PROVE Waiting' = {}
      BY <1>0 DEF TypeOK
    <3>1. Counter = 0
      BY <1>7, <1>8 DEF NextRound, GoesRound
    <3>2. Cardinality(Waiting') = 0
      BY <1>0, <1>3, <1>4, <1>7, <3>1 DEF CountOK, Positive
    <3> QED BY <1>5, <3>2 DEF Waiting
  <2> QED BY <1>2, <1>6, <2>1, <2>2 DEF Promise!Rouse, Wakes
<1>9. CASE NextRound(t, Count[t]) = "Decrement"
  <2>1. kind[t] = "all" /\ Count[t] # 0
    BY <1>9 DEF NextRound, GoesRound
  <2>2. Wakes' = Wakes
    BY <1>0, <1>9 DEF TypeOK, Rendezvous, Wakes, WakeSteps
  <2>3. Counter >= 1
    BY <1>0, <1>4, <1>7, <2>1 DEF RoundOK, Rendezvous
  <2>4. timeouts > 0 \/ Waiting' # {}
    <3>1. timeouts > 0 \/ Cardinality(Waiting') # 0
      BY <1>0, <1>3, <1>4, <1>7, <2>1, <2>3 DEF CountOK, Positive
    <3> QED BY <3>1, FS_EmptySet
  <2> QED BY <1>2, <1>6, <2>1, <2>2, <2>4 DEF Promise!Rouse, Wakes
<1> QED BY <1>1, <1>8, <1>9

LEMMA InitiallyAwake == Init => Promise!Init
<1> SUFFICES ASSUME Init PROVE Promise!Init
  OBVIOUS
<1>1. Waiting = {} /\ Pending = {}
  BY DEF Init, Waiting, Pending
<1>2. Wakes = [t \in Threads |-> "no"]
  BY DEF Init, Wakes, WakeSteps
<1>3. (timeouts > 0) = FALSE
  BY DEF Init
<1> QED BY <1>1, <1>2, <1>3 DEF Promise!Init, Wakes

LEMMA StepsKeepThePromise == AllUnderLock /\ CvInv /\ [Next]_vars => [Promise!Next]_(Promise!vars)
<1> SUFFICES ASSUME AllUnderLock, CvInv, [Next]_vars
             PROVE  Promise!Next \/ UNCHANGED Promise!vars
  OBVIOUS
<1>0. TypeOK /\ RoundOK
  BY DEF CvInv
<1>a. Counter \in Int /\ timeouts \in Nat
  BY <1>0, CvAssumption DEF TypeOK
<1> USE DEF SleepSteps, WakeSteps, Goto
<1>1. ASSUME NEW t \in Threads, NEW m \in Modes, EnterToTest(t, m) PROVE UNCHANGED Promise!vars
  BY <1>0, <1>1, Unseen DEF TypeOK, EnterToTest, Waiting, Wakes, Pending
<1>2. ASSUME NEW t \in Threads, NEW k \in {"one", "all"}, EnterToWake(t, k)
      PROVE  Promise!Wake(t, k)
  <2>1. UNCHANGED <<Waiting, Pending, timeouts>> /\ t \notin Waiting
    BY <1>0, <1>2 DEF TypeOK, EnterToWake, Waiting, Pending
  <2>2. Wakes[t] = "no" /\ Wakes' = [Wakes EXCEPT ![t] = k]
    BY <1>0, <1>2 DEF TypeOK, EnterToWake, Wakes
  <2> QED BY <2>1, <2>2 DEF Promise!Wake, Wakes
<1>3. ASSUME NEW t \in Threads, Consume(t) PROVE UNCHANGED Promise!vars
  BY <1>0, <1>3, Unseen DEF TypeOK, Consume, Waiting, Wakes, Pending
<1>4. ASSUME NEW t \in Threads, RtlSleepConditionVariable(t)
      PROVE  Promise!Sleep(t) \/ UNCHANGED Promise!vars
  <2>1. UNCHANGED <<Wakes, Pending, timeouts>> /\ t \notin Waiting /\ Wakes[t] = "no"
    BY <1>0, <1>4 DEF TypeOK, RtlSleepConditionVariable, Wakes, Pending, Waiting
  <2>2. CASE Increment(Counter) > 0
    <3>1. Waiting' = Waiting \cup {t}
      BY <1>0, <1>4, <2>2 DEF TypeOK, RtlSleepConditionVariable, Waiting
    <3> QED BY <2>1, <3>1 DEF Promise!Sleep, Wakes
  <2>3. CASE ~(Increment(Counter) > 0)
    <3>1. Waiting' = Waiting
      BY <1>0, <1>4, <2>3 DEF TypeOK, RtlSleepConditionVariable, Waiting
    <3> QED BY <2>1, <3>1, Unseen
  <2> QED BY <2>2, <2>3
<1>5. ASSUME NEW t \in Threads, SleepUnlock(t) PROVE UNCHANGED Promise!vars
  BY <1>0, <1>5, Unseen DEF TypeOK, SleepUnlock, Waiting, Wakes, Pending
<1>6. ASSUME NEW t \in Threads, SleepTimeout(t) PROVE Promise!TimeOut(t)
  <2>1. UNCHANGED <<Wakes, Pending>> /\ t \in Waiting /\ Waiting' = Waiting \ {t}
    BY <1>0, <1>6 DEF TypeOK, SleepTimeout, Wakes, Pending, Waiting
  <2>2. (timeouts > 0)' = TRUE
    BY <1>6, <1>a DEF SleepTimeout
  <2> QED BY <2>1, <2>2 DEF Promise!TimeOut, Wakes
<1>7. ASSUME NEW t \in Threads, SleepReacquire(t) PROVE UNCHANGED Promise!vars
  BY <1>0, <1>7, Unseen DEF TypeOK, SleepReacquire, Waiting, Wakes, Pending
<1>8. ASSUME NEW t \in Threads, WakeCheck(t)
      PROVE  Promise!GiveUp(t) \/ UNCHANGED Promise!vars
  <2>1. CASE SomeoneSleeps
    BY <1>0, <1>8, <2>1, Unseen DEF TypeOK, WakeCheck, Waiting, Wakes, Pending
  <2>2. CASE ~SomeoneSleeps
    <3>1. Counter <= 0 /\ pc[t] \in {"Check", "Decrement"}
      BY <1>8, <1>a, <2>2 DEF WakeCheck, SomeoneSleeps
    <3>2. pc' = [pc EXCEPT ![t] = "Unheld"] /\ UNCHANGED <<kind, timeouts>>
      BY <1>8, <2>2 DEF WakeCheck
    <3> QED BY <3>1, <3>2, GivesUp
  <2> QED BY <2>1, <2>2
<1>9. ASSUME NEW t \in Threads, WakeDecrement(t) PROVE Promise!Claim(t) \/ Promise!GiveUp(t)
  <2>1. Decrement(Counter) = Counter - 1
    BY <1>9, NoWrap DEF CvInv, WakeDecrement, Takers
  <2>2. CASE Counter - 1 >= 0
    <3>1. pc' = [pc EXCEPT ![t] = "Release"] /\ UNCHANGED <<kind, timeouts>>
      BY <1>9, <2>1, <2>2 DEF WakeDecrement, Claims
    <3>2. UNCHANGED <<Waiting, Wakes>> /\ Pending' = Pending \cup {t} /\ t \notin Pending
      BY <1>0, <1>9, <3>1 DEF TypeOK, WakeDecrement, Waiting, Wakes, Pending
    <3>3. Wakes[t] # "no"
      BY <1>0, <1>9 DEF TypeOK, WakeDecrement, Wakes
    <3>4. timeouts > 0 \/ Cardinality(Pending) < Cardinality(Waiting)
      <4>1. Counter >= 1
        BY <1>a, <2>2
      <4> QED BY <4>1, SomeoneUnclaimed
    <3> QED BY <3>1, <3>2, <3>3, <3>4, SameCardinality DEF Promise!Claim, Wakes
  <2>3. CASE ~(Counter - 1 >= 0)
    <3>1. kind[t] # "all"
      BY <1>0, <1>9, <1>a, <2>3, AllIsAlone DEF RoundOK, WakeDecrement
    <3>2. pc' = [pc EXCEPT ![t] = "Unheld"] /\ UNCHANGED <<kind, timeouts>>
      BY <1>9, <2>1, <2>3, <3>1 DEF WakeDecrement, Claims, NextRound, GoesRound
    <3>3. Counter <= 0 /\ pc[t] \in {"Check", "Decrement"}
      BY <1>9, <1>a, <2>3 DEF WakeDecrement
    <3> QED BY <3>2, <3>3, GivesUp
  <2> QED BY <2>2, <2>3
<1>10. ASSUME NEW t \in Threads, NEW u \in Threads, Rendezvous(t, u) PROVE Promise!Rouse(t, u)
  BY <1>10, Rouses
<1>11. ASSUME NEW t \in Threads, WakeReturn(t) PROVE UNCHANGED Promise!vars
  BY <1>0, <1>11, Unseen DEF TypeOK, WakeReturn, Waiting, Wakes, Pending
<1>12. CASE UNCHANGED vars
  BY <1>12, Unseen DEF vars, Waiting, Wakes, Pending
<1> QED
  BY <1>1, <1>2, <1>3, <1>4, <1>5, <1>6, <1>7, <1>8, <1>9, <1>10, <1>11, <1>12
     DEF Next, Step, Promise!Next

(* Whatever sleepers and wakers do to the counter, it is as if each wake    *)
(* chose its sleepers by itself: none returns past a sleeper that has no    *)
(* waker coming, and until a wait times out every claim has its sleeper.    *)
THEOREM CounterImplementsSleepers == ASSUME AllUnderLock PROVE Spec => Implements
<1>1. CvInv /\ [Next]_vars => [Promise!Next]_(Promise!vars)
  BY StepsKeepThePromise
<1> QED BY InitiallyAwake, <1>1, CvInvariant, PTL DEF Spec, Implements, Promise!Spec
=============================================================================
