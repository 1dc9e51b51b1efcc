-------------------------- MODULE ConditionVariable --------------------------
(***************************************************************************)
(* The condition variable of Ntdll.Synchronize: a signed 32-bit counter and *)
(* a keyed event.  A sleeper counts itself in and waits for the event; a    *)
(* waker counts one out and releases the event, which blocks until a waiter *)
(* has arrived.  The counter is read and decremented in two steps, so two   *)
(* wakers can both count out the same sleeper.                              *)
(*                                                                         *)
(* The client is the usual one: a predicate (here a number of tokens)       *)
(* guarded by the lock, tested again after every return from the sleep.     *)
(***************************************************************************)
EXTENDS Integers, FiniteSets

CONSTANTS Threads,
          Modes,          \* how sleepers hold the lock: RTL_CRITICAL_SECTION and
                          \* exclusive SRW locks are "exclusive", else "shared"
          MinLong, MaxLong,  \* range of the counter
          Uses,           \* how clients wake: the wakes they call ("one" is
                          \* RtlWakeConditionVariable, "all" is ...WakeAll...)
                          \* and whether they still hold the lock then
          MaxTokens,      \* bound: tokens not consumed yet
          MaxTimeouts     \* bound: waits that end by their timeout

ASSUME CvAssumption ==
    /\ IsFiniteSet(Threads)
    /\ Modes \subseteq {"shared", "exclusive"}
    /\ MinLong \in Int /\ MaxLong \in Int
    /\ Uses \subseteq [kinds : SUBSET {"one", "all"}, locked : BOOLEAN]
    /\ MaxTokens \in Nat /\ MaxTimeouts \in Nat
    /\ MinLong <= -Cardinality(Threads)
    /\ Cardinality(Threads) + MaxTimeouts < MaxLong

VARIABLES
    Counter,  \* ConditionVariable->Ptr taken as a LONG
    holds,    \* how each thread holds the lock: "no", "shared", "exclusive"
    pc,
    mode,     \* how a sleeper takes the lock again
    kind,     \* which wake a waker is in
    Count,    \* what its last InterlockedDecrement returned
    tokens,   \* the client's predicate
    timeouts, \* sleeps that have timed out
    use       \* the way this condition variable is used: it never changes

vars == <<Counter, holds, pc, mode, kind, Count, tokens, timeouts, use>>

SleepSteps == {"Unlock", "Wait", "Reacquire"}
WakeSteps  == {"Check", "Decrement", "Release"}

TypeOK ==
    /\ Counter \in MinLong .. MaxLong
    /\ holds \in [Threads -> {"no", "shared", "exclusive"}]
    /\ pc \in [Threads -> {"Out", "Test", "Unheld"} \cup SleepSteps \cup WakeSteps]
    /\ mode \in [Threads -> {"shared", "exclusive"}]
    /\ kind \in [Threads -> {"one", "all"}]
    /\ Count \in [Threads -> MinLong .. MaxLong]
    /\ tokens \in 0 .. MaxTokens
    /\ timeouts \in 0 .. MaxTimeouts
    /\ use \in Uses

(* RtlInitializeConditionVariable, and no thread in a call.                 *)
Init ==
    /\ Counter = 0
    /\ holds = [t \in Threads |-> "no"]
    /\ pc = [t \in Threads |-> "Out"]
    /\ mode = [t \in Threads |-> "exclusive"]
    /\ kind = [t \in Threads |-> "one"]
    /\ Count = [t \in Threads |-> 0]
    /\ tokens = 0
    /\ timeouts = 0
    /\ use \in Uses

Goto(t, l) == pc' = [pc EXCEPT ![t] = l]

(* InterlockedIncrement and InterlockedDecrement of a LONG.                 *)
Increment(n) == IF n = MaxLong THEN MinLong ELSE n + 1
Decrement(n) == IF n = MinLong THEN MaxLong ELSE n - 1

(* The lock the client passes in.                                           *)
CanTake(t, m) ==
    \A u \in Threads \ {t} :
      holds[u] = "no" \/ (m = "shared" /\ holds[u] = "shared")

Take(t, m) == CanTake(t, m) /\ holds' = [holds EXCEPT ![t] = m]
Leave(t)   == holds' = [holds EXCEPT ![t] = "no"]

-----------------------------------------------------------------------------
(* The client of the sleeping side: take the lock, then consume a token and *)
(* leave, or sleep.                                                         *)
EnterToTest(t, m) ==
    /\ pc[t] = "Out"
    /\ Take(t, m)
    /\ mode' = [mode EXCEPT ![t] = m]
    /\ Goto(t, "Test")
    /\ UNCHANGED <<Counter, kind, Count, tokens, timeouts, use>>

Consume(t) ==
    /\ pc[t] = "Test"
    /\ tokens > 0
    /\ tokens' = tokens - 1
    /\ Leave(t)
    /\ Goto(t, "Out")
    /\ UNCHANGED <<Counter, mode, kind, Count, timeouts, use>>

(* A definition named Bad... is a seeded fault: the definition below it with *)
(* one slip, used to see that a property notices.                           *)

(* RtlSleepConditionVariableCS/SRW: count in; a result above zero means the *)
(* sleep happens, otherwise the call returns at once with the lock held.    *)
BadSleep(t) ==
    /\ pc[t] = "Test"
    /\ tokens = 0
    /\ Counter' = Increment(Counter)
    /\ Goto(t, "Unlock")
    /\ UNCHANGED <<holds, mode, kind, Count, tokens, timeouts, use>>

RtlSleepConditionVariable(t) ==
    /\ pc[t] = "Test"
    /\ tokens = 0
    /\ Counter' = Increment(Counter)
    /\ IF Increment(Counter) > 0 THEN Goto(t, "Unlock") ELSE UNCHANGED pc
    /\ UNCHANGED <<holds, mode, kind, Count, tokens, timeouts, use>>

SleepUnlock(t) ==
    /\ pc[t] = "Unlock"
    /\ Leave(t)
    /\ Goto(t, "Wait")
    /\ UNCHANGED <<Counter, mode, kind, Count, tokens, timeouts, use>>

(* The wait for the keyed event gives up: the counter is left as it is.     *)
SleepTimeout(t) ==
    /\ pc[t] = "Wait"
    /\ timeouts < MaxTimeouts
    /\ timeouts' = timeouts + 1
    /\ Goto(t, "Reacquire")
    /\ UNCHANGED <<Counter, holds, mode, kind, Count, tokens, use>>

(* The lock is taken again in the mode it was left.                         *)
BadSleepReacquire(t) ==
    /\ pc[t] = "Reacquire"
    /\ Take(t, "shared")
    /\ Goto(t, "Test")
    /\ UNCHANGED <<Counter, mode, kind, Count, tokens, timeouts, use>>

SleepReacquire(t) ==
    /\ pc[t] = "Reacquire"
    /\ Take(t, mode[t])
    /\ Goto(t, "Test")
    /\ UNCHANGED <<Counter, mode, kind, Count, tokens, timeouts, use>>

-----------------------------------------------------------------------------
(* The client of the waking side: add a token under the lock, then wake,    *)
(* with the lock still held or after leaving it.                            *)
EnterToWake(t, k) ==
    /\ pc[t] = "Out"
    /\ k \in use.kinds
    /\ tokens < MaxTokens
    /\ CanTake(t, "exclusive")
    /\ holds' = [holds EXCEPT ![t] = IF use.locked THEN "exclusive" ELSE "no"]
    /\ tokens' = tokens + 1
    /\ kind' = [kind EXCEPT ![t] = k]
    /\ Goto(t, "Check")
    /\ UNCHANGED <<Counter, mode, Count, timeouts, use>>

(* Both wakes: the counter is read, and nothing happens unless it is above  *)
(* zero.                                                                    *)
BadAnyWake       == TRUE
BadSomeoneSleeps == Counter > 1
SomeoneSleeps    == Counter > 0

WakeCheck(t) ==
    /\ pc[t] = "Check"
    /\ Goto(t, IF SomeoneSleeps THEN "Decrement" ELSE "Unheld")
    /\ UNCHANGED <<Counter, holds, mode, kind, Count, tokens, timeouts, use>>

(* Where a wake goes after a decrement that returned n, and after a release *)
(* of the event: WakeAll goes round while (Count).                          *)
BadGoesRound(t, n) == FALSE
GoesRound(t, n)    == kind[t] = "all" /\ n # 0
NextRound(t, n)    == IF GoesRound(t, n) THEN "Decrement" ELSE "Unheld"

(* The event is released only for a sleeper this wake has claimed.          *)
BadClaims(n)      == TRUE
BadClaimsAbove(n) == n > 0
Claims(n)         == n >= 0

WakeDecrement(t) ==
    LET n == Decrement(Counter)
    IN  /\ pc[t] = "Decrement"
        /\ Counter' = n
        /\ Count' = [Count EXCEPT ![t] = n]
        /\ Goto(t, IF Claims(n) THEN "Release" ELSE NextRound(t, n))
        /\ UNCHANGED <<holds, mode, kind, tokens, timeouts, use>>

(* ZwReleaseKeyedEvent meets a waiter: both go on.                          *)
Rendezvous(t, u) ==
    /\ pc[t] = "Release"
    /\ pc[u] = "Wait"
    /\ pc' = [pc EXCEPT ![t] = NextRound(t, Count[t]), ![u] = "Reacquire"]
    /\ UNCHANGED <<Counter, holds, mode, kind, Count, tokens, timeouts, use>>

(* The wake has returned; the client leaves the lock if it kept it.         *)
WakeReturn(t) ==
    /\ pc[t] = "Unheld"
    /\ Leave(t)
    /\ Goto(t, "Out")
    /\ kind' = [kind EXCEPT ![t] = "one"]
    /\ Count' = [Count EXCEPT ![t] = 0]
    /\ UNCHANGED <<Counter, mode, tokens, timeouts, use>>

-----------------------------------------------------------------------------
Step(t) ==
    \/ Consume(t) \/ RtlSleepConditionVariable(t) \/ SleepUnlock(t)
    \/ WakeCheck(t) \/ WakeDecrement(t) \/ WakeReturn(t)

Next == \E t \in Threads :
    \/ \E m \in Modes : EnterToTest(t, m)
    \/ \E k \in {"one", "all"} : EnterToWake(t, k)
    \/ Step(t)
    \/ SleepTimeout(t)
    \/ SleepReacquire(t)
    \/ \E u \in Threads : Rendezvous(t, u)

Spec == Init /\ [][Next]_vars

(* Threads inside a call are scheduled; the keyed event pairs a releaser    *)
(* with a waiter when both stay there; the lock is handed to a thread that  *)
(* finds it free again and again; every wait of a releaser can be ended by  *)
(* any waiter, and no waiter is passed over for ever.                       *)
FairSpec ==
    /\ Spec
    /\ \A t \in Threads :
         /\ WF_vars(Step(t))
         /\ SF_vars(SleepReacquire(t))
         /\ SF_vars(\E u \in Threads : Rendezvous(t, u))
         /\ SF_vars(\E u \in Threads : Rendezvous(u, t))

-----------------------------------------------------------------------------
(* PROPERTIES                                                               *)

(* Sleepers that have counted in and were not released, and wakers that     *)
(* have counted out and not released yet.                                   *)
Waiting == {t \in Threads : pc[t] \in {"Unlock", "Wait"}}
Pending == {t \in Threads : pc[t] = "Release"}

(* As long as no wait has timed out, the counter is the number of sleepers  *)
(* no waker has claimed; when it is negative every sleeper is claimed.  So  *)
(* a releaser always has a waiter of its own coming and never blocks for    *)
(* good, however the steps of sleepers and wakers interleave.               *)
Accounting ==
    LET unclaimed == Cardinality(Waiting) - Cardinality(Pending)
    IN  timeouts = 0 => unclaimed = IF Counter >= 0 THEN Counter ELSE 0

(* With timeouts the counter can run ahead of the sleepers, but never       *)
(* behind: no sleeper is invisible to a waker that reads the counter.       *)
NeverUndercounts ==
    Cardinality(Waiting) - Cardinality(Pending) <=
      IF Counter >= 0 THEN Counter ELSE 0

(* Seen from outside there is no counter, and no wake that comes and goes   *)
(* between two of its steps: sleepers, wakers that wake exactly one or all, *)
(* and none that returns while a sleeper has no waker coming.               *)
Promise == INSTANCE Sleepers
             WITH asleep   <- Waiting,
                  wakes    <- [t \in Threads |->
                                IF pc[t] \in WakeSteps THEN kind[t] ELSE "no"],
                  claims   <- Pending,
                  timedOut <- timeouts > 0

Implements == Promise!Spec

(* While RtlWakeAllConditionVariable is called under the lock only, racing  *)
(* wakers take the counter below zero by at most one each, so the LONG      *)
(* never comes near to wrapping: it lies between minus and plus the number  *)
(* of threads (plus one for every timeout, which is never taken back).      *)
CounterBounded ==
    Counter \in -Cardinality(Threads) .. Cardinality(Threads) + timeouts

(* A thread that tests the predicate holds the lock in the mode it took,    *)
(* alone if that is exclusive, also after it slept.                         *)
TestsUnderLock ==
    \A t \in Threads : pc[t] \in {"Test", "Unlock"} =>
      /\ holds[t] = mode[t]
      /\ mode[t] = "exclusive" => \A u \in Threads \ {t} : holds[u] = "no"

(* RtlWakeAllConditionVariable called with the lock held leaves nobody      *)
(* asleep when it returns.                                                  *)
WakeAllEmpties ==
    [][\A t \in Threads :
         pc[t] \in WakeSteps /\ kind[t] = "all" /\ pc'[t] = "Unheld"
           => Waiting' = {}]_vars

(* No wakeup is lost while no wait ends by its timeout: a thread does not   *)
(* sleep on while the predicate holds.                                      *)
NoLostWakeup ==
    \A t \in Threads : ~ <>[](timeouts = 0 /\ pc[t] = "Wait" /\ tokens > 0)

(* And every wake comes to an end.                                          *)
WakeCompletes ==
    [](timeouts = 0) => \A t \in Threads : pc[t] \in WakeSteps ~> pc[t] = "Out"
=============================================================================
