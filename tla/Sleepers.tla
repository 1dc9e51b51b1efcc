------------------------------- MODULE Sleepers -------------------------------
(***************************************************************************)
(* What a condition variable promises, said of sleepers and wakers and not *)
(* of a counter: a wake of one goes without a sleeper only when each has a  *)
(* waker coming, a wake of all returns only when nobody sleeps, and until a *)
(* wait has timed out every waker that sets out to wake has a sleeper of    *)
(* its own.                                                                 *)
(***************************************************************************)
EXTENDS FiniteSets, Naturals

CONSTANT Threads

VARIABLES asleep,    \* the threads that have gone to sleep and were not woken
          wakes,     \* the wake each thread is in: "no", "one" or "all"
          claims,    \* the wakers that set out to wake a sleeper
          timedOut   \* whether a wait has ended by its timeout

vars == <<asleep, wakes, claims, timedOut>>

Init ==
    /\ asleep = {}
    /\ wakes = [t \in Threads |-> "no"]
    /\ claims = {}
    /\ timedOut = FALSE

Sleep(t) ==
    /\ t \notin asleep /\ wakes[t] = "no"
    /\ asleep' = asleep \cup {t}
    /\ UNCHANGED <<wakes, claims, timedOut>>

TimeOut(t) ==
    /\ t \in asleep
    /\ asleep' = asleep \ {t}
    /\ timedOut' = TRUE
    /\ UNCHANGED <<wakes, claims>>

Wake(t, k) ==
    /\ t \notin asleep /\ wakes[t] = "no"
    /\ wakes' = [wakes EXCEPT ![t] = k]
    /\ UNCHANGED <<asleep, claims, timedOut>>

(* A waker sets out while there is a sleeper no other waker goes to.        *)
Claim(t) ==
    /\ wakes[t] # "no" /\ t \notin claims
    /\ timedOut \/ Cardinality(claims) < Cardinality(asleep)
    /\ claims' = claims \cup {t}
    /\ UNCHANGED <<asleep, wakes, timedOut>>

(* It wakes some sleeper and returns, or, in a wake of all, goes on.        *)
Rouse(t, u) ==
    /\ t \in claims /\ u \in asleep
    /\ asleep' = asleep \ {u}
    /\ claims' = claims \ {t}
    /\ \/ /\ wakes[t] = "one" \/ asleep' = {}
          /\ wakes' = [wakes EXCEPT ![t] = "no"]
       \/ /\ wakes[t] = "all"
          /\ timedOut \/ asleep' # {}
          /\ UNCHANGED wakes
    /\ UNCHANGED timedOut

(* It returns without: every sleeper is gone to, or nobody sleeps.          *)
GiveUp(t) ==
    /\ wakes[t] # "no" /\ t \notin claims
    /\ Cardinality(asleep) <= Cardinality(claims)
    /\ wakes[t] = "all" => asleep = {}
    /\ wakes' = [wakes EXCEPT ![t] = "no"]
    /\ UNCHANGED <<asleep, claims, timedOut>>

Next == \E t \in Threads :
    \/ Sleep(t) \/ TimeOut(t) \/ Claim(t) \/ GiveUp(t)
    \/ \E k \in {"one", "all"} : Wake(t, k)
    \/ \E u \in Threads : Rouse(t, u)

Spec == Init /\ [][Next]_vars
=============================================================================
