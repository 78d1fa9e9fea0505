------------------------------ MODULE Semaphore ------------------------------
(***************************************************************************)
(* cpr_semaphore_t of src/thread.h and src/thread.c: a counting semaphore   *)
(* from a mutex, a condition variable and the counters used and waits.      *)
(*                                                                         *)
(* Every operation takes the mutex first and gives it up only on return or  *)
(* inside cnd_wait, so what a thread does between the two is one step here  *)
(* and the mutex needs no variable of its own.                              *)
(*                                                                         *)
(* A caller pairs its calls: it releases what it acquired.                  *)
(***************************************************************************)
EXTENDS Naturals, FiniteSets, Monitor

CONSTANTS Thread,   \* the threads that share the semaphore
          Limit     \* sem->count, the limit given to cpr_semaphore_init

ASSUME ThreadAssumption == IsFiniteSet(Thread)
ASSUME LimitAssumption == Limit \in Nat

VARIABLES used,     \* sem->used
          waits,    \* sem->waits
          asleep,  \* the threads asleep on sem->cond
          stage        \* "idle", "waiting" (inside cnd_wait) or "holding"

semVars == <<used, waits, asleep, stage>>

Waiting == {t \in Thread : stage[t] = "waiting"}
Holding == {t \in Thread : stage[t] = "holding"}
Signalled   == Waiting \ asleep    \* signalled, not yet back from cnd_wait

-----------------------------------------------------------------------------
(* cpr_semaphore_init *)
SemInit == /\ used = 0
        /\ waits = 0
        /\ asleep = {}
        /\ stage = [t \in Thread |-> "idle"]

(* Mutant: the test for a permit is made once, before the wait only. *)
TryAcquireOnce(t, w) ==
    \/ /\ used >= Limit /\ stage[t] = "idle"
       /\ waits' = w + 1
       /\ asleep' = cnd_wait(asleep, t)
       /\ stage' = [stage EXCEPT ![t] = "waiting"]
       /\ UNCHANGED used
    \/ /\ used < Limit \/ stage[t] = "waiting"
       /\ used' = used + 1
       /\ waits' = w
       /\ stage' = [stage EXCEPT ![t] = "holding"]
       /\ UNCHANGED asleep

(* Mutant: a thread that goes to sleep again is not counted again. *)
TryAcquireUncounted(t, w) ==
    \/ /\ used >= Limit
       /\ waits' = IF stage[t] = "idle" THEN w + 1 ELSE w
       /\ asleep' = cnd_wait(asleep, t)
       /\ stage' = [stage EXCEPT ![t] = "waiting"]
       /\ UNCHANGED used
    \/ /\ used < Limit
       /\ used' = used + 1
       /\ waits' = w
       /\ stage' = [stage EXCEPT ![t] = "holding"]
       /\ UNCHANGED asleep

(* One pass of the loop of cpr_semaphore_acquire, entered with sem->waits = w: *)
(* wait while every permit is out, else take one.                              *)
TryAcquire(t, w) ==
    \/ /\ used >= Limit
       /\ waits' = w + 1
       /\ asleep' = cnd_wait(asleep, t)
       /\ stage' = [stage EXCEPT ![t] = "waiting"]
       /\ UNCHANGED used
    \/ /\ used < Limit
       /\ used' = used + 1
       /\ waits' = w
       /\ stage' = [stage EXCEPT ![t] = "holding"]
       /\ UNCHANGED asleep

(* cpr_semaphore_acquire, from the call to cnd_wait or the return. *)
Acquire(t) == stage[t] = "idle" /\ TryAcquire(t, waits)

(* cpr_semaphore_acquire, from the return of cnd_wait. *)
AcquireResume(t) == t \in Signalled /\ TryAcquire(t, waits - 1)

(* Mutant: only the release that finds every permit out signals. *)
SignalWhenFull == IF used = Limit THEN cnd_signal(asleep) ELSE {asleep}

(* Mutant: the release forgets the signal. *)
SignalNever == {asleep}

(* The signal of cpr_semaphore_release: the wait sets it may leave. *)
SignalOnRelease == IF waits > 0 THEN cnd_signal(asleep) ELSE {asleep}

(* cpr_semaphore_release *)
Release(t) ==
    /\ stage[t] = "holding"
    /\ used' = IF used > 0 THEN used - 1 ELSE used
    /\ asleep' \in SignalOnRelease
    /\ stage' = [stage EXCEPT ![t] = "idle"]
    /\ UNCHANGED waits

(* cnd_wait may also end without a signal. *)
AcquireSpurious(t) ==
    /\ t \in asleep
    /\ asleep' = asleep \ {t}
    /\ UNCHANGED <<used, waits, stage>>

SemNext == \E t \in Thread : Acquire(t) \/ AcquireResume(t) \/ Release(t) \/ AcquireSpurious(t)

SemSpec == SemInit /\ [][SemNext]_semVars

(* What the scheduler owes a thread: once signalled it gets the mutex and    *)
(* runs on, and a holder releases.                                           *)
SemProgress(t) == AcquireResume(t) \/ Release(t)
-----------------------------------------------------------------------------
(* The counters never go below zero, and only threads inside acquire sleep. *)
SemTypeOK == /\ used \in Nat
          /\ waits \in Nat
          /\ asleep \subseteq Waiting
          /\ stage \in [Thread -> {"idle", "waiting", "holding"}]

(* sem->used is the number of threads between acquire and release, sem->waits *)
(* the number inside cnd_wait, signalled or not: neither can go below zero.   *)
Accounting == /\ used = Cardinality(Holding)
              /\ waits = Cardinality(Waiting)

(* At most Limit threads are between acquire and release. *)
WithinLimit == Cardinality(Holding) <= Limit

(* While a thread sleeps, each of the Limit permits is out or has a signalled *)
(* thread on its way to it: no release leaves a permit that nobody fetches.   *)
NoLostWakeup == asleep # {} => used + Cardinality(Signalled) >= Limit

(* Whoever waits in acquire gets a permit, unless new calls keep coming: the  *)
(* semaphore is not first come first served, so newcomers may overtake.       *)
ServedUnlessOvertaken ==
    \/ []<><<\E t \in Thread : Acquire(t)>>_semVars
    \/ \A t \in Thread : stage[t] = "waiting" ~> stage[t] = "holding"

===============================================================================
