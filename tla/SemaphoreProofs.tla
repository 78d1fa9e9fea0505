--------------------------- MODULE SemaphoreProofs ---------------------------
(***************************************************************************)
(* The safety of cpr_semaphore_t for any number of threads and any limit.   *)
(***************************************************************************)
EXTENDS Semaphore, Counting

(* The inductive invariant.  WithinLimit and NoLostWakeup need the counters *)
(* to mean what Accounting says.                                            *)
IInv == SemTypeOK /\ Accounting /\ WithinLimit /\ NoLostWakeup

(* Where the threads are after one of them moved. *)
LEMMA Moves ==
    ASSUME SemTypeOK, NEW t \in Thread, NEW label \in {"idle", "waiting", "holding"},
           stage' = [stage EXCEPT ![t] = label]
    PROVE  /\ stage' \in [Thread -> {"idle", "waiting", "holding"}]
           /\ Holding' = IF label = "holding" THEN Holding \cup {t} ELSE Holding \ {t}
           /\ Waiting' = IF label = "waiting" THEN Waiting \cup {t} ELSE Waiting \ {t}
BY DEF SemTypeOK, Holding, Waiting

(* cpr_semaphore_init establishes the invariant. *)
LEMMA InitHolds == SemInit => IInv
<1> SUFFICES ASSUME SemInit PROVE IInv
  OBVIOUS
<1>1. Holding = {} /\ Waiting = {}
  BY DEF SemInit, Holding, Waiting
<1>2. Cardinality({}) = 0
  BY FS_EmptySet
<1> QED
  BY <1>1, <1>2, LimitAssumption
     DEF SemInit, IInv, SemTypeOK, Accounting, WithinLimit, NoLostWakeup

(* One pass of the acquire loop, from the call or from cnd_wait. *)
LEMMA AttemptHolds ==
    ASSUME IInv, NEW t \in Thread, t \notin asleep, stage[t] # "holding",
           TryAcquire(t, Cardinality(Waiting \ {t}))
    PROVE  IInv'
<1> DEFINE rest == Waiting \ {t}
<1> USE LimitAssumption
<1>0. SemTypeOK
  BY DEF IInv
<1>t. /\ used \in Nat /\ rest \in SUBSET Thread /\ t \notin rest
      /\ Waiting \in SUBSET Thread /\ Holding \in SUBSET Thread
      /\ Signalled \in SUBSET Thread /\ asleep \subseteq rest
  BY <1>0 DEF SemTypeOK, Holding, Waiting, Signalled
<1>1. CASE used >= Limit
  <2>1. /\ waits' = Cardinality(rest) + 1 /\ asleep' = asleep \cup {t}
        /\ stage' = [stage EXCEPT ![t] = "waiting"] /\ used' = used
    BY <1>1, <1>t DEF TryAcquire, cnd_wait
  <2>2. Holding' = Holding /\ Waiting' = rest \cup {t} /\ stage' \in [Thread -> {"idle", "waiting", "holding"}]
    BY <1>0, <2>1, Moves DEF Holding, Waiting
  <2>3. Cardinality(Waiting') = Cardinality(rest) + 1 /\ Cardinality(rest) \in Nat
    BY <1>t, <2>2, Count, ThreadAssumption
  <2>4. SemTypeOK' /\ Accounting'
    BY <1>t, <2>1, <2>2, <2>3 DEF SemTypeOK, Accounting, IInv
  <2>5. Cardinality(Signalled') \in Nat
    <3>1. Signalled' \in SUBSET Thread
      BY DEF Signalled, Waiting
    <3> QED BY <1>t, <3>1, Count, ThreadAssumption
  <2> QED
    BY <1>1, <1>t, <2>1, <2>2, <2>4, <2>5 DEF IInv, WithinLimit, NoLostWakeup
<1>2. CASE used < Limit
  <2>1. /\ waits' = Cardinality(rest) /\ asleep' = asleep
        /\ stage' = [stage EXCEPT ![t] = "holding"] /\ used' = used + 1
    BY <1>2, <1>t DEF TryAcquire
  <2>2. Holding' = Holding \cup {t} /\ Waiting' = rest /\ stage' \in [Thread -> {"idle", "waiting", "holding"}]
    BY <1>0, <2>1, Moves
  <2>3. /\ Cardinality(Holding') = Cardinality(Holding) + 1
        /\ Cardinality(rest) \in Nat /\ Cardinality(Holding) \in Nat
    <3>1. t \notin Holding
      BY DEF Holding
    <3> QED BY <1>t, <2>2, <3>1, Count, ThreadAssumption
  <2>4. SemTypeOK' /\ Accounting'
    BY <1>t, <2>1, <2>2, <2>3 DEF SemTypeOK, Accounting, IInv
  <2>5. WithinLimit'
    BY <1>2, <2>3 DEF IInv, Accounting, WithinLimit
  <2>6. NoLostWakeup'
    <3>1. Signalled' = Signalled \ {t}
      BY <2>1, <2>2 DEF Signalled
    <3>2. Cardinality(Signalled) \in Nat /\ Cardinality(Signalled') \in Nat
          /\ Cardinality(Signalled') >= Cardinality(Signalled) - 1
      <4>1. CASE t \in Signalled
        <5>1. /\ Cardinality(Signalled \ {t}) = Cardinality(Signalled) - 1
              /\ Cardinality(Signalled) \in Nat /\ Cardinality(Signalled) > 0
          BY <1>t, <4>1, Count, ThreadAssumption
        <5> QED BY <3>1, <5>1
      <4>2. CASE t \notin Signalled
        <5>1. Signalled' = Signalled
          BY <3>1, <4>2
        <5>2. Cardinality(Signalled) \in Nat
          BY <1>t, Count, ThreadAssumption
        <5>3. Cardinality(Signalled') = Cardinality(Signalled)
          BY <5>1
        <5> QED BY <5>2, <5>3
      <4> QED BY <4>1, <4>2
    <3> QED BY <1>t, <2>1, <3>2 DEF IInv, NoLostWakeup
  <2> QED BY <2>4, <2>5, <2>6 DEF IInv
<1> QED BY <1>t, <1>1, <1>2

(* A release hands its permit on: one sleeper, if there is any, is woken. *)
LEMMA ReleaseHolds ==
    ASSUME IInv, NEW t \in Thread, Release(t)
    PROVE  IInv'
<1> USE LimitAssumption
<1>0. SemTypeOK
  BY DEF IInv
<1>t. /\ used \in Nat /\ t \in Holding /\ t \notin Waiting
      /\ Waiting \in SUBSET Thread /\ Holding \in SUBSET Thread
      /\ Signalled \in SUBSET Thread /\ asleep \subseteq Waiting
  BY <1>0 DEF SemTypeOK, Holding, Waiting, Signalled, Release
<1>1. Holding' = Holding \ {t} /\ Waiting' = Waiting /\ stage' \in [Thread -> {"idle", "waiting", "holding"}]
  <2>1. stage' = [stage EXCEPT ![t] = "idle"]
    BY DEF Release
  <2>2. Holding' = Holding \ {t} /\ Waiting' = Waiting \ {t}
        /\ stage' \in [Thread -> {"idle", "waiting", "holding"}]
    BY <1>0, <2>1, Moves
  <2> QED BY <1>t, <2>2
<1>2. /\ Cardinality(Holding') = Cardinality(Holding) - 1
      /\ Cardinality(Holding) \in Nat /\ Cardinality(Holding) > 0
  BY <1>t, <1>1, Count, ThreadAssumption
<1>3. used' = used - 1 /\ waits' = waits /\ used > 0
  BY <1>2 DEF Release, IInv, Accounting
<1>4. asleep' \subseteq asleep
  BY DEF Release, SignalOnRelease, cnd_signal
<1>5. SemTypeOK' /\ Accounting' /\ WithinLimit'
  BY <1>t, <1>1, <1>2, <1>3, <1>4 DEF SemTypeOK, Accounting, WithinLimit, IInv
<1>6. NoLostWakeup'
  <2> SUFFICES ASSUME asleep' # {} PROVE used' + Cardinality(Signalled') >= Limit
    BY DEF NoLostWakeup
  <2>1. PICK u \in asleep : asleep' = asleep \ {u}
    <3>1. asleep # {}
      BY <1>4
    <3>2. waits > 0
      <4>1. PICK v \in asleep : TRUE
        BY <3>1
      <4>2. Cardinality(Waiting) > 0
        BY <1>t, <4>1, Count, ThreadAssumption
      <4> QED BY <4>2 DEF IInv, Accounting
    <3> QED BY <3>1, <3>2 DEF Release, SignalOnRelease, cnd_signal
  <2>2. Signalled' = Signalled \cup {u} /\ u \notin Signalled /\ u \in Thread
    BY <1>t, <1>1, <2>1 DEF Signalled
  <2>3. Cardinality(Signalled') = Cardinality(Signalled) + 1 /\ Cardinality(Signalled) \in Nat
    BY <1>t, <2>2, Count, ThreadAssumption
  <2>4. used + Cardinality(Signalled) >= Limit
    BY <2>1 DEF IInv, NoLostWakeup
  <2> QED BY <1>t, <1>3, <2>3, <2>4
<1> QED BY <1>5, <1>6 DEF IInv

(* A wakeup nobody sent only adds to the threads on their way. *)
LEMMA SpuriousWakeHolds ==
    ASSUME IInv, NEW t \in Thread, AcquireSpurious(t)
    PROVE  IInv'
<1>t. /\ used \in Nat /\ t \in asleep /\ asleep \subseteq Waiting
      /\ Signalled \in SUBSET Thread
  BY DEF IInv, SemTypeOK, Waiting, Signalled, AcquireSpurious
<1>1. Holding' = Holding /\ Waiting' = Waiting /\ used' = used /\ waits' = waits /\ stage' = stage
  BY DEF AcquireSpurious, Holding, Waiting
<1>2. Signalled' = Signalled \cup {t} /\ t \notin Signalled /\ asleep' \subseteq asleep
  BY <1>t, <1>1 DEF Signalled, AcquireSpurious
<1>3. Cardinality(Signalled') = Cardinality(Signalled) + 1 /\ Cardinality(Signalled) \in Nat
  BY <1>t, <1>2, Count, ThreadAssumption
<1> QED
  BY <1>t, <1>1, <1>2, <1>3, LimitAssumption
     DEF IInv, SemTypeOK, Accounting, WithinLimit, NoLostWakeup

(* Every step keeps the inductive invariant. *)
LEMMA NextHolds == IInv /\ [SemNext]_semVars => IInv'
<1> SUFFICES ASSUME IInv, [SemNext]_semVars PROVE IInv'
  OBVIOUS
<1>1. ASSUME NEW t \in Thread, Acquire(t) PROVE IInv'
  <2>1. Waiting \ {t} = Waiting /\ t \notin asleep
    BY <1>1 DEF Acquire, Waiting, IInv, SemTypeOK
  <2> QED
    BY <1>1, <2>1, AttemptHolds DEF Acquire, IInv, Accounting
<1>2. ASSUME NEW t \in Thread, AcquireResume(t) PROVE IInv'
  <2>1. t \in Waiting /\ t \notin asleep /\ Waiting \in SUBSET Thread
    BY <1>2 DEF AcquireResume, Signalled, Waiting
  <2>2. Cardinality(Waiting \ {t}) = waits - 1
    BY <2>1, Count, ThreadAssumption DEF IInv, Accounting
  <2> QED
    BY <1>2, <2>1, <2>2, AttemptHolds DEF AcquireResume, Waiting
<1>3. ASSUME NEW t \in Thread, Release(t) PROVE IInv'
  BY <1>3, ReleaseHolds
<1>4. ASSUME NEW t \in Thread, AcquireSpurious(t) PROVE IInv'
  BY <1>4, SpuriousWakeHolds
<1>5. CASE UNCHANGED semVars
  BY <1>5 DEF semVars, IInv, SemTypeOK, Accounting, WithinLimit, NoLostWakeup,
              Holding, Waiting, Signalled
<1> QED BY <1>1, <1>2, <1>3, <1>4, <1>5 DEF SemNext

(* cpr_semaphore_acquire and release keep the counters exact, never let more *)
(* than Limit threads in, and never leave a permit that a sleeper could have *)
(* with nobody on the way to it.                                             *)
THEOREM Safety == SemSpec => [](SemTypeOK /\ Accounting /\ WithinLimit /\ NoLostWakeup)
<1>1. IInv => SemTypeOK /\ Accounting /\ WithinLimit /\ NoLostWakeup
  BY DEF IInv
<1> QED BY <1>1, InitHolds, NextHolds, PTL DEF SemSpec

===============================================================================
