--------------------------- MODULE WaitgroupProofs ---------------------------
(***************************************************************************)
(* cpr_waitgroup_t for any number of workers and observers: the count is    *)
(* exact, nobody is left asleep, wait returns only when no worker runs, and *)
(* finish destroys the group when no worker is left and nobody is asleep.   *)
(***************************************************************************)
EXTENDS Waitgroup, Counting

Running == WorkersAt("running")

(* The coordinator's wait returns with no worker running, after which nobody *)
(* can start one, and then it destroys the group.                            *)
FinishComesLast ==
    /\ pc[Coordinator] = "returned" => Running = {}
    /\ ~alive => pc[Coordinator] = "returned"

(* The inductive invariant. *)
IInv == GroupTypeOK /\ CountsRunning /\ NobodyLeftAsleep /\ FinishComesLast

(* The count never wraps: it is at most the number of workers. *)
LEMMA CountFits ==
    ASSUME NEW S \in SUBSET Worker
    PROVE  IsFiniteSet(S) /\ Cardinality(S) \in Nat /\ Cardinality(S) < UintSize
<1>1. IsFiniteSet(S) /\ Cardinality(S) <= Cardinality(Worker)
  BY GroupAssumption, FS_Subset
<1>2. Cardinality(S) \in Nat /\ Cardinality(Worker) \in Nat
  BY <1>1, GroupAssumption, FS_CardinalityType
<1> QED BY <1>1, <1>2, UintAssumption

(* cpr_waitgroup_init establishes the inductive invariant. *)
LEMMA InitHolds == GroupInit => IInv
<1> SUFFICES ASSUME GroupInit PROVE IInv
  OBVIOUS
<1>1. PICK start \in SUBSET Worker :
         /\ count = Cardinality(start)
         /\ pc = [t \in Worker \cup Waiter |->
                    IF t \in start THEN "running"
                    ELSE IF t \in Worker THEN "unborn" ELSE "idle"]
  BY DEF GroupInit
<1>2. Running = start
  BY <1>1 DEF Running, WorkersAt
<1>3. count \in 0 .. UintSize - 1
  BY <1>1, CountFits, UintAssumption
<1>4. Coordinator \in Waiter /\ Worker \cap Waiter = {}
  BY GroupAssumption DEF Waiter
<1>5. GroupTypeOK
  BY <1>1, <1>3, <1>4 DEF GroupInit, GroupTypeOK
<1>6. pc[Coordinator] = "idle"
  BY <1>1, <1>4
<1> QED
  BY <1>1, <1>2, <1>5, <1>6
     DEF GroupInit, IInv, CountsRunning, NobodyLeftAsleep, FinishComesLast, Running

(* cpr_waitgroup_add announces workers while some worker runs, or before    *)
(* finish is called.                                                        *)
LEMMA AddHolds ==
    ASSUME IInv, NEW t, NEW start, Add(t, start)
    PROVE  IInv'
<1>0. /\ GroupTypeOK /\ Running \in SUBSET Worker /\ Coordinator \in Waiter
      /\ Worker \cap Waiter = {} /\ start \in SUBSET Worker /\ start \cap Running = {}
  BY GroupAssumption DEF IInv, Running, WorkersAt, Waiter, Add
<1>1. Running' = Running \cup start
  BY <1>0 DEF Add, Running, WorkersAt, GroupTypeOK
<1>2. /\ count = Cardinality(Running) /\ count \in Nat
      /\ Cardinality(Running') = count + Cardinality(start)
      /\ count + Cardinality(start) \in 0 .. UintSize - 1
  <2>1. IsFiniteSet(Running) /\ IsFiniteSet(start) /\ Running \cap start = {}
        /\ Cardinality(Running) \in Nat /\ Cardinality(start) \in Nat
    BY <1>0, CountFits
  <2>2. Cardinality(Running \cup start)
            = Cardinality(Running) + Cardinality(start) - Cardinality(Running \cap start)
    BY <2>1, FS_Union
  <2>3. Cardinality(Running \cap start) = 0
    BY <2>1, FS_EmptySet
  <2>4. Cardinality(Running \cup start) < UintSize
    BY <1>0, CountFits
  <2>5. count = Cardinality(Running)
    BY DEF IInv, CountsRunning, Running
  <2>6. Cardinality(Running') = Cardinality(Running \cup start)
    BY <1>1
  <2> QED BY <2>1, <2>2, <2>3, <2>4, <2>5, <2>6, UintAssumption
<1>3. count' = count + Cardinality(start)
  <2>1. \A n \in 0 .. UintSize - 1 : n % UintSize = n
    BY UintAssumption, SMT
  <2> QED BY <1>2, <2>1 DEF Add, CountAfterAdd
<1>4. /\ blocked' = blocked /\ alive' = alive
      /\ \A u \in Waiter : pc'[u] = pc[u]
      /\ pc' = [u \in Worker \cup Waiter |-> IF u \in start THEN "running" ELSE pc[u]]
  BY <1>0 DEF Add, GroupTypeOK
<1>5. GroupTypeOK'
  BY <1>0, <1>2, <1>3, <1>4 DEF GroupTypeOK
<1>6. CountsRunning'
  BY <1>2, <1>3 DEF CountsRunning, Running
<1>7. NobodyLeftAsleep'
  <2>1. Cardinality(start) \in Nat
    BY <1>0, CountFits
  <2> QED BY <1>2, <1>3, <1>4, <2>1 DEF IInv, NobodyLeftAsleep
<1>8. FinishComesLast'
  <2>1. pc[Coordinator] # "returned"
    BY <1>0 DEF Add, IInv, FinishComesLast, Running, WorkersAt
  <2> QED BY <1>0, <1>4, <2>1 DEF IInv, FinishComesLast
<1> QED BY <1>5, <1>6, <1>7, <1>8 DEF IInv

(* cpr_waitgroup_done: the last worker wakes everybody. *)
LEMMA DoneHolds ==
    ASSUME IInv, NEW w \in Worker, Done(w)
    PROVE  IInv'
<1>0. /\ GroupTypeOK /\ Running \in SUBSET Worker /\ Coordinator \in Waiter
      /\ Worker \cap Waiter = {} /\ w \in Running
  BY GroupAssumption DEF IInv, Running, WorkersAt, Waiter, Done
<1>1. Running' = Running \ {w}
  BY <1>0 DEF Done, Running, WorkersAt, GroupTypeOK
<1>2. /\ count = Cardinality(Running) /\ count \in Nat /\ count > 0
      /\ Cardinality(Running') = count - 1
  BY <1>0, <1>1, Count, GroupAssumption DEF IInv, CountsRunning, Running
<1>3. /\ count' = count - 1 /\ alive' = alive /\ blocked' \subseteq blocked
      /\ count' = 0 => blocked' = {}
      /\ pc' = [pc EXCEPT ![w] = "ended"] /\ \A u \in Waiter : pc'[u] = pc[u]
  BY <1>0, <1>2 DEF Done, WakeOnDone, cnd_broadcast, GroupTypeOK
<1>4. GroupTypeOK'
  BY <1>0, <1>2, <1>3, UintAssumption DEF GroupTypeOK
<1>5. CountsRunning' /\ NobodyLeftAsleep'
  BY <1>2, <1>3 DEF CountsRunning, NobodyLeftAsleep, Running
<1>6. FinishComesLast'
  BY <1>0, <1>1, <1>3 DEF IInv, FinishComesLast
<1> QED BY <1>4, <1>5, <1>6 DEF IInv

(* One pass of the loop of cpr_waitgroup_wait. *)
LEMMA AttemptHolds ==
    ASSUME IInv, NEW t \in Waiter, Attempt(t), t \notin blocked, pc[t] # "returned"
    PROVE  IInv'
<1>0. /\ GroupTypeOK /\ Coordinator \in Waiter /\ count \in Nat
      /\ Worker \cap Waiter = {}
  BY GroupAssumption, UintAssumption DEF IInv, GroupTypeOK, Waiter
<1>1. /\ count' = count /\ alive' = alive
      /\ \/ count > 0 /\ blocked' = blocked \cup {t} /\ pc' = [pc EXCEPT ![t] = "waiting"]
         \/ count = 0 /\ blocked' = blocked /\ pc' = [pc EXCEPT ![t] = "returned"]
  BY DEF Attempt, cnd_wait
<1>2. Running' = Running
  BY <1>0, <1>1 DEF Running, WorkersAt, GroupTypeOK
<1>3. GroupTypeOK'
  BY <1>0, <1>1 DEF GroupTypeOK
<1>4. CountsRunning' /\ NobodyLeftAsleep'
  BY <1>1, <1>2 DEF IInv, CountsRunning, NobodyLeftAsleep, Running
<1>5. count = 0 => Running = {}
  <2>1. Running \in SUBSET Worker
    BY DEF Running, WorkersAt
  <2>2. \A w \in Running : Cardinality(Running) > 0
    BY <2>1, Count, GroupAssumption
  <2> QED BY <2>2 DEF IInv, CountsRunning, Running
<1>6. FinishComesLast'
  <2>2. CASE t = Coordinator
    BY <1>0, <1>1, <1>2, <1>5, <2>2 DEF IInv, FinishComesLast, GroupTypeOK
  <2>3. CASE t # Coordinator
    <3>1. pc'[Coordinator] = pc[Coordinator]
      BY <1>0, <1>1, <2>3 DEF GroupTypeOK
    <3> QED BY <1>1, <1>2, <3>1 DEF IInv, FinishComesLast
  <2> QED BY <2>2, <2>3
<1> QED BY <1>3, <1>4, <1>6 DEF IInv

(* Every step keeps the inductive invariant. *)
LEMMA NextHolds == IInv /\ [GroupNext]_groupVars => IInv'
<1> SUFFICES ASSUME IInv, [GroupNext]_groupVars PROVE IInv'
  OBVIOUS
<1>0. \A t \in blocked : t \in Waiter /\ pc[t] = "waiting"
  BY DEF IInv, GroupTypeOK
<1>1. ASSUME NEW t, NEW start, Add(t, start) PROVE IInv'
  BY <1>1, AddHolds
<1>2. ASSUME NEW w \in Worker, Done(w) PROVE IInv'
  BY <1>2, DoneHolds
<1>3. ASSUME NEW t \in Waiter, Wait(t) PROVE IInv'
  BY <1>0, <1>3, AttemptHolds DEF Wait
<1>4. ASSUME NEW t \in Waiter, Resume(t) PROVE IInv'
  BY <1>4, AttemptHolds DEF Resume, Woken
<1>5. CASE Free
  BY <1>5 DEF Free, IInv, GroupTypeOK, CountsRunning, NobodyLeftAsleep, FinishComesLast,
              Running, WorkersAt
<1>6. ASSUME NEW t \in Waiter, SpuriousWake(t) PROVE IInv'
  BY <1>6 DEF SpuriousWake, IInv, GroupTypeOK, CountsRunning, NobodyLeftAsleep, FinishComesLast,
              Running, WorkersAt
<1>7. CASE UNCHANGED groupVars
  BY <1>7 DEF groupVars, IInv, GroupTypeOK, CountsRunning, NobodyLeftAsleep, FinishComesLast,
              Running, WorkersAt
<1> QED BY <1>1, <1>2, <1>3, <1>4, <1>5, <1>6, <1>7 DEF GroupNext

(* The inductive invariant holds throughout. *)
LEMMA Invariance == GroupSpec => []IInv
BY InitHolds, NextHolds, PTL DEF GroupSpec

(* The count is the number of running workers, nobody sleeps once it is zero, *)
(* and finish destroys the group with no worker left and nobody asleep.       *)
THEOREM Safety == GroupSpec => [](GroupTypeOK /\ CountsRunning /\ NobodyLeftAsleep /\ FreedAtRest)
<1>1. IInv => FreedAtRest
  <2> SUFFICES ASSUME IInv, ~alive PROVE blocked = {} /\ Running = {}
    BY DEF FreedAtRest, Running
  <2>1. Running = {}
    BY DEF IInv, FinishComesLast
  <2>2. count = 0
    BY <2>1, FS_EmptySet DEF IInv, CountsRunning, Running
  <2> QED BY <2>1, <2>2 DEF IInv, NobodyLeftAsleep
<1>2. IInv => GroupTypeOK /\ CountsRunning /\ NobodyLeftAsleep
  BY DEF IInv
<1> QED BY <1>1, <1>2, Invariance, PTL

(* wait returns, to whoever called it, at a moment when no worker runs. *)
THEOREM WaitIsSound == GroupSpec => WaitMeansDone
<1>1. ASSUME IInv, [GroupNext]_groupVars, NEW t \in Waiter, pc[t] # "returned", pc'[t] = "returned"
      PROVE  WorkersAt("running") = {}
  <2>0. GroupTypeOK /\ Worker \cap Waiter = {}
    BY <1>1, GroupAssumption DEF IInv
  <2>1. count = 0
    BY <1>1, <2>0 DEF GroupNext, groupVars, Add, Done, Wait, Resume, Attempt, Free, SpuriousWake, GroupTypeOK
  <2>2. WorkersAt("running") \in SUBSET Worker
    BY DEF WorkersAt
  <2>3. \A w \in WorkersAt("running") : Cardinality(WorkersAt("running")) > 0
    BY <2>2, Count, GroupAssumption
  <2> QED BY <1>1, <2>1, <2>3 DEF IInv, CountsRunning
<1>2. IInv /\ [GroupNext]_groupVars
      => [\A t \in Waiter : pc[t] # "returned" /\ pc'[t] = "returned"
            => WorkersAt("running") = {}]_groupVars
  BY <1>1
<1> QED BY <1>2, Invariance, PTL DEF GroupSpec, WaitMeansDone

===============================================================================
