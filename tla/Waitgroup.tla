------------------------------ MODULE Waitgroup ------------------------------
(***************************************************************************)
(* cpr_waitgroup_t of src/thread.h and src/thread.c, used the way a Go wait *)
(* group is: whoever starts workers adds them first, a worker calls done    *)
(* when it ends, and may add and start more workers before that.  Observers *)
(* call wait, at any time.  The coordinator calls finish, which waits and   *)
(* destroys the group, when it starts no more workers; nothing makes it     *)
(* wait for the observers, and one may be inside wait when the group goes.  *)
(*                                                                         *)
(* Every operation holds the mutex up to its return or its cnd_wait, so it  *)
(* is one step; finish is a wait followed by free, two calls.               *)
(***************************************************************************)
EXTENDS Naturals, FiniteSets, Monitor

CONSTANTS Worker,       \* the threads that may be started
          Observer,     \* the threads that call wait
          Coordinator,  \* the thread that calls finish
          UintSize      \* the number of values of an unsigned

Waiter == Observer \cup {Coordinator}

ASSUME GroupAssumption == /\ IsFiniteSet(Worker)
                           /\ Worker \cap Waiter = {}
                           /\ Coordinator \notin Observer
ASSUME UintAssumption == UintSize \in Nat /\ Cardinality(Worker) < UintSize

VARIABLES count,    \* wg->count
          blocked,  \* the threads asleep on wg->bcast
          alive,    \* false once cpr_waitgroup_free destroyed the mutex
          pc        \* workers: "unborn", "running", "ended"
                    \* waiters: "idle", "waiting", "returned"

groupVars == <<count, blocked, alive, pc>>

WorkersAt(label) == {w \in Worker : pc[w] = label}
Woken == {t \in Waiter : pc[t] = "waiting"} \ blocked

-----------------------------------------------------------------------------
(* cpr_waitgroup_init with the number of workers started at once *)
GroupInit == \E start \in SUBSET Worker :
                 /\ count = Cardinality(start)
                 /\ blocked = {}
                 /\ alive = TRUE
                 /\ pc = [t \in Worker \cup Waiter |->
                             IF t \in start THEN "running"
                             ELSE IF t \in Worker THEN "unborn" ELSE "idle"]

(* Mutant: add sets the count. *)
CountOverwritten(n) == n

(* wg->count after cpr_waitgroup_add of n, an unsigned. *)
CountAfterAdd(n) == (count + n) % UintSize

(* cpr_waitgroup_add, then the start of the workers it announced.  The caller *)
(* is a worker that still runs, or the coordinator before finish.             *)
Add(t, start) ==
    /\ t \in WorkersAt("running") \/ (t = Coordinator /\ pc[t] = "idle")
    /\ start \subseteq WorkersAt("unborn")
    /\ start # {}
    /\ count' = CountAfterAdd(Cardinality(start))
    /\ pc' = [u \in DOMAIN pc |-> IF u \in start THEN "running" ELSE pc[u]]
    /\ UNCHANGED <<blocked, alive>>

(* Mutant: the wakeup goes to one waiter only. *)
WakeOne(left) == IF left = 0 THEN cnd_signal(blocked) ELSE {blocked}

(* Mutant: the test for the last worker is made before the decrement. *)
WakeLate(left) == IF count = 0 THEN {cnd_broadcast(blocked)} ELSE {blocked}

(* The wakeup of cpr_waitgroup_done when left workers are left. *)
WakeOnDone(left) == IF left = 0 THEN {cnd_broadcast(blocked)} ELSE {blocked}

(* cpr_waitgroup_done *)
Done(w) ==
    /\ pc[w] = "running"
    /\ count' = IF count > 0 THEN count - 1 ELSE count
    /\ blocked' \in WakeOnDone(count')
    /\ pc' = [pc EXCEPT ![w] = "ended"]
    /\ UNCHANGED alive

(* Mutant: cpr_waitgroup_wait tests the count once. *)
AttemptOnce(t) ==
    \/ /\ count > 0 /\ pc[t] = "idle"
       /\ blocked' = cnd_wait(blocked, t)
       /\ pc' = [pc EXCEPT ![t] = "waiting"]
       /\ UNCHANGED <<count, alive>>
    \/ /\ count = 0 \/ pc[t] = "waiting"
       /\ pc' = [pc EXCEPT ![t] = "returned"]
       /\ UNCHANGED <<count, blocked, alive>>

(* One pass of the loop of cpr_waitgroup_wait. *)
Attempt(t) ==
    \/ /\ count > 0
       /\ blocked' = cnd_wait(blocked, t)
       /\ pc' = [pc EXCEPT ![t] = "waiting"]
       /\ UNCHANGED <<count, alive>>
    \/ /\ count = 0
       /\ pc' = [pc EXCEPT ![t] = "returned"]
       /\ UNCHANGED <<count, blocked, alive>>

(* cpr_waitgroup_wait: from the call, and from the return of cnd_wait.  The *)
(* coordinator calls it through cpr_waitgroup_finish.  An observer that gets *)
(* the mutex only after it was destroyed is undefined behaviour: here it     *)
(* returns, as it does where locking a destroyed mutex works or fails.       *)
Wait(t)   == pc[t] = "idle" /\ Attempt(t)
Resume(t) == t \in Woken /\ Attempt(t)

(* cpr_waitgroup_finish, after its wait: cpr_waitgroup_free. *)
Free == /\ pc[Coordinator] = "returned"
        /\ alive
        /\ alive' = FALSE
        /\ UNCHANGED <<count, blocked, pc>>

(* cnd_wait may also end without a broadcast. *)
SpuriousWake(t) ==
    /\ t \in blocked
    /\ blocked' = blocked \ {t}
    /\ UNCHANGED <<count, alive, pc>>

GroupNext == \/ \E t \in Worker \cup Waiter, start \in SUBSET Worker : Add(t, start)
             \/ \E w \in Worker : Done(w)
             \/ \E t \in Waiter : Wait(t) \/ Resume(t) \/ SpuriousWake(t)
             \/ Free

GroupSpec == GroupInit /\ [][GroupNext]_groupVars

(* What the scheduler owes: a worker that was started ends, a woken thread   *)
(* gets the mutex, observers and coordinator make their calls.               *)
GroupProgress(t) == Wait(t) \/ Resume(t)
-----------------------------------------------------------------------------
(* The count is an unsigned, and only threads inside wait sleep. *)
GroupTypeOK == /\ count \in 0 .. UintSize - 1
               /\ blocked \subseteq {t \in Waiter : pc[t] = "waiting"}
               /\ alive \in BOOLEAN
               /\ pc \in [Worker \cup Waiter ->
                     {"unborn", "running", "ended", "idle", "waiting", "returned"}]
               /\ \A w \in Worker : pc[w] \in {"unborn", "running", "ended"}
               /\ \A t \in Waiter : pc[t] \in {"idle", "waiting", "returned"}

(* wg->count is the number of workers that were announced and still run. *)
CountsRunning == count = Cardinality(WorkersAt("running"))

(* Nobody stays asleep once the last worker called done, even if more workers *)
(* are added before the woken threads get the mutex back.                     *)
NobodyLeftAsleep == blocked # {} => count > 0

(* wait returns at a moment when no worker runs. *)
WaitMeansDone ==
    [][\A t \in Waiter : pc[t] # "returned" /\ pc'[t] = "returned"
            => WorkersAt("running") = {}]_groupVars

(* When finish destroys the mutex and the condition variable, nobody is      *)
(* asleep on it, no worker is left that would call add or done, and nobody   *)
(* falls asleep later.  An observer may still be on its way out of wait.     *)
FreedAtRest == ~alive => blocked = {} /\ WorkersAt("running") = {}

(* finish, once called, comes to its end, also when the workers it waits for *)
(* start more workers and observers come and go.                             *)
FinishEnds == pc[Coordinator] # "idle" ~> ~alive

===============================================================================
