------------------------------- MODULE Condlock -------------------------------
(***************************************************************************)
(* cpr_condlock_t of src/thread.h and src/thread.c: a reader/writer lock    *)
(* from one mutex and one condition variable, bcast, on which readers and   *)
(* writers sleep together.                                                  *)
(*                                                                         *)
(* access and release give the mutex up before they return, so each is one  *)
(* step up to a cnd_wait.  modify returns with the mutex held and commit    *)
(* gives it up, so the mutex is a variable: nobody else enters meanwhile.   *)
(*                                                                         *)
(* A caller pairs access with release and modify with commit.               *)
(***************************************************************************)
EXTENDS Naturals, FiniteSets, Monitor

CONSTANTS Thread,    \* the threads that share the lock
          NoThread   \* the owner of a free mutex

ASSUME ThreadAssumption == IsFiniteSet(Thread) /\ NoThread \notin Thread

VARIABLES pending,   \* lock->pending: writers inside cnd_wait
          waiting,   \* lock->waiting: readers inside cnd_wait
          sharing,   \* lock->sharing: readers that were let in
          mtx,       \* the owner of lock->mtx between two steps
          blocked,   \* the threads asleep on lock->bcast
          pc         \* "idle", "rwait", "reading", "wwait" or "writing"

vars == <<pending, waiting, sharing, mtx, blocked, pc>>

At(label) == {t \in Thread : pc[t] = label}
Waiters   == At("rwait") \cup At("wwait")
Woken     == Waiters \ blocked     \* not yet back from cnd_wait

-----------------------------------------------------------------------------
(* cor_condlock_init *)
Init == /\ pending = 0
        /\ waiting = 0
        /\ sharing = 0
        /\ mtx = NoThread
        /\ blocked = {}
        /\ pc = [t \in Thread |-> "idle"]

(* Mutant: readers wait for the writer inside only, not for those that wait. *)
MayReadEager == TRUE

(* The test of the loop of cor_condlock_access. *)
MayRead == pending = 0

(* One pass of the loop of cor_condlock_access, entered with waiting = w. *)
AttemptAccess(t, w) ==
    \/ /\ ~MayRead
       /\ waiting' = w + 1
       /\ blocked' = cnd_wait(blocked, t)
       /\ pc' = [pc EXCEPT ![t] = "rwait"]
       /\ UNCHANGED <<pending, sharing, mtx>>
    \/ /\ MayRead
       /\ sharing' = sharing + 1
       /\ waiting' = w
       /\ pc' = [pc EXCEPT ![t] = "reading"]
       /\ UNCHANGED <<pending, mtx, blocked>>

(* cor_condlock_access: from the call, and from the return of cnd_wait. *)
Access(t)       == mtx = NoThread /\ pc[t] = "idle" /\ AttemptAccess(t, waiting)
AccessResume(t) == mtx = NoThread /\ t \in Woken /\ pc[t] = "rwait"
                   /\ AttemptAccess(t, waiting - 1)

(* Mutant: the last reader out leaves the writers asleep. *)
SignalNever == {blocked}

(* The wakeups of cpr_condlock_release: the wait sets it may leave. *)
WakeOnRelease ==
    IF pending > 0 /\ sharing = 1 THEN cnd_signal(blocked)
    ELSE IF waiting > 0 /\ pending = 0 THEN {cnd_broadcast(blocked)}
    ELSE {blocked}

(* cpr_condlock_release: the last reader out signals one sleeper if a writer *)
(* waits; otherwise every waiting reader is woken.                           *)
Release(t) ==
    /\ mtx = NoThread
    /\ pc[t] = "reading"
    /\ pc' = [pc EXCEPT ![t] = "idle"]
    /\ IF sharing > 0
       THEN /\ sharing' = sharing - 1
            /\ blocked' \in WakeOnRelease
       ELSE UNCHANGED <<sharing, blocked>>
    /\ UNCHANGED <<pending, waiting, mtx>>

(* Mutant: a woken writer takes the lock without looking at sharing again. *)
AttemptModifyOnce(t, p) ==
    \/ /\ sharing > 0 /\ pc[t] = "idle"
       /\ pending' = p + 1
       /\ blocked' = cnd_wait(blocked, t)
       /\ pc' = [pc EXCEPT ![t] = "wwait"]
       /\ UNCHANGED <<waiting, sharing, mtx>>
    \/ /\ sharing = 0 \/ pc[t] = "wwait"
       /\ pending' = p
       /\ mtx' = t
       /\ pc' = [pc EXCEPT ![t] = "writing"]
       /\ UNCHANGED <<waiting, sharing, blocked>>

(* Mutant: modify forgets to take itself off pending when it was woken. *)
AttemptModifyLeak(t, p) ==
    \/ /\ sharing > 0
       /\ pending' = pending + 1
       /\ blocked' = cnd_wait(blocked, t)
       /\ pc' = [pc EXCEPT ![t] = "wwait"]
       /\ UNCHANGED <<waiting, sharing, mtx>>
    \/ /\ sharing = 0
       /\ mtx' = t
       /\ pc' = [pc EXCEPT ![t] = "writing"]
       /\ UNCHANGED <<pending, waiting, sharing, blocked>>

(* One pass of the loop of cpr_condlock_modify, entered with pending = p: *)
(* it ends asleep, or returns with the mutex held.                        *)
AttemptModify(t, p) ==
    \/ /\ sharing > 0
       /\ pending' = p + 1
       /\ blocked' = cnd_wait(blocked, t)
       /\ pc' = [pc EXCEPT ![t] = "wwait"]
       /\ UNCHANGED <<waiting, sharing, mtx>>
    \/ /\ sharing = 0
       /\ pending' = p
       /\ mtx' = t
       /\ pc' = [pc EXCEPT ![t] = "writing"]
       /\ UNCHANGED <<waiting, sharing, blocked>>

(* cpr_condlock_modify: from the call, and from the return of cnd_wait. *)
Modify(t)       == mtx = NoThread /\ pc[t] = "idle" /\ AttemptModify(t, pending)
ModifyResume(t) == mtx = NoThread /\ t \in Woken /\ pc[t] = "wwait"
                   /\ AttemptModify(t, pending - 1)

(* Mutant: commit wakes a single reader. *)
SignalOne == IF pending + waiting > 0 THEN cnd_signal(blocked) ELSE {blocked}

(* The wakeups of cpr_condlock_commit: the wait sets it may leave. *)
WakeOnCommit == IF pending > 0 THEN cnd_signal(blocked)
                ELSE IF waiting > 0 THEN {cnd_broadcast(blocked)}
                ELSE {blocked}

(* cpr_condlock_commit, called by the thread that modify gave the mutex to. *)
Commit(t) ==
    /\ mtx = t
    /\ pc[t] = "writing"
    /\ blocked' \in WakeOnCommit
    /\ mtx' = NoThread
    /\ pc' = [pc EXCEPT ![t] = "idle"]
    /\ UNCHANGED <<pending, waiting, sharing>>

(* cnd_wait may also end without a signal. *)
SpuriousWake(t) ==
    /\ t \in blocked
    /\ blocked' = blocked \ {t}
    /\ UNCHANGED <<pending, waiting, sharing, mtx, pc>>

Next == \E t \in Thread : \/ Access(t) \/ AccessResume(t) \/ Release(t)
                          \/ Modify(t) \/ ModifyResume(t) \/ Commit(t)
                          \/ SpuriousWake(t)

Spec == Init /\ [][Next]_vars
-----------------------------------------------------------------------------
(* The counters never go below zero, and only threads inside cnd_wait sleep. *)
TypeOK == /\ pending \in Nat /\ waiting \in Nat /\ sharing \in Nat
          /\ mtx \in Thread \cup {NoThread}
          /\ blocked \subseteq Waiters
          /\ pc \in [Thread -> {"idle", "rwait", "reading", "wwait", "writing"}]

(* Each counter is the number of threads it stands for, through every wait, *)
(* wakeup and repeated wait: a drift of one would shut a side out for good. *)
Accounting == /\ pending = Cardinality(At("wwait"))
              /\ waiting = Cardinality(At("rwait"))
              /\ sharing = Cardinality(At("reading"))

(* The writer is the thread that modify left the mutex with. *)
WriterOwnsMutex == At("writing") = IF mtx = NoThread THEN {} ELSE {mtx}

(* No reader is between access and release while a writer is between modify *)
(* and commit, and there is at most one writer.                             *)
Exclusion == /\ At("writing") # {} => At("reading") = {}
             /\ \A t, u \in At("writing") : t = u

(* Readers do not overtake: none is let in while a writer sleeps in modify, *)
(* nor while a woken writer has yet to get the mutex back.                  *)
ReadersYield == [][At("wwait") # {} => At("reading")' \subseteq At("reading")]_vars

(* Once no writer waits or writes, no reader is left asleep. *)
ReadersFollowLastWriter ==
    pending = 0 /\ mtx = NoThread => blocked \cap At("rwait") = {}

(* Sleepers can be left at a free lock with nobody woken (see NobodyStranded) *)
(* only where readers and writers sleep there together.  While the threads   *)
(* inside cnd_wait are writers only, or readers only, a wakeup is always     *)
(* under way to one of them, which takes the lock and passes it on.          *)
StrandedOnlyTogether ==
    blocked # {} /\ mtx = NoThread /\ sharing = 0 /\ Woken = {}
    => blocked \cap At("rwait") # {} /\ blocked \cap At("wwait") # {}

(* Nobody sleeps while the lock is free and no woken thread is on its way.   *)
(* Not so: the one signal of release or commit that is meant for a writer    *)
(* may wake a reader, which goes back to sleep because a writer is pending.  *)
NobodyStranded ==
    blocked # {} /\ mtx = NoThread /\ sharing = 0 => Woken # {}

(* The readers and writers of the abstract lock. *)
RW == INSTANCE RWLock WITH readers <- At("reading"), writers <- At("writing")

(* Readers and writers come and go as in a reader/writer lock. *)
ImplementsRWLock == RW!Spec

===============================================================================
