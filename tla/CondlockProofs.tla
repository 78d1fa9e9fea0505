---------------------------- MODULE CondlockProofs ----------------------------
(***************************************************************************)
(* cpr_condlock_t excludes readers and writers from each other, for any     *)
(* number of threads, and implements the reader/writer lock of RWLock.      *)
(***************************************************************************)
EXTENDS Condlock, Counting

Labels == {"idle", "rwait", "reading", "wwait", "writing"}

(* A writer got in with no reader inside, and the mutex keeps readers out.  *)
WriterAlone == mtx # NoThread => sharing = 0

(* The inductive invariant.  Exclusion follows from WriterOwnsMutex,        *)
(* WriterAlone and the meaning Accounting gives to sharing.                 *)
IInv == TypeOK /\ Accounting /\ WriterOwnsMutex /\ WriterAlone
        /\ ReadersFollowLastWriter

(* Where the threads are after one of them moved. *)
LEMMA Moves ==
    ASSUME pc \in [Thread -> Labels], NEW t \in Thread, NEW label \in Labels,
           pc' = [pc EXCEPT ![t] = label]
    PROVE  /\ pc' \in [Thread -> Labels]
           /\ At("rwait")' = IF label = "rwait" THEN At("rwait") \cup {t} ELSE At("rwait") \ {t}
           /\ At("reading")' = IF label = "reading" THEN At("reading") \cup {t} ELSE At("reading") \ {t}
           /\ At("wwait")' = IF label = "wwait" THEN At("wwait") \cup {t} ELSE At("wwait") \ {t}
           /\ At("writing")' = IF label = "writing" THEN At("writing") \cup {t} ELSE At("writing") \ {t}
BY DEF At, Labels

(* The change of the number of threads at l when one goes from one place to another. *)
Change(l, from, to) == IF from = to THEN 0
                       ELSE IF l = to THEN 1 ELSE IF l = from THEN -1 ELSE 0

(* The same for the number of threads at one place, S before and T after. *)
LEMMA CountOne ==
    ASSUME NEW t \in Thread, NEW l, NEW from, NEW to,
           NEW S \in SUBSET Thread, NEW T,
           t \in S <=> l = from,
           T = IF to = l THEN S \cup {t} ELSE S \ {t}
    PROVE  /\ Cardinality(S) \in Nat
           /\ Cardinality(T) = Cardinality(S) + Change(l, from, to)
           /\ l = from => Cardinality(S) > 0
<1>1. /\ Cardinality(S) \in Nat
      /\ t \notin S => Cardinality(S \cup {t}) = Cardinality(S) + 1
      /\ t \in S => Cardinality(S \ {t}) = Cardinality(S) - 1
      /\ t \in S => Cardinality(S) > 0
  BY Count, ThreadAssumption
<1>2. CASE l = from /\ l = to
  <2>1. T = S
    BY <1>2
  <2> QED BY <1>1, <1>2, <2>1 DEF Change
<1>3. CASE l # from /\ l # to
  <2>1. T = S
    BY <1>3
  <2> QED BY <1>1, <1>3, <2>1 DEF Change
<1>4. CASE l = from /\ l # to
  BY <1>1, <1>4 DEF Change
<1>5. CASE l # from /\ l = to
  BY <1>1, <1>5 DEF Change
<1> QED BY <1>2, <1>3, <1>4, <1>5

(* How a step of one thread changes what the counters count. *)
LEMMA Counts ==
    ASSUME pc \in [Thread -> Labels], NEW t \in Thread, NEW label \in Labels,
           pc' = [pc EXCEPT ![t] = label]
    PROVE  /\ pc[t] = "rwait" => Cardinality(At("rwait")) > 0
           /\ pc[t] = "wwait" => Cardinality(At("wwait")) > 0
           /\ pc[t] = "reading" => Cardinality(At("reading")) > 0
           /\ Cardinality(At("rwait")') = Cardinality(At("rwait")) + Change("rwait", pc[t], label)
           /\ Cardinality(At("reading")') = Cardinality(At("reading")) + Change("reading", pc[t], label)
           /\ Cardinality(At("wwait")') = Cardinality(At("wwait")) + Change("wwait", pc[t], label)
<1>1. /\ Cardinality(At("rwait")') = Cardinality(At("rwait")) + Change("rwait", pc[t], label)
      /\ pc[t] = "rwait" => Cardinality(At("rwait")) > 0
  <2>1. At("rwait") \in SUBSET Thread /\ (t \in At("rwait") <=> "rwait" = pc[t])
    BY DEF At
  <2>2. At("rwait")' = IF label = "rwait" THEN At("rwait") \cup {t} ELSE At("rwait") \ {t}
    BY Moves
  <2> QED BY <2>1, <2>2, CountOne
<1>2. /\ Cardinality(At("reading")') = Cardinality(At("reading")) + Change("reading", pc[t], label)
      /\ pc[t] = "reading" => Cardinality(At("reading")) > 0
  <2>1. At("reading") \in SUBSET Thread /\ (t \in At("reading") <=> "reading" = pc[t])
    BY DEF At
  <2>2. At("reading")' = IF label = "reading" THEN At("reading") \cup {t} ELSE At("reading") \ {t}
    BY Moves
  <2> QED BY <2>1, <2>2, CountOne
<1>3. /\ Cardinality(At("wwait")') = Cardinality(At("wwait")) + Change("wwait", pc[t], label)
      /\ pc[t] = "wwait" => Cardinality(At("wwait")) > 0
  <2>1. At("wwait") \in SUBSET Thread /\ (t \in At("wwait") <=> "wwait" = pc[t])
    BY DEF At
  <2>2. At("wwait")' = IF label = "wwait" THEN At("wwait") \cup {t} ELSE At("wwait") \ {t}
    BY Moves
  <2> QED BY <2>1, <2>2, CountOne
<1> QED BY <1>1, <1>2, <1>3

(* With nobody writing, the mutex is free. *)
LEMMA FreeMutex == IInv => (mtx = NoThread <=> At("writing") = {})
BY DEF IInv, WriterOwnsMutex

(* cor_condlock_init establishes the inductive invariant. *)
LEMMA InitHolds == Init => IInv
<1> SUFFICES ASSUME Init PROVE IInv
  OBVIOUS
<1>1. \A l \in Labels \ {"idle"} : At(l) = {}
  BY DEF Init, At, Labels
<1>2. At("rwait") = {} /\ At("wwait") = {} /\ At("reading") = {} /\ At("writing") = {}
  BY <1>1 DEF Labels
<1>3. Cardinality({}) = 0
  BY FS_EmptySet
<1> QED
  BY <1>2, <1>3 DEF Init, IInv, TypeOK, Accounting, WriterOwnsMutex, WriterAlone,
                    ReadersFollowLastWriter, Waiters

(* What the invariant says of the state before a step. *)
LEMMA Before ==
    ASSUME IInv
    PROVE  /\ pc \in [Thread -> Labels]
           /\ pending \in Nat /\ waiting \in Nat /\ sharing \in Nat
           /\ blocked \subseteq At("rwait") \cup At("wwait")
           /\ pending = Cardinality(At("wwait"))
           /\ waiting = Cardinality(At("rwait"))
           /\ sharing = Cardinality(At("reading"))
BY DEF IInv, TypeOK, Accounting, Labels, Waiters

(* cor_condlock_access lets a reader in. *)
LEMMA EnterReader ==
    ASSUME IInv, NEW t \in Thread, mtx = NoThread, pc[t] \in {"idle", "rwait"},
           t \notin blocked, pending = 0,
           AttemptAccess(t, IF pc[t] = "rwait" THEN waiting - 1 ELSE waiting)
    PROVE  IInv'
<1>0. /\ pc \in [Thread -> Labels]
      /\ pending \in Nat /\ waiting \in Nat /\ sharing \in Nat
      /\ blocked \subseteq At("rwait") \cup At("wwait")
      /\ pending = Cardinality(At("wwait"))
      /\ waiting = Cardinality(At("rwait"))
      /\ sharing = Cardinality(At("reading"))
  BY Before
<1>1. /\ sharing' = sharing + 1 /\ pending' = pending /\ mtx' = mtx /\ blocked' = blocked
      /\ waiting' = IF pc[t] = "rwait" THEN waiting - 1 ELSE waiting
      /\ pc' = [pc EXCEPT ![t] = "reading"]
  BY <1>0 DEF AttemptAccess, MayRead
<1>m. /\ pc' \in [Thread -> Labels]
      /\ At("rwait")' = At("rwait") \ {t}
      /\ At("reading")' = At("reading") \cup {t}
      /\ At("wwait")' = At("wwait") \ {t}
      /\ At("writing")' = At("writing") \ {t}
  <2>1. "reading" \in Labels
    BY DEF Labels
  <2> QED BY <1>0, <1>1, <2>1, Moves
<1>c. /\ pc[t] = "rwait" => Cardinality(At("rwait")) > 0
      /\ pc[t] = "wwait" => Cardinality(At("wwait")) > 0
      /\ Cardinality(At("rwait")') = Cardinality(At("rwait")) + Change("rwait", pc[t], "reading")
      /\ Cardinality(At("reading")') = Cardinality(At("reading")) + Change("reading", pc[t], "reading")
      /\ Cardinality(At("wwait")') = Cardinality(At("wwait")) + Change("wwait", pc[t], "reading")
  <2>1. "reading" \in Labels
    BY DEF Labels
  <2> QED BY <1>0, <1>1, <2>1, Counts
<1>2. /\ pc' \in [Thread -> Labels]
      /\ At("wwait")' = At("wwait") /\ At("rwait")' = At("rwait") \ {t}
      /\ At("writing")' = At("writing")
  <2>2. t \notin At("wwait") /\ t \notin At("writing")
    BY DEF At
  <2> QED BY <1>m, <2>2
<1>3. Accounting' /\ waiting' \in Nat
  BY <1>0, <1>1, <1>c DEF Accounting, Change
<1>4. TypeOK'
  BY <1>0, <1>1, <1>2, <1>3 DEF TypeOK, Waiters, IInv, Labels
<1>5. WriterOwnsMutex' /\ WriterAlone'
  BY <1>1, <1>2 DEF IInv, WriterOwnsMutex, WriterAlone
<1>6. ReadersFollowLastWriter'
  BY <1>1, <1>2 DEF IInv, ReadersFollowLastWriter
<1> QED BY <1>3, <1>4, <1>5, <1>6 DEF IInv

(* cor_condlock_access goes to sleep, for the first time or again. *)
LEMMA WaitReader ==
    ASSUME IInv, NEW t \in Thread, mtx = NoThread, pc[t] \in {"idle", "rwait"},
           pending > 0,
           AttemptAccess(t, IF pc[t] = "rwait" THEN waiting - 1 ELSE waiting)
    PROVE  IInv'
<1>0. /\ pc \in [Thread -> Labels]
      /\ pending \in Nat /\ waiting \in Nat /\ sharing \in Nat
      /\ blocked \subseteq At("rwait") \cup At("wwait")
      /\ pending = Cardinality(At("wwait"))
      /\ waiting = Cardinality(At("rwait"))
      /\ sharing = Cardinality(At("reading"))
  BY Before
<1>1. /\ sharing' = sharing /\ pending' = pending /\ mtx' = mtx
      /\ waiting' = (IF pc[t] = "rwait" THEN waiting - 1 ELSE waiting) + 1
      /\ blocked' = blocked \cup {t}
      /\ pc' = [pc EXCEPT ![t] = "rwait"]
  BY <1>0 DEF AttemptAccess, MayRead, cnd_wait
<1>m. /\ pc' \in [Thread -> Labels]
      /\ At("rwait")' = At("rwait") \cup {t}
      /\ At("reading")' = At("reading") \ {t}
      /\ At("wwait")' = At("wwait") \ {t}
      /\ At("writing")' = At("writing") \ {t}
  <2>1. "rwait" \in Labels
    BY DEF Labels
  <2> QED BY <1>0, <1>1, <2>1, Moves
<1>c. /\ pc[t] = "rwait" => Cardinality(At("rwait")) > 0
      /\ pc[t] = "wwait" => Cardinality(At("wwait")) > 0
      /\ Cardinality(At("rwait")') = Cardinality(At("rwait")) + Change("rwait", pc[t], "rwait")
      /\ Cardinality(At("reading")') = Cardinality(At("reading")) + Change("reading", pc[t], "rwait")
      /\ Cardinality(At("wwait")') = Cardinality(At("wwait")) + Change("wwait", pc[t], "rwait")
  <2>1. "rwait" \in Labels
    BY DEF Labels
  <2> QED BY <1>0, <1>1, <2>1, Counts
<1>2. /\ pc' \in [Thread -> Labels]
      /\ At("wwait")' = At("wwait") /\ At("rwait")' = At("rwait") \cup {t}
      /\ At("writing")' = At("writing") /\ At("reading")' = At("reading")
  <2>2. t \notin At("wwait") /\ t \notin At("writing") /\ t \notin At("reading")
    BY DEF At
  <2> QED BY <1>m, <2>2
<1>3. Accounting' /\ waiting' \in Nat
  <2>1. CASE pc[t] = "idle"
    BY <1>0, <1>1, <2>1, <1>c DEF Accounting, Change
  <2>2. CASE pc[t] = "rwait"
    <3>1. At("rwait")' = At("rwait") /\ waiting' = waiting
      BY <1>0, <1>1, <1>2, <2>2 DEF At
    <3> QED BY <1>0, <1>1, <1>2, <3>1 DEF Accounting
  <2> QED BY <2>1, <2>2
<1>4. TypeOK'
  BY <1>0, <1>1, <1>2, <1>3 DEF TypeOK, Waiters, IInv, Labels
<1>5. WriterOwnsMutex' /\ WriterAlone'
  BY <1>1, <1>2 DEF IInv, WriterOwnsMutex, WriterAlone
<1>6. ReadersFollowLastWriter'
  BY <1>1 DEF ReadersFollowLastWriter
<1> QED BY <1>3, <1>4, <1>5, <1>6 DEF IInv

(* cpr_condlock_modify returns with the mutex. *)
LEMMA EnterWriter ==
    ASSUME IInv, NEW t \in Thread, mtx = NoThread, pc[t] \in {"idle", "wwait"},
           t \notin blocked, sharing = 0,
           AttemptModify(t, IF pc[t] = "wwait" THEN pending - 1 ELSE pending)
    PROVE  IInv'
<1>0. /\ pc \in [Thread -> Labels]
      /\ pending \in Nat /\ waiting \in Nat /\ sharing \in Nat
      /\ blocked \subseteq At("rwait") \cup At("wwait")
      /\ pending = Cardinality(At("wwait"))
      /\ waiting = Cardinality(At("rwait"))
      /\ sharing = Cardinality(At("reading"))
  BY Before
<1>1. /\ sharing' = sharing /\ waiting' = waiting /\ mtx' = t /\ blocked' = blocked
      /\ pending' = IF pc[t] = "wwait" THEN pending - 1 ELSE pending
      /\ pc' = [pc EXCEPT ![t] = "writing"]
  BY <1>0 DEF AttemptModify
<1>m. /\ pc' \in [Thread -> Labels]
      /\ At("rwait")' = At("rwait") \ {t}
      /\ At("reading")' = At("reading") \ {t}
      /\ At("wwait")' = At("wwait") \ {t}
      /\ At("writing")' = At("writing") \cup {t}
  <2>1. "writing" \in Labels
    BY DEF Labels
  <2> QED BY <1>0, <1>1, <2>1, Moves
<1>c. /\ pc[t] = "rwait" => Cardinality(At("rwait")) > 0
      /\ pc[t] = "wwait" => Cardinality(At("wwait")) > 0
      /\ Cardinality(At("rwait")') = Cardinality(At("rwait")) + Change("rwait", pc[t], "writing")
      /\ Cardinality(At("reading")') = Cardinality(At("reading")) + Change("reading", pc[t], "writing")
      /\ Cardinality(At("wwait")') = Cardinality(At("wwait")) + Change("wwait", pc[t], "writing")
  <2>1. "writing" \in Labels
    BY DEF Labels
  <2> QED BY <1>0, <1>1, <2>1, Counts
<1>2. /\ pc' \in [Thread -> Labels]
      /\ At("wwait")' = At("wwait") \ {t} /\ At("rwait")' = At("rwait")
      /\ At("writing")' = {t}
  <2>2. t \notin At("rwait") /\ At("writing") = {}
    BY DEF At, IInv, WriterOwnsMutex
  <2> QED BY <1>m, <2>2
<1>3. Accounting' /\ pending' \in Nat
  BY <1>0, <1>1, <1>c DEF Accounting, Change
<1>4. TypeOK'
  BY <1>0, <1>1, <1>2, <1>3 DEF TypeOK, Waiters, IInv, Labels
<1>5. WriterOwnsMutex' /\ WriterAlone' /\ ReadersFollowLastWriter'
  BY <1>1, <1>2, ThreadAssumption DEF WriterOwnsMutex, WriterAlone, ReadersFollowLastWriter
<1> QED BY <1>3, <1>4, <1>5 DEF IInv

(* cpr_condlock_modify goes to sleep, for the first time or again. *)
LEMMA WaitWriter ==
    ASSUME IInv, NEW t \in Thread, mtx = NoThread, pc[t] \in {"idle", "wwait"},
           sharing > 0,
           AttemptModify(t, IF pc[t] = "wwait" THEN pending - 1 ELSE pending)
    PROVE  IInv'
<1>0. /\ pc \in [Thread -> Labels]
      /\ pending \in Nat /\ waiting \in Nat /\ sharing \in Nat
      /\ blocked \subseteq At("rwait") \cup At("wwait")
      /\ pending = Cardinality(At("wwait"))
      /\ waiting = Cardinality(At("rwait"))
      /\ sharing = Cardinality(At("reading"))
  BY Before
<1>1. /\ sharing' = sharing /\ waiting' = waiting /\ mtx' = mtx
      /\ pending' = (IF pc[t] = "wwait" THEN pending - 1 ELSE pending) + 1
      /\ blocked' = blocked \cup {t}
      /\ pc' = [pc EXCEPT ![t] = "wwait"]
  BY <1>0 DEF AttemptModify, cnd_wait
<1>m. /\ pc' \in [Thread -> Labels]
      /\ At("rwait")' = At("rwait") \ {t}
      /\ At("reading")' = At("reading") \ {t}
      /\ At("wwait")' = At("wwait") \cup {t}
      /\ At("writing")' = At("writing") \ {t}
  <2>1. "wwait" \in Labels
    BY DEF Labels
  <2> QED BY <1>0, <1>1, <2>1, Moves
<1>c. /\ pc[t] = "rwait" => Cardinality(At("rwait")) > 0
      /\ pc[t] = "wwait" => Cardinality(At("wwait")) > 0
      /\ Cardinality(At("rwait")') = Cardinality(At("rwait")) + Change("rwait", pc[t], "wwait")
      /\ Cardinality(At("reading")') = Cardinality(At("reading")) + Change("reading", pc[t], "wwait")
      /\ Cardinality(At("wwait")') = Cardinality(At("wwait")) + Change("wwait", pc[t], "wwait")
  <2>1. "wwait" \in Labels
    BY DEF Labels
  <2> QED BY <1>0, <1>1, <2>1, Counts
<1>2. /\ pc' \in [Thread -> Labels]
      /\ At("rwait")' = At("rwait") /\ At("wwait")' = At("wwait") \cup {t}
      /\ At("writing")' = At("writing") /\ At("reading")' = At("reading")
  <2>2. t \notin At("rwait") /\ t \notin At("writing") /\ t \notin At("reading")
    BY DEF At
  <2> QED BY <1>m, <2>2
<1>3. Accounting' /\ pending' \in Nat /\ pending' > 0
  <2>1. CASE pc[t] = "idle"
    BY <1>0, <1>1, <2>1, <1>c DEF Accounting, Change
  <2>2. CASE pc[t] = "wwait"
    <3>1. At("wwait")' = At("wwait") /\ pending' = pending /\ t \in At("wwait")
      BY <1>0, <1>1, <1>2, <2>2 DEF At
    <3>2. pending > 0
      <4>1. At("wwait") \in SUBSET Thread
        BY DEF At
      <4> QED BY <1>0, <3>1, <4>1, Count, ThreadAssumption
    <3> QED BY <1>0, <1>1, <1>2, <3>1, <3>2 DEF Accounting
  <2> QED BY <2>1, <2>2
<1>4. TypeOK'
  BY <1>0, <1>1, <1>2, <1>3 DEF TypeOK, Waiters, IInv, Labels
<1>5. WriterOwnsMutex' /\ WriterAlone' /\ ReadersFollowLastWriter'
  BY <1>1, <1>2, <1>3 DEF IInv, WriterOwnsMutex, WriterAlone, ReadersFollowLastWriter
<1> QED BY <1>3, <1>4, <1>5 DEF IInv

(* cpr_condlock_release: a reader leaves; who is woken does not matter here. *)
LEMMA ReleaseHolds ==
    ASSUME IInv, NEW t \in Thread, Release(t)
    PROVE  IInv'
<1>0. /\ pc \in [Thread -> Labels]
      /\ pending \in Nat /\ waiting \in Nat /\ sharing \in Nat
      /\ blocked \subseteq At("rwait") \cup At("wwait")
      /\ pending = Cardinality(At("wwait"))
      /\ waiting = Cardinality(At("rwait"))
      /\ sharing = Cardinality(At("reading"))
  BY Before
<1>1. /\ pc[t] = "reading" /\ pc' = [pc EXCEPT ![t] = "idle"]
      /\ pending' = pending /\ waiting' = waiting /\ mtx' = mtx
      /\ blocked' \subseteq blocked
  BY DEF Release, WakeOnRelease, cnd_signal, cnd_broadcast
<1>m. /\ pc' \in [Thread -> Labels]
      /\ At("rwait")' = At("rwait") \ {t}
      /\ At("reading")' = At("reading") \ {t}
      /\ At("wwait")' = At("wwait") \ {t}
      /\ At("writing")' = At("writing") \ {t}
  <2>1. "idle" \in Labels
    BY DEF Labels
  <2> QED BY <1>0, <1>1, <2>1, Moves
<1>c. /\ pc[t] = "reading" => Cardinality(At("reading")) > 0
      /\ Cardinality(At("rwait")') = Cardinality(At("rwait")) + Change("rwait", pc[t], "idle")
      /\ Cardinality(At("reading")') = Cardinality(At("reading")) + Change("reading", pc[t], "idle")
      /\ Cardinality(At("wwait")') = Cardinality(At("wwait")) + Change("wwait", pc[t], "idle")
  <2>1. "idle" \in Labels
    BY DEF Labels
  <2> QED BY <1>0, <1>1, <2>1, Counts
<1>2. sharing' = sharing - 1 /\ sharing > 0
  BY <1>0, <1>1, <1>c DEF Release
<1>3. /\ At("wwait")' = At("wwait") /\ At("rwait")' = At("rwait")
      /\ At("writing")' = At("writing")
  <2>1. t \notin At("wwait") /\ t \notin At("rwait") /\ t \notin At("writing")
    BY <1>1 DEF At
  <2> QED BY <1>m, <2>1
<1>4. Accounting'
  BY <1>0, <1>1, <1>2, <1>c DEF Accounting, Change
<1>5. TypeOK'
  BY <1>0, <1>1, <1>2, <1>3, <1>m DEF TypeOK, Waiters, IInv, Labels
<1>6. WriterOwnsMutex' /\ WriterAlone' /\ ReadersFollowLastWriter'
  BY <1>0, <1>1, <1>2, <1>3
     DEF IInv, WriterOwnsMutex, WriterAlone, ReadersFollowLastWriter
<1> QED BY <1>4, <1>5, <1>6 DEF IInv

(* cpr_condlock_commit: with no writer waiting, every reader is woken. *)
LEMMA CommitHolds ==
    ASSUME IInv, NEW t \in Thread, Commit(t)
    PROVE  IInv'
<1>0. /\ pc \in [Thread -> Labels]
      /\ pending \in Nat /\ waiting \in Nat /\ sharing \in Nat
      /\ blocked \subseteq At("rwait") \cup At("wwait")
      /\ pending = Cardinality(At("wwait"))
      /\ waiting = Cardinality(At("rwait"))
      /\ sharing = Cardinality(At("reading"))
  BY Before
<1>1. /\ pc[t] = "writing" /\ pc' = [pc EXCEPT ![t] = "idle"]
      /\ mtx = t /\ mtx' = NoThread
      /\ pending' = pending /\ waiting' = waiting /\ sharing' = sharing
      /\ blocked' \subseteq blocked
      /\ pending = 0 /\ waiting > 0 => blocked' = {}
  BY <1>0 DEF Commit, WakeOnCommit, cnd_signal, cnd_broadcast
<1>m. /\ pc' \in [Thread -> Labels]
      /\ At("rwait")' = At("rwait") \ {t}
      /\ At("reading")' = At("reading") \ {t}
      /\ At("wwait")' = At("wwait") \ {t}
      /\ At("writing")' = At("writing") \ {t}
  <2>1. "idle" \in Labels
    BY DEF Labels
  <2> QED BY <1>0, <1>1, <2>1, Moves
<1>c. /\ Cardinality(At("rwait")') = Cardinality(At("rwait")) + Change("rwait", pc[t], "idle")
      /\ Cardinality(At("reading")') = Cardinality(At("reading")) + Change("reading", pc[t], "idle")
      /\ Cardinality(At("wwait")') = Cardinality(At("wwait")) + Change("wwait", pc[t], "idle")
  <2>1. "idle" \in Labels
    BY DEF Labels
  <2> QED BY <1>0, <1>1, <2>1, Counts
<1>3. /\ At("wwait")' = At("wwait") /\ At("rwait")' = At("rwait")
      /\ At("reading")' = At("reading") /\ At("writing")' = {}
  <2>1. t \notin At("wwait") /\ t \notin At("rwait") /\ t \notin At("reading")
    BY <1>1 DEF At
  <2>2. At("writing") = {t}
    BY <1>1, ThreadAssumption DEF IInv, WriterOwnsMutex
  <2> QED BY <1>m, <2>1, <2>2
<1>4. Accounting'
  BY <1>0, <1>1, <1>3 DEF Accounting
<1>5. TypeOK'
  BY <1>0, <1>1, <1>3, <1>m DEF TypeOK, Waiters, IInv, Labels
<1>6. ReadersFollowLastWriter'
  <2> SUFFICES ASSUME pending = 0 PROVE blocked' \cap At("rwait") = {}
    BY <1>1, <1>3 DEF ReadersFollowLastWriter
  <2>1. CASE waiting > 0
    BY <1>1, <2>1
  <2>2. CASE waiting = 0
    <3>1. At("rwait") = {}
      <4>1. At("rwait") \in SUBSET Thread
        BY DEF At
      <4>2. \A u \in At("rwait") : Cardinality(At("rwait")) > 0
        BY <4>1, Count, ThreadAssumption
      <4> QED BY <1>0, <2>2, <4>2
    <3> QED BY <3>1
  <2> QED BY <1>0, <2>1, <2>2
<1>7. WriterOwnsMutex' /\ WriterAlone'
  BY <1>1, <1>3 DEF WriterOwnsMutex, WriterAlone
<1> QED BY <1>4, <1>5, <1>6, <1>7 DEF IInv

(* Every step keeps the inductive invariant. *)
LEMMA NextHolds == IInv /\ [Next]_vars => IInv'
<1> SUFFICES ASSUME IInv, [Next]_vars PROVE IInv'
  OBVIOUS
<1>0. /\ pending \in Nat /\ sharing \in Nat
      /\ \A t \in blocked : pc[t] \in {"rwait", "wwait"}
  BY DEF IInv, TypeOK, Waiters, At
<1>1. ASSUME NEW t \in Thread, Access(t) PROVE IInv'
  <2>1. pc[t] = "idle" /\ t \notin blocked /\ mtx = NoThread
        /\ AttemptAccess(t, IF pc[t] = "rwait" THEN waiting - 1 ELSE waiting)
    BY <1>0, <1>1 DEF Access
  <2> QED BY <1>0, <2>1, EnterReader, WaitReader
<1>2. ASSUME NEW t \in Thread, AccessResume(t) PROVE IInv'
  <2>1. pc[t] = "rwait" /\ t \notin blocked /\ mtx = NoThread
        /\ AttemptAccess(t, IF pc[t] = "rwait" THEN waiting - 1 ELSE waiting)
    BY <1>2 DEF AccessResume, Woken
  <2> QED BY <1>0, <2>1, EnterReader, WaitReader
<1>3. ASSUME NEW t \in Thread, Release(t) PROVE IInv'
  BY <1>3, ReleaseHolds
<1>4. ASSUME NEW t \in Thread, Modify(t) PROVE IInv'
  <2>1. pc[t] = "idle" /\ t \notin blocked /\ mtx = NoThread
        /\ AttemptModify(t, IF pc[t] = "wwait" THEN pending - 1 ELSE pending)
    BY <1>0, <1>4 DEF Modify
  <2> QED BY <1>0, <2>1, EnterWriter, WaitWriter
<1>5. ASSUME NEW t \in Thread, ModifyResume(t) PROVE IInv'
  <2>1. pc[t] = "wwait" /\ t \notin blocked /\ mtx = NoThread
        /\ AttemptModify(t, IF pc[t] = "wwait" THEN pending - 1 ELSE pending)
    BY <1>5 DEF ModifyResume, Woken
  <2> QED BY <1>0, <2>1, EnterWriter, WaitWriter
<1>6. ASSUME NEW t \in Thread, Commit(t) PROVE IInv'
  BY <1>6, CommitHolds
<1>7. ASSUME NEW t \in Thread, SpuriousWake(t) PROVE IInv'
  BY <1>7 DEF SpuriousWake, IInv, TypeOK, Accounting, WriterOwnsMutex, WriterAlone,
              ReadersFollowLastWriter, Waiters, At
<1>8. CASE UNCHANGED vars
  BY <1>8 DEF vars, IInv, TypeOK, Accounting, WriterOwnsMutex, WriterAlone,
              ReadersFollowLastWriter, Waiters, At
<1> QED BY <1>1, <1>2, <1>3, <1>4, <1>5, <1>6, <1>7, <1>8 DEF Next

(* The inductive invariant holds throughout. *)
LEMMA Invariance == Spec => []IInv
BY InitHolds, NextHolds, PTL DEF Spec

(* A thread at a place is counted there. *)
LEMMA Occupied ==
    ASSUME IInv
    PROVE  /\ sharing = 0 => At("reading") = {}
           /\ pending = 0 => At("wwait") = {}
<1>1. At("reading") \in SUBSET Thread /\ At("wwait") \in SUBSET Thread
  BY DEF At
<1>2. /\ \A u \in At("reading") : Cardinality(At("reading")) > 0
      /\ \A u \in At("wwait") : Cardinality(At("wwait")) > 0
  BY <1>1, Count, ThreadAssumption
<1> QED BY <1>2 DEF IInv, Accounting

(* Readers and writers exclude each other, and the counters stay exact. *)
THEOREM Safety == Spec => [](TypeOK /\ Accounting /\ Exclusion /\ ReadersFollowLastWriter)
<1>1. ASSUME IInv PROVE Exclusion
  BY <1>1, Occupied DEF IInv, WriterOwnsMutex, WriterAlone, Exclusion
<1>2. IInv => TypeOK /\ Accounting /\ Exclusion /\ ReadersFollowLastWriter
  BY <1>1 DEF IInv
<1> QED BY <1>2, Invariance, PTL

(* Waiters the lock counts are there. *)
LEMMA Asleep ==
    ASSUME IInv
    PROVE  /\ pending > 0 => At("wwait") # {}
           /\ waiting = 0 => At("rwait") = {}
<1>1. At("rwait") \in SUBSET Thread
  BY DEF At
<1>2. \A u \in At("rwait") : Cardinality(At("rwait")) > 0
  BY <1>1, Count, ThreadAssumption
<1>3. At("wwait") = {} => Cardinality(At("wwait")) = 0
  BY FS_EmptySet
<1> QED BY <1>2, <1>3 DEF IInv, TypeOK, Accounting

(* While no reader is inside cnd_wait, the writers asleep at a free lock have *)
(* a woken writer before them.                                               *)
WritersPassItOn ==
    At("rwait") = {} /\ blocked # {} /\ mtx = NoThread /\ sharing = 0 => Woken # {}

(* A step that leaves only writers asleep at a free lock leaves one of them  *)
(* woken: a reader that comes back goes in or stays, and the last reader and *)
(* every writer wake somebody when they leave.                               *)
LEMMA PassStep == IInv /\ IInv' /\ WritersPassItOn /\ [Next]_vars => WritersPassItOn'
<1> SUFFICES ASSUME IInv, IInv', WritersPassItOn, [Next]_vars, At("rwait")' = {},
                    blocked' # {}, mtx' = NoThread, sharing' = 0
             PROVE  Woken' # {}
  BY DEF WritersPassItOn
<1>0. /\ pc \in [Thread -> Labels] /\ pending \in Nat /\ waiting \in Nat /\ sharing \in Nat
      /\ blocked \subseteq Waiters
  BY DEF IInv, TypeOK, Labels
<1>2. ASSUME NEW t \in Thread, Access(t) \/ AccessResume(t) PROVE FALSE
  <2>1. CASE pc' = [pc EXCEPT ![t] = "rwait"]
    BY <1>0, <2>1 DEF At
  <2>2. CASE sharing' = sharing + 1
    BY <1>0, <2>2
  <2> QED BY <1>2, <2>1, <2>2 DEF Access, AccessResume, AttemptAccess
<1>3. ASSUME NEW t \in Thread, Modify(t) \/ ModifyResume(t) PROVE Woken' # {}
  <2>1. (sharing > 0 /\ sharing' = sharing) \/ mtx' = t
    BY <1>3 DEF Modify, ModifyResume, AttemptModify
  <2> QED BY <1>0, <2>1, ThreadAssumption
<1>4. ASSUME NEW t \in Thread, pc[t] \notin {"rwait", "wwait"}, pc' = [pc EXCEPT ![t] = "idle"],
             NEW s \in blocked, s \notin blocked'
      PROVE  Woken' # {}
  <2>1. s \in Thread /\ s # t /\ pc'[s] = pc[s] /\ pc[s] \in {"rwait", "wwait"}
    BY <1>0, <1>4 DEF Waiters, At
  <2> QED BY <1>4, <2>1 DEF Woken, Waiters, At
<1>5. ASSUME NEW t \in Thread, Release(t) PROVE Woken' # {}
  <2>1. pc[t] \notin {"rwait", "wwait"} /\ pc' = [pc EXCEPT ![t] = "idle"]
    BY <1>5 DEF Release
  <2>2. sharing = 1
    <3>1. t \in At("reading")
      BY <1>5 DEF Release, At
    <3>2. sharing > 0
      BY <1>0, <3>1, Occupied
    <3> QED BY <1>0, <1>5, <3>2 DEF Release
  <2>3. blocked' \in WakeOnRelease
    BY <1>5, <2>2 DEF Release
  <2>4. CASE pending > 0
    <3>1. blocked' \in cnd_signal(blocked)
      BY <2>2, <2>3, <2>4 DEF WakeOnRelease
    <3>2. PICK s \in blocked : blocked' = blocked \ {s}
      BY <3>1 DEF cnd_signal
    <3> QED BY <1>4, <2>1, <3>2
  <2>5. CASE pending = 0
    <3>1. blocked = {} \/ blocked' = {}
      <4>1. CASE waiting > 0
        BY <2>3, <2>5, <4>1 DEF WakeOnRelease, cnd_broadcast
      <4>2. CASE waiting = 0
        BY <1>0, <2>5, <4>2, Occupied, Asleep DEF Waiters
      <4> QED BY <1>0, <4>1, <4>2
    <3>2. blocked' = {} \/ blocked' = blocked
      BY <2>3, <2>5 DEF WakeOnRelease, cnd_broadcast
    <3> QED BY <3>1, <3>2
  <2> QED BY <1>0, <2>4, <2>5
<1>6. ASSUME NEW t \in Thread, Commit(t) PROVE Woken' # {}
  <2>1. /\ pc[t] \notin {"rwait", "wwait"} /\ pc' = [pc EXCEPT ![t] = "idle"]
        /\ blocked' \in WakeOnCommit
    BY <1>6 DEF Commit
  <2>2. CASE pending > 0
    <3>1. blocked' \in cnd_signal(blocked)
      BY <2>1, <2>2 DEF WakeOnCommit
    <3>2. PICK s \in blocked : blocked' = blocked \ {s}
      BY <3>1 DEF cnd_signal
    <3> QED BY <1>4, <2>1, <3>2
  <2>3. CASE pending = 0
    <3>1. blocked = {} \/ blocked' = {}
      <4>1. CASE waiting > 0
        BY <2>1, <2>3, <4>1 DEF WakeOnCommit, cnd_broadcast
      <4>2. CASE waiting = 0
        BY <1>0, <2>3, <4>2, Occupied, Asleep DEF Waiters
      <4> QED BY <1>0, <4>1, <4>2
    <3>2. blocked' = {} \/ blocked' = blocked
      BY <2>1, <2>3 DEF WakeOnCommit, cnd_broadcast
    <3> QED BY <3>1, <3>2
  <2> QED BY <1>0, <2>2, <2>3
<1>7. ASSUME NEW t \in Thread, SpuriousWake(t) PROVE Woken' # {}
  BY <1>0, <1>7 DEF SpuriousWake, Woken, Waiters, At
<1>8. CASE UNCHANGED vars
  BY <1>8 DEF WritersPassItOn, Woken, Waiters, At, vars
<1> QED BY <1>2, <1>3, <1>5, <1>6, <1>7, <1>8 DEF Next

(* With no writer inside cnd_wait no reader sleeps at a free lock, and with  *)
(* no reader there some writer is awake: sleepers left alone are of both.    *)
LEMMA BothKinds == IInv /\ WritersPassItOn => StrandedOnlyTogether
<1> SUFFICES ASSUME IInv, WritersPassItOn, blocked # {}, mtx = NoThread, sharing = 0, Woken = {}
             PROVE  blocked \cap At("rwait") # {} /\ blocked \cap At("wwait") # {}
  BY DEF StrandedOnlyTogether
<1>1. blocked = At("rwait") \cup At("wwait")
  BY DEF IInv, TypeOK, Woken, Waiters
<1>2. At("rwait") # {}
  BY DEF WritersPassItOn
<1>3. pending # 0
  BY <1>1, <1>2 DEF IInv, ReadersFollowLastWriter
<1>4. At("wwait") # {}
  BY <1>3, Asleep DEF IInv, TypeOK
<1> QED BY <1>1, <1>2, <1>4

(* Only readers and writers that sleep together can be left asleep. *)
THEOREM Stranded == Spec => []StrandedOnlyTogether
<1>1. Init => WritersPassItOn
  BY DEF Init, WritersPassItOn
<1>2. Spec => []WritersPassItOn
  BY <1>1, PassStep, Invariance, PTL DEF Spec
<1> QED BY <1>2, BothKinds, Invariance, PTL

(* Who reads and who writes after a thread moved. *)
LEMMA InsideMoves ==
    ASSUME IInv, NEW t \in Thread, NEW label \in Labels, pc' = [pc EXCEPT ![t] = label]
    PROVE  /\ At("reading")' = IF label = "reading" THEN At("reading") \cup {t} ELSE At("reading") \ {t}
           /\ At("writing")' = IF label = "writing" THEN At("writing") \cup {t} ELSE At("writing") \ {t}
<1>1. pc \in [Thread -> Labels]
  BY Before
<1> QED BY <1>1, Moves

(* Every step is a step of the abstract lock or leaves who is inside alone. *)
LEMMA StepRefines == IInv /\ [Next]_vars => [RW!Next]_(RW!vars)
<1> SUFFICES ASSUME IInv, [Next]_vars PROVE [RW!Next]_(RW!vars)
  OBVIOUS
<1>0. pc \in [Thread -> Labels]
  BY Before
<1>f. /\ pending \in Nat /\ sharing \in Nat
      /\ mtx = NoThread => At("writing") = {}
      /\ sharing = 0 => At("reading") = {}
  BY Before, Occupied DEF IInv, WriterOwnsMutex
<1>1. ASSUME NEW t \in Thread, pc[t] \in {"idle", "rwait"}, mtx = NoThread,
             \E w : AttemptAccess(t, w)
      PROVE  [RW!Next]_(RW!vars)
  <2>0. t \notin At("reading") /\ t \notin At("writing")
    BY <1>1 DEF At
  <2>1. CASE pc' = [pc EXCEPT ![t] = "reading"]
    <3>1. At("reading")' = At("reading") \cup {t} /\ At("writing")' = At("writing")
      BY <1>0, <2>0, <2>1 DEF At
    <3> QED BY <1>1, <1>f, <2>0, <3>1 DEF RW!Next, RW!StartRead
  <2>2. CASE pc' = [pc EXCEPT ![t] = "rwait"]
    <3>1. At("reading")' = At("reading") /\ At("writing")' = At("writing")
      BY <1>0, <2>0, <2>2 DEF At
    <3> QED BY <3>1 DEF RW!vars
  <2> QED BY <1>1, <2>1, <2>2 DEF AttemptAccess, MayRead
<1>2. ASSUME NEW t \in Thread, pc[t] \in {"idle", "wwait"}, mtx = NoThread,
             \E p : AttemptModify(t, p)
      PROVE  [RW!Next]_(RW!vars)
  <2>0. t \notin At("reading") /\ t \notin At("writing")
    BY <1>2 DEF At
  <2>1. CASE pc' = [pc EXCEPT ![t] = "writing"] /\ sharing = 0
    <3>1. At("reading")' = At("reading") /\ At("writing")' = {t}
      BY <1>0, <1>2, <1>f, <2>0, <2>1 DEF At
    <3> QED BY <1>2, <1>f, <2>1, <3>1 DEF RW!Next, RW!StartWrite
  <2>2. CASE pc' = [pc EXCEPT ![t] = "wwait"]
    <3>1. At("reading")' = At("reading") /\ At("writing")' = At("writing")
      BY <1>0, <2>0, <2>2 DEF At
    <3> QED BY <3>1 DEF RW!vars
  <2> QED BY <1>2, <2>1, <2>2 DEF AttemptModify
<1>3. ASSUME NEW t \in Thread, Release(t) PROVE RW!Next
  <2>1. t \in At("reading") /\ t \notin At("writing") /\ pc' = [pc EXCEPT ![t] = "idle"]
    BY <1>3 DEF Release, At
  <2>2. At("reading")' = At("reading") \ {t} /\ At("writing")' = At("writing")
    BY <1>0, <2>1 DEF At
  <2> QED BY <2>1, <2>2 DEF RW!Next, RW!EndRead
<1>4. ASSUME NEW t \in Thread, Commit(t) PROVE RW!Next
  <2>1. t \in At("writing") /\ t \notin At("reading") /\ pc' = [pc EXCEPT ![t] = "idle"]
    BY <1>4 DEF Commit, At
  <2>2. At("writing")' = At("writing") \ {t} /\ At("reading")' = At("reading")
    BY <1>0, <2>1 DEF At
  <2> QED BY <2>1, <2>2 DEF RW!Next, RW!EndWrite
<1>5. ASSUME pc' = pc PROVE UNCHANGED RW!vars
  BY <1>5 DEF RW!vars, At
<1>6. ASSUME NEW t \in Thread, SpuriousWake(t) PROVE UNCHANGED RW!vars
  BY <1>5, <1>6 DEF SpuriousWake
<1>7. CASE UNCHANGED vars
  BY <1>5, <1>7 DEF vars
<1> QED
  BY <1>1, <1>2, <1>3, <1>4, <1>6, <1>7
     DEF Next, Access, AccessResume, Modify, ModifyResume

(* cpr_condlock_t implements the abstract reader/writer lock. *)
THEOREM Refinement == Spec => ImplementsRWLock
<1>1. Init => RW!Init
  BY DEF Init, RW!Init, At
<1> QED BY <1>1, StepRefines, Invariance, PTL DEF Spec, ImplementsRWLock, RW!Spec

(* No reader is let in while a writer waits or is about to return from its *)
(* wait: pending counts it until it has the mutex back.                    *)
THEOREM WriterPreference == Spec => ReadersYield
<1>1. ASSUME IInv, [Next]_vars, At("wwait") # {}
      PROVE  At("reading")' \subseteq At("reading")
  <2>0. pending > 0 /\ pending \in Nat
    BY <1>1, Before, Occupied
  <2>1. ASSUME NEW t \in Thread, NEW label \in Labels \ {"reading"}, pc' = [pc EXCEPT ![t] = label]
        PROVE  At("reading")' \subseteq At("reading")
    BY <1>1, <2>1, InsideMoves
  <2>2. "idle" \in Labels \ {"reading"} /\ "writing" \in Labels \ {"reading"}
        /\ "rwait" \in Labels \ {"reading"} /\ "wwait" \in Labels \ {"reading"}
    BY DEF Labels
  <2>3. ASSUME pc' = pc PROVE At("reading")' \subseteq At("reading")
    BY <2>3 DEF At
  <2>4. \/ pc' = pc
        \/ \E t \in Thread : \/ pc' = [pc EXCEPT ![t] = "idle"]
                             \/ pc' = [pc EXCEPT ![t] = "rwait"]
                             \/ pc' = [pc EXCEPT ![t] = "wwait"]
                             \/ pc' = [pc EXCEPT ![t] = "writing"]
    BY <1>1, <2>0 DEF Next, vars, Access, AccessResume, AttemptAccess, MayRead, Release, Modify,
                      ModifyResume, AttemptModify, Commit, SpuriousWake
  <2> QED BY <2>1, <2>2, <2>3, <2>4
<1>2. IInv /\ [Next]_vars
      => [At("wwait") # {} => At("reading")' \subseteq At("reading")]_vars
  BY <1>1
<1> QED BY <1>2, Invariance, PTL DEF Spec, ReadersYield

===============================================================================
