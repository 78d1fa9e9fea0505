----------------------------- MODULE SharedProofs -----------------------------
(****************************************************************************)
(* The safety of the components that threads share without a library lock   *)
(* around them, for any number of threads: reference counted memory, events *)
(* and the log of a service.                                                *)
(****************************************************************************)
EXTENDS Memshare, Events, Service, Counting

-----------------------------------------------------------------------------
(****************************************************************************)
(* Reference counted memory: any number of threads, objects and references. *)
(****************************************************************************)

(* A variable in the middle of the last release still points to what it is  *)
(* about to free, which is allocated, and nobody works through it.          *)
FreeingOwnsItsObject ==
    \A h \in Holders : freeing[h] # NULL => /\ freeing[h] = var[h]
                                            /\ freeing[h] \in live
                                            /\ RefsOf(h) = {}

(* The inductive invariant.  FreedByTheLast needs the count to be exact,    *)
(* which needs every reference to reach its object through its variable.    *)
ShareIInv == /\ ShareTypeOK
             /\ IsFiniteSet(refs)
             /\ RefsReachLiveMemory
             /\ CountExact
             /\ FreeingOwnsItsObject
             /\ FreedByTheLast

(* The references to an object are finitely many. *)
LEMMA RefsToCount ==
    ASSUME ShareIInv, NEW o, NEW r
    PROVE  /\ Cardinality(RefsTo(o)) \in Nat
           /\ r \notin RefsTo(o) => Cardinality(RefsTo(o) \cup {r}) = Cardinality(RefsTo(o)) + 1
           /\ r \in RefsTo(o) => Cardinality(RefsTo(o) \ {r}) = Cardinality(RefsTo(o)) - 1
           /\ RefsTo(o) = {} => Cardinality(RefsTo(o)) = 0
           /\ r \in RefsTo(o) => Cardinality(RefsTo(o)) > 0
<1>1. RefsTo(o) \in SUBSET refs /\ IsFiniteSet(refs)
  BY DEF RefsTo, ShareIInv
<1> QED BY <1>1, Count

(* What a thread with a reference knows of it. *)
LEMMA Reaches ==
    ASSUME ShareIInv, NEW r \in refs
    PROVE  /\ r.by \in Holders /\ r.to \in Objects /\ r.to # NULL
           /\ r.to \in live /\ var[r.by] = r.to
           /\ freeing[r.by] = NULL
<1>1. r \in Ref
  BY DEF ShareIInv, ShareTypeOK
<1>2. r.by \in Holders /\ r.to \in Objects
  BY <1>1 DEF Ref
<1>3. r.to \in live /\ var[r.by] = r.to
  BY DEF ShareIInv, RefsReachLiveMemory
<1>4. freeing[r.by] = NULL
  BY <1>2 DEF ShareIInv, FreeingOwnsItsObject, RefsOf
<1> QED BY <1>2, <1>3, <1>4, NullAssumption

(* Nothing is allocated at the start. *)
LEMMA ShareInitHolds == ShareInit => ShareIInv
<1> SUFFICES ASSUME ShareInit PROVE ShareIInv
  OBVIOUS
<1>1. IsFiniteSet({})
  BY FS_EmptySet
<1>2. IsFiniteSet(refs)
  BY <1>1 DEF ShareInit
<1>3. ShareTypeOK
  BY DEF ShareInit, ShareTypeOK
<1> QED
  BY <1>2, <1>3 DEF ShareInit, ShareIInv, RefsReachLiveMemory, CountExact,
     FreeingOwnsItsObject, FreedByTheLast

(* cpr_makeref gives its caller the only reference to fresh memory. *)
LEMMA MakeRefHolds ==
    ASSUME ShareIInv, NEW h \in Holders, MakeRef(h)
    PROVE  ShareIInv'
<1>1. PICK o \in Objects \ live :
          /\ live' = live \cup {o}
          /\ refcount' = [refcount EXCEPT ![o] = 1]
          /\ refs' = refs \cup {[by |-> h, to |-> o, nr |-> 1]}
          /\ var' = [var EXCEPT ![h] = o]
  BY DEF MakeRef
<1> DEFINE new == [by |-> h, to |-> o, nr |-> 1]
<1>2. freeing' = freeing /\ var[h] = NULL
  BY DEF MakeRef
<1>t. ShareTypeOK /\ o # NULL
  BY NullAssumption DEF ShareIInv
<1>3. /\ new \in Ref /\ new.by = h /\ new.to = o
  BY MaxRefsAssumption DEF Ref
<1>4. RefsOf(h) = {} /\ freeing[h] = NULL
  <2>1. RefsOf(h) = {}
    BY <1>2, Reaches DEF RefsOf
  <2>2. freeing[h] = NULL
    BY <1>2 DEF ShareIInv, FreeingOwnsItsObject
  <2> QED BY <2>1, <2>2
<1>5. \A r \in refs : r.to # o /\ r.by # h
  BY <1>4, Reaches DEF RefsOf
<1> HIDE DEF new
<1>6. refs' = refs \cup {new}
  BY <1>1 DEF new
<1>7. ShareTypeOK'
  <2>1. var' \in [Holders -> Objects \cup {NULL}] /\ live' \subseteq Objects
    BY <1>1, <1>t DEF ShareTypeOK
  <2>2. refcount' \in [Objects -> Int] /\ refs' \subseteq Ref
    BY <1>1, <1>3, <1>6, <1>t DEF ShareTypeOK
  <2> QED BY <1>2, <1>t, <2>1, <2>2 DEF ShareTypeOK
<1>8. IsFiniteSet(refs')
  BY <1>6, FS_AddElement DEF ShareIInv
<1>9. RefsReachLiveMemory'
  <2> SUFFICES ASSUME NEW r \in refs' PROVE r.to \in live' /\ var'[r.by] = r.to
    BY DEF RefsReachLiveMemory
  <2>1. CASE r \in refs
    BY <1>1, <1>5, <1>t, <2>1, Reaches DEF ShareTypeOK
  <2>2. CASE r = new
    BY <1>1, <1>3, <1>t, <2>2 DEF ShareTypeOK
  <2> QED BY <1>6, <2>1, <2>2
<1>10. RefsTo(o) = {} /\ RefsTo(o)' = {new}
  BY <1>3, <1>5, <1>6 DEF RefsTo
<1>11. \A p \in live : p # o /\ RefsTo(p)' = RefsTo(p) /\ refcount'[p] = refcount[p]
  BY <1>1, <1>3, <1>6, <1>t DEF RefsTo, ShareTypeOK
<1>12. CountExact'
  <2>1. refcount'[o] = 1
    BY <1>1, <1>t DEF ShareTypeOK
  <2>2. Cardinality({new}) = 1
    BY FS_Singleton
  <2>3. \A p \in live : refcount'[p] = Cardinality(RefsTo(p)')
    BY <1>11 DEF ShareIInv, CountExact
  <2>4. refcount'[o] = Cardinality(RefsTo(o)')
    BY <1>10, <2>1, <2>2
  <2> QED BY <1>1, <2>3, <2>4 DEF CountExact, RefsTo
<1>13. FreeingOwnsItsObject'
  <2> SUFFICES ASSUME NEW g \in Holders, freeing'[g] # NULL
               PROVE  freeing'[g] = var'[g] /\ freeing'[g] \in live' /\ RefsOf(g)' = {}
    BY DEF FreeingOwnsItsObject
  <2>1. g # h
    BY <1>2, <1>4
  <2>2. RefsOf(g)' = RefsOf(g)
    BY <1>3, <1>6, <2>1 DEF RefsOf
  <2> QED BY <1>1, <1>2, <1>t, <2>1, <2>2 DEF ShareIInv, FreeingOwnsItsObject, ShareTypeOK
<1>14. FreedByTheLast'
  <2>1. {g \in Holders : freeing'[g] = o} = {}
    BY <1>1, <1>2, <1>t DEF ShareIInv, FreeingOwnsItsObject
  <2>2. RefsTo(o)' # {}
    BY <1>10
  <2> QED BY <1>1, <1>2, <1>11, <2>1, <2>2 DEF ShareIInv, FreedByTheLast
<1> QED BY <1>7, <1>8, <1>9, <1>12, <1>13, <1>14 DEF ShareIInv

(* cpr_retain adds a reference to an object that has one. *)
LEMMA RetainHolds ==
    ASSUME ShareIInv, NEW h \in Holders, NEW g \in Holders, Retain(h, g)
    PROVE  ShareIInv'
<1>0. PICK o : o = var[h]
  OBVIOUS
<1>1. PICK old \in refs : old.by = h
  BY DEF Retain, RefsOf
<1>2. o \in Objects /\ o \in live /\ old.to = o /\ freeing[h] = NULL
  BY <1>0, <1>1, Reaches
<1>3. PICK n \in 1 .. MaxRefs :
          /\ [by |-> g, to |-> o, nr |-> n] \notin refs
          /\ refs' = refs \cup {[by |-> g, to |-> o, nr |-> n]}
  BY <1>0 DEF Retain
<1> DEFINE new == [by |-> g, to |-> o, nr |-> n]
<1>4. /\ refcount' = [refcount EXCEPT ![o] = refcount[o] + 1]
      /\ var' = [var EXCEPT ![g] = o]
      /\ live' = live /\ freeing' = freeing
  BY <1>0 DEF Retain, CountAfterRetain
<1>5. new \in Ref /\ new.by = g /\ new.to = o
  BY <1>2 DEF Ref
<1>6. freeing[g] = NULL /\ \A r \in refs : r.by = g => r.to = o
  <2>1. CASE g = h
    BY <1>0, <1>2, <2>1, Reaches
  <2>2. CASE RefsOf(g) = {} /\ freeing[g] = NULL
    BY <2>2 DEF RefsOf
  <2> QED BY <2>1, <2>2 DEF Retain
<1>t. ShareTypeOK
  BY DEF ShareIInv
<1> HIDE DEF new
<1>7. refs' = refs \cup {new} /\ new \notin refs
  BY <1>3 DEF new
<1>8. ShareTypeOK'
  <2>0. refcount \in [Objects -> Int]
    BY <1>t DEF ShareTypeOK
  <2>1. refcount[o] + 1 \in Int
    BY <1>2, <2>0
  <2>2. refcount' \in [Objects -> Int]
    BY <1>4, <2>0, <2>1, Zenon
  <2>3. var' \in [Holders -> Objects \cup {NULL}] /\ refs' \subseteq Ref
    BY <1>2, <1>4, <1>5, <1>7, <1>t DEF ShareTypeOK
  <2> QED BY <1>4, <1>t, <2>2, <2>3 DEF ShareTypeOK
<1>9. IsFiniteSet(refs')
  BY <1>7, FS_AddElement DEF ShareIInv
<1>10. RefsReachLiveMemory'
  <2> SUFFICES ASSUME NEW r \in refs' PROVE r.to \in live' /\ var'[r.by] = r.to
    BY DEF RefsReachLiveMemory
  <2>1. CASE r \in refs
    BY <1>4, <1>6, <1>t, <2>1, Reaches DEF ShareTypeOK
  <2>2. CASE r = new
    BY <1>2, <1>4, <1>5, <1>t, <2>2 DEF ShareTypeOK
  <2> QED BY <1>7, <2>1, <2>2
<1>11. RefsTo(o)' = RefsTo(o) \cup {new} /\ new \notin RefsTo(o)
  BY <1>5, <1>7 DEF RefsTo
<1>12. \A p \in live \ {o} : RefsTo(p)' = RefsTo(p) /\ refcount'[p] = refcount[p]
  BY <1>4, <1>5, <1>7, <1>t DEF RefsTo, ShareTypeOK
<1>13. CountExact'
  <2>1. refcount'[o] = refcount[o] + 1
    BY <1>2, <1>4, <1>t DEF ShareTypeOK
  <2>2. Cardinality(RefsTo(o)') = Cardinality(RefsTo(o)) + 1
    BY <1>11, RefsToCount
  <2>3. refcount'[o] = Cardinality(RefsTo(o)')
    BY <1>2, <2>1, <2>2 DEF ShareIInv, CountExact
  <2>4. \A p \in live \ {o} : refcount'[p] = Cardinality(RefsTo(p)')
    BY <1>12 DEF ShareIInv, CountExact
  <2> QED BY <1>4, <2>3, <2>4 DEF CountExact, RefsTo
<1>14. FreeingOwnsItsObject'
  <2> SUFFICES ASSUME NEW k \in Holders, freeing'[k] # NULL
               PROVE  freeing'[k] = var'[k] /\ freeing'[k] \in live' /\ RefsOf(k)' = {}
    BY DEF FreeingOwnsItsObject
  <2>1. k # g
    BY <1>4, <1>6
  <2>2. RefsOf(k)' = RefsOf(k)
    BY <1>5, <1>7, <2>1 DEF RefsOf
  <2> QED BY <1>4, <1>t, <2>1, <2>2 DEF ShareIInv, FreeingOwnsItsObject, ShareTypeOK
<1>15. FreedByTheLast'
  <2>1. RefsTo(o) # {} /\ RefsTo(o)' # {}
    BY <1>1, <1>2, <1>11 DEF RefsTo
  <2> QED BY <1>4, <1>12, <2>1 DEF ShareIInv, FreedByTheLast
<1> QED BY <1>8, <1>9, <1>10, <1>13, <1>14, <1>15 DEF ShareIInv

(* The atomic_fetch_sub of cpr_release: the count says whether it was the   *)
(* last reference, and only then does the thread go on to free.             *)
LEMMA ReleaseHolds ==
    ASSUME ShareIInv, NEW h \in Holders, ReleaseRef(h)
    PROVE  ShareIInv'
<1>0. PICK o : o = var[h]
  OBVIOUS
<1>1. PICK old \in refs : old.by = h /\ refs' = refs \ {old}
  BY DEF ReleaseRef, RefsOf
<1>2. o \in Objects /\ o \in live /\ old.to = o /\ o # NULL
  BY <1>0, <1>1, Reaches
<1>3. /\ refcount' = [refcount EXCEPT ![o] = refcount[o] - 1]
      /\ freeing[h] = NULL
      /\ freeing' = [freeing EXCEPT ![h] = IF refcount[o] = 1 THEN o ELSE NULL]
      /\ var' = var /\ live' = live
  BY <1>0 DEF ReleaseRef, LastReference
<1>t. ShareTypeOK
  BY DEF ShareIInv
<1>4. ShareTypeOK'
  <2>0. refcount \in [Objects -> Int]
    BY <1>t DEF ShareTypeOK
  <2>1. refcount[o] - 1 \in Int
    BY <1>2, <2>0
  <2>2. refcount' \in [Objects -> Int]
    BY <1>3, <2>0, <2>1, Zenon
  <2>3. freeing' \in [Holders -> Objects \cup {NULL}] /\ refs' \subseteq Ref
    BY <1>1, <1>2, <1>3, <1>t DEF ShareTypeOK
  <2> QED BY <1>3, <1>t, <2>2, <2>3 DEF ShareTypeOK
<1>5. IsFiniteSet(refs')
  BY <1>1, FS_RemoveElement DEF ShareIInv
<1>6. RefsReachLiveMemory'
  BY <1>1, <1>3 DEF ShareIInv, RefsReachLiveMemory
<1>7. RefsTo(o)' = RefsTo(o) \ {old} /\ old \in RefsTo(o)
  BY <1>1, <1>2 DEF RefsTo
<1>8. \A p \in live \ {o} : RefsTo(p)' = RefsTo(p) /\ refcount'[p] = refcount[p]
  BY <1>1, <1>2, <1>3, <1>t DEF RefsTo, ShareTypeOK
<1>9. /\ refcount[o] = Cardinality(RefsTo(o)) /\ Cardinality(RefsTo(o)) \in Nat
      /\ Cardinality(RefsTo(o)') = Cardinality(RefsTo(o)) - 1
  BY <1>2, <1>7, RefsToCount DEF ShareIInv, CountExact
<1>10. refcount[o] = 1 <=> RefsTo(o)' = {}
  <2>1. RefsTo(o)' = {} <=> Cardinality(RefsTo(o)') = 0
    <3>1. IsFiniteSet(RefsTo(o)')
      BY <1>5, FS_Subset DEF RefsTo
    <3> QED BY <3>1, FS_EmptySet
  <2> QED BY <1>9, <2>1
<1>11. CountExact'
  <2>1. refcount'[o] = refcount[o] - 1
    BY <1>2, <1>3, <1>t DEF ShareTypeOK
  <2>2. refcount'[o] = Cardinality(RefsTo(o)')
    BY <1>9, <2>1
  <2>3. \A p \in live \ {o} : refcount'[p] = Cardinality(RefsTo(p)')
    BY <1>8 DEF ShareIInv, CountExact
  <2> QED BY <1>3, <2>2, <2>3 DEF CountExact, RefsTo
<1>12. FreeingOwnsItsObject'
  <2> SUFFICES ASSUME NEW k \in Holders, freeing'[k] # NULL
               PROVE  freeing'[k] = var'[k] /\ freeing'[k] \in live' /\ RefsOf(k)' = {}
    BY DEF FreeingOwnsItsObject
  <2>1. CASE k = h
    <3>1. refcount[o] = 1 /\ freeing'[k] = o
      BY <1>3, <1>t, <2>1 DEF ShareTypeOK
    <3>2. RefsOf(h)' \subseteq RefsTo(o)'
      BY <1>0, <1>1, Reaches DEF RefsOf, RefsTo
    <3> QED BY <1>0, <1>2, <1>3, <1>10, <2>1, <3>1, <3>2
  <2>2. CASE k # h
    <3>1. freeing'[k] = freeing[k]
      BY <1>3, <1>t, <2>2 DEF ShareTypeOK
    <3>2. RefsOf(k)' \subseteq RefsOf(k)
      BY <1>1 DEF RefsOf
    <3> QED BY <1>3, <3>1, <3>2 DEF ShareIInv, FreeingOwnsItsObject
  <2> QED BY <2>1, <2>2
<1>13. FreedByTheLast'
  <2>1. \A k \in Holders : freeing[k] # o
    BY <1>2, <1>7 DEF ShareIInv, FreedByTheLast
  <2>2. \A k \in Holders : freeing'[k] = o <=> (k = h /\ refcount[o] = 1)
    BY <1>2, <1>3, <1>t, <2>1 DEF ShareTypeOK
  <2>3. \A p \in live \ {o} : \A k \in Holders : freeing'[k] = p <=> freeing[k] = p
    <3> SUFFICES ASSUME NEW p \in live \ {o}, NEW k \in Holders
                 PROVE  freeing'[k] = p <=> freeing[k] = p
      OBVIOUS
    <3>1. p # NULL
      BY <1>t, NullAssumption DEF ShareTypeOK
    <3> QED BY <1>3, <1>t, <3>1 DEF ShareTypeOK
  <2> SUFFICES ASSUME NEW p \in live
               PROVE  /\ RefsTo(p)' = {} <=> {k \in Holders : freeing'[k] = p} # {}
                      /\ \A j, k \in {k \in Holders : freeing'[k] = p} : j = k
    BY <1>3 DEF FreedByTheLast
  <2>4. CASE p = o
    BY <1>10, <2>2, <2>4
  <2>5. CASE p # o
    <3>1. {k \in Holders : freeing'[k] = p} = {k \in Holders : freeing[k] = p}
      BY <2>3, <2>5
    <3> QED BY <1>8, <2>5, <3>1 DEF ShareIInv, FreedByTheLast
  <2> QED BY <2>4, <2>5
<1> QED BY <1>4, <1>5, <1>6, <1>11, <1>12, <1>13 DEF ShareIInv

(* The free of cpr_release: nobody else is about to free that memory, and   *)
(* nobody has a reference to it.                                            *)
LEMMA ReleaseFreeHolds ==
    ASSUME ShareIInv, NEW h \in Holders, ReleaseFree(h)
    PROVE  ShareIInv'
<1>0. PICK o : o = freeing[h]
  OBVIOUS
<1>1. /\ o # NULL /\ live' = live \ {o}
      /\ var' = [var EXCEPT ![h] = NULL]
      /\ freeing' = [freeing EXCEPT ![h] = NULL]
      /\ refcount' = refcount /\ refs' = refs
  BY <1>0 DEF ReleaseFree
<1>t. ShareTypeOK
  BY DEF ShareIInv
<1>2. o \in live /\ var[h] = o /\ RefsOf(h) = {}
  BY <1>0, <1>1 DEF ShareIInv, FreeingOwnsItsObject
<1>3. RefsTo(o) = {} /\ \A g \in Holders : freeing[g] = o => g = h
  BY <1>0, <1>2 DEF ShareIInv, FreedByTheLast
<1>4. ShareTypeOK'
  BY <1>1, <1>t DEF ShareTypeOK
<1>5. IsFiniteSet(refs')
  BY <1>1 DEF ShareIInv
<1>6. RefsReachLiveMemory'
  <2> SUFFICES ASSUME NEW r \in refs PROVE r.to \in live' /\ var'[r.by] = r.to
    BY <1>1 DEF RefsReachLiveMemory
  <2>1. r.by # h /\ r.to # o
    BY <1>2, <1>3 DEF RefsOf, RefsTo
  <2> QED BY <1>1, <1>t, <2>1, Reaches DEF ShareTypeOK
<1>7. \A p : RefsTo(p)' = RefsTo(p) /\ RefsOf(p)' = RefsOf(p)
  BY <1>1 DEF RefsTo, RefsOf
<1>8. CountExact'
  BY <1>1, <1>7 DEF ShareIInv, CountExact
<1>9. FreeingOwnsItsObject'
  <2> SUFFICES ASSUME NEW k \in Holders, freeing'[k] # NULL
               PROVE  freeing'[k] = var'[k] /\ freeing'[k] \in live' /\ RefsOf(k)' = {}
    BY DEF FreeingOwnsItsObject
  <2>1. k # h /\ freeing'[k] = freeing[k] /\ var'[k] = var[k]
    BY <1>1, <1>t DEF ShareTypeOK
  <2> QED BY <1>1, <1>3, <1>7, <2>1 DEF ShareIInv, FreeingOwnsItsObject
<1>10. FreedByTheLast'
  <2> SUFFICES ASSUME NEW p \in live'
               PROVE  /\ RefsTo(p)' = {} <=> {k \in Holders : freeing'[k] = p} # {}
                      /\ \A j, k \in {k \in Holders : freeing'[k] = p} : j = k
    BY DEF FreedByTheLast
  <2>1. p \in live /\ p # o /\ p # NULL
    BY <1>1, <1>t, NullAssumption DEF ShareTypeOK
  <2>2. {k \in Holders : freeing'[k] = p} = {k \in Holders : freeing[k] = p}
    BY <1>0, <1>1, <1>t, <2>1 DEF ShareTypeOK
  <2> QED BY <1>7, <2>1, <2>2 DEF ShareIInv, FreedByTheLast
<1> QED BY <1>4, <1>5, <1>6, <1>8, <1>9, <1>10 DEF ShareIInv

(* A pointer cleared by a caller who has no reference. *)
LEMMA ForgetHolds ==
    ASSUME ShareIInv, NEW h \in Holders, Forget(h)
    PROVE  ShareIInv'
<1>1. /\ RefsOf(h) = {} /\ freeing[h] = NULL
      /\ var' = [var EXCEPT ![h] = NULL]
      /\ live' = live /\ refcount' = refcount /\ refs' = refs /\ freeing' = freeing
  BY DEF Forget
<1>2. ShareTypeOK'
  BY <1>1 DEF ShareIInv, ShareTypeOK
<1>3. RefsReachLiveMemory'
  BY <1>1 DEF ShareIInv, RefsReachLiveMemory, RefsOf, ShareTypeOK
<1>4. CountExact' /\ FreedByTheLast'
  BY <1>1 DEF ShareIInv, CountExact, FreedByTheLast, RefsTo
<1>5. FreeingOwnsItsObject'
  BY <1>1 DEF ShareIInv, FreeingOwnsItsObject, RefsOf, ShareTypeOK
<1> QED BY <1>1, <1>2, <1>3, <1>4, <1>5 DEF ShareIInv

(* Every step keeps the inductive invariant. *)
LEMMA ShareNextHolds == ShareIInv /\ [ShareNext]_shareVars => ShareIInv'
<1> SUFFICES ASSUME ShareIInv, [ShareNext]_shareVars PROVE ShareIInv'
  OBVIOUS
<1>1. ASSUME NEW h \in Holders, MakeRef(h) PROVE ShareIInv'
  BY <1>1, MakeRefHolds
<1>2. ASSUME NEW h \in Holders, ReleaseRef(h) PROVE ShareIInv'
  BY <1>2, ReleaseHolds
<1>3. ASSUME NEW h \in Holders, ReleaseFree(h) PROVE ShareIInv'
  BY <1>3, ReleaseFreeHolds
<1>4. ASSUME NEW h \in Holders, Forget(h) PROVE ShareIInv'
  BY <1>4, ForgetHolds
<1>5. ASSUME NEW h \in Holders, NEW g \in Holders, Retain(h, g) PROVE ShareIInv'
  BY <1>5, RetainHolds
<1>6. CASE UNCHANGED shareVars
  BY <1>6 DEF shareVars, ShareIInv, ShareTypeOK, RefsReachLiveMemory, CountExact,
              FreeingOwnsItsObject, FreedByTheLast, RefsTo, RefsOf
<1> QED BY <1>1, <1>2, <1>3, <1>4, <1>5, <1>6 DEF ShareNext

(* However many threads retain and release at the same time: a reference     *)
(* reaches allocated memory, cpr_count tells the truth, and the memory is     *)
(* freed by exactly one of those who let go of it last.                       *)
THEOREM ShareSafety ==
    ShareSpec => [](ShareTypeOK /\ RefsReachLiveMemory /\ FreedByTheLast /\ CountExact)
<1>1. ShareIInv => ShareTypeOK /\ RefsReachLiveMemory /\ FreedByTheLast /\ CountExact
  BY DEF ShareIInv
<1> QED BY <1>1, ShareInitHolds, ShareNextHolds, PTL DEF ShareSpec

-----------------------------------------------------------------------------
(****************************************************************************)
(* Events: any number of setters and waiters.                               *)
(****************************************************************************)

(* Where a thread may be in its call. *)
FreeAt   == {"free", "close1", "close0", "mark", "gone"}
SetterAt == {"idle", "write"} \cup FreeAt
WaiterAt == {"idle", "look", "poll", "deaf", "ready", "read"} \cup FreeAt

Fd == {"open", "closed", "unset"}

(* The descriptors, the counter of the kernel and the places of the threads. *)
EventTypeOK == /\ pipe \in BOOLEAN /\ rfd \in Fd /\ wfd \in Fd
               /\ counter \in 0 .. Capacity
               /\ DOMAIN at = User
               /\ \A s \in Setters : at[s] \in SetterAt
               /\ \A w \in Waiters : at[w] \in WaiterAt

(* What destroys an event, other than a read that finds nothing. *)
Reasons == {"full", "interrupted", "asked"}

(* With one waiter the descriptors are closed, and a thread is about to      *)
(* close them, only for one of these reasons.                                *)
ClosedForAReason ==
    Cardinality(Waiters) = 1 =>
        \/ causes \cap Reasons # {}
        \/ /\ rfd = "open" /\ wfd = "open"
           /\ \A u \in User : at[u] \notin {"free", "close1", "close0", "mark"}

(* What a lone waiter saw in its poll is still there when it reads, or the   *)
(* descriptor is not.                                                        *)
ReadyIsReady ==
    \A w \in Waiters : Waiters = {w} /\ at[w] \in {"ready", "read"} => PollReady \/ rfd # "open"

(* The inductive invariant: SoleWaiterNeverRaces needs to know what the lone  *)
(* waiter's poll has seen, and why a descriptor is closed.                    *)
EventIInv == EventTypeOK /\ ClosedForAReason /\ ReadyIsReady /\ SoleWaiterNeverRaces

(* A lone waiter is the only one. *)
LEMMA SoleWaiter == Cardinality(Waiters) = 1 /\ IsFiniteSet(Waiters) => \E w : Waiters = {w}
BY FS_Singleton

(* cpr_initevt *)
LEMMA EventInitHolds == EventInit => EventIInv
BY EventAssumption DEF EventInit, EventIInv, EventTypeOK, ClosedForAReason, ReadyIsReady, SoleWaiterNeverRaces,
       User, SetterAt, WaiterAt, Fd

(* A call of cpr_freeevt has a reason of its own, or comes after one. *)
LEMMA DestroyHolds ==
    ASSUME EventIInv, NEW u \in User, NEW why, Destroy(u, why),
           Cardinality(Waiters) = 1 => why \in Reasons \/ (why = "closed" /\ causes \cap Reasons # {})
    PROVE  EventIInv'
<1>1. EventTypeOK'
  BY DEF Destroy, Goto, EventIInv, EventTypeOK, User, SetterAt, WaiterAt, FreeAt
<1>2. Cardinality(Waiters) = 1 => causes' \cap Reasons # {} /\ "raced" \notin causes'
  BY DEF Destroy, EventIInv, SoleWaiterNeverRaces, Reasons
<1>3. SoleWaiterNeverRaces' /\ ClosedForAReason'
  BY <1>2 DEF SoleWaiterNeverRaces, ClosedForAReason, Reasons
<1>4. ReadyIsReady'
  BY DEF Destroy, Goto, EventIInv, EventTypeOK, User, ReadyIsReady, PollReady
<1> QED BY <1>1, <1>3, <1>4 DEF EventIInv

(* A step that only moves u, and to no place in the middle of a free. *)
LEMMA MoveHolds ==
    ASSUME EventIInv, NEW u \in User, NEW label, Goto(u, label),
           UNCHANGED <<pipe, rfd, wfd, counter, causes>>,
           u \in Setters => label \in {"idle", "write", "gone"},
           u \in Waiters => label \in {"idle", "look", "poll", "deaf", "ready", "read", "gone"},
           label \in {"ready", "read"} => PollReady \/ rfd # "open"
    PROVE  EventIInv'
<1>0. Setters \cap Waiters = {}
  BY EventAssumption
<1>1. EventTypeOK'
  BY DEF Goto, EventIInv, EventTypeOK, User, SetterAt, WaiterAt, FreeAt
<1>2. ClosedForAReason'
  BY DEF Goto, EventIInv, EventTypeOK, User, ClosedForAReason
<1>3. ReadyIsReady'
  BY DEF Goto, EventIInv, EventTypeOK, User, ReadyIsReady, PollReady
<1> QED BY <1>1, <1>2, <1>3 DEF EventIInv, SoleWaiterNeverRaces

(* What is closed was closed for a reason. *)
LEMMA Closing ==
    ASSUME EventIInv, rfd # "open" \/ wfd # "open", Cardinality(Waiters) = 1
    PROVE  causes \cap Reasons # {}
BY DEF EventIInv, ClosedForAReason

(* The steps of cpr_freeevt. *)
LEMMA FreeHolds ==
    ASSUME EventIInv, NEW u \in User, FreeStep(u)
    PROVE  EventIInv'
<1>1. /\ UNCHANGED <<pipe, counter, causes>> /\ rfd' \in Fd /\ wfd' \in Fd
      /\ rfd # "open" => rfd' # "open"
      /\ wfd # "open" => wfd' # "open"
      /\ \E label \in FreeAt : Goto(u, label)
      /\ at[u] \in {"free", "close1", "close0", "mark"}
  BY DEF FreeStep, FreeTest, FreeWriter, FreeReader, FreeMark, Closed, FreeAt, Fd, EventIInv, EventTypeOK
<1>2. EventTypeOK'
  BY <1>1 DEF Goto, EventIInv, EventTypeOK, User, SetterAt, WaiterAt
<1>3. ClosedForAReason'
  BY <1>1 DEF EventIInv, ClosedForAReason
<1>4. ReadyIsReady'
  BY <1>1 DEF Goto, EventIInv, EventTypeOK, User, ReadyIsReady, PollReady, FreeAt
<1> QED BY <1>1, <1>2, <1>3, <1>4 DEF EventIInv, SoleWaiterNeverRaces

(* The read of cpr_clearevt. *)
LEMMA ReadHolds ==
    ASSUME EventIInv, NEW w \in Waiters, ClearRead(w)
    PROVE  EventIInv'
<1>0. counter \in Nat /\ counter <= Capacity /\ Capacity \in Nat /\ Chunk \in Nat /\ w \in User
  BY EventAssumption DEF EventIInv, EventTypeOK, User
<1>1. CASE /\ counter' = AfterRead /\ Goto(w, "idle") /\ UNCHANGED <<pipe, rfd, wfd, causes>>
  <2>1. counter' \in 0 .. Capacity
    BY <1>0, <1>1 DEF AfterRead, Smaller
  <2>2. EventTypeOK'
    BY <1>0, <1>1, <2>1, EventAssumption DEF Goto, EventIInv, EventTypeOK, User, SetterAt, WaiterAt
  <2>3. ClosedForAReason'
    BY <1>0, <1>1 DEF Goto, EventIInv, EventTypeOK, User, ClosedForAReason
  <2>4. \A v \in Waiters : Waiters = {v} => at'[v] = "idle"
    BY <1>0, <1>1 DEF Goto, EventIInv, EventTypeOK
  <2> QED BY <1>1, <2>2, <2>3, <2>4 DEF EventIInv, ReadyIsReady, SoleWaiterNeverRaces
<1>2. CASE rfd = "open" /\ ~PollReady /\ Destroy(w, "raced")
  <2>1. ASSUME Cardinality(Waiters) = 1 PROVE FALSE
    <3>1. PICK v : Waiters = {v}
      BY <2>1, SoleWaiter, EventAssumption
    <3>2. v = w
      BY <3>1
    <3> QED BY <1>2, <3>1, <3>2 DEF ClearRead, EventIInv, ReadyIsReady
  <2> QED BY <1>0, <1>2, <2>1, DestroyHolds
<1>3. CASE rfd # "open" /\ Destroy(w, "closed")
  BY <1>0, <1>3, Closing, DestroyHolds
<1> QED BY <1>1, <1>2, <1>3 DEF ClearRead

(* Each step keeps the invariant. *)
LEMMA EventNextHolds == EventIInv /\ [EventNext]_eventVars => EventIInv'
<1> SUFFICES ASSUME EventIInv, [EventNext]_eventVars PROVE EventIInv'
  OBVIOUS
<1>0. /\ counter \in Nat /\ counter <= Capacity /\ Capacity \in Nat
      /\ Setters \cap Waiters = {} /\ Setters \subseteq User /\ Waiters \subseteq User
  BY EventAssumption DEF EventIInv, EventTypeOK, User
<1>1. ASSUME NEW s \in Setters, SetCall(s) PROVE EventIInv'
  <2>1. PICK label \in {"write", "gone"} : Goto(s, label) /\ UNCHANGED <<pipe, rfd, wfd, counter, causes>>
    BY <1>1 DEF SetCall, Enter
  <2> QED BY <1>0, <2>1, MoveHolds
<1>2. ASSUME NEW s \in Setters, SetWrite(s) PROVE EventIInv'
  <2>1. CASE /\ counter < Capacity /\ counter' = counter + 1
             /\ Goto(s, "idle") /\ UNCHANGED <<pipe, rfd, wfd, causes>>
    <3>1. EventTypeOK'
      BY <1>0, <2>1 DEF Goto, EventIInv, EventTypeOK, User, SetterAt, WaiterAt
    <3>2. ClosedForAReason'
      BY <1>0, <2>1 DEF Goto, EventIInv, EventTypeOK, User, ClosedForAReason
    <3>3. ReadyIsReady'
      BY <1>0, <2>1 DEF Goto, EventIInv, EventTypeOK, User, ReadyIsReady, PollReady
    <3> QED BY <2>1, <3>1, <3>2, <3>3 DEF EventIInv, SoleWaiterNeverRaces
  <2>2. CASE Destroy(s, "full")
    BY <1>0, <2>2, DestroyHolds DEF Reasons
  <2>3. CASE wfd # "open" /\ Destroy(s, "closed")
    BY <1>0, <2>3, Closing, DestroyHolds
  <2> QED BY <1>2, <2>1, <2>2, <2>3 DEF SetWrite
<1>3. ASSUME NEW w \in Waiters, WaitCall(w) PROVE EventIInv'
  <2>1. PICK label \in {"look", "gone"} : Goto(w, label) /\ UNCHANGED <<pipe, rfd, wfd, counter, causes>>
    BY <1>3 DEF WaitCall, Enter
  <2> QED BY <1>0, <2>1, MoveHolds
<1>4. ASSUME NEW w \in Waiters, PollStart(w) PROVE EventIInv'
  <2>1. PICK label \in {"poll", "deaf", "ready"} :
           Goto(w, label) /\ UNCHANGED <<pipe, rfd, wfd, counter, causes>> /\ (label = "ready" => rfd # "open")
    <3>1. rfd \in Fd
      BY DEF EventIInv, EventTypeOK
    <3> QED BY <1>4, <3>1 DEF PollStart, AfterPoll, Fd
  <2> QED BY <1>0, <2>1, MoveHolds
<1>5. ASSUME NEW w \in Waiters, PollEvent(w) PROVE EventIInv'
  <2>1. Goto(w, "ready") /\ UNCHANGED <<pipe, rfd, wfd, counter, causes>> /\ PollReady
    BY <1>5 DEF PollEvent, AfterPoll
  <2> QED BY <1>0, <2>1, MoveHolds
<1>6. ASSUME NEW w \in Waiters, PollTimeout(w) PROVE EventIInv'
  <2>1. Goto(w, "idle") /\ UNCHANGED <<pipe, rfd, wfd, counter, causes>>
    BY <1>6 DEF PollTimeout, AfterPoll
  <2> QED BY <1>0, <2>1, MoveHolds
<1>7. ASSUME NEW w \in Waiters, PollInterrupted(w) PROVE EventIInv'
  BY <1>0, <1>7, DestroyHolds DEF PollInterrupted, Reasons
<1>8. ASSUME NEW w \in Waiters, ClearCall(w) PROVE EventIInv'
  <2>1. PICK label \in {"read", "gone"} :
           Goto(w, label) /\ UNCHANGED <<pipe, rfd, wfd, counter, causes>> /\ at[w] = "ready"
    BY <1>8 DEF ClearCall, Enter
  <2>2. EventTypeOK'
    BY <1>0, <2>1 DEF Goto, EventIInv, EventTypeOK, User, SetterAt, WaiterAt, FreeAt
  <2>3. ClosedForAReason'
    BY <1>0, <2>1 DEF Goto, EventIInv, EventTypeOK, User, ClosedForAReason
  <2>4. ReadyIsReady'
    BY <1>0, <2>1 DEF Goto, EventIInv, EventTypeOK, User, ReadyIsReady, PollReady
  <2> QED BY <2>1, <2>2, <2>3, <2>4 DEF EventIInv, SoleWaiterNeverRaces
<1>9. ASSUME NEW u \in User, FreeCall(u) PROVE EventIInv'
  BY <1>9, DestroyHolds DEF FreeCall, Reasons
<1>10. CASE UNCHANGED eventVars
  BY <1>10 DEF eventVars, EventIInv, EventTypeOK, ClosedForAReason, ReadyIsReady, PollReady,
               SoleWaiterNeverRaces
<1> QED
  BY <1>1, <1>2, <1>3, <1>4, <1>5, <1>6, <1>7, <1>8, <1>9, <1>10, ReadHolds, FreeHolds DEF EventNext

(* A single waiter never finds the event empty, and no call meets a closed   *)
(* descriptor before there was a reason to close it.                         *)
THEOREM EventSafety == EventSpec => [](EventTypeOK /\ SoleWaiterNeverRaces)
<1>1. EventSpec => []EventIInv
  BY EventInitHolds, EventNextHolds, PTL DEF EventSpec
<1>2. EventIInv => EventTypeOK /\ SoleWaiterNeverRaces
  BY DEF EventIInv
<1> QED BY <1>1, <1>2, PTL

-----------------------------------------------------------------------------
(****************************************************************************)
(* The log: any number of threads and calls.                                *)
(****************************************************************************)

(* The parts of a line, and where a thread may be. *)
Parts == {"prefix", "text", "newline", "last text", "last newline"}
Jobs  == Parts \cup {"idle", "lock", "unlock", "shutdown", "quick_exit"}

(* The mutex, the places of the threads and what has been written. *)
ServiceTypeOK == /\ mtx \in Loggers \cup {Nobody}
                 /\ job \in [Loggers -> Jobs]
                 /\ printed \in Seq([by : Loggers, part : Parts])

(* The threads between lock and unlock are the mutex's one holder. *)
InsideIsHolder ==
    \A t \in Loggers : job[t] \in {"prefix", "text", "newline", "unlock"} <=> mtx = t

(* Record i of a log is the last one of cpr_logger. *)
LastOfLine(log, i) == OfLine(log, i) /\ \A k \in DOMAIN log : k > i => ~OfLine(log, k)

(* The holder t has come to the part after part: that one, its own, is the   *)
(* last that cpr_logger wrote.                                               *)
Wrote(log, t, part) == \E i \in DOMAIN log : LastOfLine(log, i) /\ log[i] = [by |-> t, part |-> part]

(* What cpr_logger wrote ends with the line as far as its writer has come,   *)
(* and with the end of a line when nobody is in one.                         *)
EndsWithWriter ==
    /\ (\A t \in Loggers : job[t] \notin {"text", "newline"}) =>
          \A i \in DOMAIN printed : LastOfLine(printed, i) => printed[i].part = "newline"
    /\ \A t \in Loggers : /\ job[t] = "text" => Wrote(printed, t, "prefix")
                          /\ job[t] = "newline" => Wrote(printed, t, "text")

(* The inductive invariant: a line stays whole because the records of         *)
(* cpr_logger end where the one thread between lock and unlock has come to.    *)
ServiceIInv == ServiceTypeOK /\ InsideIsHolder /\ EndsWithWriter /\ LinesWhole

(* Nothing is written and nobody has the mutex. *)
LEMMA ServiceInitHolds == ServiceInit => ServiceIInv
<1> SUFFICES ASSUME ServiceInit PROVE ServiceIInv
  OBVIOUS
<1>1. ServiceTypeOK /\ DOMAIN printed = {}
  BY DEF ServiceInit, ServiceTypeOK, Jobs
<1>2. InsideIsHolder
  BY ServiceAssumption DEF ServiceInit, InsideIsHolder
<1>3. EndsWithWriter /\ LinesWhole
  BY <1>1 DEF ServiceInit, EndsWithWriter, LinesWhole
<1> QED BY <1>1, <1>2, <1>3 DEF ServiceIInv

(* A step that writes nothing and moves one thread between places that are   *)
(* not in the middle of a line.                                              *)
LEMMA QuietHolds ==
    ASSUME ServiceIInv, ServiceTypeOK', InsideIsHolder', printed' = printed,
           \A t \in Loggers : \/ job'[t] = job[t]
                              \/ /\ job[t] \notin {"text", "newline"}
                                 /\ job'[t] \notin {"text", "newline"}
    PROVE  ServiceIInv'
<1>3. EndsWithWriter'
  BY DEF ServiceIInv, EndsWithWriter
<1>4. LinesWhole'
  BY DEF ServiceIInv, LinesWhole
<1> QED BY <1>3, <1>4 DEF ServiceIInv

(* new is log with the record r at n: what was the last of cpr_logger is now *)
(* before it.                                                                *)
OneMore(log, r, new, n) ==
    /\ n \in Nat /\ DOMAIN log = 1 .. n - 1 /\ DOMAIN new = DOMAIN log \cup {n}
    /\ new[n] = r
    /\ \A i \in DOMAIN log : new[i] = log[i]
    /\ \A i, j \in DOMAIN log : Before(new, j, i) <=> Before(log, j, i)
    /\ \A j \in DOMAIN log : Before(new, j, n) <=> LastOfLine(log, j)
    /\ \A i \in DOMAIN new : ~Before(new, n, i)
    /\ IF r.part \in {"prefix", "text", "newline"}
       THEN \A i \in DOMAIN new : LastOfLine(new, i) <=> i = n
       ELSE \A i \in DOMAIN new : LastOfLine(new, i) <=> i # n /\ LastOfLine(log, i)

(* Append adds a record at the end. *)
LEMMA AppendOne ==
    ASSUME NEW R, NEW log \in Seq(R), NEW r \in R
    PROVE  OneMore(log, r, Append(log, r), Len(log) + 1)
<1> DEFINE new == Append(log, r)
           n == Len(log) + 1
<1>1. /\ n \in Nat /\ n >= 1 /\ DOMAIN log = 1 .. n - 1 /\ DOMAIN new = 1 .. n
      /\ new[n] = r
      /\ \A i \in DOMAIN log : new[i] = log[i]
  OBVIOUS
<1> HIDE DEF new, n
<1>2. DOMAIN new = DOMAIN log \cup {n} /\ n \notin DOMAIN log
  BY <1>1
<1>3. \A i \in DOMAIN log : OfLine(new, i) <=> OfLine(log, i)
  BY <1>1, <1>2 DEF OfLine
<1>4. ASSUME NEW i \in DOMAIN log, NEW j \in DOMAIN log PROVE Before(new, j, i) <=> Before(log, j, i)
  <2>1. j \in Nat /\ i \in Nat /\ i <= n - 1
    BY <1>1
  <2>2. \A k \in j + 1 .. i - 1 : k \in DOMAIN log
    BY <1>1, <2>1
  <2> QED BY <1>3, <2>2 DEF Before
<1>5. ASSUME NEW j \in DOMAIN log PROVE Before(new, j, n) <=> LastOfLine(log, j)
  <2>1. j \in Nat /\ j < n
    BY <1>1
  <2>2. \A k : k \in j + 1 .. n - 1 <=> k \in DOMAIN log /\ k > j
    BY <1>1, <2>1
  <2> QED BY <1>3, <2>1, <2>2 DEF Before, LastOfLine
<1>6. \A i \in DOMAIN new : ~Before(new, n, i)
  BY <1>1 DEF Before
<1>7. OfLine(new, n) <=> r.part \in {"prefix", "text", "newline"}
  BY <1>1, <1>2 DEF OfLine
<1>8. OfLine(new, n) => \A i \in DOMAIN new : LastOfLine(new, i) <=> i = n
  <2>1. ASSUME OfLine(new, n), NEW i \in DOMAIN new, LastOfLine(new, i) PROVE i = n
    BY <1>1, <1>2, <2>1 DEF LastOfLine
  <2>2. OfLine(new, n) => LastOfLine(new, n)
    BY <1>1, <1>2 DEF LastOfLine
  <2> QED BY <2>1, <2>2
<1>9. ASSUME ~OfLine(new, n), NEW i \in DOMAIN new
      PROVE  LastOfLine(new, i) <=> i # n /\ LastOfLine(log, i)
  <2>1. CASE i = n
    BY <1>9, <2>1 DEF LastOfLine
  <2>2. CASE i \in DOMAIN log
    BY <1>1, <1>2, <1>3, <1>9, <2>2 DEF LastOfLine
  <2> QED BY <1>2, <2>1, <2>2
<1>10. OneMore(log, r, new, n)
  BY <1>1, <1>2, <1>4, <1>5, <1>6, <1>7, <1>8, <1>9 DEF OneMore
<1> QED BY <1>10 DEF new, n

(* At most one thread is in the middle of a line. *)
LEMMA OneWriter ==
    ASSUME ServiceIInv, NEW t \in Loggers, job[t] \in {"prefix", "text", "newline", "unlock"},
           NEW u \in Loggers, u # t
    PROVE  job[u] \notin {"prefix", "text", "newline", "unlock"}
BY DEF ServiceIInv, InsideIsHolder

(* A part of a line is written. *)
LEMMA WriteHolds ==
    ASSUME ServiceIInv, NEW t \in Loggers, NEW part \in Parts, NEW next \in Jobs, Write(t, part, next),
           \/ part = "prefix" /\ next = "text"
           \/ part = "text" /\ next = "newline"
           \/ part = "newline" /\ next = "unlock"
           \/ part = "last text" /\ next = "last newline"
           \/ part = "last newline" /\ next = "shutdown"
    PROVE  ServiceIInv'
<1> DEFINE r == [by |-> t, part |-> part]
           n == Len(printed) + 1
           Line == {"prefix", "text", "newline"}
<1>1. /\ printed' = Append(printed, r) /\ r \in [by : Loggers, part : Parts]
      /\ r.by = t /\ r.part = part
      /\ job[t] = part /\ job' = [job EXCEPT ![t] = next] /\ mtx' = mtx
      /\ job \in [Loggers -> Jobs] /\ ServiceTypeOK
  BY DEF Write, Move, ServiceIInv, ServiceTypeOK
<1>r. printed \in Seq([by : Loggers, part : Parts])
  BY <1>1 DEF ServiceTypeOK
<1> HIDE DEF r
<1>2. ServiceTypeOK'
  <2>1. printed' \in Seq([by : Loggers, part : Parts])
    BY <1>1, <1>r, AppendProperties
  <2> QED BY <1>1, <2>1 DEF ServiceTypeOK
<1>3. InsideIsHolder'
  BY <1>1 DEF ServiceIInv, InsideIsHolder
<1>4. /\ n \in Nat /\ DOMAIN printed = 1 .. n - 1 /\ DOMAIN printed' = DOMAIN printed \cup {n}
      /\ printed'[n] = r
      /\ \A i \in DOMAIN printed : printed'[i] = printed[i]
      /\ \A i, j \in DOMAIN printed : Before(printed', j, i) <=> Before(printed, j, i)
      /\ \A j \in DOMAIN printed : Before(printed', j, n) <=> LastOfLine(printed, j)
      /\ \A i \in DOMAIN printed' : ~Before(printed', n, i)
      /\ IF part \in Line
         THEN \A i \in DOMAIN printed' : LastOfLine(printed', i) <=> i = n
         ELSE \A i \in DOMAIN printed' : LastOfLine(printed', i) <=> i # n /\ LastOfLine(printed, i)
  <2> DEFINE R == [by : Loggers, part : Parts]
  <2>1. r \in R /\ printed \in Seq(R) /\ printed' = Append(printed, r) /\ r.part = part /\ n = Len(printed) + 1
    BY <1>1, <1>r
  <2> HIDE DEF R
  <2>2. OneMore(printed, r, printed', n)
    BY <2>1, AppendOne
  <2> HIDE DEF n
  <2> QED BY <2>1, <2>2 DEF OneMore
<1>5. /\ \A u \in Loggers : u # t => job'[u] = job[u]
      /\ job'[t] = next
  BY <1>1
<1> HIDE DEF n
<1>6. LinesWhole'
  <2> SUFFICES ASSUME NEW i \in DOMAIN printed'
               PROVE  LET Continues(p) == \E j \in DOMAIN printed' :
                               Before(printed', j, i) /\ printed'[j] = [by |-> printed'[i].by, part |-> p]
                      IN  /\ printed'[i].part = "prefix" =>
                                \A j \in DOMAIN printed' : Before(printed', j, i) => printed'[j].part = "newline"
                          /\ printed'[i].part = "text" => Continues("prefix")
                          /\ printed'[i].part = "newline" => Continues("text")
    BY DEF LinesWhole
  <2>1. ~Before(printed', n, i)
    BY <1>4
  <2>2. CASE i \in DOMAIN printed
    BY <1>4, <2>1, <2>2 DEF ServiceIInv, LinesWhole
  <2>3. CASE i = n
    <3>1. ASSUME part = "prefix", NEW j \in DOMAIN printed', Before(printed', j, i)
          PROVE  printed'[j].part = "newline"
      <4>1. \A u \in Loggers : job[u] \notin {"text", "newline"}
        BY <1>1, <3>1, OneWriter
      <4>2. j \in DOMAIN printed /\ LastOfLine(printed, j)
        BY <1>4, <2>1, <2>3, <3>1
      <4> QED BY <1>4, <4>1, <4>2 DEF ServiceIInv, EndsWithWriter
    <3>2. ASSUME part = "text"
          PROVE \E j \in DOMAIN printed' : Before(printed', j, i) /\ printed'[j] = [by |-> t, part |-> "prefix"]
      <4>1. PICK j \in DOMAIN printed : LastOfLine(printed, j) /\ printed[j] = [by |-> t, part |-> "prefix"]
        BY <1>1, <3>2 DEF ServiceIInv, EndsWithWriter, Wrote
      <4> QED BY <1>4, <2>3, <4>1
    <3>3. ASSUME part = "newline"
          PROVE \E j \in DOMAIN printed' : Before(printed', j, i) /\ printed'[j] = [by |-> t, part |-> "text"]
      <4>1. PICK j \in DOMAIN printed : LastOfLine(printed, j) /\ printed[j] = [by |-> t, part |-> "text"]
        BY <1>1, <3>3 DEF ServiceIInv, EndsWithWriter, Wrote
      <4> QED BY <1>4, <2>3, <4>1
    <3> QED BY <1>1, <1>4, <2>3, <3>1, <3>2, <3>3
  <2> QED BY <1>4, <2>2, <2>3
<1>7. EndsWithWriter'
  <2>1. CASE part \in Line
    <3>1. \A i \in DOMAIN printed' : LastOfLine(printed', i) <=> i = n
      BY <1>1, <1>4, <2>1
    <3>2. \A u \in Loggers : u # t => job'[u] \notin {"text", "newline"}
      BY <1>1, <1>5, <2>1, OneWriter
    <3>3. next \notin {"text", "newline"} => part = "newline"
      BY <2>1
    <3>4. /\ next = "text" => Wrote(printed', t, "prefix")
          /\ next = "newline" => Wrote(printed', t, "text")
      BY <1>4, <2>1, <3>1 DEF Wrote, r
    <3> QED BY <1>1, <1>4, <1>5, <3>1, <3>2, <3>3, <3>4 DEF EndsWithWriter
  <2>2. CASE part \notin Line
    <3>1. \A i \in DOMAIN printed' : LastOfLine(printed', i) <=> i # n /\ LastOfLine(printed, i)
      BY <1>1, <1>4, <2>2
    <3>2. job[t] \notin {"text", "newline"} /\ job'[t] \notin {"text", "newline"}
      BY <1>1, <1>5, <2>2
    <3>3. \A u \in Loggers, p \in {"prefix", "text"} : Wrote(printed, u, p) => Wrote(printed', u, p)
      BY <1>4, <3>1 DEF Wrote
    <3>4. \A i \in DOMAIN printed' : LastOfLine(printed', i) => i \in DOMAIN printed /\ printed'[i] = printed[i]
      BY <1>4, <3>1
    <3>5. (\A u \in Loggers : job'[u] \notin {"text", "newline"})
           => \A u \in Loggers : job[u] \notin {"text", "newline"}
      BY <1>5, <3>2
    <3> QED BY <1>5, <3>1, <3>2, <3>3, <3>4, <3>5 DEF ServiceIInv, EndsWithWriter
  <2> QED BY <2>1, <2>2
<1> QED BY <1>2, <1>3, <1>6, <1>7 DEF ServiceIInv

(* Each step keeps the invariant. *)
LEMMA ServiceNextHolds == ServiceIInv /\ [ServiceNext]_serviceVars => ServiceIInv'
<1> SUFFICES ASSUME ServiceIInv, [ServiceNext]_serviceVars PROVE ServiceIInv'
  OBVIOUS
<1>0. job \in [Loggers -> Jobs] /\ ServiceTypeOK /\ InsideIsHolder
  BY DEF ServiceIInv, ServiceTypeOK
<1>1. ASSUME UNCHANGED <<mtx, job, printed>> PROVE ServiceIInv'
  BY <1>0, <1>1, QuietHolds DEF ServiceTypeOK, InsideIsHolder
<1>2. ASSUME NEW t \in Loggers, NEW from \in {"idle", "shutdown"},
             NEW to \in {"idle", "lock", "last text", "quick_exit"},
             job[t] = from, Move(t, to), UNCHANGED <<mtx, printed>>
      PROVE  ServiceIInv'
  <2>1. ServiceTypeOK' /\ InsideIsHolder'
    BY <1>0, <1>2 DEF Move, ServiceTypeOK, InsideIsHolder, Jobs, Parts
  <2> QED BY <1>0, <1>2, <2>1, QuietHolds DEF Move
<1>3. ASSUME NEW t \in Loggers, NEW level \in Level, Log(t, level) PROVE ServiceIInv'
  BY <1>2, <1>3 DEF Log
<1>4. ASSUME NEW t \in Loggers, SysExit(t) \/ ShutdownFlag(t) PROVE ServiceIInv'
  BY <1>2, <1>4 DEF SysExit, ShutdownFlag
<1>5. ASSUME NEW t \in Loggers, Lock(t) \/ Unlock(t) PROVE ServiceIInv'
  <2>1. InsideIsHolder'
    BY <1>0, <1>5, ServiceAssumption DEF Lock, Unlock, MutexFree, Move, InsideIsHolder, ServiceTypeOK
  <2>2. ServiceTypeOK'
    BY <1>0, <1>5 DEF Lock, Unlock, Move, ServiceTypeOK, Jobs, Parts
  <2> QED BY <1>0, <1>5, <2>1, <2>2, QuietHolds DEF Lock, Unlock, Move
<1>6. ASSUME NEW t \in Loggers, WriteLine(t) \/ WriteLast(t) PROVE ServiceIInv'
  <2>1. PICK part \in Parts, next \in Jobs :
             /\ Write(t, part, next)
             /\ \/ part = "prefix" /\ next = "text"
                \/ part = "text" /\ next = "newline"
                \/ part = "newline" /\ next = "unlock"
                \/ part = "last text" /\ next = "last newline"
                \/ part = "last newline" /\ next = "shutdown"
    BY <1>6 DEF WriteLine, WriteLast, Parts, Jobs
  <2> QED BY <2>1, WriteHolds
<1>7. ASSUME NEW t \in Loggers, QuickExit(t) PROVE ServiceIInv'
  BY <1>1, <1>7 DEF QuickExit
<1>8. CASE IsService \/ OpenLog \/ CloseLog \/ UNCHANGED serviceVars
  BY <1>1, <1>8 DEF IsService, OpenLog, CloseLog, serviceVars
<1> QED BY <1>3, <1>4, <1>5, <1>6, <1>7, <1>8 DEF ServiceNext

(* The lines of cpr_logger stay whole, for any number of threads and calls. *)
THEOREM ServiceSafety == ServiceSpec => [](ServiceTypeOK /\ LinesWhole)
<1>1. ServiceSpec => []ServiceIInv
  BY ServiceInitHolds, ServiceNextHolds, PTL DEF ServiceSpec
<1>2. ServiceIInv => ServiceTypeOK /\ LinesWhole
  BY DEF ServiceIInv
<1> QED BY <1>1, <1>2, PTL

===============================================================================
