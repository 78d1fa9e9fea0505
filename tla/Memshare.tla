------------------------------ MODULE Memshare ------------------------------
(***************************************************************************)
(* Reference counted memory of src/memory.c, with the MAKE_REF and          *)
(* RELEASE_REF macros of src/memory.h.                                      *)
(*                                                                         *)
(* A holder is a memshare_t variable of some thread.  A reference is a      *)
(* promise of one later release; refs keeps the promises that are still     *)
(* open, several of which may have been made through the same variable.     *)
(* Callers work through a variable only while it has a reference, which is  *)
(* what the interface asks of them; the pointer itself may outlive it,      *)
(* since RELEASE_REF clears the variable only when the memory is freed.     *)
(***************************************************************************)
EXTENDS Integers, FiniteSets

CONSTANTS Holders,  \* memshare_t variables
          Objects,  \* addresses malloc may return
          MaxRefs,  \* bound: references made through one variable
          NULL

ASSUME MaxRefsAssumption == MaxRefs \in Nat \ {0}
ASSUME NullAssumption == NULL \notin Objects

VARIABLES var,      \* the pointer in each variable
          live,     \* the addresses that are allocated
          refcount, \* the count in each object
          refs,     \* the references not yet released
          freeing   \* what a variable's release is about to free, else NULL

shareVars == <<var, live, refcount, refs, freeing>>

Ref == [by : Holders, to : Objects, nr : 1 .. MaxRefs]

RefsOf(h) == {r \in refs : r.by = h}
RefsTo(o) == {r \in refs : r.to = o}

-----------------------------------------------------------------------------
ShareInit == /\ var = [h \in Holders |-> NULL]
             /\ live = {}
             /\ refcount = [o \in Objects |-> 0]
             /\ refs = {}
             /\ freeing = [h \in Holders |-> NULL]

(* MAKE_REF on an empty variable: cpr_makeref. *)
MakeRef(h) ==
    /\ var[h] = NULL
    /\ \E o \in Objects \ live :
          /\ live' = live \cup {o}
          /\ refcount' = [refcount EXCEPT ![o] = 1]
          /\ refs' = refs \cup {[by |-> h, to |-> o, nr |-> 1]}
          /\ var' = [var EXCEPT ![h] = o]
    /\ UNCHANGED freeing

(* Mutant: the reference is handed out without being counted. *)
CountAfterRetainStale(o) == refcount[o]

(* atomic_fetch_add of cpr_retain. *)
CountAfterRetain(o) == refcount[o] + 1

(* cpr_retain through h, its result kept in the variable g: MAKE_REF on a      *)
(* variable that is set when g is h, and a hand-over to another thread when g  *)
(* has no reference of its own.                                                *)
Retain(h, g) ==
    /\ RefsOf(h) # {}
    /\ g = h \/ (RefsOf(g) = {} /\ freeing[g] = NULL)
    /\ \E n \in 1 .. MaxRefs :
          LET r == [by |-> g, to |-> var[h], nr |-> n]
          IN  r \notin refs /\ refs' = refs \cup {r}
    /\ refcount' = [refcount EXCEPT ![var[h]] = CountAfterRetain(var[h])]
    /\ var' = [var EXCEPT ![g] = var[h]]
    /\ UNCHANGED <<live, freeing>>

(* Mutant: the count is compared after it went down by one. *)
LastReferenceLate(before) == before - 1 = 1

(* Whether cpr_release has to free, from what atomic_fetch_sub returns. *)
LastReference(before) == before = 1

(* The atomic_fetch_sub of cpr_release, through RELEASE_REF. *)
ReleaseRef(h) ==
    /\ freeing[h] = NULL
    /\ \E r \in RefsOf(h) : refs' = refs \ {r}
    /\ refcount' = [refcount EXCEPT ![var[h]] = refcount[var[h]] - 1]
    /\ freeing' = [freeing EXCEPT ![h] = IF LastReference(refcount[var[h]]) THEN var[h] ELSE NULL]
    /\ UNCHANGED <<var, live>>

(* The free of cpr_release and the assignment of its NULL by RELEASE_REF. *)
ReleaseFree(h) ==
    /\ freeing[h] # NULL
    /\ live' = live \ {freeing[h]}
    /\ var' = [var EXCEPT ![h] = NULL]
    /\ freeing' = [freeing EXCEPT ![h] = NULL]
    /\ UNCHANGED <<refcount, refs>>

(* A caller clears a pointer that RELEASE_REF left behind. *)
Forget(h) == /\ RefsOf(h) = {} /\ freeing[h] = NULL /\ var[h] # NULL
             /\ var' = [var EXCEPT ![h] = NULL]
             /\ UNCHANGED <<live, refcount, refs, freeing>>

ShareNext == \E h \in Holders :
                \/ MakeRef(h) \/ ReleaseRef(h) \/ ReleaseFree(h) \/ Forget(h)
                \/ \E g \in Holders : Retain(h, g)

ShareSpec == ShareInit /\ [][ShareNext]_shareVars
-----------------------------------------------------------------------------
ShareTypeOK == /\ var \in [Holders -> Objects \cup {NULL}]
               /\ live \subseteq Objects
               /\ refcount \in [Objects -> Int]
               /\ refs \subseteq Ref
               /\ freeing \in [Holders -> Objects \cup {NULL}]

(* Whoever still has a reference reaches allocated memory through its          *)
(* variable, whatever the other threads retain and release meanwhile.          *)
RefsReachLiveMemory == \A r \in refs : r.to \in live /\ var[r.by] = r.to

(* Of the threads that release the last references at the same time exactly   *)
(* one goes on to free the memory, and only when nobody can reach it: no      *)
(* double free, no early free, and none that is forgotten.                    *)
FreedByTheLast ==
    \A o \in live :
        LET ending == {h \in Holders : freeing[h] = o}
        IN  /\ RefsTo(o) = {} <=> ending # {}
            /\ \A g, h \in ending : g = h

(* The refcount is the number of references not yet released: what cpr_count  *)
(* tells a caller.                                                            *)
CountExact == \A o \in live : refcount[o] = Cardinality(RefsTo(o))
=============================================================================
