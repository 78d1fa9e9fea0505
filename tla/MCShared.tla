------------------------------ MODULE MCShared ------------------------------
(***************************************************************************)
(* The components that several threads use at once, checked one at a time:  *)
(* which says which of them this behaviour uses, and the others stay as     *)
(* they began.                                                              *)
(***************************************************************************)
EXTENDS Semaphore, Waitgroup, Memshare, Events, Service

VARIABLE which

vars == <<semVars, groupVars, shareVars, eventVars, serviceVars, which>>

(* The component c is the one in use; rest holds the others' variables. *)
Turn(c, rest) == which = c /\ UNCHANGED <<rest, which>>

SemTurn     == Turn("semaphore", <<groupVars, shareVars, eventVars, serviceVars>>)
GroupTurn   == Turn("waitgroup", <<semVars, shareVars, eventVars, serviceVars>>)
MemoryTurn  == Turn("memory", <<semVars, groupVars, eventVars, serviceVars>>)
EventTurn   == Turn("events", <<semVars, groupVars, shareVars, serviceVars>>)
ServiceTurn == Turn("service", <<semVars, groupVars, shareVars, eventVars>>)

(* A component that is not in use begins in one of its initial states only. *)
Init == /\ SemInit /\ GroupInit /\ ShareInit /\ EventInit /\ ServiceInit
        /\ which \in {"semaphore", "waitgroup", "memory", "events", "service"}
        /\ which # "waitgroup" => count = 0
        /\ which # "events" => ~pipe

Next == \/ SemNext /\ SemTurn
        \/ GroupNext /\ GroupTurn
        \/ ShareNext /\ MemoryTurn
        \/ EventNext /\ EventTurn
        \/ ServiceNext /\ ServiceTurn

Fairness == /\ \A t \in Thread : WF_vars(SemProgress(t) /\ SemTurn)
            /\ \A w \in Worker : WF_vars(Done(w) /\ GroupTurn)
            /\ \A t \in Waiter : WF_vars(GroupProgress(t) /\ GroupTurn)
            /\ WF_vars(Free /\ GroupTurn)
            /\ \A w \in Waiters : WF_vars(WaiterProgress(w) /\ EventTurn)

Spec == Init /\ [][Next]_vars /\ Fairness
=============================================================================
