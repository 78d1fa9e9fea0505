------------------------------- MODULE Monitor -------------------------------
(***************************************************************************)
(* The condition variables of src/thread.h, as the set of the threads that  *)
(* sleep in cnd_wait.  The shim passes every call on to pthreads and the    *)
(* callers in src/ never look at a result.                                  *)
(*                                                                         *)
(* A thread inside cnd_wait is either in the wait set of its condition      *)
(* variable, or has been taken out of it and still has to get the mutex     *)
(* back before cnd_wait returns.  The components keep the set in a          *)
(* variable and the place a thread waits at in its program counter.         *)
(***************************************************************************)

(* cnd_wait: the caller gives up the mutex and joins the wait set, in one step. *)
cnd_wait(waitSet, t) == waitSet \cup {t}

(* cnd_signal: one sleeper, the scheduler's choice, leaves the set; without   *)
(* a sleeper nothing happens.  The value is the set of the possible results. *)
cnd_signal(waitSet) ==
    IF waitSet = {} THEN {waitSet} ELSE {waitSet \ {t} : t \in waitSet}

(* cnd_broadcast: every sleeper leaves the set. *)
cnd_broadcast(waitSet) == {}

===============================================================================
