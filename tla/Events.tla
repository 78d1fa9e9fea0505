------------------------------- MODULE Events -------------------------------
(***************************************************************************)
(* event_t of src/events.c: descriptors that setters write to and waiters   *)
(* poll and read, one eventfd where there is one and a pipe elsewhere.      *)
(*                                                                         *)
(* counter is what the kernel holds.  The descriptors do not block: a write *)
(* that finds no room and a read that finds nothing fail, and the library   *)
(* closes the descriptors on every failure, also when a signal interrupts   *)
(* poll().  Each call looks at fds first and looks again for its system     *)
(* call; the closes and the assignment of -1 are steps of their own.        *)
(* Descriptor numbers are not given out again by other calls.               *)
(***************************************************************************)
EXTENDS Integers, FiniteSets

CONSTANTS Setters, Waiters,  \* threads
          Capacity,          \* what the kernel holds at most
          Chunk              \* what one read of a pipe takes at most

ASSUME EventAssumption == /\ Capacity \in Nat \ {0} /\ Chunk \in Nat \ {0}
                          /\ Setters \cap Waiters = {} /\ IsFiniteSet(Waiters)

VARIABLES pipe,      \* the build: fds holds the two ends of a pipe
          rfd, wfd,  \* fds[0] and fds[1]: "open", "closed" or "unset" (-1)
          counter,   \* what was written and not read
          at,        \* where each thread is
          causes     \* why cpr_freeevt was called so far

eventVars == <<pipe, rfd, wfd, counter, at, causes>>
User      == Setters \cup Waiters

-----------------------------------------------------------------------------
(* cpr_initevt *)
EventInit == /\ pipe \in BOOLEAN
             /\ rfd = "open" /\ wfd = "open"
             /\ counter = 0
             /\ at = [u \in User |-> "idle"]
             /\ causes = {}

Goto(u, label) == at' = [at EXCEPT ![u] = label]

(* The test of fds that every call begins with. *)
Enter(u, from, label) == /\ at[u] = from
                         /\ Goto(u, IF rfd = "unset" THEN "gone" ELSE label)
                         /\ UNCHANGED <<pipe, rfd, wfd, counter, causes>>

SetCall(s)   == s \in Setters /\ Enter(s, "idle", "write")
WaitCall(w)  == w \in Waiters /\ Enter(w, "idle", "look")
ClearCall(w) == w \in Waiters /\ Enter(w, "ready", "read")

(* cpr_freeevt is called: by a caller, or because a system call failed. *)
Destroy(u, why) == /\ Goto(u, "free")
                 /\ causes' = causes \cup {why}
                 /\ UNCHANGED <<pipe, rfd, wfd, counter>>

FreeCall(u) == at[u] = "idle" /\ Destroy(u, "asked")

(* The write of cpr_setevt. *)
SetWrite(s) ==
    /\ at[s] = "write"
    /\ \/ /\ wfd = "open" /\ counter < Capacity
          /\ counter' = counter + 1
          /\ Goto(s, "idle")
          /\ UNCHANGED <<pipe, rfd, wfd, causes>>
       \/ wfd = "open" /\ counter = Capacity /\ Destroy(s, "full")
       \/ wfd # "open" /\ Destroy(s, "closed")

(* Mutant: a poll that timed out counts as ready. *)
AfterPollAny(n) == "ready"

(* Mutant: one descriptor with an event is not enough. *)
AfterPollMany(n) == IF n > 1 THEN "ready" ELSE "idle"

(* Where cpr_waitevt leaves its caller when poll() returned n. *)
AfterPoll(n) == IF n > 0 THEN "ready" ELSE "idle"

(* poll() of fds[0]: it reports a closed descriptor at once, and waits on -1  *)
(* for nothing.                                                               *)
PollStart(w) ==
    /\ at[w] = "look"
    /\ Goto(w, CASE rfd = "open"   -> "poll"
                 [] rfd = "closed" -> AfterPoll(1)
                 [] OTHER          -> "deaf")
    /\ UNCHANGED <<pipe, rfd, wfd, counter, causes>>

(* What ends a poll() before its time: a signal, or the end of the writers.   *)
(* A poll() that has begun does not notice that its descriptor is closed.     *)
PollReady == counter > 0 \/ (pipe /\ wfd # "open")

PollEvent(w) == /\ at[w] = "poll" /\ PollReady
                /\ Goto(w, AfterPoll(1))
                /\ UNCHANGED <<pipe, rfd, wfd, counter, causes>>

PollTimeout(w) == /\ at[w] = "deaf" \/ (at[w] = "poll" /\ ~PollReady)
                  /\ Goto(w, AfterPoll(0))
                  /\ UNCHANGED <<pipe, rfd, wfd, counter, causes>>

(* A signal reaches the waiting thread: poll() fails. *)
PollInterrupted(w) == at[w] \in {"poll", "deaf"} /\ Destroy(w, "interrupted")

Smaller(a, b) == IF a < b THEN a ELSE b

(* What the read of cpr_clearevt leaves in the kernel: an eventfd gives all.  *)
AfterRead == IF pipe THEN counter - Smaller(counter, Chunk) ELSE 0

(* The read of cpr_clearevt; a pipe without writers gives 0 bytes. *)
ClearRead(w) ==
    /\ at[w] = "read"
    /\ \/ /\ rfd = "open" /\ PollReady
          /\ counter' = AfterRead
          /\ Goto(w, "idle")
          /\ UNCHANGED <<pipe, rfd, wfd, causes>>
       \/ rfd = "open" /\ ~PollReady /\ Destroy(w, "raced")
       \/ rfd # "open" /\ Destroy(w, "closed")

Closed(fd) == IF fd = "open" THEN "closed" ELSE fd

(* cpr_freeevt: the test of fds, close(fds[1]) where it is another one,       *)
(* close(fds[0]), and the assignment of -1 to both.                           *)
FreeTest(u) == /\ at[u] = "free"
               /\ Goto(u, IF rfd = "unset" THEN "gone" ELSE IF pipe THEN "close1" ELSE "close0")
               /\ UNCHANGED <<pipe, rfd, wfd, counter, causes>>

FreeWriter(u) == /\ at[u] = "close1"
                 /\ wfd' = Closed(wfd)
                 /\ Goto(u, "close0")
                 /\ UNCHANGED <<pipe, rfd, counter, causes>>

FreeReader(u) == /\ at[u] = "close0"
                 /\ rfd' = Closed(rfd)
                 /\ wfd' = IF pipe THEN wfd ELSE Closed(wfd)
                 /\ Goto(u, "mark")
                 /\ UNCHANGED <<pipe, counter, causes>>

FreeMark(u) == /\ at[u] = "mark"
               /\ rfd' = "unset" /\ wfd' = "unset"
               /\ Goto(u, "gone")
               /\ UNCHANGED <<pipe, counter, causes>>

FreeStep(u) == FreeTest(u) \/ FreeWriter(u) \/ FreeReader(u) \/ FreeMark(u)

(* The steps that the scheduler owes a waiter: it calls again and again, and  *)
(* its system calls return, poll() only when it has something to report.      *)
WaiterProgress(w) == \/ WaitCall(w) \/ PollStart(w) \/ PollEvent(w)
                     \/ ClearCall(w) \/ ClearRead(w) \/ FreeStep(w)

EventNext == \/ \E s \in Setters : SetCall(s) \/ SetWrite(s)
             \/ \E w \in Waiters : \/ WaitCall(w) \/ PollStart(w) \/ PollEvent(w)
                                   \/ PollTimeout(w) \/ PollInterrupted(w)
                                   \/ ClearCall(w) \/ ClearRead(w)
             \/ \E u \in User : FreeCall(u) \/ FreeStep(u)

EventSpec == EventInit /\ [][EventNext]_eventVars
-----------------------------------------------------------------------------
(* A single waiter that clears only what cpr_waitevt reported never finds the *)
(* event empty, whatever setters and other frees do in between: its own read  *)
(* never destroys the event, and no call meets a closed descriptor before the *)
(* event was full, a poll interrupted or the event freed by a caller.  (Two   *)
(* waiters do destroy it.)                                                    *)
SoleWaiterNeverRaces ==
    Cardinality(Waiters) = 1 =>
        /\ "raced" \notin causes
        /\ "closed" \in causes => causes \cap {"full", "interrupted", "asked"} # {}

(* With one waiter, whatever is written and not read makes its wait return,   *)
(* also what one read left behind and however often setters go on, unless the *)
(* event is destroyed; with a timeout or without.                             *)
EventDelivered ==
    \A w \in Waiters :
        counter > 0 /\ at[w] \in {"idle", "look", "poll"} ~> at[w] = "ready" \/ rfd # "open"
=============================================================================
