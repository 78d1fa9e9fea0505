------------------------------- MODULE Pipeline -------------------------------
(***************************************************************************)
(* pipeline_t of src/pipeline.h and src/pipeline.c: a ring of object        *)
(* pointers between producer and consumer threads.                          *)
(*                                                                         *)
(* put and get hold the mutex from mtx_lock to cnd_wait or return.  close   *)
(* sets the closed flag and broadcasts WITHOUT the mutex, so the steps that *)
(* matter are the test of the flag (PutTest, GetTest) and what put and get  *)
(* do after it with the mutex still held (the other Put and Get actions).   *)
(*                                                                         *)
(* A thread inside put or get is asleep while it is in the wait set of      *)
(* input or output, and tests the flag next when it is not.                 *)
(*                                                                         *)
(* Items are the objects the pointers point to.  A caller puts an object it *)
(* owns, never NULL, and gives it up when put returns true.                 *)
(***************************************************************************)
EXTENDS Integers, FiniteSets, Monitor

CONSTANTS Producer, Consumer, Closer,  \* threads that call put, get and close
          Item,
          Size,                        \* pl->size
          Policies,                    \* the values of pl->policy considered
          NoThread, NULL

Thread == Producer \cup Consumer \cup Closer
Index  == 0 .. Size - 1

ASSUME SizeAssumption == Size \in Nat \ {0}
ASSUME PolicyAssumption == Policies \subseteq {"WAIT", "DROP"}
ASSUME NoneAssumption == NoThread \notin Thread /\ NULL \notin Item

VARIABLES buf, head, tail, count,   \* the ring of pipeline_t
          policy,                   \* pl->policy, set by make_pipeline
          closed,                   \* the atomic flag pl->closed
          lock,                     \* the owner of pl->lock
          input, output,            \* the threads asleep in put, in get
          pc,                       \* where each thread is
          arg,                      \* the item a producer's put was called with
          place,                    \* who has each item: "client", "call", "pipe", "freed"
          alive                     \* false once free_pipeline released the memory

ring    == <<buf, head, tail, count>>
threads == <<lock, input, output, pc, arg>>
vars    == <<ring, policy, closed, threads, place, alive>>

Slot(k)  == (head + k) % Size         \* the slot k places after head
Window   == 0 .. count - 1
Contents == {buf[Slot(k)] : k \in Window}
Goto(t, label) == pc' = [pc EXCEPT ![t] = label]
Move(items, to) == place' = [i \in Item |-> IF i \in items THEN to ELSE place[i]]

-----------------------------------------------------------------------------
(* make_pipeline *)
Init == /\ buf = [i \in Index |-> NULL]
        /\ head = 0 /\ tail = 0 /\ count = 0
        /\ policy \in Policies
        /\ closed = FALSE
        /\ lock = NoThread
        /\ input = {} /\ output = {}
        /\ pc = [t \in Thread |-> "idle"]
        /\ arg = [t \in Thread |-> NULL]
        /\ place = [i \in Item |-> "client"]
        /\ alive = TRUE

(* put_pipeline is called with an object of the caller's. *)
PutCall(t, i) ==
    /\ alive /\ pc[t] = "idle"
    /\ place[i] = "client"
    /\ Goto(t, "put")
    /\ arg' = [arg EXCEPT ![t] = i]
    /\ Move({i}, "call")
    /\ UNCHANGED <<ring, policy, closed, lock, input, output, alive>>

(* put_pipeline, the head of its loop: with the mutex, from mtx_lock, from  *)
(* cnd_wait or from the end of the drop branch, the flag is tested.  When   *)
(* the pipeline is closed put returns false and the caller keeps the item.  *)
PutTest(t) ==
    /\ pc[t] = "put" /\ t \notin input
    /\ lock \in {NoThread, t}
    /\ \/ /\ ~closed
          /\ lock' = t
          /\ Goto(t, "putting")
          /\ UNCHANGED <<arg, place>>
       \/ /\ closed
          /\ lock' = NoThread
          /\ Goto(t, "idle")
          /\ Move({arg[t]}, "client")
          /\ arg' = [arg EXCEPT ![t] = NULL]
    /\ UNCHANGED <<ring, policy, closed, input, output, alive>>

(* put_pipeline's test for room. *)
Room == count < Size

(* Mutant: the consumer is signalled when the ring becomes full. *)
SignalWhenFull == IF count + 1 = Size THEN cnd_signal(output) ELSE {output}

(* The signal of put_pipeline: the wait sets of output it may leave. *)
SignalOutput == IF count = 0 THEN cnd_signal(output) ELSE {output}

(* put_pipeline with room in the ring: store, and signal a consumer if the  *)
(* ring was empty.                                                          *)
PutStore(t) ==
    /\ pc[t] = "putting"
    /\ Room
    /\ buf' = [buf EXCEPT ![tail] = arg[t]]
    /\ tail' = (tail + 1) % Size
    /\ count' = count + 1
    /\ output' \in SignalOutput
    /\ lock' = NoThread
    /\ Goto(t, "idle")
    /\ Move({arg[t]}, "pipe")
    /\ arg' = [arg EXCEPT ![t] = NULL]
    /\ UNCHANGED <<head, policy, closed, input, alive>>

(* put_pipeline on a full ring, policy WAIT. *)
PutWait(t) ==
    /\ pc[t] = "putting"
    /\ ~Room
    /\ policy = "WAIT"
    /\ input' = cnd_wait(input, t)
    /\ lock' = NoThread
    /\ Goto(t, "put")
    /\ UNCHANGED <<ring, policy, closed, output, arg, place, alive>>

(* Mutant: the dropped object is not freed. *)
DropLeaks == place' = place

(* The free of the oldest object in the drop branch of put_pipeline. *)
DropFrees == Move({buf[head]}, "freed")

(* put_pipeline on a full ring, policy DROP: the oldest object is freed; the *)
(* mutex is kept and the loop starts over with the test of the flag.         *)
PutDrop(t) ==
    /\ pc[t] = "putting"
    /\ ~Room
    /\ policy = "DROP"
    /\ DropFrees
    /\ head' = (head + 1) % Size
    /\ count' = count - 1
    /\ Goto(t, "put")
    /\ UNCHANGED <<buf, tail, policy, closed, lock, input, output, arg, alive>>

(* get_pipeline is called. *)
GetCall(t) ==
    /\ alive /\ pc[t] = "idle"
    /\ Goto(t, "get")
    /\ UNCHANGED <<ring, policy, closed, lock, input, output, arg, place, alive>>

(* get_pipeline, the head of its loop; a closed pipeline returns NULL. *)
GetTest(t) ==
    /\ pc[t] = "get" /\ t \notin output
    /\ lock = NoThread
    /\ \/ ~closed /\ lock' = t /\ Goto(t, "getting")
       \/ closed /\ lock' = NoThread /\ Goto(t, "idle")
    /\ UNCHANGED <<ring, policy, closed, input, output, arg, place, alive>>

(* Mutant: the producer is never signalled. *)
SignalNever == {input}

(* The signal of get_pipeline: the wait sets of input it may leave. *)
SignalInput == IF count = Size THEN cnd_signal(input) ELSE {input}

(* Mutant: get takes the newest item. *)
GetTakeNewest(t) ==
    /\ pc[t] = "getting"
    /\ count > 0
    /\ Move({buf[Slot(count - 1)]}, "client")
    /\ buf' = [buf EXCEPT ![Slot(count - 1)] = NULL]
    /\ tail' = Slot(count - 1)
    /\ count' = count - 1
    /\ input' \in SignalInput
    /\ lock' = NoThread
    /\ Goto(t, "idle")
    /\ UNCHANGED <<head, policy, closed, output, arg, alive>>

(* get_pipeline with an item in the ring: take the oldest, and signal a *)
(* producer if the ring was full.                                       *)
GetTake(t) ==
    /\ pc[t] = "getting"
    /\ count > 0
    /\ Move({buf[head]}, "client")
    /\ buf' = [buf EXCEPT ![head] = NULL]
    /\ head' = (head + 1) % Size
    /\ count' = count - 1
    /\ input' \in SignalInput
    /\ lock' = NoThread
    /\ Goto(t, "idle")
    /\ UNCHANGED <<tail, policy, closed, output, arg, alive>>

(* get_pipeline on an empty ring. *)
GetWait(t) ==
    /\ pc[t] = "getting"
    /\ count <= 0
    /\ output' = cnd_wait(output, t)
    /\ lock' = NoThread
    /\ Goto(t, "get")
    /\ UNCHANGED <<ring, policy, closed, input, arg, place, alive>>

(* close_pipeline: only the first to set the flag goes on, without the mutex. *)
CloseFlag(t) ==
    /\ alive /\ pc[t] = "idle"
    /\ ~closed
    /\ closed' = TRUE
    /\ Goto(t, "wakeinput")
    /\ UNCHANGED <<ring, policy, lock, input, output, arg, place, alive>>

CloseWakeInput(t) ==
    /\ pc[t] = "wakeinput"
    /\ input' = cnd_broadcast(input)
    /\ Goto(t, "wakeoutput")
    /\ UNCHANGED <<ring, policy, closed, lock, output, arg, place, alive>>

CloseWakeOutput(t) ==
    /\ pc[t] = "wakeoutput"
    /\ output' = cnd_broadcast(output)
    /\ Goto(t, "draining")
    /\ UNCHANGED <<ring, policy, closed, lock, input, arg, place, alive>>

(* Mutant: the objects left in the ring are freed without the mutex. *)
MayDrainAnytime == TRUE

(* close_pipeline drains the ring when it has the mutex. *)
MayDrain == lock = NoThread

(* Mutant: the drain forgets the objects. *)
DrainLeaks == /\ head' = (head + count) % Size
              /\ count' = 0
              /\ UNCHANGED place

(* The loop of close_pipeline: every object left is freed. *)
Drain == /\ Move(Contents, "freed")
         /\ head' = (head + count) % Size
         /\ count' = 0

(* close_pipeline, with the mutex: every object left is freed. *)
CloseDrain(t) ==
    /\ pc[t] = "draining"
    /\ MayDrain
    /\ Drain
    /\ Goto(t, "idle")
    /\ UNCHANGED <<buf, tail, policy, closed, lock, input, output, arg, alive>>

(* free_pipeline, called when no thread is inside another call: it closes   *)
(* the pipeline if nobody has, then destroys the mutex and the conditions   *)
(* and gives the memory back.                                               *)
Free ==
    /\ alive
    /\ \A t \in Thread : pc[t] = "idle"
    /\ closed' = TRUE
    /\ IF closed THEN UNCHANGED <<head, count, place>>
       ELSE Drain
    /\ alive' = FALSE
    /\ UNCHANGED <<buf, tail, policy, threads>>

(* cnd_wait may also end without a signal. *)
SpuriousWake(t) ==
    /\ t \in input \cup output
    /\ input' = input \ {t}
    /\ output' = output \ {t}
    /\ UNCHANGED <<ring, policy, closed, lock, pc, arg, place, alive>>

Put(t) == PutTest(t) \/ PutStore(t) \/ PutWait(t) \/ PutDrop(t)
Get(t) == GetTest(t) \/ GetTake(t) \/ GetWait(t)
Close(t) == CloseWakeInput(t) \/ CloseWakeOutput(t) \/ CloseDrain(t)

Next == \/ \E t \in Producer : Put(t) \/ \E i \in Item : PutCall(t, i)
        \/ \E t \in Consumer : Get(t) \/ GetCall(t)
        \/ \E t \in Closer : Close(t) \/ CloseFlag(t)
        \/ \E t \in Thread : SpuriousWake(t)
        \/ Free

Spec == Init /\ [][Next]_vars

(* A thread inside a call runs on, and one that waits for the mutex gets it   *)
(* in the end, for nobody sleeps with the mutex held.  Consumers come back    *)
(* for more.  Nothing is assumed of producers, or of who closes.              *)
Fairness ==
    /\ \A t \in Producer : /\ SF_vars(PutTest(t))
                          /\ WF_vars(PutStore(t) \/ PutWait(t) \/ PutDrop(t))
    /\ \A t \in Consumer : /\ WF_vars(GetCall(t)) /\ SF_vars(GetTest(t))
                          /\ WF_vars(GetTake(t) \/ GetWait(t))
    /\ \A t \in Closer : SF_vars(Close(t))

FairSpec == Spec /\ Fairness
-----------------------------------------------------------------------------
(* The indices stay inside the ring, and only threads inside put or get sleep. *)
TypeOK == /\ buf \in [Index -> Item \cup {NULL}]
          /\ head \in Index /\ tail \in Index /\ count \in 0 .. Size
          /\ policy \in Policies
          /\ closed \in BOOLEAN /\ alive \in BOOLEAN
          /\ lock \in Thread \cup {NoThread}
          /\ input \subseteq {t \in Producer : pc[t] = "put"}
          /\ output \subseteq {t \in Consumer : pc[t] = "get"}
          /\ pc \in [Thread -> {"idle", "put", "putting", "get", "getting",
                                "wakeinput", "wakeoutput", "draining"}]
          /\ arg \in [Thread -> Item \cup {NULL}]
          /\ place \in [Item -> {"client", "call", "pipe", "freed"}]

Closing == {t \in Thread : pc[t] \in {"wakeinput", "wakeoutput", "draining"}}

(* head, tail and count describe the same window of the ring, whatever mix of *)
(* takes, drops and the drain of close moved them.                            *)
RingConsistent == tail = (head + count) % Size

(* The window holds each object that was put and neither taken nor freed,     *)
(* exactly once: nothing is lost, delivered twice, freed twice or left behind *)
(* by put, get, the drop branch and close together.                           *)
Conservation ==
    /\ \A k \in Window : buf[Slot(k)] \in Item /\ place[buf[Slot(k)]] = "pipe"
    /\ \A j, k \in Window : buf[Slot(j)] = buf[Slot(k)] => j = k
    /\ \A i \in Item : place[i] = "pipe" => i \in Contents

(* Once close has drained the ring it stays empty: no put that passed its     *)
(* test of the flag before can store behind the closer's back.                *)
ClosedStaysEmpty == closed /\ Closing = {} => count = 0

(* free_pipeline leaves no object behind in the memory it gives back. *)
NothingLeaks == ~alive => \A i \in Item : place[i] # "pipe"

(* With one producer and one consumer, the signals on 0 -> 1 and on           *)
(* size -> size - 1 are enough: the consumer sleeps only at an empty ring,    *)
(* the producer only at a full one.                                           *)
NoLostWakeup == closed \/ /\ output # {} => count = 0
                          /\ input # {} => count = Size

(* put returns, unless the pipeline is closed meanwhile. *)
PutEnds == \A t \in Producer : pc[t] = "put" ~> (pc[t] = "idle" \/ closed)

(* An object put into the pipeline comes out: a consumer gets it, or it is    *)
(* freed by the drop policy or by close.                                      *)
Delivery == \A i \in Item : place[i] = "pipe" ~> place[i] # "pipe"

(* After close_pipeline has returned no thread sleeps in put or get.  Not so: *)
(* a thread that tested the flag before close set it may go to sleep after    *)
(* the broadcasts, for close does not hold the mutex when it makes them.      *)
CloseWakesEveryone == closed /\ Closing = {} => input \cup output = {}

(* The window of the ring, oldest first, as the queue of the channel. *)
Chan == INSTANCE Channel WITH
            queue <- [n \in 1 .. count |-> buf[Slot(n - 1)]],
            freed <- {i \in Item : place[i] = "freed"},
            open <- ~closed,
            dropping <- policy = "DROP"

(* Objects go in and come out as in a bounded channel, first in first out. *)
ImplementsChannel == Chan!Spec

===============================================================================
