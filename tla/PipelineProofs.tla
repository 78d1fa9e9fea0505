---------------------------- MODULE PipelineProofs ----------------------------
(***************************************************************************)
(* pipeline_t for any ring size and any number of threads and items: the    *)
(* ring is consistent, no object is lost, duplicated or freed twice, and a  *)
(* closed pipeline stays empty.  With one producer and one consumer no      *)
(* wakeup is lost.                                                          *)
(***************************************************************************)
EXTENDS Pipeline, Sequences, TLAPS

-----------------------------------------------------------------------------
(* The arithmetic of ring indices. *)

(* The slot k places after slot h. *)
After(h, k) == (h + k) % Size

(* An index less than twice the size wraps at most once. *)
LEMMA ModWraps == \A n \in 0 .. 2 * Size - 1 : n % Size = IF n < Size THEN n ELSE n - Size
BY SizeAssumption, SMT

(* Stepping through the ring: each of the Size places after h is another slot. *)
LEMMA AfterFacts ==
    ASSUME NEW h \in Index
    PROVE  /\ After(h, 0) = h
           /\ \A k \in 0 .. Size : After(h, k) \in Index
           /\ \A j, k \in 0 .. Size - 1 : After(h, j) = After(h, k) => j = k
           /\ \A k \in 0 .. Size - 1 : /\ After(After(h, 1), k) = After(h, k + 1)
                                       /\ After(After(h, k), 1) = After(h, k + 1)
           /\ \A k \in 0 .. Size : After(After(h, k), 0) = After(h, k)
           /\ After(h, Size) = h
<1>1. \A k \in 0 .. Size : After(h, k) = IF h + k < Size THEN h + k ELSE h + k - Size
  BY ModWraps, SizeAssumption DEF After, Index
<1>2. \A k \in 0 .. Size : After(h, k) \in Index
  BY <1>1, SizeAssumption DEF Index
<1>3. \A g \in Index, k \in 0 .. Size :
         After(g, k) = IF g + k < Size THEN g + k ELSE g + k - Size
  BY ModWraps, SizeAssumption DEF After, Index
<1>4. \A k \in 0 .. Size - 1 : /\ After(After(h, 1), k) = After(h, k + 1)
                               /\ After(After(h, k), 1) = After(h, k + 1)
  <2> SUFFICES ASSUME NEW k \in 0 .. Size - 1
               PROVE  /\ After(After(h, 1), k) = After(h, k + 1)
                      /\ After(After(h, k), 1) = After(h, k + 1)
    OBVIOUS
  <2>1. 1 \in 0 .. Size /\ k \in 0 .. Size /\ k + 1 \in 0 .. Size
    BY SizeAssumption
  <2>2. After(h, 1) \in Index /\ After(h, k) \in Index
    BY <1>2, <2>1
  <2>3. /\ After(h, 1) = IF h + 1 < Size THEN h + 1 ELSE h + 1 - Size
        /\ After(h, k) = IF h + k < Size THEN h + k ELSE h + k - Size
        /\ After(h, k + 1) = IF h + (k + 1) < Size THEN h + (k + 1) ELSE h + (k + 1) - Size
    BY <1>1, <2>1
  <2>4. /\ After(After(h, 1), k) = IF After(h, 1) + k < Size THEN After(h, 1) + k
                                   ELSE After(h, 1) + k - Size
        /\ After(After(h, k), 1) = IF After(h, k) + 1 < Size THEN After(h, k) + 1
                                   ELSE After(h, k) + 1 - Size
    BY <1>3, <2>1, <2>2
  <2> QED BY <2>2, <2>3, <2>4, SizeAssumption DEF Index
<1>5. \A k \in 0 .. Size : After(After(h, k), 0) = After(h, k)
  BY <1>2, <1>3, SizeAssumption DEF Index
<1>6. After(h, 0) = h /\ After(h, Size) = h
  BY <1>1, SizeAssumption DEF Index
<1>7. \A j, k \in 0 .. Size - 1 : After(h, j) = After(h, k) => j = k
  BY <1>1, SizeAssumption DEF Index
<1> QED BY <1>2, <1>4, <1>5, <1>6, <1>7

-----------------------------------------------------------------------------
(* Conservation, as a fact about a ring b read from h over n slots and about *)
(* the place pl of each item.                                                *)
Holds(b, h, n, pl) ==
    /\ \A k \in 0 .. n - 1 : b[After(h, k)] \in Item /\ pl[b[After(h, k)]] = "pipe"
    /\ \A j, k \in 0 .. n - 1 : b[After(h, j)] = b[After(h, k)] => j = k
    /\ \A i \in Item : pl[i] = "pipe" => \E k \in 0 .. n - 1 : i = b[After(h, k)]

Moved(pl, items, to) == [i \in Item |-> IF i \in items THEN to ELSE pl[i]]

(* Conservation before and after a step, in terms of Holds. *)
LEMMA ConservationIsHolds ==
    /\ Conservation <=> Holds(buf, head, count, place)
    /\ Conservation' <=> Holds(buf', head', count', place')
BY DEF Conservation, Holds, Window, Contents, Slot, After

(* Storing at the end of the window. *)
LEMMA HoldsStore ==
    ASSUME NEW b \in [Index -> Item \cup {NULL}], NEW h \in Index, NEW n \in 0 .. Size - 1,
           NEW pl \in [Item -> {"client", "call", "pipe", "freed"}],
           NEW i \in Item, pl[i] # "pipe", Holds(b, h, n, pl)
    PROVE  Holds([b EXCEPT ![After(h, n)] = i], h, n + 1, Moved(pl, {i}, "pipe"))
<1> DEFINE c == [b EXCEPT ![After(h, n)] = i]
           q == Moved(pl, {i}, "pipe")
<1>1. \A k \in 0 .. n - 1 : After(h, k) \in Index /\ After(h, k) # After(h, n)
  BY AfterFacts, SizeAssumption
<1>2. After(h, n) \in Index
  BY AfterFacts, SizeAssumption
<1>3. \A k \in 0 .. n - 1 : c[After(h, k)] = b[After(h, k)] /\ b[After(h, k)] # i
  BY <1>1, <1>2 DEF Holds
<1>4. c[After(h, n)] = i
  BY <1>2
<1>5. \A k \in 0 .. n : k \in 0 .. n - 1 \/ k = n
  OBVIOUS
<1>6. \A k \in 0 .. n : c[After(h, k)] \in Item /\ q[c[After(h, k)]] = "pipe"
  BY <1>3, <1>4, <1>5 DEF Holds, Moved
<1>7. \A j, k \in 0 .. n : c[After(h, j)] = c[After(h, k)] => j = k
  BY <1>3, <1>4, <1>5 DEF Holds
<1>8. \A x \in Item : q[x] = "pipe" => \E k \in 0 .. n : x = c[After(h, k)]
  <2> SUFFICES ASSUME NEW x \in Item, q[x] = "pipe" PROVE \E k \in 0 .. n : x = c[After(h, k)]
    OBVIOUS
  <2>1. CASE x = i
    BY <1>4, <2>1
  <2>2. CASE x # i
    <3>1. pl[x] = "pipe"
      BY <2>2 DEF Moved
    <3>2. PICK k \in 0 .. n - 1 : x = b[After(h, k)]
      BY <3>1 DEF Holds
    <3> QED BY <1>3, <3>2
  <2> QED BY <2>1, <2>2
<1>9. 0 .. (n + 1) - 1 = 0 .. n
  OBVIOUS
<1> HIDE DEF c, q
<1>10. Holds(c, h, n + 1, q)
  BY <1>6, <1>7, <1>8, <1>9 DEF Holds
<1> QED BY <1>10 DEF c, q

(* Taking the first slot of the window, which may be overwritten then. *)
LEMMA HoldsTake ==
    ASSUME NEW b \in [Index -> Item \cup {NULL}], NEW h \in Index, NEW n \in 1 .. Size,
           NEW pl \in [Item -> {"client", "call", "pipe", "freed"}],
           NEW to \in {"client", "freed"}, Holds(b, h, n, pl),
           NEW c \in [Index -> Item \cup {NULL}],
           \A s \in Index \ {h} : c[s] = b[s]
    PROVE  /\ b[h] \in Item /\ pl[b[h]] = "pipe"
           /\ Holds(c, After(h, 1), n - 1, Moved(pl, {b[h]}, to))
<1> DEFINE q == Moved(pl, {b[h]}, to)
           g == After(h, 1)
<1>0. After(h, 0) = h
  BY AfterFacts
<1>1. b[h] \in Item /\ pl[b[h]] = "pipe"
  BY <1>0 DEF Holds
<1>2. \A k \in 0 .. n - 2 : /\ After(g, k) = After(h, k + 1)
                            /\ After(h, k + 1) \in Index \ {h}
                            /\ k + 1 \in 0 .. n - 1
  BY <1>0, AfterFacts, SizeAssumption
<1>3. \A k \in 0 .. n - 2 : c[After(g, k)] = b[After(h, k + 1)]
  BY <1>2
<1>4. \A k \in 0 .. n - 2 : b[After(h, k + 1)] \in Item /\ b[After(h, k + 1)] # b[h]
                            /\ pl[b[After(h, k + 1)]] = "pipe"
  BY <1>0, <1>2 DEF Holds
<1>5. \A k \in 0 .. n - 2 : c[After(g, k)] \in Item /\ q[c[After(g, k)]] = "pipe"
  BY <1>3, <1>4 DEF Moved
<1>6. \A j, k \in 0 .. n - 2 : c[After(g, j)] = c[After(g, k)] => j = k
  <2> SUFFICES ASSUME NEW j \in 0 .. n - 2, NEW k \in 0 .. n - 2,
                      c[After(g, j)] = c[After(g, k)]
               PROVE  j = k
    OBVIOUS
  <2>1. b[After(h, j + 1)] = b[After(h, k + 1)]
    BY <1>3
  <2>2. j + 1 = k + 1
    BY <1>2, <2>1 DEF Holds
  <2> QED BY <2>2
<1>7. \A x \in Item : q[x] = "pipe" => \E k \in 0 .. n - 2 : x = c[After(g, k)]
  <2> SUFFICES ASSUME NEW x \in Item, q[x] = "pipe" PROVE \E k \in 0 .. n - 2 : x = c[After(g, k)]
    OBVIOUS
  <2>1. x # b[h] /\ pl[x] = "pipe"
    BY DEF Moved
  <2>2. PICK m \in 0 .. n - 1 : x = b[After(h, m)]
    BY <2>1 DEF Holds
  <2>3. m # 0
    BY <1>0, <2>1, <2>2
  <2>4. m - 1 \in 0 .. n - 2 /\ (m - 1) + 1 = m
    BY <2>3
  <2>5. x = c[After(g, m - 1)]
    BY <1>3, <2>2, <2>4
  <2> QED BY <2>4, <2>5
<1>8. 0 .. (n - 1) - 1 = 0 .. n - 2
  OBVIOUS
<1> HIDE DEF q, g
<1>9. Holds(c, g, n - 1, q)
  BY <1>5, <1>6, <1>7, <1>8 DEF Holds
<1> QED BY <1>1, <1>9 DEF q, g

-----------------------------------------------------------------------------
(* The inductive invariant. *)

(* A thread that passed the test of the flag and has not yet acted on it     *)
(* holds the mutex.                                                          *)
LockHeld == \A t \in Thread : pc[t] \in {"putting", "getting"} => lock = t

(* Each put under way has an item of its own. *)
Callers ==
    /\ \A t \in Thread : pc[t] \in {"put", "putting"}
            => arg[t] \in Item /\ place[arg[t]] = "call"
    /\ \A t, u \in Thread :
            /\ pc[t] \in {"put", "putting"}
            /\ pc[u] \in {"put", "putting"}
            /\ arg[t] = arg[u]
            => t = u

(* Once close is through, the ring is empty and nobody is about to fill it.  *)
Quiet == closed /\ Closing = {}
            => count = 0 /\ \A t \in Thread : pc[t] \notin {"putting", "getting"}

(* Nobody calls a pipeline that was freed. *)
Gone == ~alive => closed /\ \A t \in Thread : pc[t] = "idle"

IInv == TypeOK /\ RingConsistent /\ Conservation /\ Callers /\ LockHeld /\ Quiet /\ Gone

(* make_pipeline establishes the inductive invariant. *)
LEMMA InitHolds == Init => IInv
<1> SUFFICES ASSUME Init PROVE IInv
  OBVIOUS
<1>1. TypeOK
  <2>1. 0 \in Index /\ 0 \in 0 .. Size
    BY SizeAssumption DEF Index
  <2>2. closed \in BOOLEAN /\ alive \in BOOLEAN
    BY DEF Init
  <2> QED BY <2>1, <2>2 DEF Init, TypeOK
<1>2. RingConsistent
  BY AfterFacts, SizeAssumption DEF Init, RingConsistent, After, Index
<1>3. Conservation
  BY DEF Init, Conservation, Window
<1>4. Callers /\ LockHeld /\ Quiet /\ Gone
  BY DEF Init, Callers, LockHeld, Quiet, Gone
<1> QED BY <1>1, <1>2, <1>3, <1>4 DEF IInv

(* A step that leaves the ring and the items alone. *)
LEMMA SameRing ==
    ASSUME IInv, UNCHANGED <<ring, place>>
    PROVE  RingConsistent' /\ Conservation'
<1>1. buf' = buf /\ head' = head /\ tail' = tail /\ count' = count /\ place' = place
  BY DEF ring
<1> QED BY <1>1 DEF IInv, RingConsistent, Conservation, Window, Contents, Slot

(* Items that are not in the window may move among the others. *)
LEMMA HoldsElsewhere ==
    ASSUME NEW b, NEW h, NEW n, NEW pl \in [Item -> {"client", "call", "pipe", "freed"}],
           NEW i \in Item, pl[i] # "pipe", NEW to \in {"client", "call"}, Holds(b, h, n, pl)
    PROVE  Holds(b, h, n, Moved(pl, {i}, to))
BY DEF Holds, Moved

(* A call of put_pipeline takes the caller's object. *)
LEMMA PutCallHolds ==
    ASSUME IInv, NEW t \in Producer, NEW i \in Item, PutCall(t, i)
    PROVE  IInv'
<1>0. t \in Thread /\ TypeOK
  BY DEF Thread, IInv
<1>1. /\ alive /\ pc[t] = "idle" /\ place[i] = "client"
      /\ pc' = [pc EXCEPT ![t] = "put"] /\ arg' = [arg EXCEPT ![t] = i]
      /\ place' = Moved(place, {i}, "call")
      /\ UNCHANGED <<buf, head, tail, count, policy, closed, lock, input, output, alive>>
  BY DEF PutCall, Goto, Move, Moved, ring
<1>2. place' = [place EXCEPT ![i] = "call"]
  BY <1>0, <1>1 DEF Moved, TypeOK
<1>3. TypeOK'
  BY <1>0, <1>1, <1>2 DEF TypeOK
<1>4. RingConsistent'
  BY <1>1 DEF IInv, RingConsistent
<1>5. Conservation'
  <2>1. Holds(buf, head, count, place) /\ place \in [Item -> {"client", "call", "pipe", "freed"}]
    BY <1>0, ConservationIsHolds DEF IInv, TypeOK
  <2>2. Holds(buf, head, count, place')
    BY <1>1, <2>1, HoldsElsewhere
  <2> QED BY <1>1, <2>2, ConservationIsHolds
<1>6. Callers'
  <2>1. \A u \in Thread : /\ pc'[u] = IF u = t THEN "put" ELSE pc[u]
                          /\ arg'[u] = IF u = t THEN i ELSE arg[u]
    BY <1>0, <1>1 DEF TypeOK
  <2>2. \A x \in Item : place'[x] = IF x = i THEN "call" ELSE place[x]
    BY <1>1 DEF Moved
  <2> QED BY <1>1, <2>1, <2>2 DEF IInv, Callers
<1>7. LockHeld' /\ Quiet' /\ Gone'
  BY <1>0, <1>1 DEF IInv, LockHeld, Quiet, Gone, Closing, TypeOK
<1> QED BY <1>3, <1>4, <1>5, <1>6, <1>7 DEF IInv

(* put_pipeline's test of the flag. *)
LEMMA PutTestHolds ==
    ASSUME IInv, NEW t \in Producer, PutTest(t)
    PROVE  IInv'
<1>0. t \in Thread /\ TypeOK /\ pc[t] = "put" /\ t \notin input /\ lock \in {NoThread, t}
      /\ UNCHANGED <<buf, head, tail, count, policy, closed, input, output, alive>>
      /\ arg[t] \in Item /\ place[arg[t]] = "call"
  BY DEF Thread, IInv, PutTest, Callers, ring
<1>1. CASE ~closed
  <2>1. lock' = t /\ pc' = [pc EXCEPT ![t] = "putting"] /\ arg' = arg /\ place' = place
    BY <1>0, <1>1 DEF PutTest, Goto
  <2>2. TypeOK'
    BY <1>0, <2>1 DEF TypeOK
  <2>3. RingConsistent' /\ Conservation'
    BY <1>0, <2>1, SameRing DEF ring
  <2>4. LockHeld'
    BY <1>0, <2>1, NoneAssumption DEF IInv, LockHeld, TypeOK
  <2>5. Callers' /\ Quiet' /\ Gone'
    BY <1>0, <1>1, <2>1 DEF IInv, Callers, Quiet, Gone, TypeOK
  <2> QED BY <2>2, <2>3, <2>4, <2>5 DEF IInv
<1>2. CASE closed
  <2>1. /\ lock' = NoThread /\ pc' = [pc EXCEPT ![t] = "idle"]
        /\ arg' = [arg EXCEPT ![t] = NULL] /\ place' = Moved(place, {arg[t]}, "client")
    BY <1>0, <1>2 DEF PutTest, Goto, Move, Moved
  <2>2. place' = [place EXCEPT ![arg[t]] = "client"]
    BY <1>0, <2>1 DEF Moved, TypeOK
  <2>3. TypeOK'
    BY <1>0, <2>1, <2>2 DEF TypeOK
  <2>4. RingConsistent'
    BY <1>0 DEF IInv, RingConsistent
  <2>5. Conservation'
    <3>1. Holds(buf, head, count, place) /\ place \in [Item -> {"client", "call", "pipe", "freed"}]
      BY <1>0, ConservationIsHolds DEF IInv, TypeOK
    <3>2. Holds(buf, head, count, place')
      BY <1>0, <2>1, <3>1, HoldsElsewhere
    <3> QED BY <1>0, <3>2, ConservationIsHolds
  <2>6. Callers'
    <3>1. \A u \in Thread : /\ pc'[u] = IF u = t THEN "idle" ELSE pc[u]
                            /\ u # t => arg'[u] = arg[u]
      BY <1>0, <2>1 DEF TypeOK
    <3>2. \A x \in Item : place'[x] = IF x = arg[t] THEN "client" ELSE place[x]
      BY <2>1 DEF Moved
    <3> QED BY <1>0, <3>1, <3>2 DEF IInv, Callers
  <2>7. LockHeld'
    BY <1>0, <2>1, NoneAssumption DEF IInv, LockHeld, TypeOK
  <2>8. Quiet' /\ Gone'
    BY <1>0, <2>1 DEF IInv, Quiet, Gone, Closing, TypeOK
  <2> QED BY <2>3, <2>4, <2>5, <2>6, <2>7, <2>8 DEF IInv
<1> QED BY <1>1, <1>2

(* put_pipeline stores at tail. *)
LEMMA PutStoreHolds ==
    ASSUME IInv, NEW t \in Producer, PutStore(t)
    PROVE  IInv'
<1>0. /\ t \in Thread /\ TypeOK /\ pc[t] = "putting" /\ lock = t /\ count \in 0 .. Size - 1
      /\ arg[t] \in Item /\ place[arg[t]] = "call" /\ tail = After(head, count)
      /\ Holds(buf, head, count, place)
  BY ConservationIsHolds, SizeAssumption
     DEF Thread, IInv, PutStore, Room, Callers, LockHeld, TypeOK, RingConsistent, After
<1>1. /\ buf' = [buf EXCEPT ![tail] = arg[t]] /\ tail' = After(tail, 1)
      /\ count' = count + 1 /\ head' = head
      /\ output' \subseteq output /\ lock' = NoThread
      /\ pc' = [pc EXCEPT ![t] = "idle"] /\ arg' = [arg EXCEPT ![t] = NULL]
      /\ place' = Moved(place, {arg[t]}, "pipe")
      /\ UNCHANGED <<policy, closed, input, alive>>
  BY DEF PutStore, SignalOutput, Goto, Move, Moved, After, cnd_signal
<1>2. tail' \in Index /\ tail' = After(head, count + 1)
  BY <1>0, <1>1, AfterFacts, SizeAssumption DEF TypeOK
<1>3. \A x \in Item : place'[x] = IF x = arg[t] THEN "pipe" ELSE place[x]
  BY <1>1 DEF Moved
<1>4. TypeOK'
  <2>1. place' \in [Item -> {"client", "call", "pipe", "freed"}]
    BY <1>0, <1>1 DEF Moved, TypeOK
  <2>2. count' \in 0 .. Size
    BY <1>0, <1>1, SizeAssumption
  <2>3. buf' \in [Index -> Item \cup {NULL}]
    BY <1>0, <1>1 DEF TypeOK
  <2> QED BY <1>0, <1>1, <1>2, <2>1, <2>2, <2>3 DEF TypeOK
<1>5. RingConsistent'
  BY <1>1, <1>2 DEF RingConsistent, After
<1>6. Conservation'
  <2>1. Holds([buf EXCEPT ![After(head, count)] = arg[t]], head, count + 1, place')
    BY <1>0, <1>1, HoldsStore DEF TypeOK
  <2> QED BY <1>0, <1>1, <2>1, ConservationIsHolds
<1>7. Callers' /\ LockHeld'
  <2>1. \A u \in Thread : /\ pc'[u] = IF u = t THEN "idle" ELSE pc[u]
                          /\ u # t => arg'[u] = arg[u]
    BY <1>0, <1>1 DEF TypeOK
  <2> QED BY <1>0, <1>1, <1>3, <2>1 DEF IInv, Callers, LockHeld
<1>8. Quiet' /\ Gone'
  BY <1>0, <1>1 DEF IInv, Quiet, Gone, Closing, TypeOK
<1> QED BY <1>4, <1>5, <1>6, <1>7, <1>8 DEF IInv

(* Both get and the drop branch of put take the first item of the window. *)
LEMMA TakeRing ==
    ASSUME IInv, count > 0, NEW to \in {"client", "freed"},
           head' = After(head, 1), count' = count - 1, tail' = tail,
           place' = Moved(place, {buf[head]}, to),
           buf' \in [Index -> Item \cup {NULL}],
           \A s \in Index \ {head} : buf'[s] = buf[s]
    PROVE  /\ RingConsistent' /\ Conservation'
           /\ head' \in Index /\ count' \in 0 .. Size
           /\ place' \in [Item -> {"client", "call", "pipe", "freed"}]
           /\ \A x \in Item : place[x] = "call" => place'[x] = "call"
<1>0. /\ TypeOK /\ count \in 1 .. Size /\ tail = After(head, count)
      /\ Holds(buf, head, count, place) /\ head \in Index
  BY ConservationIsHolds, SizeAssumption DEF IInv, TypeOK, RingConsistent, After
<1>1. head' \in Index /\ count' \in 0 .. Size
  BY <1>0, AfterFacts, SizeAssumption
<1>2. RingConsistent'
  <2>1. count - 1 \in 0 .. Size - 1 /\ (count - 1) + 1 = count
    BY <1>0, SizeAssumption
  <2>2. After(After(head, 1), count - 1) = After(head, count)
    BY <1>0, <2>1, AfterFacts
  <2> QED BY <1>0, <2>2 DEF RingConsistent, After
<1>3. /\ buf[head] \in Item /\ place[buf[head]] = "pipe"
      /\ Holds(buf', After(head, 1), count - 1, Moved(place, {buf[head]}, to))
  BY <1>0, HoldsTake DEF TypeOK
<1>4. Conservation'
  BY <1>3, ConservationIsHolds
<1>5. place' \in [Item -> {"client", "call", "pipe", "freed"}]
  BY <1>0 DEF Moved, TypeOK
<1>6. \A x \in Item : place[x] = "call" => place'[x] = "call"
  BY <1>3 DEF Moved
<1> QED BY <1>1, <1>2, <1>4, <1>5, <1>6

(* The drop branch frees the object at head. *)
LEMMA PutDropHolds ==
    ASSUME IInv, NEW t \in Producer, PutDrop(t)
    PROVE  IInv'
<1>0. /\ t \in Thread /\ TypeOK /\ pc[t] = "putting" /\ lock = t /\ count > 0
  BY SizeAssumption DEF Thread, IInv, PutDrop, Room, LockHeld, TypeOK
<1>1. /\ head' = After(head, 1) /\ count' = count - 1 /\ tail' = tail /\ buf' = buf
      /\ pc' = [pc EXCEPT ![t] = "put"] /\ place' = Moved(place, {buf[head]}, "freed")
      /\ UNCHANGED <<policy, closed, lock, input, output, arg, alive>>
  BY DEF PutDrop, DropFrees, Goto, Move, Moved, After
<1>2. /\ RingConsistent' /\ Conservation' /\ head' \in Index /\ count' \in 0 .. Size
      /\ place' \in [Item -> {"client", "call", "pipe", "freed"}]
      /\ \A x \in Item : place[x] = "call" => place'[x] = "call"
  BY <1>0, <1>1, TakeRing DEF TypeOK
<1>3. TypeOK'
  BY <1>0, <1>1, <1>2 DEF TypeOK
<1>4. Callers' /\ LockHeld'
  <2>1. \A u \in Thread : pc'[u] = IF u = t THEN "put" ELSE pc[u]
    BY <1>0, <1>1 DEF TypeOK
  <2>2. LockHeld'
    BY <1>0, <1>1, <2>1 DEF IInv, LockHeld
  <2>3. \A u \in Thread : pc'[u] \in {"put", "putting"} => pc[u] \in {"put", "putting"}
    BY <1>0, <2>1
  <2>4. \A u \in Thread : pc'[u] \in {"put", "putting"}
            => arg'[u] \in Item /\ place'[arg'[u]] = "call"
    BY <1>1, <1>2, <2>3 DEF IInv, Callers
  <2>5. Callers'
    BY <1>1, <2>3, <2>4 DEF IInv, Callers
  <2> QED BY <2>2, <2>5
<1>5. Quiet' /\ Gone'
  BY <1>0, <1>1 DEF IInv, Quiet, Gone, Closing, TypeOK
<1> QED BY <1>2, <1>3, <1>4, <1>5 DEF IInv

(* get_pipeline takes the object at head. *)
LEMMA GetTakeHolds ==
    ASSUME IInv, NEW t \in Consumer, GetTake(t)
    PROVE  IInv'
<1>0. /\ t \in Thread /\ TypeOK /\ pc[t] = "getting" /\ lock = t /\ count > 0
  BY DEF Thread, IInv, GetTake, LockHeld
<1>1. /\ head' = After(head, 1) /\ count' = count - 1 /\ tail' = tail
      /\ buf' = [buf EXCEPT ![head] = NULL]
      /\ lock' = NoThread /\ input' \subseteq input
      /\ pc' = [pc EXCEPT ![t] = "idle"] /\ place' = Moved(place, {buf[head]}, "client")
      /\ UNCHANGED <<policy, closed, output, arg, alive>>
  BY DEF GetTake, SignalInput, Goto, Move, Moved, After, cnd_signal
<1>2. /\ RingConsistent' /\ Conservation' /\ head' \in Index /\ count' \in 0 .. Size
      /\ place' \in [Item -> {"client", "call", "pipe", "freed"}]
      /\ \A x \in Item : place[x] = "call" => place'[x] = "call"
  <2>1. buf' \in [Index -> Item \cup {NULL}] /\ \A s \in Index \ {head} : buf'[s] = buf[s]
    BY <1>0, <1>1 DEF TypeOK
  <2> QED BY <1>0, <1>1, <2>1, TakeRing
<1>3. TypeOK'
  BY <1>0, <1>1, <1>2 DEF TypeOK
<1>4. Callers' /\ LockHeld'
  <2>1. \A u \in Thread : pc'[u] = IF u = t THEN "idle" ELSE pc[u]
    BY <1>0, <1>1 DEF TypeOK
  <2>2. LockHeld'
    BY <1>0, <1>1, <2>1 DEF IInv, LockHeld
  <2>3. \A u \in Thread : pc'[u] \in {"put", "putting"} => pc[u] \in {"put", "putting"}
    BY <1>0, <2>1
  <2>4. \A u \in Thread : pc'[u] \in {"put", "putting"}
            => arg'[u] \in Item /\ place'[arg'[u]] = "call"
    BY <1>1, <1>2, <2>3 DEF IInv, Callers
  <2>5. Callers'
    BY <1>1, <2>3, <2>4 DEF IInv, Callers
  <2> QED BY <2>2, <2>5
<1>5. Quiet' /\ Gone'
  BY <1>0, <1>1 DEF IInv, Quiet, Gone, Closing, TypeOK
<1> QED BY <1>2, <1>3, <1>4, <1>5 DEF IInv

(* Freeing the whole window, as close does. *)
LEMMA DrainRing ==
    ASSUME IInv, head' = (head + count) % Size, count' = 0, tail' = tail, buf' = buf,
           Move(Contents, "freed")
    PROVE  /\ RingConsistent' /\ Conservation' /\ head' \in Index
           /\ place' \in [Item -> {"client", "call", "pipe", "freed"}]
           /\ \A x \in Item : place[x] = "call" => place'[x] = "call"
<1>0. /\ TypeOK /\ head \in Index /\ count \in 0 .. Size /\ tail = After(head, count)
      /\ head' = After(head, count)
  BY DEF IInv, TypeOK, RingConsistent, After
<1>1. head' \in Index /\ After(After(head, count), 0) = After(head, count)
  BY <1>0, AfterFacts
<1>2. RingConsistent'
  BY <1>0, <1>1 DEF RingConsistent, After
<1>3. \A x \in Item : place'[x] = IF x \in Contents THEN "freed" ELSE place[x]
  BY DEF Move
<1>4. \A x \in Item : place'[x] # "pipe"
  BY <1>3 DEF IInv, Conservation
<1>5. Conservation'
  BY <1>4 DEF Conservation, Window
<1>6. place' \in [Item -> {"client", "call", "pipe", "freed"}]
  BY <1>0 DEF Move, TypeOK
<1>7. \A x \in Item : place[x] = "call" => place'[x] = "call"
  BY <1>3 DEF IInv, Conservation, Contents
<1> QED BY <1>1, <1>2, <1>5, <1>6, <1>7

(* close_pipeline frees what is left. *)
LEMMA CloseDrainHolds ==
    ASSUME IInv, NEW t \in Closer, CloseDrain(t)
    PROVE  IInv'
<1>0. t \in Thread /\ TypeOK /\ pc[t] = "draining" /\ lock = NoThread
  BY DEF Thread, IInv, CloseDrain, MayDrain
<1>1. /\ count' = 0 /\ pc' = [pc EXCEPT ![t] = "idle"]
      /\ UNCHANGED <<buf, tail, policy, closed, lock, input, output, arg, alive>>
  BY DEF CloseDrain, Drain, Goto
<1>2. /\ RingConsistent' /\ Conservation' /\ head' \in Index
      /\ place' \in [Item -> {"client", "call", "pipe", "freed"}]
      /\ \A x \in Item : place[x] = "call" => place'[x] = "call"
  BY <1>1, DrainRing DEF CloseDrain, Drain
<1>3. TypeOK'
  BY <1>0, <1>1, <1>2, SizeAssumption DEF TypeOK
<1>4. \A u \in Thread : pc'[u] = IF u = t THEN "idle" ELSE pc[u]
  BY <1>0, <1>1 DEF TypeOK
<1>5. \A u \in Thread : pc'[u] \notin {"putting", "getting"}
  BY <1>0, <1>4, NoneAssumption DEF IInv, LockHeld
<1>6. LockHeld' /\ Quiet' /\ Gone'
  BY <1>0, <1>1, <1>4, <1>5 DEF IInv, LockHeld, Quiet, Gone
<1>7. Callers'
  <2>1. \A u \in Thread : pc'[u] \in {"put", "putting"} => pc[u] \in {"put", "putting"}
    BY <1>4
  <2> QED BY <1>1, <1>2, <2>1 DEF IInv, Callers
<1> QED BY <1>2, <1>3, <1>6, <1>7 DEF IInv

(* free_pipeline closes and gives the memory back. *)
LEMMA FreeHolds == IInv /\ Free => IInv'
<1> SUFFICES ASSUME IInv, Free PROVE IInv'
  OBVIOUS
<1>0. TypeOK /\ (\A t \in Thread : pc[t] = "idle") /\ closed' = TRUE /\ alive' = FALSE
      /\ UNCHANGED <<buf, tail, policy, lock, input, output, pc, arg>>
  BY DEF IInv, Free, threads
<1>1. /\ RingConsistent' /\ Conservation' /\ head' \in Index /\ count' = 0
      /\ place' \in [Item -> {"client", "call", "pipe", "freed"}]
  <2>1. CASE closed
    <3>1. UNCHANGED <<ring, place>>
      BY <1>0, <2>1 DEF Free, ring
    <3>2. count = 0
      BY <1>0, <2>1 DEF IInv, Quiet, Closing
    <3> QED BY <1>0, <3>1, <3>2, SameRing DEF TypeOK, ring
  <2>2. CASE ~closed
    BY <1>0, <2>2, DrainRing DEF Free, Drain
  <2> QED BY <2>1, <2>2
<1>2. TypeOK'
  <2>1. closed' \in BOOLEAN /\ alive' \in BOOLEAN
    BY <1>0
  <2>2. count' \in 0 .. Size
    BY <1>1, SizeAssumption
  <2> QED BY <1>0, <1>1, <2>1, <2>2 DEF TypeOK
<1>3. Callers' /\ LockHeld' /\ Quiet' /\ Gone'
  BY <1>0, <1>1 DEF Callers, LockHeld, Quiet, Gone
<1> QED BY <1>1, <1>2, <1>3 DEF IInv

(* The steps that touch neither the ring nor the items. *)
LEMMA GetHolds ==
    ASSUME IInv, NEW t \in Consumer, GetCall(t) \/ GetTest(t) \/ GetWait(t)
    PROVE  IInv'
<1>0. /\ t \in Thread /\ TypeOK
      /\ UNCHANGED <<ring, place, arg, policy, closed, input, alive>>
  BY DEF Thread, IInv, GetCall, GetTest, GetWait
<1>1. RingConsistent' /\ Conservation'
  BY <1>0, SameRing
<1>2. CASE GetCall(t)
  <2>1. pc[t] = "idle" /\ alive /\ pc' = [pc EXCEPT ![t] = "get"] /\ UNCHANGED <<lock, output>>
    BY <1>2 DEF GetCall, Goto
  <2>2. TypeOK'
    BY <1>0, <2>1 DEF TypeOK, ring
  <2>3. Callers' /\ LockHeld' /\ Quiet' /\ Gone'
    BY <1>0, <2>1 DEF IInv, Callers, LockHeld, Quiet, Gone, Closing, TypeOK, ring
  <2> QED BY <1>1, <2>2, <2>3 DEF IInv
<1>3. CASE GetTest(t)
  <2>0. pc[t] = "get" /\ t \notin output /\ lock = NoThread /\ UNCHANGED output
    BY <1>3 DEF GetTest
  <2>1. CASE ~closed
    <3>1. lock' = t /\ pc' = [pc EXCEPT ![t] = "getting"]
      BY <1>3, <2>1 DEF GetTest, Goto
    <3>2. TypeOK'
      BY <1>0, <2>0, <3>1 DEF TypeOK, ring
    <3>3. LockHeld'
      BY <1>0, <2>0, <3>1, NoneAssumption DEF IInv, LockHeld, TypeOK
    <3>4. Callers' /\ Quiet' /\ Gone'
      BY <1>0, <2>0, <2>1, <3>1 DEF IInv, Callers, Quiet, Gone, TypeOK
    <3> QED BY <1>1, <3>2, <3>3, <3>4 DEF IInv
  <2>2. CASE closed
    <3>1. lock' = NoThread /\ pc' = [pc EXCEPT ![t] = "idle"]
      BY <1>3, <2>2 DEF GetTest, Goto
    <3>2. TypeOK'
      BY <1>0, <2>0, <3>1 DEF TypeOK, ring
    <3>3. LockHeld'
      BY <1>0, <2>0, <3>1, NoneAssumption DEF IInv, LockHeld, TypeOK
    <3>4. Callers' /\ Quiet' /\ Gone'
      BY <1>0, <2>0, <2>2, <3>1 DEF IInv, Callers, Quiet, Gone, Closing, TypeOK, ring
    <3> QED BY <1>1, <3>2, <3>3, <3>4 DEF IInv
  <2> QED BY <2>1, <2>2
<1>4. CASE GetWait(t)
  <2>1. /\ pc[t] = "getting" /\ lock = t /\ lock' = NoThread
        /\ output' = output \cup {t} /\ pc' = [pc EXCEPT ![t] = "get"]
    BY <1>0, <1>4 DEF GetWait, Goto, cnd_wait, IInv, LockHeld
  <2>2. TypeOK'
    BY <1>0, <2>1 DEF TypeOK, ring
  <2>3. LockHeld'
    BY <1>0, <2>1 DEF IInv, LockHeld, TypeOK
  <2>4. Callers' /\ Quiet' /\ Gone'
    BY <1>0, <2>1 DEF IInv, Callers, Quiet, Gone, Closing, TypeOK, ring
  <2> QED BY <1>1, <2>2, <2>3, <2>4 DEF IInv
<1> QED BY <1>2, <1>3, <1>4

(* put_pipeline waits at a full ring. *)
LEMMA PutWaitHolds ==
    ASSUME IInv, NEW t \in Producer, PutWait(t)
    PROVE  IInv'
<1>0. /\ t \in Thread /\ TypeOK /\ pc[t] = "putting" /\ lock = t /\ lock' = NoThread
      /\ input' = input \cup {t} /\ pc' = [pc EXCEPT ![t] = "put"]
      /\ UNCHANGED <<ring, place, arg, policy, closed, output, alive>>
  BY DEF Thread, IInv, PutWait, Goto, cnd_wait, LockHeld
<1>1. RingConsistent' /\ Conservation'
  BY <1>0, SameRing
<1>2. TypeOK'
  BY <1>0 DEF TypeOK, ring
<1>3. LockHeld'
  BY <1>0 DEF IInv, LockHeld, TypeOK
<1>4. Callers' /\ Quiet' /\ Gone'
  BY <1>0 DEF IInv, Callers, Quiet, Gone, Closing, TypeOK, ring
<1> QED BY <1>1, <1>2, <1>3, <1>4 DEF IInv

(* close_pipeline up to the drain. *)
LEMMA CloseHolds ==
    ASSUME IInv, NEW t \in Closer,
           CloseFlag(t) \/ CloseWakeInput(t) \/ CloseWakeOutput(t)
    PROVE  IInv'
<1>0. /\ t \in Thread /\ TypeOK
      /\ UNCHANGED <<ring, place, arg, policy, lock, alive>>
      /\ alive \/ pc[t] # "idle"
      /\ pc[t] \in {"idle", "wakeinput", "wakeoutput"}
      /\ input' \subseteq input /\ output' \subseteq output
      /\ closed' \in {closed, TRUE}
  BY DEF Thread, IInv, CloseFlag, CloseWakeInput, CloseWakeOutput, cnd_broadcast
<1>1. PICK label \in {"wakeinput", "wakeoutput", "draining"} : pc' = [pc EXCEPT ![t] = label]
  BY DEF CloseFlag, CloseWakeInput, CloseWakeOutput, Goto
<1>2. RingConsistent' /\ Conservation'
  BY <1>0, SameRing
<1>3. TypeOK'
  <2>1. closed' \in BOOLEAN
    BY <1>0 DEF TypeOK
  <2> QED BY <1>0, <1>1, <2>1 DEF TypeOK, ring
<1>4. \A u \in Thread : pc'[u] = IF u = t THEN label ELSE pc[u]
  BY <1>0, <1>1 DEF TypeOK
<1>5. LockHeld' /\ Callers'
  <2>1. \A u \in Thread : /\ pc'[u] \in {"put", "putting"} => pc[u] \in {"put", "putting"}
                          /\ pc'[u] \in {"putting", "getting"} => pc[u] \in {"putting", "getting"}
    BY <1>1, <1>4
  <2> QED BY <1>0, <2>1 DEF IInv, LockHeld, Callers
<1>6. Quiet'
  <2>1. pc'[t] \in {"wakeinput", "wakeoutput", "draining"}
    BY <1>0, <1>1, <1>4
  <2>2. t \in Closing'
    BY <1>0, <2>1 DEF Closing
  <2> QED BY <2>2 DEF Quiet
<1>7. Gone'
  BY <1>0 DEF IInv, Gone
<1> QED BY <1>2, <1>3, <1>5, <1>6, <1>7 DEF IInv

(* Every step keeps the inductive invariant. *)
LEMMA NextHolds == IInv /\ [Next]_vars => IInv'
<1> SUFFICES ASSUME IInv, [Next]_vars PROVE IInv'
  OBVIOUS
<1>1. ASSUME NEW t \in Producer, Put(t) PROVE IInv'
  BY <1>1, PutTestHolds, PutStoreHolds, PutWaitHolds, PutDropHolds DEF Put
<1>2. ASSUME NEW t \in Producer, NEW i \in Item, PutCall(t, i) PROVE IInv'
  BY <1>2, PutCallHolds
<1>3. ASSUME NEW t \in Consumer, Get(t) \/ GetCall(t) PROVE IInv'
  BY <1>3, GetHolds, GetTakeHolds DEF Get
<1>4. ASSUME NEW t \in Closer, Close(t) \/ CloseFlag(t) PROVE IInv'
  BY <1>4, CloseHolds, CloseDrainHolds DEF Close
<1>5. ASSUME NEW t \in Thread, SpuriousWake(t) PROVE IInv'
  <2>0. /\ TypeOK /\ input' \subseteq input /\ output' \subseteq output
        /\ UNCHANGED <<ring, place, arg, policy, closed, lock, pc, alive>>
    BY <1>5 DEF SpuriousWake, IInv
  <2>1. RingConsistent' /\ Conservation'
    BY <2>0, SameRing
  <2>2. TypeOK'
    BY <2>0 DEF TypeOK, ring
  <2>3. Callers' /\ LockHeld' /\ Quiet' /\ Gone'
    BY <2>0 DEF IInv, Callers, LockHeld, Quiet, Gone, Closing, ring
  <2> QED BY <2>1, <2>2, <2>3 DEF IInv
<1>6. CASE Free
  BY <1>6, FreeHolds
<1>7. CASE UNCHANGED vars
  <2>0. /\ TypeOK /\ UNCHANGED <<ring, place, arg, policy, closed, lock, input, output, pc, alive>>
    BY <1>7 DEF vars, threads, IInv
  <2>1. RingConsistent' /\ Conservation'
    BY <2>0, SameRing
  <2>2. TypeOK' /\ Callers' /\ LockHeld' /\ Quiet' /\ Gone'
    BY <2>0 DEF IInv, TypeOK, Callers, LockHeld, Quiet, Gone, Closing, ring
  <2> QED BY <2>1, <2>2 DEF IInv
<1> QED BY <1>1, <1>2, <1>3, <1>4, <1>5, <1>6, <1>7 DEF Next

(* The inductive invariant holds throughout. *)
LEMMA Invariance == Spec => []IInv
BY InitHolds, NextHolds, PTL DEF Spec

(* put, get, the drop branch, close and free_pipeline together keep the ring *)
(* consistent and account for every object, whatever the number of threads.  *)
THEOREM Safety ==
    Spec => [](TypeOK /\ RingConsistent /\ Conservation /\ ClosedStaysEmpty /\ NothingLeaks)
<1>1. IInv => ClosedStaysEmpty
  BY DEF IInv, Quiet, ClosedStaysEmpty
<1>2. IInv => NothingLeaks
  <2> SUFFICES ASSUME IInv, ~alive PROVE \A i \in Item : place[i] # "pipe"
    BY DEF NothingLeaks
  <2>1. count = 0
    BY DEF IInv, Gone, Quiet, Closing
  <2> QED BY <2>1 DEF IInv, Conservation, Contents, Window
<1>3. IInv => TypeOK /\ RingConsistent /\ Conservation
  BY DEF IInv
<1> QED BY <1>1, <1>2, <1>3, Invariance, PTL

-----------------------------------------------------------------------------
(* One producer and one consumer, as the documentation of the header has it. *)
OneEach == /\ \A p, q \in Producer : p = q
           /\ \A c, d \in Consumer : c = d

(* Whoever is inside close has set the flag, which nobody resets. *)
Flagged == \A t \in Closing : closed

(* The facts about the closed flag hold throughout. *)
LEMMA FlagStays == Spec => []Flagged
<1>1. Init => Flagged
  BY DEF Init, Flagged, Closing
<1>2. ASSUME IInv, [Next]_vars, Flagged PROVE Flagged'
  <2>0. TypeOK
    BY <1>2 DEF IInv
  <2>1. closed => closed'
    BY <1>2 DEF Next, vars, Put, PutTest, PutStore, PutWait, PutDrop, PutCall,
                Get, GetTest, GetTake, GetWait, GetCall, Close, CloseFlag,
                CloseWakeInput, CloseWakeOutput, CloseDrain, SpuriousWake, Free
  <2>2. ASSUME NEW t \in Thread, NEW label, label \notin {"wakeinput", "wakeoutput", "draining"},
               pc' = [pc EXCEPT ![t] = label]
        PROVE  Flagged'
    BY <1>2, <2>0, <2>1, <2>2 DEF Flagged, Closing, TypeOK
  <2>3. ASSUME pc' = pc PROVE Flagged'
    BY <1>2, <2>1, <2>3 DEF Flagged, Closing
  <2>4. ASSUME NEW t \in Thread, CloseFlag(t) PROVE Flagged'
    BY <2>4 DEF CloseFlag, Flagged
  <2>5. ASSUME NEW t \in Thread, CloseWakeInput(t) \/ CloseWakeOutput(t) PROVE Flagged'
    <3>1. closed
      BY <1>2, <2>5 DEF CloseWakeInput, CloseWakeOutput, Flagged, Closing
    <3> QED BY <2>1, <3>1 DEF Flagged
  <2>6. ASSUME NEW t \in Thread,
               \/ PutTest(t) \/ PutStore(t) \/ PutWait(t) \/ PutDrop(t)
               \/ (\E i \in Item : PutCall(t, i))
               \/ GetTest(t) \/ GetTake(t) \/ GetWait(t) \/ GetCall(t) \/ CloseDrain(t)
        PROVE  Flagged'
    <3>1. \E label \in {"idle", "put", "putting", "get", "getting"} :
             pc' = [pc EXCEPT ![t] = label]
      BY <2>6 DEF PutTest, PutStore, PutWait, PutDrop, PutCall, GetTest, GetTake,
                  GetWait, GetCall, CloseDrain, Goto
    <3> QED BY <2>2, <3>1
  <2>7. ASSUME NEW t \in Thread, SpuriousWake(t) PROVE Flagged'
    BY <2>3, <2>7 DEF SpuriousWake
  <2>8. CASE Free
    BY <2>3, <2>8 DEF Free, threads
  <2>9. CASE UNCHANGED vars
    BY <2>3, <2>9 DEF vars, threads
  <2> QED
    BY <1>2, <2>4, <2>5, <2>6, <2>7, <2>8, <2>9 DEF Next, Put, Get, Close, Thread
<1>3. IInv /\ [Next]_vars /\ Flagged => Flagged'
  BY <1>2
<1> QED BY <1>1, <1>3, Invariance, PTL DEF Spec

(* With one thread on each side, the two conditional signals of put and get  *)
(* lose no wakeup, whatever the size of the ring and the policy.             *)
THEOREM SingleSidesLoseNoWakeup ==
    ASSUME OneEach
    PROVE  Spec => []NoLostWakeup
<1>1. Init => NoLostWakeup
  BY DEF Init, NoLostWakeup
<1>2. ASSUME IInv, [Next]_vars, Flagged, NoLostWakeup PROVE NoLostWakeup'
  <2>0. /\ TypeOK /\ Size \in Nat /\ Size > 0 /\ count \in 0 .. Size
        /\ \A t \in input : t \in Producer /\ pc[t] = "put"
        /\ \A t \in output : t \in Consumer /\ pc[t] = "get"
    BY <1>2, SizeAssumption DEF IInv, TypeOK
  <2>1. ASSUME NEW t \in Producer, PutStore(t) PROVE NoLostWakeup'
    <3>1. input = {} /\ input' = input /\ closed' = closed /\ count' = count + 1
      BY <2>0, <2>1 DEF PutStore, OneEach
    <3>2. closed \/ output' = {}
      <4>1. CASE count = 0
        <5>1. \A c, d \in output : c = d
          BY <2>0 DEF OneEach
        <5>2. output' \in cnd_signal(output)
          BY <2>1, <4>1 DEF PutStore, SignalOutput
        <5> QED BY <5>1, <5>2 DEF cnd_signal
      <4>2. CASE count # 0
        BY <1>2, <2>1, <4>2 DEF NoLostWakeup, PutStore, SignalOutput
      <4> QED BY <4>1, <4>2
    <3> QED BY <3>1, <3>2 DEF NoLostWakeup
  <2>2. ASSUME NEW t \in Producer, PutDrop(t) PROVE NoLostWakeup'
    <3>1. /\ input = {} /\ input' = input /\ closed' = closed /\ output' = output /\ count > 0
      BY <2>0, <2>2 DEF PutDrop, Room, OneEach
    <3> QED BY <1>2, <3>1 DEF NoLostWakeup
  <2>3. ASSUME NEW t \in Producer, PutWait(t) PROVE NoLostWakeup'
    <3>1. count = Size /\ count' = count /\ closed' = closed /\ output' = output
      BY <2>0, <2>3 DEF PutWait, Room, ring
    <3> QED BY <1>2, <3>1 DEF NoLostWakeup
  <2>4. ASSUME NEW t \in Consumer, GetTake(t) PROVE NoLostWakeup'
    <3>1. output = {} /\ output' = output /\ closed' = closed /\ count' = count - 1
      BY <2>0, <2>4 DEF GetTake, OneEach
    <3>2. closed \/ input' = {}
      <4>1. CASE count = Size
        <5>1. \A p, q \in input : p = q
          BY <2>0 DEF OneEach
        <5>2. input' \in cnd_signal(input)
          BY <2>4, <4>1 DEF GetTake, SignalInput
        <5> QED BY <5>1, <5>2 DEF cnd_signal
      <4>2. CASE count # Size
        BY <1>2, <2>4, <4>2 DEF NoLostWakeup, GetTake, SignalInput
      <4> QED BY <4>1, <4>2
    <3> QED BY <3>1, <3>2 DEF NoLostWakeup
  <2>5. ASSUME NEW t \in Consumer, GetWait(t) PROVE NoLostWakeup'
    <3>1. count = 0 /\ count' = count /\ closed' = closed /\ input' = input
      BY <2>0, <2>5 DEF GetWait, ring
    <3> QED BY <1>2, <3>1 DEF NoLostWakeup
  <2>6. ASSUME count' = count, closed' = closed, input' \subseteq input, output' \subseteq output
        PROVE  NoLostWakeup'
    BY <1>2, <2>6 DEF NoLostWakeup
  <2>7. ASSUME NEW t \in Thread,
               \/ PutTest(t) \/ (\E i \in Item : PutCall(t, i)) \/ GetTest(t) \/ GetCall(t)
               \/ CloseWakeInput(t) \/ CloseWakeOutput(t) \/ SpuriousWake(t)
        PROVE  NoLostWakeup'
    <3>1. count' = count /\ closed' = closed /\ input' \subseteq input /\ output' \subseteq output
      BY <2>7 DEF PutTest, PutCall, GetTest, GetCall, CloseWakeInput, CloseWakeOutput,
                  SpuriousWake, cnd_broadcast, ring
    <3> QED BY <2>6, <3>1
  <2>8. ASSUME closed' = TRUE PROVE NoLostWakeup'
    BY <2>8 DEF NoLostWakeup
  <2>9. ASSUME NEW t \in Closer, CloseFlag(t) PROVE NoLostWakeup'
    BY <2>8, <2>9 DEF CloseFlag
  <2>10. ASSUME Free PROVE NoLostWakeup'
    BY <2>8, <2>10 DEF Free
  <2>11. ASSUME NEW t \in Closer, CloseDrain(t) PROVE NoLostWakeup'
    <3>1. t \in Thread /\ pc[t] = "draining" /\ closed' = closed
      BY <2>11 DEF CloseDrain, Thread
    <3>2. closed = TRUE
      BY <1>2, <3>1 DEF Flagged, Closing
    <3> QED BY <2>8, <3>1, <3>2
  <2>12. CASE UNCHANGED vars
    BY <2>6, <2>12 DEF vars, ring, threads
  <2> QED
    BY <1>2, <2>1, <2>2, <2>3, <2>4, <2>5, <2>7, <2>9, <2>10, <2>11, <2>12
       DEF Next, Put, Get, Close, Thread
<1>3. IInv /\ Flagged /\ [Next]_vars /\ NoLostWakeup => NoLostWakeup'
  BY <1>2
<1> QED BY <1>1, <1>3, Invariance, FlagStays, PTL DEF Spec

-----------------------------------------------------------------------------
(* The refinement: the window of the ring, read from head, is the queue. *)

Queue(b, h, n) == [k \in 1 .. n |-> b[After(h, k - 1)]]

(* The mapped queue is a sequence of as many items as the ring counts. *)
LEMMA QueueIsSeq ==
    ASSUME NEW b \in [Index -> Item \cup {NULL}], NEW h \in Index, NEW n \in 0 .. Size
    PROVE  Queue(b, h, n) \in Seq(Item \cup {NULL}) /\ Len(Queue(b, h, n)) = n
<1>1. \A k \in 1 .. n : k - 1 \in 0 .. Size
  BY SizeAssumption
<1>2. \A k \in 1 .. n : b[After(h, k - 1)] \in Item \cup {NULL}
  BY <1>1, AfterFacts
<1>3. n \in Nat
  BY SizeAssumption
<1> QED BY <1>2, <1>3 DEF Queue

(* Storing at tail appends to the mapped queue. *)
LEMMA QueueAppend ==
    ASSUME NEW b \in [Index -> Item \cup {NULL}], NEW h \in Index, NEW n \in 0 .. Size - 1,
           NEW i \in Item
    PROVE  Queue([b EXCEPT ![After(h, n)] = i], h, n + 1) = Append(Queue(b, h, n), i)
<1> DEFINE c == [b EXCEPT ![After(h, n)] = i]
<1>1. /\ n \in 0 .. Size /\ n \in Nat /\ n + 1 \in 0 .. Size
      /\ \A k \in 1 .. n : k - 1 \in 0 .. Size - 1 /\ k - 1 # n
      /\ \A k \in 0 .. Size - 1 : k \in 0 .. Size
  BY SizeAssumption
<1>2. \A k \in 1 .. n : c[After(h, k - 1)] = b[After(h, k - 1)]
  BY <1>1, AfterFacts
<1>3. c[After(h, n)] = i
  BY <1>1, AfterFacts
<1>4. c \in [Index -> Item \cup {NULL}]
  BY <1>1, AfterFacts
<1> HIDE DEF c
<1>5. /\ Queue(b, h, n) \in Seq(Item \cup {NULL}) /\ Len(Queue(b, h, n)) = n
      /\ Queue(c, h, n + 1) \in Seq(Item \cup {NULL}) /\ Len(Queue(c, h, n + 1)) = n + 1
  BY <1>1, <1>4, QueueIsSeq
<1>6. \A k \in 1 .. n : Queue(c, h, n + 1)[k] = Queue(b, h, n)[k]
  BY <1>1, <1>2 DEF Queue
<1>7. Queue(c, h, n + 1)[n + 1] = i
  BY <1>1, <1>3 DEF Queue
<1>8. Queue(c, h, n + 1) = Append(Queue(b, h, n), i)
  BY <1>1, <1>5, <1>6, <1>7
<1> QED BY <1>8 DEF c

(* Moving head takes the first item off the mapped queue. *)
LEMMA QueueTail ==
    ASSUME NEW b \in [Index -> Item \cup {NULL}], NEW h \in Index, NEW n \in 1 .. Size,
           NEW c \in [Index -> Item \cup {NULL}],
           \A s \in Index \ {h} : c[s] = b[s]
    PROVE  /\ Queue(c, After(h, 1), n - 1) = Tail(Queue(b, h, n))
           /\ Head(Queue(b, h, n)) = b[h]
           /\ Queue(b, h, n) # << >>
<1>1. /\ n \in 0 .. Size /\ n \in Nat /\ n - 1 \in 0 .. Size /\ 1 \in 0 .. Size
      /\ 0 \in 0 .. Size - 1
      /\ \A k \in 1 .. n - 1 : /\ k - 1 \in 0 .. Size - 1 /\ (k - 1) + 1 = k
                              /\ k \in 0 .. Size - 1 /\ k \in 0 .. Size /\ k # 0
  BY SizeAssumption
<1>2. After(h, 1) \in Index /\ After(h, 0) = h
  BY <1>1, AfterFacts
<1>3. \A k \in 1 .. n - 1 : After(After(h, 1), k - 1) = After(h, k)
  BY <1>1, AfterFacts
<1>4. \A k \in 1 .. n - 1 : After(h, k) \in Index /\ After(h, k) # h
  BY <1>1, <1>2, AfterFacts
<1>5. \A k \in 1 .. n - 1 : c[After(After(h, 1), k - 1)] = b[After(h, k)]
  BY <1>3, <1>4
<1>6. /\ Queue(b, h, n) \in Seq(Item \cup {NULL}) /\ Len(Queue(b, h, n)) = n
      /\ Queue(c, After(h, 1), n - 1) \in Seq(Item \cup {NULL})
      /\ Len(Queue(c, After(h, 1), n - 1)) = n - 1
  BY <1>1, <1>2, QueueIsSeq
<1>7. \A k \in 1 .. n - 1 : Queue(c, After(h, 1), n - 1)[k] = Queue(b, h, n)[k + 1]
  BY <1>1, <1>5 DEF Queue
<1>8. Queue(b, h, n)[1] = b[h]
  BY <1>1, <1>2 DEF Queue
<1> QED BY <1>1, <1>6, <1>7, <1>8

(* The state of the abstract channel, as the mapping of Chan has it. *)
queue == [n \in 1 .. count |-> buf[Slot(n - 1)]]
freed == {i \in Item : place[i] = "freed"}

(* The refinement mapping in terms of Queue. *)
LEMMA QueueMap == queue = Queue(buf, head, count) /\ queue' = Queue(buf', head', count')
BY DEF queue, Queue, Slot, After

Same == queue' = queue /\ freed' = freed /\ closed' = closed /\ policy' = policy

(* Each action of the channel, in terms of queue and freed. *)
LEMMA SendStep ==
    ASSUME NEW i \in Item, Len(queue) < Size, i \notin {queue[k] : k \in DOMAIN queue} \cup freed,
           queue' = Append(queue, i), freed' = freed, closed' = closed, policy' = policy
    PROVE  Chan!Next
BY DEF queue, freed, Chan!Next, Chan!Send, Chan!Elements

(* Taking the item at head is a Receive. *)
LEMMA ReceiveStep ==
    ASSUME queue # << >>, queue' = Tail(queue),
           freed' = freed, closed' = closed, policy' = policy
    PROVE  Chan!Next
BY DEF queue, freed, Chan!Next, Chan!Receive

(* Freeing the item at head of a full ring is a Drop. *)
LEMMA DropStep ==
    ASSUME policy = "DROP", Len(queue) = Size, freed' = freed \cup {Head(queue)},
           queue' = Tail(queue), closed' = closed, policy' = policy
    PROVE  Chan!Next
BY DEF queue, freed, Chan!Next, Chan!Drop

(* Setting the flag is a Close. *)
LEMMA CloseStep ==
    ASSUME closed = FALSE, closed' = TRUE, queue' = queue, freed' = freed, policy' = policy
    PROVE  Chan!Next
BY Zenon DEF queue, freed, Chan!Next, Chan!Close

(* Emptying the ring into the freed items is a Drain. *)
LEMMA DrainStep ==
    ASSUME closed' = TRUE, freed' = freed \cup {queue[k] : k \in DOMAIN queue},
           queue' = << >>, policy' = policy
    PROVE  Chan!Next
BY Zenon DEF queue, freed, Chan!Next, Chan!Drain, Chan!Elements

(* A step that moves no item and no flag is a stutter. *)
LEMMA StutterStep == Same => UNCHANGED Chan!vars
<1> SUFFICES ASSUME Same PROVE UNCHANGED Chan!vars
  OBVIOUS
<1>1. UNCHANGED [n \in 1 .. count |-> buf[Slot(n - 1)]]
  BY DEF Same, queue
<1>2. UNCHANGED {i \in Item : place[i] = "freed"}
  BY DEF Same, freed
<1>3. UNCHANGED (~closed) /\ UNCHANGED (policy = "DROP")
  BY DEF Same
<1> QED BY <1>1, <1>2, <1>3 DEF Chan!vars

(* The objects in the queue are those in the window. *)
LEMMA QueueContents ==
    ASSUME IInv
    PROVE  /\ queue \in Seq(Item \cup {NULL}) /\ Len(queue) = count
           /\ {queue[k] : k \in DOMAIN queue} = Contents
<1>0. buf \in [Index -> Item \cup {NULL}] /\ head \in Index /\ count \in 0 .. Size
  BY DEF IInv, TypeOK
<1>1. queue \in Seq(Item \cup {NULL}) /\ Len(queue) = count
  BY <1>0, QueueMap, QueueIsSeq
<1>2. {queue[k] : k \in DOMAIN queue} \subseteq Contents
  <2> SUFFICES ASSUME NEW k \in 1 .. count PROVE buf[Slot(k - 1)] \in Contents
    BY DEF queue
  <2>1. k - 1 \in 0 .. count - 1
    BY <1>0, SizeAssumption
  <2> QED BY <2>1 DEF Contents, Window
<1>3. Contents \subseteq {queue[k] : k \in DOMAIN queue}
  <2> SUFFICES ASSUME NEW k \in 0 .. count - 1
               PROVE  \E m \in 1 .. count : buf[Slot(k)] = buf[Slot(m - 1)]
    BY DEF queue, Contents, Window
  <2>1. k + 1 \in 1 .. count /\ (k + 1) - 1 = k
    BY <1>0, SizeAssumption
  <2> QED BY <2>1
<1> QED BY <1>1, <1>2, <1>3

(* Every step is a step of the channel or leaves it alone. *)
LEMMA StepRefines == IInv /\ Flagged /\ [Next]_vars => [Chan!Next]_(Chan!vars)
<1> SUFFICES ASSUME IInv, Flagged, [Next]_vars PROVE [Chan!Next]_(Chan!vars)
  OBVIOUS
<1>0. /\ TypeOK /\ buf \in [Index -> Item \cup {NULL}] /\ head \in Index /\ count \in 0 .. Size
      /\ Size \in Nat /\ Size > 0
  BY SizeAssumption DEF IInv, TypeOK
<1>q. /\ queue \in Seq(Item \cup {NULL}) /\ Len(queue) = count
      /\ {queue[k] : k \in DOMAIN queue} = Contents
  BY QueueContents
<1>1. ASSUME UNCHANGED <<ring, closed, policy>>,
             \A x \in Item : place'[x] = "freed" <=> place[x] = "freed"
      PROVE  UNCHANGED Chan!vars
  <2>1. buf' = buf /\ head' = head /\ count' = count
    BY <1>1 DEF ring
  <2>2. queue' = queue
    BY <2>1, QueueMap
  <2>3. freed' = freed
    BY <1>1 DEF freed
  <2> QED BY <1>1, <2>2, <2>3, StutterStep DEF Same
<1>2. ASSUME UNCHANGED <<ring, closed, policy, place>> PROVE UNCHANGED Chan!vars
  BY <1>1, <1>2
<1>3. ASSUME NEW t \in Producer, NEW i \in Item, PutCall(t, i) PROVE UNCHANGED Chan!vars
  <2>1. UNCHANGED <<ring, closed, policy>>
    BY <1>3 DEF PutCall
  <2>2. \A x \in Item : place'[x] = "freed" <=> place[x] = "freed"
    BY <1>3 DEF PutCall, Move
  <2> QED BY <1>1, <2>1, <2>2
<1>4. ASSUME NEW t \in Producer, PutTest(t) PROVE UNCHANGED Chan!vars
  <2>1. UNCHANGED <<ring, closed, policy>>
    BY <1>4 DEF PutTest
  <2>2. arg[t] \in Item /\ place[arg[t]] = "call"
    BY <1>4 DEF PutTest, IInv, Callers, Thread
  <2>3. \A x \in Item : place'[x] = "freed" <=> place[x] = "freed"
    BY <1>4, <2>2 DEF PutTest, Move
  <2> QED BY <1>1, <2>1, <2>3
<1>5. ASSUME NEW t \in Producer, PutStore(t) PROVE Chan!Next
  <2>1. /\ arg[t] \in Item /\ place[arg[t]] = "call" /\ tail = After(head, count)
        /\ count \in 0 .. Size - 1
    BY <1>0, <1>5 DEF PutStore, Room, IInv, Callers, Thread, RingConsistent, After
  <2>2. /\ buf' = [buf EXCEPT ![After(head, count)] = arg[t]] /\ head' = head
        /\ count' = count + 1 /\ closed' = closed /\ policy' = policy
        /\ \A x \in Item : place'[x] = IF x = arg[t] THEN "pipe" ELSE place[x]
    BY <1>5, <2>1 DEF PutStore, Move
  <2>3. queue' = Append(queue, arg[t])
    BY <1>0, <2>1, <2>2, QueueMap, QueueAppend
  <2>4. arg[t] \notin Contents \cup freed
    BY <2>1 DEF IInv, Conservation, Contents, freed
  <2>5. freed' = freed
    BY <2>1, <2>2 DEF freed
  <2>6. Len(queue) < Size
    BY <1>0, <1>q, <2>1
  <2> QED BY <1>q, <2>1, <2>2, <2>3, <2>4, <2>5, <2>6, SendStep
<1>6. ASSUME NEW t \in Producer, PutDrop(t) PROVE Chan!Next
  <2>1. /\ head' = After(head, 1) /\ count' = count - 1 /\ buf' = buf /\ count = Size
        /\ closed' = closed /\ policy' = policy /\ policy = "DROP" /\ count \in 1 .. Size
        /\ \A x \in Item : place'[x] = IF x = buf[head] THEN "freed" ELSE place[x]
    BY <1>0, <1>6 DEF PutDrop, Room, DropFrees, Move, After
  <2>2. queue' = Tail(queue) /\ Head(queue) = buf[head]
    BY <1>0, <2>1, QueueMap, QueueTail
  <2>3. buf[head] \in Item
    BY <1>0, <2>1, ConservationIsHolds, HoldsTake DEF IInv, TypeOK
  <2>4. freed' = freed \cup {buf[head]}
    BY <2>1, <2>3 DEF freed
  <2> QED BY <1>q, <2>1, <2>2, <2>4, DropStep
<1>7. ASSUME NEW t \in Consumer, GetTake(t) PROVE Chan!Next
  <2>1. /\ head' = After(head, 1) /\ count' = count - 1 /\ buf' = [buf EXCEPT ![head] = NULL]
        /\ closed' = closed /\ policy' = policy /\ count \in 1 .. Size
        /\ \A x \in Item : place'[x] = IF x = buf[head] THEN "client" ELSE place[x]
    BY <1>0, <1>7 DEF GetTake, Move, After
  <2>2. buf' \in [Index -> Item \cup {NULL}] /\ \A s \in Index \ {head} : buf'[s] = buf[s]
    BY <1>0, <2>1
  <2>3. queue' = Tail(queue) /\ queue # << >>
    <3>1. /\ Queue(buf', After(head, 1), count - 1) = Tail(Queue(buf, head, count))
          /\ Queue(buf, head, count) # << >>
      <4>1. buf \in [Index -> Item \cup {NULL}] /\ head \in Index /\ count \in 1 .. Size
        BY <1>0, <2>1
      <4> QED BY <2>2, <4>1, QueueTail
    <3> QED BY <2>1, <3>1, QueueMap
  <2>4. place[buf[head]] = "pipe"
    <3>1. After(head, 0) = head /\ 0 \in 0 .. count - 1
      BY <1>0, <2>1, AfterFacts
    <3>2. Holds(buf, head, count, place)
      BY ConservationIsHolds DEF IInv
    <3> QED BY <3>1, <3>2 DEF Holds
  <2>5. freed' = freed
    BY <2>1, <2>4 DEF freed
  <2> QED BY <2>1, <2>3, <2>5, ReceiveStep
<1>8. ASSUME NEW t \in Closer, CloseFlag(t) PROVE Chan!Next
  <2>1. closed = FALSE
    BY <1>0, <1>8 DEF CloseFlag, TypeOK
  <2>2. closed' = TRUE /\ policy' = policy /\ place' = place
        /\ buf' = buf /\ head' = head /\ count' = count
    BY <1>8 DEF CloseFlag, ring
  <2>3. queue' = queue /\ freed' = freed
    BY <2>2, QueueMap DEF freed
  <2> QED BY <2>1, <2>2, <2>3, CloseStep
<1>9. ASSUME closed' = TRUE, policy' = policy, count' = 0, Move(Contents, "freed")
      PROVE  Chan!Next
  <2>1. queue' = << >>
    BY <1>9 DEF queue
  <2>2. Contents \subseteq Item
    BY DEF IInv, Conservation, Contents
  <2>3. freed' = freed \cup Contents
    BY <1>9, <2>2 DEF freed, Move
  <2> QED BY <1>9, <1>q, <2>1, <2>3, DrainStep
<1>10. ASSUME NEW t \in Closer, CloseDrain(t) PROVE Chan!Next
  <2>1. t \in Closing
    BY <1>10 DEF CloseDrain, Closing, Thread
  <2>2. closed = TRUE
    BY <1>0, <2>1 DEF Flagged, TypeOK
  <2> QED BY <1>9, <1>10, <2>2 DEF CloseDrain, Drain
<1>11. CASE Free
  <2>1. CASE closed
    <3>1. closed = TRUE
      BY <1>0, <2>1 DEF TypeOK
    <3> QED BY <1>2, <1>11, <2>1, <3>1 DEF Free, ring
  <2>2. CASE ~closed
    BY <1>9, <1>11, <2>2 DEF Free, Drain
  <2> QED BY <2>1, <2>2
<1>12. ASSUME NEW t \in Thread,
              \/ PutWait(t) \/ GetTest(t) \/ GetWait(t) \/ GetCall(t)
              \/ CloseWakeInput(t) \/ CloseWakeOutput(t) \/ SpuriousWake(t)
       PROVE  UNCHANGED Chan!vars
  BY <1>2, <1>12 DEF PutWait, GetTest, GetWait, GetCall, CloseWakeInput, CloseWakeOutput,
                     SpuriousWake
<1>13. CASE UNCHANGED vars
  BY <1>2, <1>13 DEF vars
<1> QED
  BY <1>3, <1>4, <1>5, <1>6, <1>7, <1>8, <1>10, <1>11, <1>12, <1>13
     DEF Next, Put, Get, Close, Thread

(* A pipeline is a bounded first-in first-out channel, for every ring size  *)
(* and any number of threads: items come out in the order they went in,     *)
(* each once, and only drop and close free any.                             *)
THEOREM Refinement == Spec => ImplementsChannel
<1>1. Init => Chan!Init
  <2> SUFFICES ASSUME Init PROVE Chan!Init
    OBVIOUS
  <2>1. [n \in 1 .. count |-> buf[Slot(n - 1)]] = << >>
    BY DEF Init
  <2>2. {i \in Item : place[i] = "freed"} = {}
    BY DEF Init
  <2>3. (~closed) = TRUE /\ (policy = "DROP") \in BOOLEAN
    BY DEF Init
  <2> QED BY <2>1, <2>2, <2>3 DEF Chan!Init
<1> QED BY <1>1, StepRefines, Invariance, FlagStays, PTL DEF Spec, ImplementsChannel, Chan!Spec

===============================================================================
