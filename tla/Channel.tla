------------------------------- MODULE Channel -------------------------------
(***************************************************************************)
(* What a pipeline promises: a bounded first-in first-out channel of        *)
(* distinct items, each of which leaves it once, received or freed.         *)
(***************************************************************************)
EXTENDS Naturals, Sequences

CONSTANTS Item, Size

VARIABLES queue,     \* the items inside, oldest first
          freed,     \* the items the channel has freed
          open,
          dropping   \* does a full channel free its oldest item?  Never changes.

vars == <<queue, freed, open, dropping>>

Elements(s) == {s[i] : i \in DOMAIN s}

Init == queue = <<>> /\ freed = {} /\ open = TRUE /\ dropping \in BOOLEAN

(* A sender gets an item in that is neither inside nor freed.  A sender that *)
(* found the channel open may still finish after it was closed.              *)
Send(i) == /\ Len(queue) < Size
           /\ i \notin Elements(queue) \cup freed
           /\ queue' = Append(queue, i)
           /\ UNCHANGED <<freed, open, dropping>>

Receive == /\ queue # <<>>
           /\ queue' = Tail(queue)
           /\ UNCHANGED <<freed, open, dropping>>

(* A full channel makes room by freeing its oldest item. *)
Drop == /\ dropping
        /\ Len(queue) = Size
        /\ freed' = freed \cup {Head(queue)}
        /\ queue' = Tail(queue)
        /\ UNCHANGED <<open, dropping>>

Close == open /\ open' = FALSE /\ UNCHANGED <<queue, freed, dropping>>

(* A channel that is closed frees what nobody received. *)
Drain == /\ open' = FALSE
         /\ freed' = freed \cup Elements(queue)
         /\ queue' = <<>>
         /\ UNCHANGED dropping

Next == \/ \E i \in Item : Send(i)
        \/ Receive \/ Drop \/ Close \/ Drain

Spec == Init /\ [][Next]_vars

===============================================================================
