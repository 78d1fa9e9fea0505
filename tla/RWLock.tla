-------------------------------- MODULE RWLock --------------------------------
(***************************************************************************)
(* What a reader/writer lock promises, without saying how threads wait: any *)
(* number of readers or one writer.  A thread joins or leaves in one step.  *)
(***************************************************************************)
CONSTANT Thread

VARIABLES readers,  \* the threads that may read
          writers   \* the threads that may write

vars == <<readers, writers>>

Init == readers = {} /\ writers = {}

StartRead(t) == /\ t \notin readers
                /\ writers = {}
                /\ readers' = readers \cup {t}
                /\ UNCHANGED writers

EndRead(t) == /\ t \in readers
              /\ readers' = readers \ {t}
              /\ UNCHANGED writers

StartWrite(t) == /\ readers = {}
                 /\ writers = {}
                 /\ writers' = {t}
                 /\ UNCHANGED readers

EndWrite(t) == /\ t \in writers
               /\ writers' = writers \ {t}
               /\ UNCHANGED readers

Next == \E t \in Thread :
            StartRead(t) \/ EndRead(t) \/ StartWrite(t) \/ EndWrite(t)

Spec == Init /\ [][Next]_vars

===============================================================================
