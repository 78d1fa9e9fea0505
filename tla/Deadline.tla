------------------------------ MODULE Deadline ------------------------------
(***************************************************************************)
(* The deadlines of src/sync.c.  Time is a struct timespec; it passes       *)
(* between any two steps, also between the two clocks that cpr_realtime     *)
(* reads.  The real time clock is Offset ahead of the monotonic one.        *)
(***************************************************************************)
EXTENDS Integers

CONSTANTS Starts,   \* when the monotonic clock may begin
          Passes,   \* how much time may pass in a step, as [ms, ns]
          Spans,    \* milliseconds given to cpr_deadline and cpr_adjust
          Offset,   \* seconds from one clock to the other
          MaxSteps  \* bound: steps in which time passes or a deadline moves

VARIABLES now,       \* the monotonic clock
          deadline,  \* the deadline_t
          asked,     \* what was asked for: a start, and milliseconds after it
          real,      \* the timespec of cpr_realtime, as far as it has come
          stage,     \* "idle", "read", "true" or "false": cpr_realtime
          steps

timeVars == <<now, deadline, asked, real, stage, steps>>

(* Nanoseconds. *)
MILLI  == 1000000
SECOND == 1000 * MILLI

Time(sec, nsec) == [sec |-> sec, nsec |-> nsec]
Fraction == {n \in Nat : n < SECOND}

ASSUME TimeAssumption == /\ Starts \subseteq [sec : Int, nsec : Fraction]
                         /\ Passes \subseteq [ms : Nat, ns : Fraction]
                         /\ Spans \subseteq Int
                         /\ Offset \in Int
                         /\ MaxSteps \in Nat

(* C's division rounds towards zero. *)
CDiv(a, b) == IF a >= 0 THEN a \div b ELSE -((-a) \div b)
CMod(a, b) == a - b * CDiv(a, b)

(* A time as milliseconds and what is left of one, and the order of times. *)
Millis(t)    == t.sec * 1000 + t.nsec \div MILLI
Rest(t)      == t.nsec % MILLI
NotAfter(a, b) == Millis(a) < Millis(b) \/ (Millis(a) = Millis(b) /\ Rest(a) <= Rest(b))

-----------------------------------------------------------------------------
(* Mutant: a negative remainder is not borrowed from the seconds. *)
AdjustNoBorrow(t, ms) ==
    LET sec  == t.sec + CDiv(ms, 1000)
        nsec == t.nsec + CMod(ms, 1000) * MILLI
    IN  IF nsec >= SECOND THEN Time(sec + 1, nsec - SECOND) ELSE Time(sec, nsec)

cpr_adjust(t, ms) ==
    LET sec  == t.sec + CDiv(ms, 1000)
        nsec == t.nsec + CMod(ms, 1000) * MILLI
    IN  IF nsec >= SECOND THEN Time(sec + 1, nsec - SECOND)
        ELSE IF nsec < 0 THEN Time(sec - 1, nsec + SECOND)
        ELSE Time(sec, nsec)

(* cpr_expires at the time t: the whole milliseconds left, 0 when it is over,  *)
(* and also when less than one is left.                                        *)
cpr_expires(t) ==
    LET borrow == deadline.nsec < t.nsec
        sec    == deadline.sec - t.sec - (IF borrow THEN 1 ELSE 0)
        nsec   == deadline.nsec - t.nsec + (IF borrow THEN SECOND ELSE 0)
    IN  IF sec < 0 \/ (sec = 0 /\ nsec <= 0) THEN 0
        ELSE sec * 1000 + nsec \div MILLI

-----------------------------------------------------------------------------
TimeInit == /\ now \in Starts
            /\ deadline = now
            /\ asked = [start |-> now, ms |-> 0]
            /\ real = now
            /\ stage = "idle"
            /\ steps = 0

Counted == steps < MaxSteps /\ steps' = steps + 1

Pass(d) == /\ Counted
           /\ LET t == cpr_adjust(now, d.ms)
                  n == t.nsec + d.ns
              IN  now' = IF n >= SECOND THEN Time(t.sec + 1, n - SECOND) ELSE Time(t.sec, n)
           /\ UNCHANGED <<deadline, asked, real, stage>>

(* cpr_deadline *)
SetDeadline(ms) == /\ Counted /\ stage # "read"
                   /\ deadline' = cpr_adjust(now, ms)
                   /\ asked' = [start |-> now, ms |-> ms]
                   /\ stage' = "idle"
                   /\ UNCHANGED <<now, real>>

(* cpr_adjust of a deadline *)
MoveDeadline(ms) == /\ Counted /\ stage # "read"
                    /\ deadline' = cpr_adjust(deadline, ms)
                    /\ asked' = [asked EXCEPT !.ms = asked.ms + ms]
                    /\ stage' = "idle"
                    /\ UNCHANGED <<now, real>>

(* cpr_realtime reads the real time clock first... *)
RealtimeRead == /\ stage # "read"
                /\ real' = Time(now.sec + Offset, now.nsec)
                /\ stage' = "read"
                /\ UNCHANGED <<now, deadline, asked, steps>>

(* ... and then asks how much is left. *)
RealtimeAdd == /\ stage = "read"
               /\ real' = cpr_adjust(real, cpr_expires(now))
               /\ stage' = IF cpr_expires(now) = 0 THEN "false" ELSE "true"
               /\ UNCHANGED <<now, deadline, asked, steps>>

TimeNext == \/ RealtimeRead \/ RealtimeAdd
            \/ \E d \in Passes : Pass(d)
            \/ \E ms \in Spans : SetDeadline(ms) \/ MoveDeadline(ms)

TimeSpec == TimeInit /\ [][TimeNext]_timeVars
-----------------------------------------------------------------------------
(* A deadline is a proper time, exactly as many milliseconds from where it    *)
(* began as the calls asked for, across every carry and borrow; the           *)
(* milliseconds cpr_expires gives never reach past it and, 0 among them, fall *)
(* short by less than one, so that 0 means that the deadline is over or less  *)
(* than a millisecond away; and a real time wait never ends after it, however *)
(* long the thread was held up between the two clocks.                        *)
DeadlineKept ==
    /\ deadline.nsec \in 0 .. SECOND - 1
    /\ Millis(deadline) = Millis(asked.start) + asked.ms /\ Rest(deadline) = Rest(asked.start)
    /\ LET left == cpr_expires(now)
       IN  /\ left > 0 => NotAfter(cpr_adjust(now, left), deadline)
           /\ ~NotAfter(cpr_adjust(now, left + 1), deadline)
    /\ stage = "true" => NotAfter(real, Time(deadline.sec + Offset, deadline.nsec))
=============================================================================
