------------------------------ MODULE Service ------------------------------
(***************************************************************************)
(* The logging and shutdown calls of src/service.c.  Threads call           *)
(* cpr_logger, cpr_openlog, cpr_closelog, cpr_sysexit and cpr_shutdown at   *)
(* any time; the stream they log to is stderr, which cpr_sysexit writes     *)
(* without the mutex of cpr_logger.                                         *)
(*                                                                         *)
(* A line is written in parts, of which printed keeps who wrote which.      *)
(* What goes to syslog is left to the system and not kept here.             *)
(***************************************************************************)
EXTENDS Integers, Sequences

CONSTANTS Loggers,     \* threads
          Verbose,     \* cpr_verbose
          MaxCalls,    \* bound: calls of cpr_logger
          Nobody

ASSUME ServiceAssumption == Verbose \in Int /\ MaxCalls \in Nat /\ Nobody \notin Loggers

VARIABLES running,   \* the flag behind is_running
          logger,    \* syslog is open
          mtx,       \* who holds cpr_logger's mutex
          job,       \* what each thread is doing
          calls,     \* calls so far
          printed,   \* the parts written to stderr
          exited     \* quick_exit was reached

serviceVars == <<running, logger, mtx, job, calls, printed, exited>>

Level == 0 .. 4
Move(t, label) == job' = [job EXCEPT ![t] = label]

-----------------------------------------------------------------------------
ServiceInit == /\ running = TRUE
               /\ logger = FALSE
               /\ mtx = Nobody
               /\ job = [t \in Loggers |-> "idle"]
               /\ calls = 0
               /\ printed = <<>>
               /\ exited = FALSE

(* cpr_openlog *)
OpenLog == /\ ~exited
           /\ logger' = TRUE
           /\ UNCHANGED <<running, mtx, job, calls, printed, exited>>

(* is_service sets the flag again. *)
IsService == /\ ~exited
             /\ running' = TRUE
             /\ UNCHANGED <<logger, mtx, job, calls, printed, exited>>

(* cpr_closelog *)
CloseLog == /\ ~exited
            /\ logger' = FALSE
            /\ UNCHANGED <<running, mtx, job, calls, printed, exited>>

(* cpr_logger up to its test of cpr_verbose. *)
Log(t, level) ==
    /\ ~exited /\ job[t] = "idle" /\ calls < MaxCalls
    /\ calls' = calls + 1
    /\ Move(t, IF Verbose <= level THEN "lock" ELSE "idle")
    /\ UNCHANGED <<running, logger, mtx, printed, exited>>

(* Mutant: the mutex is not waited for. *)
MutexAnyway == TRUE

MutexFree == mtx = Nobody

Lock(t) == /\ ~exited /\ job[t] = "lock" /\ MutexFree
           /\ mtx' = t
           /\ Move(t, "prefix")
           /\ UNCHANGED <<running, logger, calls, printed, exited>>

(* The three writes of a line: date and type, text, end of line. *)
Write(t, part, next) == /\ ~exited /\ job[t] = part
                        /\ printed' = Append(printed, [by |-> t, part |-> part])
                        /\ Move(t, next)
                        /\ UNCHANGED <<running, logger, mtx, calls, exited>>

WriteLine(t) == \/ Write(t, "prefix", "text")
                \/ Write(t, "text", "newline")
                \/ Write(t, "newline", "unlock")

Unlock(t) == /\ ~exited /\ job[t] = "unlock"
             /\ mtx' = Nobody
             /\ Move(t, "idle")
             /\ UNCHANGED <<running, logger, calls, printed, exited>>

(* cpr_sysexit: the message and its newline on stderr. *)
SysExit(t) == /\ ~exited /\ job[t] = "idle"
              /\ Move(t, "last text")
              /\ UNCHANGED <<running, logger, mtx, calls, printed, exited>>

WriteLast(t) == \/ Write(t, "last text", "last newline")
                \/ Write(t, "last newline", "shutdown")

(* cpr_shutdown: clear the flag, then end the process. *)
ShutdownFlag(t) == /\ ~exited /\ job[t] \in {"idle", "shutdown"}
                   /\ running' = FALSE
                   /\ Move(t, "quick_exit")
                   /\ UNCHANGED <<logger, mtx, calls, printed, exited>>

QuickExit(t) == /\ ~exited /\ job[t] = "quick_exit"
                /\ exited' = TRUE
                /\ UNCHANGED <<running, logger, mtx, job, calls, printed>>

ServiceNext ==
    \/ IsService \/ OpenLog \/ CloseLog
    \/ \E t \in Loggers :
          \/ Lock(t) \/ WriteLine(t) \/ Unlock(t)
          \/ SysExit(t) \/ WriteLast(t) \/ ShutdownFlag(t) \/ QuickExit(t)
          \/ \E level \in Level : Log(t, level)

ServiceSpec == ServiceInit /\ [][ServiceNext]_serviceVars
-----------------------------------------------------------------------------
(* Record i of a log comes from cpr_logger, and record j is the one of        *)
(* cpr_logger before it.                                                      *)
OfLine(log, i) == i \in DOMAIN log /\ log[i].part \in {"prefix", "text", "newline"}
Before(log, j, i) == OfLine(log, j) /\ j < i /\ \A k \in j + 1 .. i - 1 : ~OfLine(log, k)

(* Whichever threads log at the same time, what cpr_logger wrote is whole     *)
(* lines, each of one thread and with its parts in order, and at most the     *)
(* last one is unfinished, also when the process ends in the middle of it.    *)
(* Only cpr_sysexit's own message may come in between.                        *)
LinesWhole ==
    \A i \in DOMAIN printed :
        LET Continues(part) == \E j \in DOMAIN printed :
                                  Before(printed, j, i) /\ printed[j] = [by |-> printed[i].by, part |-> part]
        IN  /\ printed[i].part = "prefix" =>
                  \A j \in DOMAIN printed : Before(printed, j, i) => printed[j].part = "newline"
            /\ printed[i].part = "text" => Continues("prefix")
            /\ printed[i].part = "newline" => Continues("text")
=============================================================================
