------------------------------ MODULE Getline ------------------------------
(***************************************************************************)
(* The line reader of src/socket.c, with the terminal at the other end:     *)
(* what it shows on its line and where its cursor is.  The peer sends any   *)
(* bytes; of those that are not printable only the ones cpr_getline tells   *)
(* apart have names.                                                        *)
(***************************************************************************)
EXTENDS Strchar, SequencesExt

CONSTANTS LineSize,   \* max of cpr_getline
          Printable   \* printable characters

ASSUME LineAssumption == LineSize \in Nat /\ LineSize >= 2 /\ "backspace" \notin Printable

VARIABLES echo,     \* the caller's flag
          typed,    \* text, up to pos
          cr,       \* the last byte was a carriage return
          shown,    \* the terminal's line
          cursor,   \* characters left of its cursor
          result    \* "none" while it runs, else "line" or "error"

lineVars == <<echo, typed, cr, shown, cursor, result>>

-----------------------------------------------------------------------------
LineInit == /\ echo \in BOOLEAN
            /\ typed = <<>>
            /\ cr = FALSE
            /\ shown = <<>> /\ cursor = 0
            /\ result = "none"

(* The bytes cpr_putline sends: any max but 0 becomes 256. *)
cpr_putline(s, max) == FirstN(s, cpr_strlen(s, IF max # 0 THEN 256 ELSE 0))

(* What a terminal makes of one byte. *)
Terminal(t, c) ==
    IF c = "backspace" THEN [t EXCEPT !.cursor = IF @ > 0 THEN @ - 1 ELSE 0]
    ELSE [line |-> SubSeq(t.line, 1, t.cursor) \o <<c>> \o SubSeq(t.line, t.cursor + 2, Len(t.line)),
          cursor |-> t.cursor + 1]

(* The peer sees s, if the caller asked for an echo. *)
Echoed(s) ==
    \/ /\ echo
       /\ LET t[n \in 0 .. Len(s)] == IF n = 0 THEN [line |-> shown, cursor |-> cursor]
                                      ELSE Terminal(t[n - 1], s[n])
          IN  shown' = t[Len(s)].line /\ cursor' = t[Len(s)].cursor
    \/ ~echo /\ UNCHANGED <<shown, cursor>>

Running == result = "none"
Ends(how) == result' = how
Continues == UNCHANGED result

(* A printable character; the line ends when there is room for the NUL only. *)
Character(c) == /\ Running
                /\ typed' = Append(typed, c)
                /\ cr' = FALSE
                /\ Echoed(<<c>>)
                /\ IF Len(typed) + 1 < LineSize - 1 THEN Continues ELSE Ends("line")
                /\ UNCHANGED echo

(* A line feed, or a second carriage return.  A line feed is sent back, with   *)
(* which the cursor leaves the line that shown keeps.                          *)
EndOfLine(code) == /\ Running
                   /\ code = "lf" \/ (code = "cr" /\ cr)
                   /\ Ends("line")
                   /\ UNCHANGED <<echo, typed, cr, shown, cursor>>

CarriageReturn == /\ Running /\ ~cr
                  /\ cr' = TRUE
                  /\ UNCHANGED <<echo, typed, shown, cursor, result>>

(* Mutant: the terminal is not told. *)
EraseSilently == <<>>

(* What is sent to rub out a character: asked for with max 0, which lets only *)
(* the first backspace through.                                               *)
Erase == cpr_putline(<<"backspace", " ", "backspace">>, 0)

Backspace == /\ Running
             /\ cr' = FALSE
             /\ \/ typed = <<>> /\ UNCHANGED <<typed, shown, cursor>>
                \/ typed # <<>> /\ typed' = Front(typed) /\ Echoed(Erase)
             /\ UNCHANGED <<echo, result>>

OtherControl == /\ Running
                /\ cr' = FALSE
                /\ UNCHANGED <<echo, typed, shown, cursor, result>>

(* cpr_getch gives -1: recv() failed, or the byte was 255. *)
Fails == /\ Running
         /\ Ends("error")
         /\ UNCHANGED <<echo, typed, cr, shown, cursor>>

LineNext == \/ \E c \in Printable : Character(c)
            \/ \E code \in {"lf", "cr"} : EndOfLine(code)
            \/ CarriageReturn \/ Backspace \/ OtherControl \/ Fails

LineSpec == LineInit /\ [][LineNext]_lineVars
-----------------------------------------------------------------------------
(* The line fits into the caller's buffer with its NUL, and with an echo what *)
(* stands left of the peer's cursor is the line so far, also after backspaces *)
(* at the beginning and over carriage returns.  (What was rubbed out stays    *)
(* visible right of the cursor.)                                              *)
EchoIsLine == /\ Len(typed) < LineSize
              /\ echo => cursor = Len(typed) /\ SubSeq(shown, 1, cursor) = typed
=============================================================================
