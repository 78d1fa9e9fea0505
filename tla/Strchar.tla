------------------------------ MODULE Strchar ------------------------------
(***************************************************************************)
(* The bounded string calls of src/strchar.c, used on one buffer whose size *)
(* is passed as max.  A C string is the sequence of its characters, without *)
(* the NUL; memory is the sequence of its bytes, numbered from 1 where the   *)
(* code counts from 0.                                                      *)
(***************************************************************************)
EXTENDS Integers, Sequences

CONSTANTS BufMax,   \* size of the callers' buffer
          Junk,     \* bytes a fresh buffer may hold
          Words,    \* strings the callers pass
          LongMax,  \* the largest long
          Numbers   \* values cpr_strlong is given

NUL == "nul"
Digit == <<"0", "1", "2", "3", "4", "5", "6", "7", "8", "9">>

Letter == STRING \cup {NUL, " ", "a", "A", "-"} \cup {Digit[d] : d \in 1 .. 10}

(* The least long is not among the numbers: cpr_strlong negates it, which is  *)
(* undefined.                                                                 *)
ASSUME StrcharAssumption ==
    /\ BufMax \in Nat \ {0}
    /\ Junk \subseteq Letter
    /\ Words \subseteq Seq(Letter) /\ \A w \in Words : \A i \in DOMAIN w : w[i] # NUL
    /\ LongMax \in Nat
    /\ \A v \in Numbers : v \in Int /\ -LongMax <= v /\ v <= LongMax

VARIABLES m,       \* the buffer
          told,    \* what the calls let their caller take it for: nothing, a string,
                   \* or the empty string that a cpr_strcpy of one returned it as
          astray,  \* a call went on behind its end
          number   \* <<v>> when the buffer was just made to spell v, else <<>>

strVars == <<m, told, astray, number>>

Lesser(a, b) == IF a < b THEN a ELSE b
FirstN(s, n) == SubSeq(s, 1, n)

(* The C string that begins at byte at of mem, up to the end of mem. *)
TextAt(mem, at) ==
    LET stop == {i \in at .. Len(mem) : mem[i] = NUL}
    IN  IF stop = {} THEN SubSeq(mem, at, Len(mem))
        ELSE SubSeq(mem, at, (CHOOSE i \in stop : \A j \in stop : i <= j) - 1)

(* mem with the bytes of s from byte at on; none goes behind the end. *)
Store(mem, at, s) ==
    [i \in DOMAIN mem |-> IF i - at + 1 \in DOMAIN s THEN s[i - at + 1] ELSE mem[i]]

-----------------------------------------------------------------------------
(* cpr_strlen; with max 0 the first character is counted all the same. *)
cpr_strlen(s, max) == IF max = 0 THEN Lesser(Len(s), 1) ELSE Lesser(Len(s), max)

(* The bytes cpr_strcpy takes. *)
Taken(s, max) == Lesser(cpr_strlen(s, max), max)

(* Mutant: the NUL goes behind what was copied. *)
StrcpyNulBehind(mem, at, s, max) ==
    LET size == Taken(s, max)
    IN  IF size = 0 THEN mem ELSE Store(mem, at, FirstN(s, size) \o <<NUL>>)

(* cpr_strcpy: the NUL replaces the last byte copied, and an empty s leaves  *)
(* the buffer as it is.                                                      *)
cpr_strcpy(mem, at, s, max) ==
    LET size == Taken(s, max)
    IN  IF size = 0 THEN mem ELSE Store(mem, at, FirstN(s, size - 1) \o <<NUL>>)

cpr_strcat(mem, s, max) ==
    LET offset == cpr_strlen(TextAt(mem, 1), max)
    IN  IF offset >= max THEN mem ELSE cpr_strcpy(mem, offset + 1, s, max - offset)

cpr_strdup(s, max) == FirstN(s, cpr_strlen(s, max))

(* cpr_strhead drops the first count characters. *)
cpr_strhead(mem, max, count) ==
    LET text == TextAt(mem, 1)
    IN  IF count >= cpr_strlen(text, max) THEN Store(mem, 1, <<NUL>>)
        ELSE Store(mem, 1, SubSeq(text, count + 1, Len(text)) \o <<NUL>>)

(* cpr_strtail keeps the first count, and nothing when there are no more. *)
cpr_strtail(mem, max, count) ==
    IF count >= max THEN mem
    ELSE IF count >= cpr_strlen(TextAt(mem, 1), max) THEN Store(mem, 1, <<NUL>>)
    ELSE Store(mem, count + 1, <<NUL>>)

Backwards(s) == [i \in DOMAIN s |-> s[Len(s) - i + 1]]
cpr_reverse(mem, at) == Store(mem, at, Backwards(TextAt(mem, at)))

UpperOf == [c \in {"a"} |-> "A"]
LowerOf == [c \in {"A"} |-> "a"]
Mapped(s, f) == [i \in DOMAIN s |-> IF s[i] \in DOMAIN f THEN f[s[i]] ELSE s[i]]
cpr_upper(s, max) == Mapped(FirstN(s, cpr_strlen(s, max)), UpperOf)
cpr_lower(s, max) == Mapped(FirstN(s, cpr_strlen(s, max)), LowerOf)

(* cpr_strtrim and cpr_strchop: the text without the characters of list at   *)
(* its beginning, which only moves the pointer, and at its end.              *)
cpr_strtrim(s, list, max) ==
    LET len  == cpr_strlen(s, max - 1)
        keep == {i \in 1 .. len : s[i] \notin list}
        from == IF keep = {} THEN len + 1 ELSE CHOOSE i \in keep : \A j \in keep : i <= j
    IN  SubSeq(s, from, Len(s))

cpr_strchop(s, list, max) ==
    LET len  == cpr_strlen(s, max - 1)
        keep == {i \in 1 .. len : s[i] \notin list}
        upto == IF keep = {} THEN 0 ELSE CHOOSE i \in keep : \A j \in keep : j <= i
    IN  IF upto = len THEN s ELSE FirstN(s, upto)

-----------------------------------------------------------------------------
(* What the loop of cpr_strlong has left of v after each round. *)
LeftOver(v, room) == LET left[k \in 0 .. room] == IF k = 0 THEN v ELSE left[k - 1] \div 10
                     IN  left

(* The rounds it takes: to 0, or while there is room. *)
Rounds(v, room) == CHOOSE k \in 0 .. room : /\ k < room => LeftOver(v, room)[k] = 0
                                            /\ \A j \in 0 .. k - 1 : LeftOver(v, room)[j] # 0

(* The digits it stores, the lowest first. *)
LowDigits(v, room) ==
    [k \in 1 .. Rounds(v, room) |-> Digit[(LeftOver(v, room)[k - 1] % 10) + 1]]

(* The loop has ended before it came to the last byte. *)
NumberFits(digits, room) == Len(digits) < room

(* cpr_strlong into the buffer of s bytes: the buffer after it, and whether *)
(* it returns the number.                                                   *)
cpr_strlong(mem, v, s) ==
    LET sign   == IF v < 0 THEN <<"-">> ELSE <<>>
        room   == s - 1 - Len(sign)
        digits == LowDigits(IF v < 0 THEN -v ELSE v, room)
        at     == Len(sign) + 1
        raw    == Store(mem, 1, sign \o digits)
    IN  IF s < 2 THEN [mem |-> mem, ok |-> FALSE]
        ELSE IF v = 0 THEN [mem |-> Store(mem, 1, <<"0", NUL>>), ok |-> TRUE]
        ELSE IF ~NumberFits(digits, room) THEN [mem |-> raw, ok |-> FALSE]
        ELSE [mem |-> cpr_reverse(Store(raw, at + Len(digits), <<NUL>>), at), ok |-> TRUE]

-----------------------------------------------------------------------------
(* A NUL anywhere in the memory. *)
Terminated(mem) == \E i \in DOMAIN mem : mem[i] = NUL

(* A fresh buffer, with whatever is in it. *)
StrInit == /\ m \in [1 .. BufMax -> Junk]
           /\ told = "nothing"
           /\ astray = FALSE
           /\ number = <<>>

Rewrite(mem, as) == /\ m' = mem
                    /\ told' = as
                    /\ number' = <<>>
                    /\ UNCHANGED astray

(* cpr_strcpy returns the buffer also when s is empty and nothing is written. *)
CopyIn(s) == Rewrite(cpr_strcpy(m, 1, s, Len(m)),
                     IF s # <<>> \/ told = "string" THEN "string" ELSE "empty")

(* The caller hands what it takes for a string to one of these.  cpr_strhead   *)
(* of some characters and cpr_reverse go on to a NUL, wherever it is.          *)
EditBuffer(s, n) ==
    /\ told # "nothing"
    /\ \/ Rewrite(cpr_strcat(m, s, Len(m)), told)
       \/ Rewrite(cpr_strtail(m, Len(m), n), told)
       \/ (Terminated(m) \/ n >= Len(m)) /\ Rewrite(cpr_strhead(m, Len(m), n), told)
       \/ Terminated(m) /\ Rewrite(cpr_reverse(m, 1), told)

RunOn == /\ told # "nothing" /\ ~Terminated(m)
         /\ astray' = TRUE
         /\ UNCHANGED <<m, told, number>>

(* The caller goes on with the string that one of these calls allocated, with  *)
(* a max that is no larger than the buffer.                                    *)
Duplicate(n) == /\ told # "nothing" /\ n <= Len(m)
                /\ \E s \in {cpr_strdup(TextAt(m, 1), n),
                             cpr_upper(TextAt(m, 1), n), cpr_lower(TextAt(m, 1), n)} :
                      Rewrite(Append(s, NUL), "string")

(* A refused cpr_strlong has written its sign and digits all the same. *)
SpellNumber(v) == LET r == cpr_strlong(m, v, Len(m))
                  IN  \/ ~r.ok /\ Rewrite(r.mem, "nothing")
                      \/ r.ok /\ m' = r.mem /\ told' = "string" /\ number' = <<v>> /\ UNCHANGED astray

StrNext == /\ ~astray
           /\ \/ \E s \in Words : CopyIn(s)
              \/ \E s \in Words, n \in 0 .. BufMax : EditBuffer(s, n)
              \/ \E n \in 0 .. BufMax : Duplicate(n)
              \/ \E v \in Numbers : SpellNumber(v)
              \/ RunOn

StrSpec == StrInit /\ [][StrNext]_strVars
-----------------------------------------------------------------------------
(* The value of a digit, and of a string of digits. *)
DigitOf(c) == CHOOSE d \in 0 .. 9 : Digit[d + 1] = c
ValueOf(s) == LET value[n \in 0 .. Len(s)] ==
                      IF n = 0 THEN 0 ELSE 10 * value[n - 1] + DigitOf(s[n])
              IN  value[Len(s)]

(* What the buffer began with, and what a refused cpr_strlong left in it, ends *)
(* nowhere.  After any sequence of calls a buffer that they returned holds a   *)
(* string that ends inside it, and after cpr_strlong that string spells the    *)
(* number; a call can go on behind the end only where the buffer was returned  *)
(* by no more than the copy of an empty string, which wrote nothing.           *)
BufferRight ==
    LET text == TextAt(m, 1)
    IN  /\ told = "string" => Len(text) < Len(m)
        /\ \A i \in DOMAIN number :
              IF number[i] < 0 THEN text[1] = "-" /\ ValueOf(Tail(text)) = -number[i]
              ELSE ValueOf(text) = number[i]
        /\ astray => told = "empty"

(* The "memory safe string operations" of FEATURES.md: a call that is given a  *)
(* buffer which the calls before returned as a string stays inside it.         *)
MemorySafe == ~astray
=============================================================================
