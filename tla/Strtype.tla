------------------------------ MODULE Strtype ------------------------------
(***************************************************************************)
(* string_t of src/strtype.c: a string with its size and the length of its  *)
(* text, edited in place.  text is the reference: what the string should    *)
(* hold after the calls so far, cut to what fits.                           *)
(*                                                                         *)
(* Two calls may write behind the string, string_printf of a text that does *)
(* not fit and any copy into a string of one byte; outside says that it     *)
(* happened, after which nothing is promised.  The calls that read the text *)
(* (upper, lower, trim, chop, head) are made on a string that some call has *)
(* given one: the code has no such test, and before that they would go      *)
(* through the bytes malloc left.                                           *)
(***************************************************************************)
EXTENDS Strchar

CONSTANT StringSizes  \* sizes passed to new_string and make_string

VARIABLES size, used, data,  \* the string_t; size 0 before it exists
          text,              \* what it should hold
          filled,            \* some call has given it a text
          outside            \* a write went behind it

stringVars == <<size, used, data, text, filled, outside>>

(* Sizes fit into the uint16_t that keeps them, with room for a NUL behind    *)
(* max characters.                                                            *)
ASSUME StringAssumption ==
    \A n \in StringSizes : n \in Nat /\ 0 < n /\ n < 65535

Blank == {" "}
Exists == size > 0 /\ ~outside

-----------------------------------------------------------------------------
StringInit == /\ size = 0 /\ used = 0 /\ data = <<>>
              /\ text = <<>>
              /\ filled = FALSE /\ outside = FALSE

(* new_string leaves the bytes as malloc did. *)
NewString(n) == /\ size = 0
                /\ size' = n /\ used' = 0
                /\ data' \in [1 .. n -> Junk]
                /\ text' = <<>>
                /\ filled' = FALSE
                /\ UNCHANGED outside

(* free_string *)
FreeString == /\ Exists
              /\ size' = 0 /\ used' = 0 /\ data' = <<>>
              /\ text' = <<>>
              /\ filled' = FALSE
              /\ UNCHANGED outside

(* len characters of val and a NUL, written from byte at on, want being the   *)
(* text this should leave.                                                    *)
Put(at, val, len, want) ==
    /\ used' = at - 1 + len
    /\ data' = Store(data, at, FirstN(val, len) \o <<NUL>>)
    /\ outside' = (at + len > size)
    /\ text' = want
    /\ filled' = TRUE
    /\ UNCHANGED size

(* The characters string_copy takes. *)
CopyLength(val) == cpr_strlen(val, size - 1)

(* string_copy; from inside the string it copies towards the front. *)
string_copy(val, want) == Put(1, val, CopyLength(val), FirstN(want, Lesser(Len(want), size - 1)))

Copy(val) == Exists /\ string_copy(val, val)

(* make_string: new_string and string_copy. *)
MakeString(val, max) ==
    /\ size = 0
    /\ LET len == cpr_strlen(val, max)
       IN  /\ size' = len + 1 /\ used' = len
           /\ \E junk \in [1 .. len + 1 -> Junk] : data' = Store(junk, 1, FirstN(val, len) \o <<NUL>>)
           /\ text' = FirstN(val, len)
    /\ filled' = TRUE
    /\ UNCHANGED outside

(* Mutant: the byte for the NUL is not set aside. *)
AppendRoomFull == size - used

(* The bytes string_append may fill. *)
AppendRoom == size - used - 1

StrAppend(val) ==
    /\ Exists
    /\ \/ used >= size - 1 /\ UNCHANGED stringVars
       \/ /\ used < size - 1
          /\ Put(used + 1, val, cpr_strlen(val, AppendRoom),
                 FirstN(text \o val, Lesser(Len(text \o val), size - 1)))

Clear == Exists /\ Put(1, <<>>, 0, <<>>)

(* A caller writes a text through string_get and calls string_commit. *)
Commit(val) == /\ Exists /\ Len(val) < size
               /\ LET mem == Store(data, 1, val \o <<NUL>>)
                  IN  /\ data' = mem
                      /\ used' = cpr_strlen(TextAt(mem, 1), size - 1)
               /\ text' = val
               /\ filled' = TRUE
               /\ UNCHANGED <<size, outside>>

(* string_upper and string_lower, up to the NUL, of a string with a text. *)
ChangeCase(f) == /\ Exists /\ filled
                 /\ data' = Store(data, 1, Mapped(TextAt(data, 1), f))
                 /\ text' = Mapped(text, f)
                 /\ UNCHANGED <<size, used, filled, outside>>

(* The reference for trimming: all blanks at the front, or at the end. *)
WithoutHead(t) == LET n == CHOOSE k \in 0 .. Len(t) :
                              /\ \A i \in 1 .. k : t[i] \in Blank
                              /\ k < Len(t) => t[k + 1] \notin Blank
                  IN  SubSeq(t, n + 1, Len(t))
WithoutTail(t) == Backwards(WithoutHead(Backwards(t)))

(* string_trim copies what cpr_strtrim points to, string_chop what            *)
(* cpr_strchop has cut.                                                       *)
Trim == Exists /\ filled
        /\ string_copy(cpr_strtrim(TextAt(data, 1), Blank, size), WithoutHead(text))
Chop == Exists /\ filled
        /\ string_copy(cpr_strchop(TextAt(data, 1), Blank, size), WithoutTail(text))

(* string_tail keeps the first n characters, string_head the last n. *)
CutTo(n) == /\ Exists
            /\ LET keep == Lesser(n, used)
               IN  /\ data' = Store(data, keep + 1, <<NUL>>)
                   /\ used' = keep
                   /\ text' = FirstN(text, Lesser(n, Len(text)))
            /\ filled' = TRUE
            /\ UNCHANGED <<size, outside>>

LastOf(n) == /\ Exists /\ filled
             /\ LET keep == Lesser(n, used)
                IN  string_copy(TextAt(data, used - keep + 1),
                                SubSeq(text, Len(text) - Lesser(n, Len(text)) + 1, Len(text)))

(* string_printf: vsnprintf prints what fits, and then used and the NUL go    *)
(* where the whole text would have ended.                                     *)
Printf(val) == /\ Exists
               /\ IF val = <<>> THEN Put(1, <<>>, 0, <<>>) ELSE Put(1, val, Len(val), val)

StringNext ==
    \/ FreeString \/ Clear \/ Trim \/ Chop
    \/ \E f \in {UpperOf, LowerOf} : ChangeCase(f)
    \/ \E n \in StringSizes : NewString(n) \/ CutTo(n) \/ LastOf(n)
    \/ \E val \in Words :
          \/ Copy(val) \/ StrAppend(val) \/ Commit(val) \/ Printf(val)
          \/ \E max \in StringSizes : MakeString(val, max)

StringSpec == StringInit /\ [][StringNext]_stringVars
-----------------------------------------------------------------------------
(* However the calls are mixed, the string holds the text they should have    *)
(* left, cut to its size: used is its length, a NUL ends it inside the        *)
(* string, and no NUL comes before.  A write goes behind a string only by     *)
(* string_printf, or where the string has no room for one character.          *)
StringHoldsText ==
    /\ filled /\ ~outside =>
          /\ used = Len(text) /\ used < size
          /\ TextAt(data, 1) = text
    /\ outside => size = 1 \/ Len(text) >= size
=============================================================================
