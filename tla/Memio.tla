------------------------------- MODULE Memio -------------------------------
(***************************************************************************)
(* memio_t of src/memio.c: a fixed block of bytes that is written through   *)
(* put and read through get, both from its beginning, and may hold a packet *)
(* when it is set up.                                                       *)
(***************************************************************************)
EXTENDS Integers, Sequences

CONSTANTS BlockSize,  \* size of the block
          Delim,      \* the delimiter, a sequence of bytes
          Packets,    \* what the block may hold at first
          Pieces      \* what callers put

ZERO  == "zero"
Char  == STRING \cup {ZERO}   \* the bytes, NUL among them
Place == 0 .. BlockSize - 1

ASSUME MemioAssumption == /\ BlockSize \in Nat \ {0}
                          /\ Delim \in Seq(Char) /\ 1 <= Len(Delim) /\ Len(Delim) <= 16
                          /\ Packets \subseteq [Place -> Char]
                          /\ Pieces \subseteq Seq(Char)

VARIABLES block,     \* the bytes
          get, put,  \* the positions
          accepted,  \* all that the puts which returned true were asked to put
          line       \* where the line of cpr_lgetmem is, else NoLine

memVars == <<block, get, put, accepted, line>>

NoLine == [at |-> 0, len |-> 0]
Overlay(at, s) == [i \in Place |-> IF i - at + 1 \in DOMAIN s THEN s[i - at + 1] ELSE block[i]]

-----------------------------------------------------------------------------
(* cpr_initmem, cpr_makemem *)
MemInit == /\ block \in Packets
           /\ get = 0 /\ put = 0
           /\ accepted = <<>>
           /\ line = NoLine

(* cpr_resetmem *)
ResetMem == /\ get' = 0 /\ put' = 0
            /\ accepted' = <<>>
            /\ line' = NoLine
            /\ UNCHANGED block

(* The put of s returns true, having copied its first n bytes to put. *)
Accept(s, n) == /\ block' = Overlay(put, SubSeq(s, 1, n))
                /\ put' = put + n
                /\ accepted' = accepted \o s
                /\ line' = NoLine
                /\ UNCHANGED get

(* Mutant: the bytes behind put are compared with the whole block. *)
FitsEmpty(n) == n <= BlockSize

FitsMem(n) == n <= BlockSize - put

(* cpr_xputmem; cpr_cputmem is the put of one byte. *)
XPutMem(s) == FitsMem(Len(s)) /\ Accept(s, Len(s))

(* The length cpr_sputmem gives to cpr_xputmem: no more than the block's, and  *)
(* not one more, so that an empty block takes a text too long for it, cut.     *)
TextLength(s) == IF Len(s) < BlockSize THEN Len(s) ELSE BlockSize

SPutMem(s) == /\ s # <<>> /\ FitsMem(TextLength(s))
              /\ Accept(s, TextLength(s))

(* cpr_fmtmem: vsnprintf writes what fits into the estimate and a NUL, also    *)
(* when the text is then found too long and nothing is accepted.               *)
FmtMem(estimated, s) ==
    /\ estimated > 0 /\ put + estimated <= BlockSize
    /\ LET n == IF Len(s) < estimated THEN Len(s) ELSE estimated - 1
       IN  block' = Overlay(put, Append(SubSeq(s, 1, n), ZERO))
    /\ \/ Len(s) < estimated /\ put' = put + Len(s) /\ accepted' = accepted \o s
       \/ Len(s) >= estimated /\ UNCHANGED <<put, accepted>>
    /\ line' = NoLine
    /\ UNCHANGED get

(* cpr_xgetmem; cpr_cgetmem is the get of one byte.  Both go by the size of    *)
(* the block and not by put.                                                   *)
XGetMem(n) == /\ get + n <= BlockSize
              /\ get' = get + n
              /\ line' = NoLine
              /\ UNCHANGED <<block, put, accepted>>

(* A whole delimiter at i. *)
DelimInside(i) == /\ i + Len(Delim) <= BlockSize
                  /\ \A j \in DOMAIN Delim : block[i + j - 1] = Delim[j]

(* cpr_lgetmem: up to the next delimiter, in whose place a caller without an   *)
(* outlen gets a NUL.                                                          *)
LGetMem == \E i \in get .. BlockSize - 1 :
              /\ DelimInside(i)
              /\ \A j \in get .. i - 1 : ~DelimInside(j)
              /\ line' = [at |-> get, len |-> i - get]
              /\ get' = i + Len(Delim)
              /\ block' \in {block, Overlay(i, <<ZERO>>)}
              /\ UNCHANGED <<put, accepted>>

MemNext == \/ ResetMem \/ LGetMem
           \/ \E s \in Pieces : XPutMem(s) \/ SPutMem(s)
           \/ \E s \in Pieces, n \in 1 .. BlockSize : FmtMem(n, s)
           \/ \E n \in 1 .. BlockSize : XGetMem(n)

MemSpec == MemInit /\ [][MemNext]_memVars
-----------------------------------------------------------------------------
(* The positions stay inside the block, and below put it holds, in order and  *)
(* as far as it reaches, what the puts that returned true were asked to put,  *)
(* whatever failed puts and formats wrote behind.  Two things differ: the NUL *)
(* of cpr_lgetmem in place of a delimiter, and the end that cpr_sputmem cuts  *)
(* off (TooBigIsFalse).                                                       *)
AcceptedKept ==
    /\ put = IF Len(accepted) < BlockSize THEN Len(accepted) ELSE BlockSize
    /\ get <= BlockSize
    /\ \A i \in 0 .. put - 1 :
          block[i] = accepted[i + 1] \/ (block[i] = ZERO /\ accepted[i + 1] = Delim[1])

(* What the comment in cpr_sputmem says, "if string too big it is false": the *)
(* puts that return true were never asked for more than the block can hold.   *)
TooBigIsFalse == Len(accepted) <= BlockSize
=============================================================================
