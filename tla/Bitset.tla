------------------------------- MODULE Bitset -------------------------------
(***************************************************************************)
(* The bit arrays of src/bitset.c against a set of numbers.  A byte is the  *)
(* set of its bits that are one.  The last byte may have bits behind        *)
(* bitsize; no call keeps a caller from setting them.                       *)
(***************************************************************************)
EXTENDS Integers, FiniteSets

CONSTANTS BitSizes,  \* sizes passed to cpr_makebits
          Offsets,   \* offsets the callers use
          Masks      \* sets of offsets a mask is made of

ASSUME BitAssumption == BitSizes \subseteq Nat /\ Offsets \subseteq Nat

VARIABLES bitsize,  \* the size
          bits,     \* the bytes
          members   \* the offsets that were set and not cleared since

bitVars == <<bitsize, bits, members>>

Byte == 0 .. 7

(* cpr_bitsize *)
cpr_bitsize(n) == (n \div 8) + (IF n % 8 # 0 THEN 1 ELSE 0)

Bytes == 0 .. cpr_bitsize(bitsize) - 1
Room  == {o \in Offsets : o \div 8 \in Bytes}

bytemask(offset) == {offset % 8}

(* A bit array made of the offsets in s, one cpr_bitset after the other. *)
Array(s) == [b \in Bytes |-> UNION {bytemask(o) : o \in {x \in s : x \div 8 = b}}]

-----------------------------------------------------------------------------
(* cpr_makebits *)
BitInit == /\ bitsize \in BitSizes
           /\ bits = [b \in 0 .. cpr_bitsize(bitsize) - 1 |-> {}]
           /\ members = {}

cpr_bitset(offset) == /\ bits' = [bits EXCEPT ![offset \div 8] = @ \cup bytemask(offset)]
                      /\ members' = members \cup {offset}
                      /\ UNCHANGED bitsize

cpr_bitclr(offset) == /\ bits' = [bits EXCEPT ![offset \div 8] = @ \ bytemask(offset)]
                      /\ members' = members \ {offset}
                      /\ UNCHANGED bitsize

(* cpr_makemask: the bits common to both, kept in place of the first. *)
cpr_makemask(s) == /\ bitsize # 0
                   /\ bits' = [b \in Bytes |-> bits[b] \cap Array(s)[b]]
                   /\ members' = members \cap s
                   /\ UNCHANGED bitsize

(* cpr_foldmask: the bits of the mask are taken out. *)
cpr_foldmask(s) == /\ bitsize # 0
                   /\ bits' = [b \in Bytes |-> bits[b] \ Array(s)[b]]
                   /\ members' = members \ s
                   /\ UNCHANGED bitsize

BitNext == \/ \E o \in Room : cpr_bitset(o) \/ cpr_bitclr(o)
           \/ \E s \in Masks : s \subseteq Room /\ (cpr_makemask(s) \/ cpr_foldmask(s))

BitSpec == BitInit /\ [][BitNext]_bitVars

-----------------------------------------------------------------------------
cpr_bitget(offset) == bytemask(offset) \cap bits[offset \div 8] # {}

cpr_anybits == \E b \in Bytes : bits[b] # {}

(* The sum of count_bits over the bytes. *)
cpr_bitcount == Cardinality(UNION {{b} \X bits[b] : b \in Bytes})

cpr_allbits == cpr_bitcount = bitsize

(* Mutant: padding is taken for a result. *)
ScanIntoPadding(candidates) ==
    LET hit   == {b \in Bytes : candidates[b] # {}}
        first == CHOOSE b \in hit : \A c \in hit : b <= c
        bit   == CHOOSE i \in candidates[first] : \A j \in candidates[first] : i <= j
    IN  IF hit = {} THEN bitsize ELSE 8 * first + bit

(* The loop of cpr_lowestset and cpr_lowestclr: the lowest candidate of the   *)
(* first byte that has one, or bitsize when that is padding.                  *)
Scan(candidates) ==
    LET hit   == {b \in Bytes : candidates[b] # {}}
        first == CHOOSE b \in hit : \A c \in hit : b <= c
        bit   == CHOOSE i \in candidates[first] : \A j \in candidates[first] : i <= j
    IN  IF hit = {} \/ 8 * first + bit >= bitsize THEN bitsize ELSE 8 * first + bit

cpr_lowestset == Scan(bits)
cpr_lowestclr == Scan([b \in Bytes |-> Byte \ bits[b]])

-----------------------------------------------------------------------------
(* The least member of s below bitsize, or bitsize. *)
Least(s) == CHOOSE n \in 0 .. bitsize :
               /\ n \in s \/ n = bitsize
               /\ \A k \in 0 .. n - 1 : k \notin s

(* The array is the set of the offsets that were set: no call touches a       *)
(* neighbour or another byte, the searches stop at bitsize whatever the       *)
(* padding holds, and counting is right as long as no caller set padding.     *)
BitsetIsSet ==
    /\ \A o \in Room : cpr_bitget(o) <=> o \in members
    /\ cpr_lowestset = Least(members)
    /\ cpr_lowestclr = Least(0 .. bitsize \ members)
    /\ (\A o \in members : o < bitsize)
       => /\ cpr_bitcount = Cardinality(members)
          /\ cpr_anybits <=> members # {}
          /\ cpr_allbits <=> members = 0 .. bitsize - 1
=============================================================================
