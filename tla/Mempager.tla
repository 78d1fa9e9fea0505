------------------------------ MODULE Mempager ------------------------------
(***************************************************************************)
(* mempager_t of src/mempager.c: blocks of memory cut from pages, given     *)
(* back all at once.  A page is the number of its bytes in use, its header  *)
(* included; a block is where the caller was told its bytes are.  The list  *)
(* of free pages is left out: no call puts a page there.                    *)
(***************************************************************************)
EXTENDS Integers, Sequences

CONSTANTS PageSize,    \* pagesize of pager_create
          Header,      \* sizeof(struct _mempage)
          Limit,       \* max of pager_create, 0 for none
          SizeMax,     \* the values of size_t are those below it
          Requests,    \* the bytes that may be asked for, and the lengths of texts
          MaxPages     \* bound: pages, where there is no limit

(* Any page size may be asked for, one that has no room for the header too;   *)
(* malloc gives no block of more than half the address space.                 *)
ASSUME PagerAssumption == /\ Header \in Nat \ {0} /\ SizeMax \in Nat /\ Header + 1 < SizeMax
                          /\ PageSize \in Nat /\ PageSize + PageSize < SizeMax
                          /\ Requests \subseteq Nat /\ \A n \in Requests : n < SizeMax
                          /\ Limit \in Nat /\ MaxPages \in Nat

VARIABLES pages,   \* used of each page, in list order
          count,   \* pages the pager believes it has
          blocks,  \* what the caller was given
          answer   \* the last call returned memory

pagerVars == <<pages, count, blocks, answer>>

(* Sums and differences of size_t. *)
WrapAdd(a, b) == IF a + b < SizeMax THEN a + b ELSE a + b - SizeMax
WrapSub(a, b) == IF a >= b THEN a - b ELSE a - b + SizeMax

Block(page, at, len) == [page |-> page, at |-> at, len |-> len]

-----------------------------------------------------------------------------
(* pager_create *)
PagerInit == /\ pages = <<>>
             /\ count = 0
             /\ blocks = {}
             /\ answer = FALSE

(* pager_reset *)
Reset == /\ pages' = <<>>
         /\ count' = 0
         /\ blocks' = {}
         /\ answer' = FALSE

(* pager_request may take another page from malloc. *)
MayGrow == Limit = 0 \/ count < Limit

(* pager_alloc turns down what no page could hold. *)
FitsPage(size) == WrapAdd(size, Header) <= PageSize

(* Mutant: one byte too many. *)
HasRoomAndOne(page, size) == WrapAdd(pages[page], size) <= PageSize + 1

(* The test of pager_alloc for a page with room left. *)
HasRoom(page, size) == WrapAdd(pages[page], size) <= PageSize

(* malloc refuses, or the limit does, or the request is too large: NULL. *)
Refuse == answer' = FALSE /\ UNCHANGED <<pages, count, blocks>>

(* pager_request by a caller, who gets an empty page. *)
Request ==
    \/ /\ MayGrow /\ count < MaxPages
       /\ pages' = Append(pages, Header)
       /\ count' = count + 1
       /\ answer' = TRUE
       /\ UNCHANGED blocks
    \/ Refuse

(* pager_alloc: the first page with room, or a new one. *)
Alloc(size) ==
    \/ /\ FitsPage(size)
       /\ \E p \in DOMAIN pages :
             /\ HasRoom(p, size)
             /\ \A q \in 1 .. p - 1 : ~HasRoom(q, size)
             /\ blocks' = blocks \cup {Block(p, pages[p], size)}
             /\ pages' = [pages EXCEPT ![p] = WrapAdd(pages[p], size)]
       /\ answer' = TRUE
       /\ UNCHANGED count
    \/ /\ FitsPage(size)
       /\ \A p \in DOMAIN pages : ~HasRoom(p, size)
       /\ MayGrow /\ count < MaxPages
       /\ blocks' = blocks \cup {Block(Len(pages) + 1, Header, size)}
       /\ pages' = Append(pages, WrapAdd(Header, size))
       /\ count' = count + 1
       /\ answer' = TRUE
    \/ /\ FitsPage(size) => \A p \in DOMAIN pages : ~HasRoom(p, size)
       /\ Refuse

(* The characters pager_strdup copies: a text too long for a page is cut.  On  *)
(* a page with room for the header and one byte cpr_strlen is given 0, and     *)
(* counts the first character all the same; with less room max wraps.          *)
Copied(length) == LET max == WrapSub(PageSize, Header + 1)
                      most == IF max = 0 THEN 1 ELSE max
                  IN  IF length < most THEN length ELSE most

(* pager_strdup of a text of that length: a block with room for a NUL. *)
StrDup(length) == length + 1 < SizeMax /\ Alloc(Copied(length) + 1)

(* No request came so close to the largest size that its sum with the header   *)
(* wrapped.  One that does passes both tests, and takes bytes back from its    *)
(* page; from there on the pager is followed to its reset only.                *)
NoneWrapped == \A b \in blocks : b.len + Header < SizeMax

PagerNext == \/ Reset
             \/ NoneWrapped /\ (Request \/ \E n \in Requests : Alloc(n) \/ StrDup(n))

PagerSpec == PagerInit /\ [][PagerNext]_pagerVars
-----------------------------------------------------------------------------
PagerTypeOK == /\ pages \in Seq(Nat)
               /\ count \in Nat
               /\ blocks \subseteq [page : Nat, at : Nat, len : Nat]
               /\ answer \in BOOLEAN

(* As long as no sum has wrapped, two blocks never share a byte, and every    *)
(* block lies behind the header of its page and inside it, also at the last   *)
(* byte of a page and on pages with no room for a block.                      *)
BlocksApart ==
    NoneWrapped =>
        /\ \A b \in blocks : /\ b.page \in DOMAIN pages
                             /\ Header <= b.at /\ b.at + b.len <= PageSize
        /\ \A b, c \in blocks :
              b.page = c.page /\ b # c => b.at + b.len <= c.at \/ c.at + c.len <= b.at

(* The pager counts its pages right, through resets and refusals, and never   *)
(* takes more of them than it was allowed.                                    *)
PagesWithinLimit == count = Len(pages) /\ (Limit # 0 => count <= Limit)
=============================================================================
