--------------------------- MODULE SequentialProofs ---------------------------
(****************************************************************************)
(* The safety of the components that one thread uses at a time, for every   *)
(* value of their constants and every sequence of calls.                    *)
(****************************************************************************)
EXTENDS Keyfile, Mempager, Memio, Bitset, Deadline, Getline, Multicast, Strtype, Counting

-----------------------------------------------------------------------------
(****************************************************************************)
(* The pager: any page size, header and limit, and any sequence of          *)
(* requests.                                                                *)
(****************************************************************************)

(* used of a page is at least its header and at most the page, where that has *)
(* room for the header.                                                       *)
PagesFilled == \A p \in DOMAIN pages : /\ Header <= pages[p]
                                       /\ Header <= PageSize => pages[p] <= PageSize

(* A block lies behind the header of its page and below used. *)
BlockIn(b) == /\ b.page \in DOMAIN pages
              /\ Header <= b.at /\ b.at + b.len <= pages[b.page]

(* Two blocks share no byte. *)
Apart(b, c) == b.page = c.page /\ b # c => b.at + b.len <= c.at \/ c.at + c.len <= b.at

(* So for all blocks, and all pairs of them. *)
BlocksBelowUsed == \A b \in blocks : BlockIn(b)
PairsApart == \A b, c \in blocks : Apart(b, c)

(* The inductive invariant, while no sum has wrapped.  That a new block meets *)
(* no older one follows from all of them being below used, which BlocksApart  *)
(* does not say.                                                              *)
PagerIInv == /\ PagerTypeOK /\ PagesWithinLimit
             /\ PagesFilled /\ BlocksBelowUsed /\ PairsApart
             /\ blocks # {} => Header <= PageSize

(* What a request whose sum wrapped leaves of it. *)
PagerWeak == PagerTypeOK /\ PagesWithinLimit /\ (NoneWrapped => PagerIInv)

(* The blocks a pager may have handed out. *)
BlockSet == [page : Nat, at : Nat, len : Nat]

(* One more block, from where used was on page p to where it is now. *)
LEMMA NewBlock ==
    ASSUME PagerIInv, PagerTypeOK', PagesFilled',
           NEW p \in DOMAIN pages', NEW at \in Nat, NEW need \in Nat,
           Header <= at, pages'[p] = at + need,
           \A q \in DOMAIN pages : /\ q \in DOMAIN pages'
                                   /\ pages[q] <= pages'[q]
                                   /\ q = p => pages[q] = at,
           blocks' = blocks \cup {Block(p, at, need)}
    PROVE  BlocksBelowUsed' /\ PairsApart'
<1>a. pages \in Seq(Nat) /\ blocks \subseteq BlockSet
  BY DEF PagerIInv, PagerTypeOK, BlockSet
<1>b. pages' \in Seq(Nat)
  BY DEF PagerTypeOK
<1>t. /\ blocks \subseteq BlockSet
      /\ \A q \in DOMAIN pages : pages[q] \in Nat
      /\ \A q \in DOMAIN pages' : pages'[q] \in Nat
  <2>1. \A q \in DOMAIN pages : pages[q] \in Nat
    BY <1>a
  <2>2. \A q \in DOMAIN pages' : pages'[q] \in Nat
    BY <1>b
  <2> QED BY <1>a, <2>1, <2>2
<1> DEFINE new == Block(p, at, need)
<1>1. new.page = p /\ new.at = at /\ new.len = need
  BY DEF Block
<1> HIDE DEF new
<1>2. blocks' = blocks \cup {new}
  BY DEF new
<1>3. ASSUME NEW b \in blocks
      PROVE  /\ b.page \in DOMAIN pages /\ Header <= b.at
             /\ b.at + b.len <= pages[b.page]
             /\ b.at \in Nat /\ b.len \in Nat
  BY <1>t DEF PagerIInv, BlocksBelowUsed, BlockIn, BlockSet
<1>4. ASSUME NEW b \in blocks PROVE BlockIn(b)'
  <2>1. /\ b.page \in DOMAIN pages' /\ pages[b.page] <= pages'[b.page]
        /\ pages[b.page] \in Nat /\ pages'[b.page] \in Nat
    BY <1>3, <1>t
  <2>2. b.at + b.len <= pages'[b.page]
    BY <1>3, <2>1
  <2> QED BY <1>3, <2>1, <2>2 DEF BlockIn
<1>5. BlockIn(new)'
  BY <1>1 DEF BlockIn
<1>6. ASSUME NEW b \in blocks PROVE Apart(b, new) /\ Apart(new, b)
  <2> SUFFICES ASSUME b.page = p PROVE b.at + b.len <= at
    BY <1>1 DEF Apart
  <2>1. pages[b.page] = at
    BY <1>3
  <2> QED BY <1>3, <2>1
<1>7. Apart(new, new)
  BY DEF Apart
<1>8. BlocksBelowUsed'
  BY <1>2, <1>4, <1>5 DEF BlocksBelowUsed
<1>9. PairsApart'
  <2>1. \A b, c \in blocks : Apart(b, c)
    BY DEF PagerIInv, PairsApart
  <2> QED BY <1>2, <1>6, <1>7, <2>1 DEF PairsApart
<1> QED BY <1>8, <1>9

(* pager_create *)
LEMMA PagerInitHolds == PagerInit => PagerIInv
<1> SUFFICES ASSUME PagerInit PROVE PagerIInv
  OBVIOUS
<1>1. PagesWithinLimit /\ PagesFilled
  BY PagerAssumption DEF PagerInit, PagesWithinLimit, PagesFilled
<1>2. PagerTypeOK
  <2>1. pages \in Seq(Nat) /\ count \in Nat
    BY DEF PagerInit
  <2>2. blocks \subseteq BlockSet /\ answer \in BOOLEAN
    BY DEF PagerInit
  <2> QED BY <2>1, <2>2 DEF PagerTypeOK, BlockSet
<1>3. BlocksBelowUsed /\ PairsApart /\ blocks = {}
  BY DEF PagerInit, BlocksBelowUsed, PairsApart
<1> QED BY <1>1, <1>2, <1>3 DEF PagerIInv

(* pager_reset *)
LEMMA ResetHolds == Reset => PagerIInv'
<1> SUFFICES ASSUME Reset PROVE PagerIInv'
  OBVIOUS
<1>1. PagesWithinLimit' /\ PagesFilled'
  BY PagerAssumption DEF Reset, PagesWithinLimit, PagesFilled
<1>2. PagerTypeOK'
  <2>1. pages' \in Seq(Nat) /\ count' \in Nat
    BY DEF Reset
  <2>2. blocks' \subseteq BlockSet /\ answer' \in BOOLEAN
    BY DEF Reset
  <2> QED BY <2>1, <2>2 DEF PagerTypeOK, BlockSet
<1>3. BlocksBelowUsed' /\ PairsApart' /\ blocks' = {}
  BY DEF Reset, BlocksBelowUsed, PairsApart
<1> QED BY <1>1, <1>2, <1>3 DEF PagerIInv

(* A call that returns NULL. *)
LEMMA RefuseHolds == PagerIInv /\ Refuse => PagerIInv'
BY DEF Refuse, PagerIInv, PagerTypeOK, PagesWithinLimit, PagesFilled,
   BlocksBelowUsed, BlockIn, PairsApart

(* A new page with some of it in use. *)
LEMMA Grown ==
    ASSUME PagerIInv, MayGrow, NEW taken \in Nat, Header <= taken, Header <= PageSize => taken <= PageSize,
           pages' = Append(pages, taken), count' = count + 1
    PROVE  /\ pages' \in Seq(Nat) /\ count' \in Nat
           /\ PagesWithinLimit' /\ PagesFilled'
           /\ Len(pages) \in Nat /\ Len(pages) + 1 \in DOMAIN pages'
           /\ pages'[Len(pages) + 1] = taken
           /\ \A q \in DOMAIN pages : /\ q \in DOMAIN pages' /\ q # Len(pages) + 1
                                      /\ pages'[q] = pages[q]
<1>t. pages \in Seq(Nat) /\ count \in Nat /\ count = Len(pages) /\ Len(pages) \in Nat
  BY DEF PagerIInv, PagerTypeOK, PagesWithinLimit
<1>1. /\ pages' \in Seq(Nat) /\ Len(pages') = Len(pages) + 1
      /\ DOMAIN pages = 1 .. Len(pages) /\ DOMAIN pages' = 1 .. Len(pages) + 1
      /\ pages'[Len(pages) + 1] = taken
      /\ \A q \in 1 .. Len(pages) : pages'[q] = pages[q]
  BY <1>t
<1>2. PagesWithinLimit'
  BY <1>t, <1>1, PagerAssumption DEF PagerIInv, PagesWithinLimit, MayGrow
<1>3. PagesFilled'
  <2> SUFFICES ASSUME NEW q \in 1 .. Len(pages) + 1
               PROVE  Header <= pages'[q] /\ (Header <= PageSize => pages'[q] <= PageSize)
    BY <1>1 DEF PagesFilled
  <2>1. CASE q = Len(pages) + 1
    BY <1>1, <2>1
  <2>2. CASE q \in 1 .. Len(pages)
    BY <1>1, <2>2 DEF PagerIInv, PagesFilled
  <2> QED BY <1>t, <2>1, <2>2
<1>4. \A q \in DOMAIN pages : q \in DOMAIN pages' /\ q # Len(pages) + 1 /\ pages'[q] = pages[q]
  BY <1>t, <1>1
<1> QED BY <1>t, <1>1, <1>2, <1>3, <1>4

(* pager_request *)
LEMMA RequestHolds == PagerIInv /\ Request => PagerIInv'
<1> SUFFICES ASSUME PagerIInv, Request PROVE PagerIInv'
  OBVIOUS
<1>1. CASE Refuse
  BY <1>1, RefuseHolds
<1>2. CASE /\ MayGrow
           /\ pages' = Append(pages, Header) /\ count' = count + 1
           /\ answer' = TRUE /\ blocks' = blocks
  <2>0. Header \in Nat /\ Header <= Header /\ (Header <= PageSize => Header <= PageSize)
    BY PagerAssumption
  <2>1. /\ pages' \in Seq(Nat) /\ count' \in Nat /\ PagesWithinLimit' /\ PagesFilled'
        /\ \A q \in DOMAIN pages : q \in DOMAIN pages' /\ pages'[q] = pages[q]
    BY <1>2, <2>0, Grown
  <2>2. PagerTypeOK'
    BY <1>2, <2>1 DEF PagerIInv, PagerTypeOK
  <2>3. BlocksBelowUsed'
    <3> SUFFICES ASSUME NEW b \in blocks PROVE BlockIn(b)'
      BY <1>2 DEF BlocksBelowUsed
    <3>1. BlockIn(b)
      BY DEF PagerIInv, BlocksBelowUsed
    <3> QED BY <2>1, <3>1 DEF BlockIn
  <2>4. PairsApart'
    BY <1>2 DEF PagerIInv, PairsApart
  <2>5. blocks' # {} => Header <= PageSize
    BY <1>2 DEF PagerIInv
  <2> QED BY <2>1, <2>2, <2>3, <2>4, <2>5 DEF PagerIInv
<1> QED BY <1>1, <1>2 DEF Request

(* pager_alloc, on a page with room or on a new one. *)
LEMMA AllocHolds ==
    ASSUME PagerIInv, NEW need \in Nat, need + Header < SizeMax, Alloc(need)
    PROVE  PagerIInv'
<1>t. /\ pages \in Seq(Nat) /\ count \in Nat /\ PageSize \in Nat /\ Header \in Nat
      /\ blocks \subseteq BlockSet /\ SizeMax \in Nat /\ PageSize + PageSize < SizeMax
  BY PagerAssumption DEF PagerIInv, PagerTypeOK, BlockSet
<1>f. FitsPage(need) => need + Header <= PageSize
  BY <1>t DEF FitsPage, WrapAdd
<1>1. CASE Refuse
  BY <1>1, RefuseHolds
<1>2. ASSUME NEW p \in DOMAIN pages, FitsPage(need), HasRoom(p, need),
             blocks' = blocks \cup {Block(p, pages[p], need)},
             pages' = [pages EXCEPT ![p] = WrapAdd(pages[p], need)],
             answer' = TRUE, count' = count
      PROVE  PagerIInv'
  <2>0. PICK at : at = pages[p]
    OBVIOUS
  <2>a. /\ at \in Nat /\ Header <= at /\ Header <= PageSize /\ at <= PageSize
    BY <1>t, <1>f, <1>2, <2>0 DEF PagerIInv, PagesFilled
  <2>b. WrapAdd(at, need) = at + need
    BY <1>t, <1>f, <1>2, <2>a DEF WrapAdd
  <2>1. /\ at \in Nat /\ Header <= at /\ at + need <= PageSize
        /\ at + need \in Nat
    BY <1>t, <1>2, <2>0, <2>a, <2>b DEF HasRoom
  <2>2. /\ DOMAIN pages' = DOMAIN pages /\ Len(pages') = Len(pages)
        /\ pages' \in Seq(Nat) /\ pages'[p] = at + need
        /\ \A q \in DOMAIN pages : q # p => pages'[q] = pages[q]
    BY <1>t, <1>2, <2>0, <2>1, <2>b
  <2>3. Block(p, at, need) \in BlockSet
    BY <1>t, <2>1 DEF Block, BlockSet
  <2>4. PagerTypeOK'
    BY <1>t, <1>2, <2>0, <2>2, <2>3 DEF PagerTypeOK, BlockSet
  <2>5. PagesFilled'
    <3> SUFFICES ASSUME NEW q \in DOMAIN pages
                 PROVE  Header <= pages'[q] /\ (Header <= PageSize => pages'[q] <= PageSize)
      BY <2>2 DEF PagesFilled
    <3>1. CASE q = p
      BY <1>t, <2>1, <2>2, <3>1
    <3>2. CASE q # p
      BY <2>2, <3>2 DEF PagerIInv, PagesFilled
    <3> QED BY <3>1, <3>2
  <2>6. PagesWithinLimit'
    BY <1>2, <2>2 DEF PagerIInv, PagesWithinLimit
  <2>7. \A q \in DOMAIN pages : /\ q \in DOMAIN pages' /\ pages[q] <= pages'[q]
                                /\ q = p => pages[q] = at
    <3> SUFFICES ASSUME NEW q \in DOMAIN pages PROVE pages[q] <= pages'[q]
      BY <2>0, <2>2
    <3>1. pages[q] \in Nat
      BY <1>t
    <3>2. CASE q = p
      BY <1>t, <2>0, <2>1, <2>2, <3>2
    <3>3. CASE q # p
      BY <2>2, <3>1, <3>3
    <3> QED BY <3>2, <3>3
  <2>8. blocks' = blocks \cup {Block(p, at, need)} /\ p \in DOMAIN pages'
    BY <1>2, <2>0, <2>2
  <2>9. BlocksBelowUsed' /\ PairsApart'
    BY <2>1, <2>2, <2>4, <2>5, <2>7, <2>8, NewBlock
  <2> QED BY <2>4, <2>5, <2>6, <2>9, <2>a DEF PagerIInv
<1>3. CASE /\ FitsPage(need) /\ MayGrow
           /\ blocks' = blocks \cup {Block(Len(pages) + 1, Header, need)}
           /\ pages' = Append(pages, WrapAdd(Header, need))
           /\ count' = count + 1 /\ answer' = TRUE
  <2>0. PICK p : p = Len(pages) + 1
    OBVIOUS
  <2>1. /\ Header + need \in Nat /\ Header <= Header + need /\ Header + need <= PageSize
    BY <1>t, <1>f, <1>3
  <2>a. WrapAdd(Header, need) = Header + need /\ Header <= PageSize
    BY <1>t, <2>1 DEF WrapAdd
  <2>2. /\ pages' \in Seq(Nat) /\ count' \in Nat /\ PagesWithinLimit' /\ PagesFilled'
        /\ p \in Nat /\ p \in DOMAIN pages' /\ pages'[p] = Header + need
        /\ \A q \in DOMAIN pages : q \in DOMAIN pages' /\ q # p /\ pages'[q] = pages[q]
    BY <1>3, <2>0, <2>1, <2>a, Grown
  <2>3. Block(p, Header, need) \in BlockSet
    BY <1>t, <2>2 DEF Block, BlockSet
  <2>4. PagerTypeOK'
    BY <1>t, <1>3, <2>0, <2>2, <2>3 DEF PagerTypeOK, BlockSet
  <2>5. \A q \in DOMAIN pages : /\ q \in DOMAIN pages' /\ pages[q] <= pages'[q]
                                /\ q = p => pages[q] = Header
    <3> SUFFICES ASSUME NEW q \in DOMAIN pages PROVE pages[q] <= pages'[q]
      BY <2>2
    <3>1. pages[q] \in Nat
      BY <1>t
    <3> QED BY <2>2, <3>1
  <2>6. Header <= Header /\ blocks' = blocks \cup {Block(p, Header, need)}
    BY <1>t, <1>3, <2>0
  <2>7. BlocksBelowUsed' /\ PairsApart'
    BY <1>t, <2>2, <2>4, <2>5, <2>6, NewBlock
  <2> QED BY <2>2, <2>4, <2>7, <2>a DEF PagerIInv
<1> QED BY <1>1, <1>2, <1>3 DEF Alloc

(* pager_alloc of a size whose sum wraps: the types and the count hold. *)
LEMMA AllocWraps ==
    ASSUME PagerIInv, NEW need \in Nat, need < SizeMax, ~(need + Header < SizeMax), Alloc(need)
    PROVE  PagerTypeOK' /\ PagesWithinLimit' /\ (NoneWrapped' => PagerIInv')
<1>t. /\ pages \in Seq(Nat) /\ count \in Nat /\ Header \in Nat /\ SizeMax \in Nat
      /\ blocks \subseteq BlockSet /\ count = Len(pages) /\ Len(pages) \in Nat
  BY PagerAssumption DEF PagerIInv, PagerTypeOK, BlockSet, PagesWithinLimit
<1>1. CASE Refuse
  <2>1. PagerIInv'
    BY <1>1, RefuseHolds
  <2> QED BY <2>1 DEF PagerIInv
<1>w. \A a \in Nat : WrapAdd(a, need) \in Nat
  BY <1>t DEF WrapAdd
<1>2. ASSUME NEW q \in Nat, NEW at \in Nat, blocks' = blocks \cup {Block(q, at, need)},
             pages' \in Seq(Nat), count' \in Nat, PagesWithinLimit', answer' = TRUE
      PROVE  PagerTypeOK' /\ PagesWithinLimit' /\ (NoneWrapped' => PagerIInv')
  <2>1. Block(q, at, need) \in BlockSet /\ Block(q, at, need).len = need
    BY DEF Block, BlockSet
  <2>2. ~NoneWrapped'
    BY <1>2, <2>1 DEF NoneWrapped
  <2>3. PagerTypeOK'
    BY <1>t, <1>2, <2>1 DEF PagerTypeOK, BlockSet
  <2> QED BY <1>2, <2>2, <2>3
<1>3. ASSUME NEW p \in DOMAIN pages,
             blocks' = blocks \cup {Block(p, pages[p], need)},
             pages' = [pages EXCEPT ![p] = WrapAdd(pages[p], need)],
             answer' = TRUE, count' = count
      PROVE  PagerTypeOK' /\ PagesWithinLimit' /\ (NoneWrapped' => PagerIInv')
  <2>1. p \in Nat /\ pages[p] \in Nat /\ WrapAdd(pages[p], need) \in Nat
    <3>1. p \in Nat /\ pages[p] \in Nat
      BY <1>t
    <3> QED BY <1>w, <3>1
  <2>2. pages' \in Seq(Nat) /\ Len(pages') = Len(pages)
    BY <1>t, <1>3, <2>1
  <2>3. PagesWithinLimit' /\ count' \in Nat
    BY <1>t, <1>3, <2>2 DEF PagerIInv, PagesWithinLimit
  <2> QED BY <1>2, <1>3, <2>1, <2>2, <2>3
<1>4. CASE /\ MayGrow
           /\ blocks' = blocks \cup {Block(Len(pages) + 1, Header, need)}
           /\ pages' = Append(pages, WrapAdd(Header, need))
           /\ count' = count + 1 /\ answer' = TRUE
  <2>1. WrapAdd(Header, need) \in Nat /\ Len(pages) + 1 \in Nat
    BY <1>t, <1>w
  <2>2. pages' \in Seq(Nat) /\ Len(pages') = Len(pages) + 1
    BY <1>t, <1>4, <2>1
  <2>3. PagesWithinLimit' /\ count' \in Nat
    BY <1>t, <1>4, <2>2, PagerAssumption DEF PagerIInv, PagesWithinLimit, MayGrow
  <2> QED BY <1>t, <1>2, <1>4, <2>1, <2>2, <2>3
<1> QED BY <1>1, <1>3, <1>4 DEF Alloc

(* pager_strdup asks for a number of bytes that a size_t holds. *)
LEMMA CopiedIs ==
    ASSUME NEW n \in Nat, n + 1 < SizeMax
    PROVE  Copied(n) + 1 \in Nat /\ Copied(n) + 1 < SizeMax
<1>1. Header \in Nat /\ PageSize \in Nat /\ SizeMax \in Nat /\ Header + 1 < SizeMax
  BY PagerAssumption
<1> DEFINE max == WrapSub(PageSize, Header + 1)
<1>2. max \in Nat
  BY <1>1 DEF WrapSub
<1>3. Copied(n) = LET most == IF max = 0 THEN 1 ELSE max IN IF n < most THEN n ELSE most
  BY DEF Copied
<1> HIDE DEF max
<1> QED BY <1>1, <1>2, <1>3

(* Every step keeps the invariant. *)
LEMMA PagerNextHolds == PagerWeak /\ [PagerNext]_pagerVars => PagerWeak'
<1> SUFFICES ASSUME PagerWeak, [PagerNext]_pagerVars PROVE PagerWeak'
  OBVIOUS
<1>0. PagerIInv' => PagerWeak'
  BY DEF PagerWeak, PagerIInv
<1>1. CASE Reset
  BY <1>0, <1>1, ResetHolds
<1>2. CASE UNCHANGED pagerVars
  <2>1. /\ PagerTypeOK' /\ PagesWithinLimit' /\ (NoneWrapped' <=> NoneWrapped)
        /\ PagerIInv => PagerIInv'
    BY <1>2 DEF pagerVars, PagerWeak, PagerIInv, PagerTypeOK, PagesWithinLimit, PagesFilled,
                BlocksBelowUsed, BlockIn, PairsApart, NoneWrapped
  <2> QED BY <2>1 DEF PagerWeak
<1>3. ASSUME NoneWrapped, Request \/ \E n \in Requests : Alloc(n) \/ StrDup(n) PROVE PagerWeak'
  <2>1. PagerIInv
    BY <1>3 DEF PagerWeak
  <2>2. CASE Request
    BY <1>0, <2>1, <2>2, RequestHolds
  <2>3. ASSUME NEW need \in Nat, need < SizeMax, Alloc(need) PROVE PagerWeak'
    <3>1. CASE need + Header < SizeMax
      BY <1>0, <2>1, <2>3, <3>1, AllocHolds
    <3>2. CASE ~(need + Header < SizeMax)
      BY <2>1, <2>3, <3>2, AllocWraps DEF PagerWeak
    <3> QED BY <3>1, <3>2
  <2>4. ASSUME NEW n \in Requests, Alloc(n) PROVE PagerWeak'
    BY <2>3, <2>4, PagerAssumption
  <2>5. ASSUME NEW n \in Requests, StrDup(n) PROVE PagerWeak'
    <3>1. n \in Nat /\ n + 1 < SizeMax /\ Alloc(Copied(n) + 1)
      BY <2>5, PagerAssumption DEF StrDup
    <3> QED BY <2>3, <3>1, CopiedIs
  <2> QED BY <1>3, <2>2, <2>4, <2>5
<1> QED BY <1>1, <1>2, <1>3 DEF PagerNext

(* For any page size, also one too small for the header, any width of size_t  *)
(* and any requests: pager_alloc and pager_strdup never give out a byte twice *)
(* nor one of a page's header or behind its end, up to the first request whose *)
(* sum with the header wraps, and the pager always keeps to its limit.        *)
THEOREM PagerSafety == PagerSpec => [](PagerTypeOK /\ BlocksApart /\ PagesWithinLimit)
<1>1. ASSUME PagerIInv PROVE BlocksApart
  <2>1. ASSUME NEW b \in blocks
        PROVE  b.page \in DOMAIN pages /\ Header <= b.at /\ b.at + b.len <= PageSize
    <3>1. /\ b.page \in DOMAIN pages /\ Header <= b.at
          /\ b.at + b.len <= pages[b.page] /\ pages[b.page] <= PageSize
      BY <1>1 DEF PagerIInv, BlocksBelowUsed, BlockIn, PagesFilled
    <3>2. pages[b.page] \in Nat /\ b.at \in Nat /\ b.len \in Nat
      BY <1>1, <3>1 DEF PagerIInv, PagerTypeOK
    <3> QED BY <3>1, <3>2, PagerAssumption
  <2> QED BY <1>1, <2>1 DEF BlocksApart, PagerIInv, PairsApart, Apart
<1>2. PagerWeak => PagerTypeOK /\ BlocksApart /\ PagesWithinLimit
  BY <1>1 DEF PagerWeak, BlocksApart
<1>3. PagerInit => PagerWeak
  BY PagerInitHolds DEF PagerWeak, PagerIInv
<1> QED BY <1>2, <1>3, PagerNextHolds, PTL DEF PagerSpec

-----------------------------------------------------------------------------
(****************************************************************************)
(* Memory streams: any block, delimiter and texts.                          *)
(****************************************************************************)

(* The block, its two positions and the reference. *)
MemTypeOK == /\ block \in [Place -> Char]
             /\ get \in Nat /\ put \in Nat
             /\ accepted \in Seq(Char)

(* AcceptedKept is inductive once the types are known. *)
MemIInv == MemTypeOK /\ AcceptedKept

(* The byte at i holds what was accepted there, or the NUL of cpr_lgetmem. *)
Kept(b, a, i) == b[i] = a[i + 1] \/ (b[i] = ZERO /\ a[i + 1] = Delim[1])

(* The first n bytes of a text. *)
LEMMA Prefix ==
    ASSUME NEW s \in Seq(Char), NEW n \in 0 .. Len(s)
    PROVE  /\ SubSeq(s, 1, n) \in Seq(Char)
           /\ Len(SubSeq(s, 1, n)) = n
           /\ DOMAIN SubSeq(s, 1, n) = 1 .. n
           /\ \A i \in 1 .. n : SubSeq(s, 1, n)[i] = s[i]
<1>1. /\ Len(s) \in Nat /\ n \in Nat /\ n <= Len(s)
      /\ \A i \in 1 .. n : i \in 1 .. Len(s)
  OBVIOUS
<1> QED BY <1>1

(* What cpr_memcpy or vsnprintf leave in the block. *)
LEMMA OverlayAt ==
    ASSUME MemTypeOK, NEW at \in Nat, NEW s \in Seq(Char)
    PROVE  /\ Overlay(at, s) \in [Place -> Char]
           /\ \A i \in Place : i < at => Overlay(at, s)[i] = block[i]
           /\ \A i \in Place : i >= at /\ i < at + Len(s) => Overlay(at, s)[i] = s[i - at + 1]
           /\ \A i \in Place : i >= at + Len(s) => Overlay(at, s)[i] = block[i]
<1>1. DOMAIN s = 1 .. Len(s) /\ Len(s) \in Nat /\ \A i \in DOMAIN s : s[i] \in Char
  OBVIOUS
<1>2. Place \subseteq Int
  BY MemioAssumption DEF Place
<1>3. \A i \in Place : /\ i < at => i - at + 1 \notin DOMAIN s
                       /\ i >= at /\ i < at + Len(s) => i - at + 1 \in DOMAIN s
                       /\ i >= at + Len(s) => i - at + 1 \notin DOMAIN s
  BY <1>1, <1>2
<1>4. block \in [Place -> Char]
  BY DEF MemTypeOK
<1>5. Overlay(at, s) \in [Place -> Char]
  BY <1>1, <1>4 DEF Overlay
<1> QED BY <1>3, <1>5 DEF Overlay

(* NUL is a byte. *)
LEMMA ZeroByte == ZERO \in Char /\ <<ZERO>> \in Seq(Char)
<1>1. ZERO \in Char
  BY DEF Char
<1> QED BY <1>1

(* s is written at put, which moves by n, and t is what the caller asked for. *)
PutsText(s, n, t) == /\ block' = Overlay(put, s)
                     /\ put' = put + n /\ get' = get
                     /\ accepted' = accepted \o t

(* Such a step keeps the invariant when all of t was written, or as much of it *)
(* as fills the block.                                                         *)
LEMMA PutKeeps ==
    ASSUME MemIInv, NEW s \in Seq(Char), NEW t \in Seq(Char), NEW n \in Nat,
           n <= Len(s), n <= Len(t), put + n <= BlockSize,
           \A i \in 1 .. n : t[i] = s[i],
           n = Len(t) \/ put + n = BlockSize,
           PutsText(s, n, t)
    PROVE  MemIInv'
<1>0. Len(s) \in Nat /\ Len(t) \in Nat /\ BlockSize \in Nat
  BY MemioAssumption
<1>2. /\ put \in Nat /\ get \in Nat /\ accepted \in Seq(Char) /\ MemTypeOK
      /\ put = IF Len(accepted) < BlockSize THEN Len(accepted) ELSE BlockSize
      /\ get <= BlockSize
      /\ \A i \in 0 .. put - 1 : Kept(block, accepted, i)
  BY DEF MemIInv, MemTypeOK, AcceptedKept, Kept
<1>a. /\ Len(accepted) \in Nat /\ put <= Len(accepted) /\ put <= BlockSize
      /\ n = 0 \/ put = Len(accepted)
  BY <1>0, <1>2
<1>3. /\ accepted' \in Seq(Char) /\ Len(accepted') = Len(accepted) + Len(t)
      /\ \A i \in 1 .. put : accepted'[i] = accepted[i]
      /\ \A i \in 1 .. Len(t) : accepted'[Len(accepted) + i] = t[i]
  <2>1. accepted' = accepted \o t
    BY DEF PutsText
  <2>2. accepted \in Seq(Char) /\ t \in Seq(Char)
    BY <1>2
  <2>3. /\ accepted \o t \in Seq(Char) /\ Len(accepted \o t) = Len(accepted) + Len(t)
        /\ \A i \in 1 .. Len(accepted) : (accepted \o t)[i] = accepted[i]
        /\ \A i \in 1 .. Len(t) : (accepted \o t)[Len(accepted) + i] = t[i]
    BY <2>2, ConcatAt
  <2>4. \A i \in 1 .. put : i \in 1 .. Len(accepted)
    BY <1>2, <1>a
  <2> QED BY <2>1, <2>3, <2>4
<1>4. /\ block' \in [Place -> Char]
      /\ \A i \in Place : i < put => block'[i] = block[i]
      /\ \A i \in Place : i >= put /\ i < put + Len(s) => block'[i] = s[i - put + 1]
  BY <1>2, OverlayAt DEF PutsText
<1>5. ASSUME NEW i \in 0 .. put' - 1 PROVE Kept(block', accepted', i)
  <2>1. i \in Place /\ i \in Nat /\ i < put + n
    BY <1>0, <1>2 DEF Place, PutsText
  <2>2. CASE i < put
    <3>1. i \in 0 .. put - 1 /\ i + 1 \in 1 .. put
      BY <1>2, <2>1, <2>2
    <3>2. Kept(block, accepted, i) /\ block'[i] = block[i] /\ accepted'[i + 1] = accepted[i + 1]
      BY <1>2, <1>3, <1>4, <2>1, <2>2, <3>1
    <3> QED BY <3>2 DEF Kept
  <2>3. CASE i >= put
    <3>0. put = Len(accepted)
      BY <1>2, <1>a, <2>1, <2>3
    <3>1. i < put + Len(s) /\ i - put + 1 \in 1 .. n /\ put + (i - put + 1) = i + 1
      BY <1>0, <1>2, <2>1, <2>3
    <3>2. PICK k \in 1 .. n : k = i - put + 1
      BY <3>1
    <3>3. block'[i] = s[k]
      BY <1>4, <2>1, <2>3, <3>1, <3>2
    <3>a. k \in 1 .. Len(t)
      BY <1>0, <3>2
    <3>4. accepted'[put + k] = t[k] /\ put + k = i + 1
      BY <1>3, <3>0, <3>1, <3>2, <3>a
    <3>5. t[k] = s[k]
      BY <3>2
    <3> QED BY <3>3, <3>4, <3>5 DEF Kept
  <2> QED BY <1>2, <2>1, <2>2, <2>3
<1>6. /\ put' \in Nat /\ get' \in Nat /\ get' <= BlockSize
      /\ put' = IF Len(accepted') < BlockSize THEN Len(accepted') ELSE BlockSize
  <2>1. put' = put + n /\ get' = get
    BY DEF PutsText
  <2>2. CASE n = Len(t)
    BY <1>0, <1>2, <1>3, <1>a, <2>1, <2>2
  <2>3. CASE put + n = BlockSize
    BY <1>0, <1>2, <1>3, <1>a, <2>1, <2>3
  <2> QED BY <2>2, <2>3
<1> QED BY <1>3, <1>4, <1>5, <1>6 DEF MemIInv, MemTypeOK, AcceptedKept, Kept

(* The block as cpr_makemem finds it. *)
LEMMA MemInitHolds == MemInit => MemIInv
BY MemioAssumption DEF MemInit, MemIInv, MemTypeOK, AcceptedKept

(* Each call keeps the invariant. *)
LEMMA MemNextHolds == MemIInv /\ [MemNext]_memVars => MemIInv'
<1> SUFFICES ASSUME MemIInv, [MemNext]_memVars PROVE MemIInv'
  OBVIOUS
<1>0. /\ BlockSize \in Nat /\ BlockSize > 0 /\ put \in Nat /\ get \in Nat /\ MemTypeOK
      /\ put <= BlockSize /\ get <= BlockSize /\ accepted \in Seq(Char) /\ AcceptedKept
      /\ Len(Delim) \in Nat /\ Len(Delim) >= 1
  <2>1. BlockSize \in Nat /\ BlockSize > 0 /\ Len(Delim) \in Nat /\ Len(Delim) >= 1
    BY MemioAssumption
  <2> QED BY <2>1 DEF MemIInv, MemTypeOK, AcceptedKept
<1>1. CASE ResetMem
  BY <1>0, <1>1 DEF ResetMem, MemIInv, MemTypeOK, AcceptedKept
<1>2. ASSUME NEW s \in Seq(Char), NEW n \in 0 .. Len(s), FitsMem(n), Accept(s, n),
             n = Len(s) \/ n = BlockSize
      PROVE  MemIInv'
  <2> DEFINE a == SubSeq(s, 1, n)
  <2>0. Len(s) \in Nat /\ n \in Nat /\ n <= Len(s)
    OBVIOUS
  <2>1. a \in Seq(Char) /\ Len(a) = n /\ \A i \in 1 .. n : a[i] = s[i]
    BY Prefix
  <2>3. put + n <= BlockSize /\ (n = Len(s) \/ put + n = BlockSize)
    BY <1>0, <1>2, <2>0 DEF FitsMem
  <2> HIDE DEF a
  <2>4. PutsText(a, n, s)
    BY <1>2 DEF Accept, PutsText, a
  <2>5. n <= Len(a) /\ \A i \in 1 .. n : s[i] = a[i]
    BY <2>0, <2>1
  <2> QED BY <2>0, <2>1, <2>3, <2>4, <2>5, PutKeeps
<1>3. ASSUME NEW s \in Pieces, XPutMem(s) \/ SPutMem(s) PROVE MemIInv'
  <2>1. s \in Seq(Char) /\ Len(s) \in Nat
    BY MemioAssumption
  <2>2. PICK n \in 0 .. Len(s) : FitsMem(n) /\ Accept(s, n) /\ (n = Len(s) \/ n = BlockSize)
    BY <1>0, <1>3, <2>1 DEF XPutMem, SPutMem, TextLength
  <2> QED BY <1>2, <2>1, <2>2
<1>4. ASSUME NEW s \in Pieces, NEW estimated \in 1 .. BlockSize, FmtMem(estimated, s) PROVE MemIInv'
  <2>1. s \in Seq(Char) /\ Len(s) \in Nat /\ estimated \in Nat /\ estimated >= 1
    BY <1>0, MemioAssumption
  <2> DEFINE n == IF Len(s) < estimated THEN Len(s) ELSE estimated - 1
             a == SubSeq(s, 1, n)
             whole == Append(a, ZERO)
  <2>2. n \in 0 .. Len(s)
    BY <2>1
  <2>3. a \in Seq(Char) /\ Len(a) = n
    BY <2>1, <2>2, Prefix
  <2>4. /\ put + estimated <= BlockSize /\ block' = Overlay(put, whole) /\ get' = get
        /\ \/ Len(s) < estimated /\ put' = put + Len(s) /\ accepted' = accepted \o s
           \/ Len(s) >= estimated /\ UNCHANGED <<put, accepted>>
    BY <1>4 DEF FmtMem
  <2>5. \A i \in 1 .. n : a[i] = s[i]
    BY <2>1, <2>2, Prefix
  <2>6. whole \in Seq(Char) /\ Len(whole) = n + 1 /\ \A i \in 1 .. n : whole[i] = a[i]
    BY <2>1, <2>2, <2>3, AppendProperties, ZeroByte
  <2>8. CASE Len(s) < estimated
    <3>1. n = Len(s) /\ n \in Nat /\ n <= Len(whole)
      BY <2>1, <2>6, <2>8
    <3>2. put + n <= BlockSize /\ put' = put + n /\ accepted' = accepted \o s
      BY <1>0, <2>1, <2>4, <2>8, <3>1
    <3>3. \A i \in 1 .. n : s[i] = whole[i]
      BY <2>5, <2>6
    <3> HIDE DEF n, whole, a
    <3>4. PutsText(whole, n, s)
      BY <2>4, <3>2 DEF PutsText
    <3> QED BY <2>1, <2>6, <3>1, <3>2, <3>3, <3>4, PutKeeps
  <2>9. CASE Len(s) >= estimated
    <3> HIDE DEF whole, n, a
    <3> DEFINE none == <<>>
    <3>1. none \in Seq(Char) /\ Len(none) = 0 /\ accepted \o none = accepted
      BY <1>0, ConcatEmptySeq
    <3> HIDE DEF none
    <3>2. put' = put + 0 /\ accepted' = accepted \o none
      BY <1>0, <2>1, <2>4, <2>9, <3>1
    <3>3. PutsText(whole, 0, none)
      BY <2>4, <3>2 DEF PutsText
    <3>4. put + 0 <= BlockSize /\ 0 \in Nat /\ 0 <= Len(whole) /\ 0 <= Len(none)
      BY <1>0, <2>6, <3>1
    <3>5. \A i \in 1 .. 0 : none[i] = whole[i]
      OBVIOUS
    <3> QED BY <2>6, <3>1, <3>3, <3>4, <3>5, PutKeeps
  <2> QED BY <2>1, <2>8, <2>9
<1>5. ASSUME NEW n \in 1 .. BlockSize, XGetMem(n) PROVE MemIInv'
  BY <1>0, <1>5 DEF XGetMem, MemIInv, MemTypeOK, AcceptedKept
<1>6. CASE LGetMem
  <2>1. PICK i \in get .. BlockSize - 1 :
           /\ DelimInside(i) /\ get' = i + Len(Delim)
           /\ block' \in {block, Overlay(i, <<ZERO>>)}
           /\ UNCHANGED <<put, accepted>>
    BY <1>6 DEF LGetMem
  <2>2. i \in Nat /\ i \in Place /\ i + Len(Delim) <= BlockSize /\ block[i] = Delim[1]
    <3>1. 1 \in DOMAIN Delim
      BY MemioAssumption
    <3>2. i + Len(Delim) <= BlockSize /\ block[i + 1 - 1] = Delim[1]
      BY <2>1, <3>1 DEF DelimInside
    <3>3. i + 1 - 1 = i /\ i \in Nat /\ i \in Place
      BY <1>0, <2>1 DEF Place
    <3> QED BY <3>2, <3>3
  <2>3. CASE block' = block
    BY <1>0, <2>1, <2>2, <2>3 DEF MemIInv, MemTypeOK, AcceptedKept
  <2>4. CASE block' = Overlay(i, <<ZERO>>)
    <3>1. <<ZERO>> \in Seq(Char) /\ Len(<<ZERO>>) = 1 /\ <<ZERO>>[1] = ZERO
      BY ZeroByte
    <3>2. /\ block' \in [Place -> Char]
          /\ \A k \in Place : k < i => block'[k] = block[k]
          /\ \A k \in Place : k >= i /\ k < i + 1 => block'[k] = <<ZERO>>[k - i + 1]
          /\ \A k \in Place : k >= i + 1 => block'[k] = block[k]
      <4> DEFINE z == <<ZERO>>
      <4>1. z \in Seq(Char) /\ Len(z) = 1
        BY <3>1
      <4> HIDE DEF z
      <4>2. block' = Overlay(i, z)
        BY <2>4 DEF z
      <4>3. /\ block' \in [Place -> Char]
            /\ \A k \in Place : k < i => block'[k] = block[k]
            /\ \A k \in Place : k >= i /\ k < i + Len(z) => block'[k] = z[k - i + 1]
            /\ \A k \in Place : k >= i + Len(z) => block'[k] = block[k]
        BY <1>0, <2>2, <4>1, <4>2, OverlayAt
      <4> QED BY <4>1, <4>3 DEF z
    <3>3. block'[i] = ZERO /\ \A k \in Place : k # i => block'[k] = block[k]
      <4>1. i - i + 1 = 1
        BY <2>2
      <4>2. block'[i] = ZERO
        BY <2>2, <3>1, <3>2, <4>1
      <4>3. \A k \in Place : k \in Nat
        BY DEF Place
      <4>4. ASSUME NEW k \in Place, k # i PROVE block'[k] = block[k]
        <5>1. k \in Nat /\ (k < i \/ k >= i + 1)
          BY <2>2, <4>3, <4>4
        <5> QED BY <3>2, <5>1
      <4> QED BY <4>2, <4>4
    <3>4. ASSUME NEW k \in 0 .. put - 1 PROVE Kept(block', accepted, k)
      <4>1. k \in Place /\ Kept(block, accepted, k)
        BY <1>0 DEF AcceptedKept, Kept, Place
      <4> QED BY <2>2, <3>3, <4>1 DEF Kept
    <3> QED BY <1>0, <2>1, <2>2, <3>2, <3>4 DEF MemIInv, MemTypeOK, AcceptedKept, Kept
  <2> QED BY <2>1, <2>3, <2>4
<1>7. CASE UNCHANGED memVars
  BY <1>7 DEF memVars, MemIInv, MemTypeOK, AcceptedKept
<1> QED BY <1>1, <1>3, <1>4, <1>5, <1>6, <1>7 DEF MemNext

(* Below put the block holds what was accepted, whatever the calls. *)
THEOREM MemSafety == MemSpec => [](MemTypeOK /\ AcceptedKept)
<1>1. MemSpec => []MemIInv
  BY MemInitHolds, MemNextHolds, PTL DEF MemSpec
<1>2. MemIInv => MemTypeOK /\ AcceptedKept
  BY DEF MemIInv
<1> QED BY <1>1, <1>2, PTL

-----------------------------------------------------------------------------
(****************************************************************************)
(* Multicast sockets: any number of sockets, interfaces and groups.         *)
(****************************************************************************)

(* What is kept of a socket. *)
Socket == [iface : Names, family : Family]

(* The global of multicast.c, the sockets and their memberships. *)
CastTypeOK == /\ if_multicast \in [Family -> Names \cup {ANY}]
              /\ socks \in Seq(Socket)
              /\ exited \in BOOLEAN
              /\ joined \subseteq [so : DOMAIN socks, group : Group, iface : Names \cup {ANY}]
              /\ \A w \in wanted : \E s \in DOMAIN socks, g \in Group : w = <<s, g>>

(* The group is of the family of the last socket. *)
Own(group) == group.family = socks[Len(socks)].family

(* Until the process ends the global is what the last make left in it. *)
GlobalIsLatest ==
    ~exited /\ Len(socks) > 0 =>
        if_multicast = Stored(socks[Len(socks)].iface, socks[Len(socks)].family)

(* The inductive invariant: a join asks for the interface in the global, so   *)
(* the global must still be the latest socket's.                              *)
CastIInv == CastTypeOK /\ GlobalIsLatest /\ LatestSocketRight

(* LatestSocketRight, membership by membership. *)
LatestPointwise ==
    LET last == Len(socks)
    IN  /\ \A j \in joined : j.so = last /\ Own(j.group) =>
              j.iface = socks[last].iface /\ <<last, j.group>> \in wanted
        /\ \A w \in wanted : w[1] = last /\ Own(w[2]) =>
              Membership(last, w[2], socks[last].iface) \in joined

(* The two forms say the same. *)
LEMMA LatestForms == CastTypeOK => (LatestSocketRight <=> LatestPointwise)
<1> SUFFICES ASSUME CastTypeOK PROVE LatestSocketRight <=> LatestPointwise
  OBVIOUS
<1> DEFINE last == Len(socks)
           iface == socks[last].iface
           J == {j \in joined : j.so = last /\ Own(j.group)}
           W == {w \in wanted : w[1] = last /\ Own(w[2])}
<1>0. LatestSocketRight <=> J = {Membership(last, w[2], iface) : w \in W}
  BY DEF LatestSocketRight, Own
<1>1. ASSUME NEW j \in joined
      PROVE  j.so = last /\ j.iface = iface => j = Membership(last, j.group, iface)
  BY DEF CastTypeOK, Membership
<1>2. ASSUME NEW w \in wanted PROVE w = <<w[1], w[2]>>
  BY DEF CastTypeOK
<1>3. ASSUME LatestSocketRight PROVE LatestPointwise
  <2>1. J = {Membership(last, w[2], iface) : w \in W}
    BY <1>0, <1>3
  <2>2. ASSUME NEW j \in joined, j.so = last, Own(j.group)
        PROVE  j.iface = iface /\ <<last, j.group>> \in wanted
    <3>1. PICK w \in W : j = Membership(last, w[2], iface)
      BY <2>1, <2>2
    <3>2. j.iface = iface /\ j.group = w[2] /\ w \in wanted /\ w[1] = last
      BY <3>1 DEF Membership
    <3> QED BY <1>2, <3>2
  <2>3. ASSUME NEW w \in wanted, w[1] = last, Own(w[2]) PROVE Membership(last, w[2], iface) \in joined
    <3>1. w \in W
      BY <2>3
    <3> QED BY <2>1, <3>1
  <2> QED BY <2>2, <2>3 DEF LatestPointwise
<1>4. ASSUME LatestPointwise PROVE LatestSocketRight
  <2>1. ASSUME NEW j \in J PROVE \E w \in W : j = Membership(last, w[2], iface)
    <3>0. j \in joined /\ j.so = last /\ Own(j.group)
      OBVIOUS
    <3>1. j.iface = iface /\ <<last, j.group>> \in wanted
      BY <1>4, <3>0 DEF LatestPointwise
    <3> DEFINE w == <<last, j.group>>
    <3>2. w[1] = last /\ w[2] = j.group
      OBVIOUS
    <3>3. w \in W
      BY <3>0, <3>1, <3>2
    <3> QED BY <1>1, <3>0, <3>1, <3>2, <3>3
  <2>2. ASSUME NEW w \in W PROVE Membership(last, w[2], iface) \in J
    <3>1. w \in wanted /\ w[1] = last /\ Own(w[2])
      OBVIOUS
    <3>2. Membership(last, w[2], iface) \in joined
      BY <1>4, <3>1 DEF LatestPointwise
    <3>3. Membership(last, w[2], iface).so = last /\ Membership(last, w[2], iface).group = w[2]
      BY DEF Membership
    <3> QED BY <3>1, <3>2, <3>3
  <2> HIDE DEF J, W
  <2>3. J = {Membership(last, w[2], iface) : w \in W}
    BY <2>1, <2>2
  <2> QED BY <1>0, <2>3
<1> QED BY <1>3, <1>4

(* Before the first make. *)
LEMMA CastInitHolds == CastInit => CastIInv
<1> SUFFICES ASSUME CastInit PROVE CastIInv
  OBVIOUS
<1>1. CastTypeOK
  <2>1. if_multicast \in [Family -> Names \cup {ANY}]
    BY DEF CastInit, Cleared
  <2>2. socks = <<>> /\ socks \in Seq(Socket) /\ joined = {} /\ wanted = {} /\ exited = FALSE
    BY DEF CastInit
  <2> QED BY <2>1, <2>2 DEF CastTypeOK
<1>2. LatestPointwise
  BY DEF CastInit, LatestPointwise
<1>3. GlobalIsLatest
  BY DEF CastInit, GlobalIsLatest
<1> QED BY <1>1, <1>2, <1>3, LatestForms DEF CastIInv

(* A socket is made. *)
LEMMA MakeHolds ==
    ASSUME CastIInv, NEW name \in Names, NEW f \in Family, make_multicast(name, f)
    PROVE  CastTypeOK' /\ GlobalIsLatest' /\ LatestPointwise'
<1> DEFINE so == [iface |-> name, family |-> f]
           n == Len(socks)
<1>1. /\ socks' = Append(socks, so) /\ so \in Socket /\ so.iface = name /\ so.family = f
      /\ UNCHANGED <<joined, wanted, exited>>
      /\ if_multicast' = Stored(name, f)
      /\ CastTypeOK /\ socks \in Seq(Socket)
  BY DEF make_multicast, CastIInv, CastTypeOK, Socket
<1> HIDE DEF so
<1>2. /\ n \in Nat /\ Len(socks') = n + 1 /\ DOMAIN socks = 1 .. n /\ DOMAIN socks' = 1 .. n + 1
      /\ socks' \in Seq(Socket)
      /\ \A i \in 1 .. n : socks'[i] = socks[i]
      /\ socks'[n + 1] = so
  BY <1>1
<1> HIDE DEF n
<1>3. if_multicast' \in [Family -> Names \cup {ANY}]
  BY <1>1 DEF Stored, Cleared
<1>4. CastTypeOK'
  <2>1. DOMAIN socks \subseteq DOMAIN socks'
    BY <1>2
  <2>2. joined' \subseteq [so : DOMAIN socks', group : Group, iface : Names \cup {ANY}]
    BY <1>1, <2>1 DEF CastTypeOK
  <2>3. \A w \in wanted' : \E s \in DOMAIN socks', g \in Group : w = <<s, g>>
    BY <1>1, <2>1 DEF CastTypeOK
  <2> QED BY <1>1, <1>2, <1>3, <2>2, <2>3 DEF CastTypeOK
<1>6. GlobalIsLatest'
  BY <1>1, <1>2 DEF GlobalIsLatest
<1>7. LatestPointwise'
  <2>1. \A j \in joined : j.so # n + 1
    BY <1>1, <1>2 DEF CastTypeOK
  <2>2. \A w \in wanted : w[1] # n + 1
    BY <1>1, <1>2 DEF CastTypeOK
  <2> QED BY <1>1, <1>2, <2>1, <2>2 DEF LatestPointwise
<1> QED BY <1>4, <1>6, <1>7

(* What join and drop ask for in its family, with the last socket, names its   *)
(* interface.                                                                  *)
LEMMA AskedOfLatest ==
    ASSUME CastIInv, ~exited, NEW so \in DOMAIN socks, NEW group \in Group, group.family \in Family
    PROVE  /\ Asked(so, group) \in [so : DOMAIN socks, group : Group, iface : Names \cup {ANY}]
           /\ Asked(so, group).so = so /\ Asked(so, group).group = group
           /\ so = Len(socks) /\ Own(group) => Asked(so, group).iface = socks[so].iface
<1>1. /\ if_multicast \in [Family -> Names \cup {ANY}] /\ socks \in Seq(Socket)
      /\ DOMAIN socks = 1 .. Len(socks) /\ Len(socks) \in Nat
  BY DEF CastIInv, CastTypeOK
<1>2. ASSUME so = Len(socks), Own(group) PROVE if_multicast[group.family] = socks[so].iface
  <2>1. if_multicast = Stored(socks[so].iface, socks[so].family)
    BY <1>1, <1>2 DEF CastIInv, GlobalIsLatest
  <2>2. group.family = socks[so].family
    BY <1>2 DEF Own
  <2> QED BY <2>1, <2>2 DEF Stored, Cleared
<1> QED BY <1>1, <1>2 DEF Asked, Membership

(* A group is joined. *)
LEMMA JoinHolds ==
    ASSUME CastIInv, NEW so, NEW group \in Group, join_multicast(so, group)
    PROVE  CastTypeOK' /\ GlobalIsLatest' /\ LatestPointwise'
<1> DEFINE new == Asked(so, group)
<1>1. /\ ~exited /\ so \in DOMAIN socks /\ group.family \in Family
      /\ joined' = joined \cup {new} /\ wanted' = wanted \cup {<<so, group>>}
      /\ UNCHANGED <<if_multicast, socks, exited>> /\ CastTypeOK
  BY DEF join_multicast, CastIInv
<1>2. /\ new \in [so : DOMAIN socks, group : Group, iface : Names \cup {ANY}]
      /\ new.so = so /\ new.group = group
      /\ so = Len(socks) /\ Own(group) => new.iface = socks[so].iface
  BY <1>1, AskedOfLatest
<1> HIDE DEF new
<1>3. CastTypeOK'
  BY <1>1, <1>2 DEF CastTypeOK
<1>4. GlobalIsLatest'
  BY <1>1 DEF CastIInv, GlobalIsLatest
<1>5. LatestPointwise'
  <2>1. LatestPointwise
    BY LatestForms DEF CastIInv
  <2>2. so = Len(socks) /\ Own(group) => new = Membership(so, group, socks[so].iface)
    BY <1>2 DEF Membership
  <2>3. \A g : Own(g)' <=> Own(g)
    BY <1>1 DEF Own
  <2>4. socks' = socks
    BY <1>1
  <2>5. ASSUME NEW j \in joined', j.so = Len(socks), Own(j.group)
        PROVE  j.iface = socks[Len(socks)].iface /\ <<Len(socks), j.group>> \in wanted'
    BY <1>1, <1>2, <2>1, <2>5 DEF LatestPointwise
  <2>6. ASSUME NEW w \in wanted', w[1] = Len(socks), Own(w[2])
        PROVE  Membership(Len(socks), w[2], socks[Len(socks)].iface) \in joined'
    <3>1. CASE w \in wanted
      BY <1>1, <2>1, <2>6, <3>1 DEF LatestPointwise
    <3>2. CASE w = <<so, group>>
      BY <1>1, <2>2, <2>6, <3>2
    <3> QED BY <1>1, <3>1, <3>2
  <2> QED BY <2>3, <2>4, <2>5, <2>6 DEF LatestPointwise
<1> QED BY <1>3, <1>4, <1>5

(* A group is dropped. *)
LEMMA DropHolds ==
    ASSUME CastIInv, NEW so, NEW group \in Group, drop_multicast(so, group)
    PROVE  CastTypeOK' /\ GlobalIsLatest' /\ LatestPointwise'
<1>1. /\ ~exited /\ so \in DOMAIN socks /\ group.family \in Family
      /\ wanted' = wanted \ {<<so, group>>}
      /\ UNCHANGED <<if_multicast, socks, exited>> /\ CastTypeOK
  BY DEF drop_multicast, CastIInv
<1>2. PICK old \in joined : old.so = so /\ old.group = group /\ joined' = joined \ {old}
  BY <1>1, AskedOfLatest DEF drop_multicast, Dropped
<1>3. CastTypeOK'
  BY <1>1, <1>2 DEF CastTypeOK
<1>4. GlobalIsLatest'
  BY <1>1 DEF CastIInv, GlobalIsLatest
<1>5. LatestPointwise'
  <2>1. LatestPointwise
    BY LatestForms DEF CastIInv
  <2>2. ASSUME NEW j \in joined', j.so = Len(socks), Own(j.group)
        PROVE  j.iface = socks[Len(socks)].iface /\ <<Len(socks), j.group>> \in wanted'
    <3>1. j \in joined /\ j # old
      BY <1>2
    <3>2. j.iface = socks[Len(socks)].iface /\ <<Len(socks), j.group>> \in wanted
      BY <2>1, <2>2, <3>1 DEF LatestPointwise
    <3>3. <<Len(socks), j.group>> # <<so, group>>
      <4> SUFFICES ASSUME so = Len(socks), j.group = group PROVE FALSE
        OBVIOUS
      <4>1. old.iface = j.iface
        BY <1>2, <2>1, <2>2, <3>2 DEF LatestPointwise
      <4> QED BY <1>1, <1>2, <2>2, <3>1, <4>1 DEF CastTypeOK
    <3> QED BY <1>1, <3>2, <3>3
  <2>3. ASSUME NEW w \in wanted', w[1] = Len(socks), Own(w[2])
        PROVE  Membership(Len(socks), w[2], socks[Len(socks)].iface) \in joined'
    <3>1. w \in wanted /\ w # <<so, group>> /\ w = <<w[1], w[2]>>
      BY <1>1 DEF CastTypeOK
    <3>2. Membership(Len(socks), w[2], socks[Len(socks)].iface) \in joined
      BY <2>1, <2>3, <3>1 DEF LatestPointwise
    <3>3. Membership(Len(socks), w[2], socks[Len(socks)].iface) # old
      BY <1>2, <2>3, <3>1 DEF Membership
    <3> QED BY <1>2, <3>2, <3>3
  <2>4. socks' = socks /\ \A g : Own(g)' <=> Own(g)
    BY <1>1 DEF Own
  <2> QED BY <2>2, <2>3, <2>4 DEF LatestPointwise
<1> QED BY <1>3, <1>4, <1>5

(* Each step keeps the invariant. *)
LEMMA CastNextHolds == CastIInv /\ [CastNext]_castVars => CastIInv'
<1> SUFFICES ASSUME CastIInv, [CastNext]_castVars PROVE CastIInv'
  OBVIOUS
<1>0. ASSUME CastTypeOK' /\ GlobalIsLatest' /\ LatestPointwise' PROVE CastIInv'
  <2>1. (CastTypeOK => (LatestSocketRight <=> LatestPointwise))'
    BY LatestForms, PTL
  <2> QED BY <1>0, <2>1 DEF CastIInv
<1>1. ASSUME NEW name \in Names, NEW f \in Family, make_multicast(name, f) PROVE CastIInv'
  BY <1>0, <1>1, MakeHolds
<1>2. ASSUME NEW name \in Names, NEW f \in Family, MakeExits(name, f) PROVE CastIInv'
  BY <1>2 DEF MakeExits, Stored, Cleared, CastIInv, CastTypeOK, GlobalIsLatest, LatestSocketRight
<1>3. ASSUME NEW so, NEW group \in Group, join_multicast(so, group) PROVE CastIInv'
  BY <1>0, <1>3, JoinHolds
<1>4. ASSUME NEW so, NEW group \in Group, drop_multicast(so, group) PROVE CastIInv'
  BY <1>0, <1>4, DropHolds
<1>5. CASE UNCHANGED castVars
  BY <1>5 DEF castVars, CastIInv, CastTypeOK, GlobalIsLatest, LatestSocketRight
<1> QED BY <1>1, <1>2, <1>3, <1>4, <1>5 DEF CastNext

(* In its family the socket made last is in its groups on its own interface. *)
THEOREM CastSafety == CastSpec => [](CastTypeOK /\ LatestSocketRight)
<1>1. CastSpec => []CastIInv
  BY CastInitHolds, CastNextHolds, PTL DEF CastSpec
<1>2. CastIInv => CastTypeOK /\ LatestSocketRight
  BY DEF CastIInv
<1> QED BY <1>1, <1>2, PTL

-----------------------------------------------------------------------------
(****************************************************************************)
(* Deadlines: any clock readings and spans.                                 *)
(****************************************************************************)

(* A timespec as the clocks give it, and as nanoseconds. *)
Timespec == [sec : Int, nsec : Fraction]
Nanos(t) == t.sec * SECOND + t.nsec

(* While cpr_realtime is between its two clocks, what it read is past. *)
ReadIsPast == stage = "read" => Nanos(real) <= Nanos(now) + Offset * SECOND

(* The clock, the deadline and what was asked for. *)
TimeTypeOK == /\ now \in Timespec /\ deadline \in Timespec /\ real \in Timespec
              /\ asked \in [start : Timespec, ms : Int]
              /\ stage \in {"idle", "read", "true", "false"}
              /\ steps \in Nat

(* The deadline is the span behind its start, to the nanosecond, and what     *)
(* cpr_realtime called expired had not been reached when it looked.           *)
DeadlineAsked == Nanos(deadline) = Nanos(asked.start) + asked.ms * MILLI
RealNotLate   == stage = "true" => Nanos(real) <= Nanos(deadline) + Offset * SECOND

(* The inductive invariant, in nanoseconds. *)
TimeIInv == TimeTypeOK /\ DeadlineAsked /\ ReadIsPast /\ RealNotLate

(* Two timespecs are in the order of their nanoseconds. *)
LEMMA OrderIsNanos ==
    ASSUME NEW a \in Timespec, NEW b \in Timespec
    PROVE  NotAfter(a, b) <=> Nanos(a) <= Nanos(b)
<1>1. /\ a.sec \in Int /\ a.nsec \in Int /\ a.nsec >= 0 /\ a.nsec < SECOND
      /\ b.sec \in Int /\ b.nsec \in Int /\ b.nsec >= 0 /\ b.nsec < SECOND
  BY DEF Timespec, Fraction
<1> QED BY SMT, <1>1 DEF NotAfter, Millis, Rest, Nanos, SECOND, MILLI

(* Division as C rounds it leaves a remainder smaller than the divisor. *)
LEMMA CDivision ==
    ASSUME NEW ms \in Int
    PROVE  /\ CDiv(ms, 1000) \in Int /\ CMod(ms, 1000) \in Int
           /\ ms = 1000 * CDiv(ms, 1000) + CMod(ms, 1000)
           /\ -1000 < CMod(ms, 1000) /\ CMod(ms, 1000) < 1000
BY DEF CDiv, CMod

(* cpr_adjust is exact, whatever it carries or borrows. *)
LEMMA AdjustExact ==
    ASSUME NEW t \in Timespec, NEW ms \in Int
    PROVE  /\ cpr_adjust(t, ms) \in Timespec
           /\ Nanos(cpr_adjust(t, ms)) = Nanos(t) + ms * MILLI
<1> DEFINE q == CDiv(ms, 1000)
           r == CMod(ms, 1000)
           sec == t.sec + q
           nsec == t.nsec + r * MILLI
<1>1. q \in Int /\ r \in Int /\ ms = 1000 * q + r /\ -1000 < r /\ r < 1000
  BY CDivision
<1>2. t.sec \in Int /\ t.nsec \in Int /\ t.nsec >= 0 /\ t.nsec < SECOND
  BY DEF Timespec, Fraction
<1>3. cpr_adjust(t, ms) = IF nsec >= SECOND THEN Time(sec + 1, nsec - SECOND)
                          ELSE IF nsec < 0 THEN Time(sec - 1, nsec + SECOND)
                          ELSE Time(sec, nsec)
  BY DEF cpr_adjust
<1> HIDE DEF q, r
<1>4. CASE nsec >= SECOND
  BY SMT, <1>1, <1>2, <1>3, <1>4 DEF Timespec, Fraction, Time, Nanos, SECOND, MILLI
<1>5. CASE nsec < 0
  BY SMT, <1>1, <1>2, <1>3, <1>5 DEF Timespec, Fraction, Time, Nanos, SECOND, MILLI
<1>6. CASE ~(nsec >= SECOND) /\ ~(nsec < 0)
  BY SMT, <1>1, <1>2, <1>3, <1>6 DEF Timespec, Fraction, Time, Nanos, SECOND, MILLI
<1> QED BY <1>4, <1>5, <1>6

(* cpr_expires: the whole milliseconds that are left. *)
LEMMA ExpiresExact ==
    ASSUME deadline \in Timespec, NEW t \in Timespec
    PROVE  /\ cpr_expires(t) \in Nat
           /\ cpr_expires(t) > 0 => Nanos(t) + cpr_expires(t) * MILLI <= Nanos(deadline)
           /\ Nanos(t) + (cpr_expires(t) + 1) * MILLI > Nanos(deadline)
<1> DEFINE borrow == deadline.nsec < t.nsec
           sec    == deadline.sec - t.sec - (IF borrow THEN 1 ELSE 0)
           nsec   == deadline.nsec - t.nsec + (IF borrow THEN SECOND ELSE 0)
<1>1. /\ t.sec \in Int /\ t.nsec \in Int /\ t.nsec >= 0 /\ t.nsec < SECOND
      /\ deadline.sec \in Int /\ deadline.nsec \in Int
      /\ deadline.nsec >= 0 /\ deadline.nsec < SECOND
  BY DEF Timespec, Fraction
<1>2. /\ sec \in Int /\ nsec \in Int /\ nsec >= 0 /\ nsec < SECOND
      /\ Nanos(deadline) - Nanos(t) = sec * SECOND + nsec
      /\ Nanos(t) \in Int /\ Nanos(deadline) \in Int
  <2>1. CASE borrow
    BY SMT, <1>1, <2>1 DEF SECOND, MILLI, Nanos
  <2>2. CASE ~borrow
    BY SMT, <1>1, <2>2 DEF SECOND, MILLI, Nanos
  <2> QED BY <2>1, <2>2
<1>3. cpr_expires(t) = IF sec < 0 \/ (sec = 0 /\ nsec <= 0) THEN 0
                       ELSE sec * 1000 + nsec \div MILLI
  BY DEF cpr_expires
<1> HIDE DEF sec, nsec
<1> QED BY SMT, <1>2, <1>3 DEF SECOND, MILLI

(* Times that are whole milliseconds apart have the same rest. *)
LEMMA SameRest ==
    ASSUME NEW s \in Int, NEW n \in Int, NEW t \in Int, NEW x \in Int, NEW k \in Int,
           s * SECOND + n = t * SECOND + x + k * MILLI
    PROVE  /\ s * 1000 + n \div MILLI = t * 1000 + x \div MILLI + k
           /\ n % MILLI = x % MILLI
BY SMT DEF SECOND, MILLI

(* What the nanoseconds say is what the run checks. *)
LEMMA KeptFollows == TimeIInv => DeadlineKept
<1> SUFFICES ASSUME TimeIInv PROVE DeadlineKept
  OBVIOUS
<1>1. /\ now \in Timespec /\ deadline \in Timespec /\ real \in Timespec
      /\ asked.start \in Timespec /\ asked.ms \in Int /\ Offset \in Int
      /\ Nanos(deadline) = Nanos(asked.start) + asked.ms * MILLI
  BY TimeAssumption DEF TimeIInv, TimeTypeOK, DeadlineAsked
<1>2. deadline.nsec \in 0 .. SECOND - 1
  <2>1. SECOND \in Nat
    BY SMT DEF SECOND, MILLI
  <2> QED BY <1>1, <2>1 DEF Timespec, Fraction
<1>3. Millis(deadline) = Millis(asked.start) + asked.ms /\ Rest(deadline) = Rest(asked.start)
  <2>1. /\ asked.start.sec \in Int /\ asked.start.nsec \in Int
        /\ deadline.sec \in Int /\ deadline.nsec \in Int
    BY <1>1 DEF Timespec, Fraction
  <2>2. deadline.sec * SECOND + deadline.nsec
          = asked.start.sec * SECOND + asked.start.nsec + asked.ms * MILLI
    BY <1>1 DEF Nanos
  <2>3. asked.ms \in Int
    BY <1>1
  <2> QED BY <2>1, <2>2, <2>3, SameRest DEF Millis, Rest
<1>4. ASSUME NEW left, left = cpr_expires(now)
      PROVE  /\ left > 0 => NotAfter(cpr_adjust(now, left), deadline)
             /\ ~NotAfter(cpr_adjust(now, left + 1), deadline)
  <2>1. left \in Nat /\ left + 1 \in Int
    BY <1>1, <1>4, ExpiresExact
  <2>2. /\ cpr_adjust(now, left) \in Timespec /\ cpr_adjust(now, left + 1) \in Timespec
        /\ Nanos(cpr_adjust(now, left)) = Nanos(now) + left * MILLI
        /\ Nanos(cpr_adjust(now, left + 1)) = Nanos(now) + (left + 1) * MILLI
    BY <1>1, <2>1, AdjustExact
  <2>3. /\ left > 0 => Nanos(now) + left * MILLI <= Nanos(deadline)
        /\ Nanos(now) + (left + 1) * MILLI > Nanos(deadline)
    BY <1>1, <1>4, ExpiresExact
  <2>4. Nanos(now) \in Int /\ Nanos(deadline) \in Int
    BY SMT, <1>1 DEF Nanos, Timespec, Fraction, SECOND, MILLI
  <2>5. ~(Nanos(now) + (left + 1) * MILLI <= Nanos(deadline))
    BY SMT, <2>1, <2>3, <2>4 DEF MILLI
  <2> QED BY <1>1, <2>2, <2>3, <2>5, OrderIsNanos
<1>5. ASSUME stage = "true" PROVE NotAfter(real, Time(deadline.sec + Offset, deadline.nsec))
  <2> DEFINE d == Time(deadline.sec + Offset, deadline.nsec)
  <2>1. deadline.sec \in Int /\ deadline.nsec \in Fraction
    BY <1>1 DEF Timespec
  <2>2. d \in Timespec /\ d.sec = deadline.sec + Offset /\ d.nsec = deadline.nsec
    BY <1>1, <2>1 DEF Timespec, Fraction, Time
  <2>3. Nanos(d) = Nanos(deadline) + Offset * SECOND
    BY SMT, <1>1, <2>1, <2>2 DEF Fraction, Nanos, SECOND, MILLI
  <2>4. Nanos(real) <= Nanos(d)
    BY <1>5, <2>3 DEF TimeIInv, RealNotLate
  <2> HIDE DEF d
  <2>5. NotAfter(real, d)
    BY <1>1, <2>2, <2>4, OrderIsNanos
  <2> QED BY <2>5 DEF d
<1>6. LET left == cpr_expires(now)
      IN  /\ left > 0 => NotAfter(cpr_adjust(now, left), deadline)
          /\ ~NotAfter(cpr_adjust(now, left + 1), deadline)
  BY <1>4
<1> QED BY <1>2, <1>3, <1>5, <1>6 DEF DeadlineKept

(* The first deadline is the clock itself. *)
LEMMA TimeInitHolds == TimeInit => TimeIInv
<1> SUFFICES ASSUME TimeInit PROVE TimeIInv
  OBVIOUS
<1>1. now \in Timespec
  BY TimeAssumption DEF TimeInit, Timespec
<1>2. Nanos(now) \in Int
  BY SMT, <1>1 DEF Nanos, Timespec, Fraction, SECOND, MILLI
<1> QED BY SMT, <1>1, <1>2 DEF TimeInit, TimeIInv, TimeTypeOK, DeadlineAsked, ReadIsPast, RealNotLate, MILLI

(* A step of the clock, of a caller or of cpr_realtime keeps it. *)
LEMMA TimeNextHolds == TimeIInv /\ [TimeNext]_timeVars => TimeIInv'
<1> SUFFICES ASSUME TimeIInv, [TimeNext]_timeVars PROVE TimeIInv'
  OBVIOUS
<1>0. /\ now \in Timespec /\ deadline \in Timespec /\ real \in Timespec
      /\ asked \in [start : Timespec, ms : Int] /\ asked.start \in Timespec /\ asked.ms \in Int
      /\ stage \in {"idle", "read", "true", "false"} /\ steps \in Nat
      /\ DeadlineAsked /\ ReadIsPast /\ RealNotLate
      /\ Offset \in Int /\ Spans \subseteq Int
  BY TimeAssumption DEF TimeIInv, TimeTypeOK
<1>01. \A t \in Timespec : Nanos(t) \in Int
  BY SMT DEF Nanos, Timespec, Fraction, SECOND, MILLI
<1>1. ASSUME NEW d \in Passes, Pass(d) PROVE TimeIInv'
  <2> DEFINE t == cpr_adjust(now, d.ms)
             n == t.nsec + d.ns
  <2>1. d.ms \in Nat /\ d.ns \in Int /\ d.ns >= 0 /\ d.ns < SECOND
    BY TimeAssumption DEF Fraction
  <2>2. t \in Timespec /\ Nanos(t) = Nanos(now) + d.ms * MILLI
    BY <1>0, <2>1, AdjustExact
  <2>3. t.sec \in Int /\ t.nsec \in Int /\ t.nsec >= 0 /\ t.nsec < SECOND
    BY <2>2 DEF Timespec, Fraction
  <2>4. now' = IF n >= SECOND THEN Time(t.sec + 1, n - SECOND) ELSE Time(t.sec, n)
    BY <1>1 DEF Pass
  <2>5. UNCHANGED <<deadline, asked, real, stage>> /\ steps' \in Nat
    BY <1>0, <1>1 DEF Pass, Counted
  <2> HIDE DEF t
  <2>6. now' \in Timespec /\ Nanos(now') >= Nanos(t)
    BY SMT, <2>1, <2>3, <2>4 DEF Timespec, Fraction, Time, Nanos, SECOND, MILLI
  <2>7. Nanos(now') >= Nanos(now)
    BY SMT, <1>0, <1>01, <2>1, <2>2, <2>6 DEF MILLI
  <2>8. ReadIsPast'
    BY SMT, <1>0, <1>01, <2>5, <2>6, <2>7 DEF ReadIsPast, SECOND, MILLI
  <2> QED BY <1>0, <2>5, <2>6, <2>8 DEF TimeIInv, TimeTypeOK, DeadlineAsked, RealNotLate
<1>2. ASSUME NEW ms \in Spans, SetDeadline(ms) PROVE TimeIInv'
  <2>1. /\ deadline' = cpr_adjust(now, ms) /\ asked' = [start |-> now, ms |-> ms]
        /\ stage' = "idle" /\ now' = now /\ real' = real /\ steps' \in Nat
    BY <1>0, <1>2 DEF SetDeadline, Counted
  <2>2. deadline' \in Timespec /\ Nanos(deadline') = Nanos(now) + ms * MILLI /\ ms \in Int
    BY <1>0, <2>1, AdjustExact
  <2> QED BY <1>0, <2>1, <2>2 DEF TimeIInv, TimeTypeOK, DeadlineAsked, ReadIsPast, RealNotLate
<1>3. ASSUME NEW ms \in Spans, MoveDeadline(ms) PROVE TimeIInv'
  <2>1. /\ deadline' = cpr_adjust(deadline, ms) /\ asked' = [asked EXCEPT !.ms = asked.ms + ms]
        /\ stage' = "idle" /\ now' = now /\ real' = real /\ steps' \in Nat
    BY <1>0, <1>3 DEF MoveDeadline, Counted
  <2>2. deadline' \in Timespec /\ Nanos(deadline') = Nanos(deadline) + ms * MILLI /\ ms \in Int
    BY <1>0, <2>1, AdjustExact
  <2>3. /\ asked' \in [start : Timespec, ms : Int]
        /\ asked'.start = asked.start /\ asked'.ms = asked.ms + ms
    BY <1>0, <2>1, <2>2
  <2>4. Nanos(deadline') = Nanos(asked'.start) + asked'.ms * MILLI
    BY SMT, <1>0, <1>01, <2>2, <2>3 DEF DeadlineAsked, MILLI
  <2> QED BY <1>0, <2>1, <2>2, <2>3, <2>4 DEF TimeIInv, TimeTypeOK, DeadlineAsked, ReadIsPast, RealNotLate
<1>4. CASE RealtimeRead
  <2>1. /\ real' = Time(now.sec + Offset, now.nsec) /\ stage' = "read"
        /\ UNCHANGED <<now, deadline, asked, steps>>
    BY <1>4 DEF RealtimeRead
  <2>2. now.sec \in Int /\ now.nsec \in Fraction
    BY <1>0 DEF Timespec
  <2>3. real' \in Timespec /\ Nanos(real') = Nanos(now) + Offset * SECOND
    BY SMT, <1>0, <2>1, <2>2 DEF Timespec, Fraction, Time, Nanos, SECOND, MILLI
  <2>4. ReadIsPast'
    BY SMT, <1>0, <1>01, <2>1, <2>3 DEF ReadIsPast, SECOND, MILLI
  <2> QED BY <1>0, <2>1, <2>3, <2>4 DEF TimeIInv, TimeTypeOK, DeadlineAsked, RealNotLate
<1>5. CASE RealtimeAdd
  <2> DEFINE left == cpr_expires(now)
  <2>1. /\ stage = "read" /\ real' = cpr_adjust(real, left)
        /\ stage' = IF left = 0 THEN "false" ELSE "true"
        /\ UNCHANGED <<now, deadline, asked, steps>>
    BY <1>5 DEF RealtimeAdd
  <2>2. left \in Nat /\ (left > 0 => Nanos(now) + left * MILLI <= Nanos(deadline))
    BY <1>0, ExpiresExact
  <2> HIDE DEF left
  <2>3. real' \in Timespec /\ Nanos(real') = Nanos(real) + left * MILLI
    BY <1>0, <2>1, <2>2, AdjustExact
  <2>4. stage' = "true" => left > 0
    BY <2>1, <2>2
  <2>5. Nanos(real) <= Nanos(now) + Offset * SECOND
    BY <1>0, <2>1 DEF ReadIsPast
  <2>6. left > 0 => Nanos(real') <= Nanos(deadline) + Offset * SECOND
    BY SMT, <1>0, <1>01, <2>2, <2>3, <2>5 DEF SECOND, MILLI
  <2>7. RealNotLate'
    BY <2>1, <2>4, <2>6 DEF RealNotLate
  <2>8. stage' \in {"true", "false"}
    BY <2>1
  <2> QED BY <1>0, <2>1, <2>3, <2>7, <2>8 DEF TimeIInv, TimeTypeOK, DeadlineAsked, ReadIsPast
<1>6. CASE UNCHANGED timeVars
  BY <1>0, <1>6 DEF timeVars, TimeIInv, TimeTypeOK, DeadlineAsked, ReadIsPast, RealNotLate
<1> QED BY <1>1, <1>2, <1>3, <1>4, <1>5, <1>6 DEF TimeNext

(* A deadline is the span asked for, cpr_expires gives the whole milliseconds  *)
(* that are left of it: not one too many, and not one too few, also where it   *)
(* gives 0; and cpr_realtime is never late, whatever the clocks' readings and  *)
(* the spans.                                                                  *)
THEOREM TimeSafety == TimeSpec => [](TimeTypeOK /\ DeadlineKept)
<1>1. TimeSpec => []TimeIInv
  BY TimeInitHolds, TimeNextHolds, PTL DEF TimeSpec
<1>2. TimeIInv => TimeTypeOK /\ DeadlineKept
  BY KeptFollows DEF TimeIInv
<1> QED BY <1>1, <1>2, PTL

-----------------------------------------------------------------------------
(****************************************************************************)
(* Bitsets: any size and masks.                                             *)
(****************************************************************************)

(* The bytes of a bitset of any size, and the set it should be. *)
BitTypeOK == /\ bitsize \in Nat
             /\ bits \in [Bytes -> SUBSET Byte]
             /\ members \in SUBSET Room

(* A bit is one where its offset is a member, padding included. *)
BitsAreMembers == \A b \in Bytes, i \in Byte : i \in bits[b] <=> 8 * b + i \in members

(* The inductive invariant; the padding bits of the last byte are in it too.  *)
BitIInv == BitTypeOK /\ BitsAreMembers

(* An offset is its byte and its bit. *)
LEMMA ByteAndBit ==
    /\ \A o \in Nat : /\ o \div 8 \in Nat /\ o % 8 \in Byte
                      /\ o = 8 * (o \div 8) + (o % 8)
    /\ \A b \in Nat, i \in Byte : /\ (8 * b + i) \div 8 = b /\ (8 * b + i) % 8 = i
                                  /\ 8 * b + i \in Nat
BY DEF Byte

(* The array has a byte for every offset below bitsize. *)
LEMMA BytesCover ==
    ASSUME bitsize \in Nat
    PROVE  /\ Bytes \subseteq Nat
           /\ \A o \in 0 .. bitsize - 1 : o \div 8 \in Bytes
           /\ \A o \in Room : o \in Nat /\ o \div 8 \in Bytes
BY BitAssumption DEF Bytes, cpr_bitsize, Room

(* The least member is the only number with its two properties. *)
LEMMA LeastIs ==
    ASSUME bitsize \in Nat, NEW s, NEW n \in 0 .. bitsize,
           n \in s \/ n = bitsize, \A k \in 0 .. n - 1 : k \notin s
    PROVE  Least(s) = n
<1> DEFINE P(q) == /\ q \in s \/ q = bitsize
                   /\ \A k \in 0 .. q - 1 : k \notin s
<1>1. P(n)
  OBVIOUS
<1>2. Least(s) = CHOOSE q \in 0 .. bitsize : P(q)
  BY DEF Least
<1>3. ASSUME NEW q \in 0 .. bitsize, P(q) PROVE q = n
  <2>1. q \in Int /\ n \in Int /\ q <= bitsize /\ n <= bitsize /\ q >= 0 /\ n >= 0
    OBVIOUS
  <2>2. ~(q < n)
    <3>1. q < n => q \in 0 .. n - 1 /\ q # bitsize
      BY <2>1
    <3> QED BY <1>3, <3>1
  <2>3. ~(n < q)
    <3>1. n < q => n \in 0 .. q - 1 /\ n # bitsize
      BY <2>1
    <3> QED BY <1>3, <3>1
  <2> QED BY <2>1, <2>2, <2>3
<1> HIDE DEF P
<1>4. \A q \in 0 .. bitsize : P(q) => q = n
  BY <1>3
<1> QED BY <1>1, <1>2, <1>4

(* The loop of cpr_lowestset and cpr_lowestclr finds the least offset below  *)
(* bitsize whose bit is a candidate, whatever the candidates in the padding. *)
LEMMA ScanIsLeast ==
    ASSUME bitsize \in Nat, NEW c \in [Bytes -> SUBSET Byte], NEW s,
           \A b \in Bytes, i \in Byte : 8 * b + i < bitsize => (i \in c[b] <=> 8 * b + i \in s)
    PROVE  Scan(c) = Least(s)
<1> DEFINE hit   == {b \in Bytes : c[b] # {}}
           first == CHOOSE b \in hit : \A d \in hit : b <= d
           bit   == CHOOSE i \in c[first] : \A j \in c[first] : i <= j
           n     == 8 * first + bit
<1>1. Scan(c) = IF hit = {} \/ n >= bitsize THEN bitsize ELSE n
  BY DEF Scan
<1>2. ASSUME NEW k \in 0 .. bitsize - 1
      PROVE  /\ k \div 8 \in Bytes /\ k % 8 \in Byte /\ k = 8 * (k \div 8) + (k % 8)
             /\ k \in s <=> k % 8 \in c[k \div 8]
  <2>1. k \in Nat /\ k < bitsize
    OBVIOUS
  <2>2. k \div 8 \in Bytes /\ k % 8 \in Byte /\ k = 8 * (k \div 8) + (k % 8)
    BY <2>1, ByteAndBit, BytesCover
  <2> QED BY <2>1, <2>2
<1>3. CASE hit = {}
  <2>1. \A k \in 0 .. bitsize - 1 : k \notin s
    BY <1>2, <1>3
  <2>2. bitsize \in 0 .. bitsize
    OBVIOUS
  <2> HIDE DEF hit
  <2> QED BY <1>1, <1>3, <2>1, <2>2, LeastIs
<1>4. CASE hit # {}
  <2>1. hit \in SUBSET Nat
    BY BytesCover
  <2>2. first \in hit /\ \A d \in hit : first <= d
    <3>1. \E b \in hit : \A d \in hit : b <= d
      BY <1>4, <2>1, LeastNatural
    <3> HIDE DEF hit
    <3> QED BY <3>1
  <2>3. first \in Bytes /\ first \in Nat /\ c[first] # {} /\ c[first] \in SUBSET Byte
    BY <2>1, <2>2
  <2>4. \A d \in Bytes : d < first => c[d] = {}
    <3>1. \A d \in Bytes : d \in Nat
      BY BytesCover
    <3>2. ASSUME NEW d \in Bytes, d < first, c[d] # {} PROVE FALSE
      <4>1. d \in hit
        BY <3>2
      <4>2. first <= d
        BY <2>2, <4>1
      <4> QED BY <2>3, <3>1, <3>2, <4>2
    <3> QED BY <3>2
  <2> HIDE DEF first
  <2>5. bit \in c[first] /\ \A j \in c[first] : bit <= j
    <3>1. c[first] \in SUBSET Nat
      BY <2>3 DEF Byte
    <3>2. \E i \in c[first] : \A j \in c[first] : i <= j
      BY <2>3, <3>1, LeastNatural
    <3> QED BY <3>2
  <2> HIDE DEF bit
  <2>6. bit \in Byte /\ bit \in Nat /\ n \in Nat
    BY <2>3, <2>5 DEF Byte
  <2>7. ASSUME NEW k \in 0 .. bitsize - 1, k < n PROVE k \notin s
    <3>1. k \div 8 \in Bytes /\ k % 8 \in Byte /\ k = 8 * (k \div 8) + (k % 8)
          /\ (k \in s <=> k % 8 \in c[k \div 8])
      BY <1>2
    <3>2. k \div 8 \in Nat /\ k % 8 \in 0 .. 7
      BY <3>1, BytesCover DEF Byte
    <3>3. bit \in 0 .. 7
      BY <2>6 DEF Byte
    <3>4. k \div 8 < first \/ (k \div 8 = first /\ k % 8 < bit)
      BY <2>3, <2>6, <2>7, <3>1, <3>2, <3>3
    <3>5. CASE k \div 8 < first
      BY <2>4, <3>1, <3>5
    <3>6. CASE k \div 8 = first /\ k % 8 < bit
      <4>1. ~(bit <= k % 8)
        BY <2>6, <3>2, <3>6
      <4> QED BY <2>5, <3>1, <3>6, <4>1
    <3> QED BY <3>4, <3>5, <3>6
  <2>8. CASE n >= bitsize
    <3>1. \A k \in 0 .. bitsize - 1 : k \notin s
      BY <2>6, <2>7, <2>8
    <3>2. bitsize \in 0 .. bitsize /\ Scan(c) = bitsize
      BY <1>1, <2>8
    <3> QED BY <3>1, <3>2, LeastIs
  <2>9. CASE ~(n >= bitsize)
    <3>1. n \in 0 .. bitsize /\ n < bitsize
      BY <2>6, <2>9
    <3>2. \A k \in 0 .. n - 1 : k \notin s
      <4>1. \A k \in 0 .. n - 1 : k \in 0 .. bitsize - 1 /\ k < n
        BY <2>6, <3>1
      <4> QED BY <2>7, <4>1
    <3>3. n \in s
      BY <2>3, <2>5, <2>6, <3>1
    <3>4. Scan(c) = n
      BY <1>1, <1>4, <2>9
    <3> HIDE DEF n
    <3> QED BY <3>1, <3>2, <3>3, <3>4, LeastIs
  <2> QED BY <2>8, <2>9
<1> QED BY <1>3, <1>4

(* cpr_bitcount counts the members. *)
LEMMA CountIsCardinality ==
    ASSUME BitIInv
    PROVE  IsFiniteSet(members) /\ cpr_bitcount = Cardinality(members)
<1> DEFINE ones == UNION {{b} \X bits[b] : b \in Bytes}
           f == [o \in members |-> <<o \div 8, o % 8>>]
<1>1. /\ bitsize \in Nat /\ bits \in [Bytes -> SUBSET Byte] /\ members \in SUBSET Room
      /\ Bytes \subseteq Nat
      /\ \A o \in members : o \in Nat /\ o \div 8 \in Bytes
  BY BytesCover DEF BitIInv, BitTypeOK
<1>2. \A b, i : <<b, i>> \in ones <=> b \in Bytes /\ i \in bits[b]
  OBVIOUS
<1>3. ASSUME NEW x \in ones PROVE \E b \in Bytes : \E i \in bits[b] : x = <<b, i>>
  <2>1. PICK b \in Bytes : x \in {b} \X bits[b]
    OBVIOUS
  <2> QED BY <2>1
<1> HIDE DEF ones
<1>4. IsFiniteSet(members)
  <2> DEFINE q == 8 * cpr_bitsize(bitsize)
  <2>1. q \in Nat /\ \A o \in members : o <= q
    BY <1>1, ByteAndBit DEF Bytes, cpr_bitsize, Byte
  <2>2. members \in SUBSET Nat
    BY <1>1
  <2> HIDE DEF q
  <2> QED BY <2>1, <2>2, FS_BoundedSetOfNaturals
<1>5. \A o \in members : <<o \div 8, o % 8>> \in ones
  <2>1. ASSUME NEW o \in members PROVE o \div 8 \in Bytes /\ o % 8 \in bits[o \div 8]
    <3>1. o \div 8 \in Bytes /\ o % 8 \in Byte /\ o = 8 * (o \div 8) + (o % 8)
      BY <1>1, ByteAndBit
    <3>2. 8 * (o \div 8) + (o % 8) \in members
      BY <3>1
    <3> QED BY <3>1, <3>2 DEF BitIInv, BitsAreMembers
  <2> QED BY <1>2, <2>1
<1>6. \A o, p \in members : o # p => <<o \div 8, o % 8>> # <<p \div 8, p % 8>>
  <2>1. ASSUME NEW o \in members, NEW p \in members, o \div 8 = p \div 8, o % 8 = p % 8 PROVE o = p
    BY <1>1, <2>1, ByteAndBit
  <2> QED BY <2>1
<1>7. \A x \in ones : \E o \in members : <<o \div 8, o % 8>> = x
  <2>1. ASSUME NEW b \in Bytes, NEW i \in bits[b]
        PROVE  8 * b + i \in members /\ (8 * b + i) \div 8 = b /\ (8 * b + i) % 8 = i
    <3>1. i \in Byte /\ b \in Nat
      BY <1>1
    <3> QED BY <3>1, ByteAndBit DEF BitIInv, BitsAreMembers
  <2>2. ASSUME NEW b \in Bytes, NEW i \in bits[b]
        PROVE  \E o \in members : <<o \div 8, o % 8>> = <<b, i>>
    BY <2>1
  <2> QED BY <1>3, <2>2
<1>8. f \in Bijection(members, ones)
  <2>1. f \in [members -> ones] /\ \A o \in members : f[o] = <<o \div 8, o % 8>>
    BY <1>5
  <2> HIDE DEF f
  <2>2. \A o, p \in members : o # p => f[o] # f[p]
    BY <1>6, <2>1
  <2>3. \A x \in ones : \E o \in members : f[o] = x
    BY <1>7, <2>1
  <2> QED BY <2>1, <2>2, <2>3, Zenon DEF Bijection, Injection, Surjection, IsInjective
<1>9. ExistsBijection(members, ones)
  BY <1>8 DEF ExistsBijection
<1>10. cpr_bitcount = Cardinality(ones)
  BY DEF cpr_bitcount, ones
<1> QED BY <1>4, <1>9, <1>10, FS_Bijection

(* The run's property follows from bits and members agreeing. *)
LEMMA BitsetFollows == BitIInv => BitsetIsSet
<1> SUFFICES ASSUME BitIInv PROVE BitsetIsSet
  OBVIOUS
<1>1. /\ bitsize \in Nat /\ bits \in [Bytes -> SUBSET Byte] /\ members \in SUBSET Room
      /\ Bytes \subseteq Nat
      /\ \A o \in Room : o \in Nat /\ o \div 8 \in Bytes
      /\ \A b \in Bytes, i \in Byte : i \in bits[b] <=> 8 * b + i \in members
  BY BytesCover DEF BitIInv, BitTypeOK, BitsAreMembers
<1>2. ASSUME NEW o \in Room PROVE cpr_bitget(o) <=> o \in members
  <2>1. o \div 8 \in Bytes /\ o % 8 \in Byte /\ o = 8 * (o \div 8) + (o % 8)
    BY <1>1, ByteAndBit
  <2>2. cpr_bitget(o) <=> o % 8 \in bits[o \div 8]
    BY DEF cpr_bitget, bytemask
  <2>3. o % 8 \in bits[o \div 8] <=> 8 * (o \div 8) + (o % 8) \in members
    BY <1>1, <2>1
  <2> QED BY <2>1, <2>2, <2>3
<1>3. cpr_lowestset = Least(members)
  BY <1>1, ScanIsLeast DEF cpr_lowestset
<1>4. cpr_lowestclr = Least(0 .. bitsize \ members)
  <2> DEFINE c == [b \in Bytes |-> Byte \ bits[b]]
             s == 0 .. bitsize \ members
  <2>1. c \in [Bytes -> SUBSET Byte]
    OBVIOUS
  <2>2. ASSUME NEW b \in Bytes, NEW i \in Byte, 8 * b + i < bitsize
        PROVE  i \in c[b] <=> 8 * b + i \in s
    <3>1. 8 * b + i \in 0 .. bitsize
      BY <1>1, <2>2 DEF Byte
    <3>2. i \in c[b] <=> i \notin bits[b]
      OBVIOUS
    <3> QED BY <1>1, <3>1, <3>2
  <2>3. cpr_lowestclr = Scan(c)
    BY DEF cpr_lowestclr
  <2> HIDE DEF c, s
  <2>4. Scan(c) = Least(s)
    BY <1>1, <2>1, <2>2, ScanIsLeast
  <2> QED BY <2>3, <2>4 DEF s
<1>5. ASSUME \A o \in members : o < bitsize
      PROVE  /\ cpr_bitcount = Cardinality(members)
             /\ cpr_anybits <=> members # {}
             /\ cpr_allbits <=> members = 0 .. bitsize - 1
  <2>1. cpr_bitcount = Cardinality(members) /\ IsFiniteSet(members)
    BY CountIsCardinality
  <2>2. cpr_anybits <=> members # {}
    <3>1. ASSUME NEW b \in Bytes, NEW i \in bits[b] PROVE 8 * b + i \in members
      BY <1>1
    <3>2. ASSUME NEW o \in members PROVE o \div 8 \in Bytes /\ o % 8 \in bits[o \div 8]
      <4>1. o \div 8 \in Bytes /\ o % 8 \in Byte /\ o = 8 * (o \div 8) + (o % 8)
        BY <1>1, ByteAndBit
      <4>2. 8 * (o \div 8) + (o % 8) \in members
        BY <4>1
      <4> QED BY <1>1, <4>1, <4>2
    <3> QED BY <3>1, <3>2 DEF cpr_anybits
  <2>3. cpr_allbits <=> members = 0 .. bitsize - 1
    <3> DEFINE all == 0 .. bitsize - 1
    <3>1. IsFiniteSet(all) /\ Cardinality(all) = bitsize
      BY <1>1, FS_Interval
    <3>2. members \in SUBSET all
      BY <1>1, <1>5
    <3> HIDE DEF all
    <3>3. Cardinality(all) = Cardinality(members) => all = members
      BY <3>1, <3>2, FS_Subset
    <3>4. cpr_allbits <=> Cardinality(members) = bitsize
      BY <2>1 DEF cpr_allbits
    <3>5. cpr_allbits <=> members = all
      BY <3>1, <3>3, <3>4
    <3> QED BY <3>5 DEF all
  <2> QED BY <2>1, <2>2, <2>3
<1> QED BY <1>2, <1>3, <1>4, <1>5 DEF BitsetIsSet

(* cpr_makebits clears every byte. *)
LEMMA BitInitHolds == BitInit => BitIInv
BY BitAssumption DEF BitInit, BitIInv, BitTypeOK, BitsAreMembers, Bytes

(* Setting, clearing, and the operations on whole bytes keep it. *)
LEMMA BitNextHolds == BitIInv /\ [BitNext]_bitVars => BitIInv'
<1> SUFFICES ASSUME BitIInv, [BitNext]_bitVars PROVE BitIInv'
  OBVIOUS
<1>1. /\ bitsize \in Nat /\ bits \in [Bytes -> SUBSET Byte] /\ members \in SUBSET Room
      /\ Bytes \subseteq Nat
      /\ \A o \in Room : o \in Nat /\ o \div 8 \in Bytes
      /\ \A b \in Bytes, i \in Byte : i \in bits[b] <=> 8 * b + i \in members
  BY BytesCover DEF BitIInv, BitTypeOK, BitsAreMembers
<1>2. ASSUME NEW o \in Room, NEW b \in Bytes, NEW i \in Byte
      PROVE  (b = o \div 8 /\ i = o % 8) <=> 8 * b + i = o
  <2>1. o \in Nat /\ b \in Nat
    BY <1>1
  <2>2. o = 8 * (o \div 8) + (o % 8) /\ (8 * b + i) \div 8 = b /\ (8 * b + i) % 8 = i
    BY <2>1, ByteAndBit
  <2> QED BY <2>2
<1>3. bitsize' = bitsize /\ Bytes' = Bytes /\ Room' = Room
  BY DEF BitNext, bitVars, cpr_bitset, cpr_bitclr, cpr_makemask, cpr_foldmask, Bytes, Room
<1>4. ASSUME NEW o \in Room, cpr_bitset(o) PROVE BitIInv'
  <2>1. /\ bits' = [bits EXCEPT ![o \div 8] = @ \cup {o % 8}] /\ members' = members \cup {o}
        /\ o \div 8 \in Bytes /\ o % 8 \in Byte
    BY <1>1, <1>4, ByteAndBit DEF cpr_bitset, bytemask
  <2>2. bits' \in [Bytes -> SUBSET Byte] /\ members' \in SUBSET Room
    BY <1>1, <2>1
  <2>3. ASSUME NEW b \in Bytes, NEW i \in Byte PROVE i \in bits'[b] <=> 8 * b + i \in members'
    <3>1. i \in bits'[b] <=> i \in bits[b] \/ (b = o \div 8 /\ i = o % 8)
      BY <1>1, <2>1
    <3> QED BY <1>1, <1>2, <2>1, <3>1
  <2> QED BY <1>1, <1>3, <2>2, <2>3 DEF BitIInv, BitTypeOK, BitsAreMembers
<1>5. ASSUME NEW o \in Room, cpr_bitclr(o) PROVE BitIInv'
  <2>1. /\ bits' = [bits EXCEPT ![o \div 8] = @ \ {o % 8}] /\ members' = members \ {o}
        /\ o \div 8 \in Bytes /\ o % 8 \in Byte
    BY <1>1, <1>5, ByteAndBit DEF cpr_bitclr, bytemask
  <2>2. bits' \in [Bytes -> SUBSET Byte] /\ members' \in SUBSET Room
    BY <1>1, <2>1
  <2>3. ASSUME NEW b \in Bytes, NEW i \in Byte PROVE i \in bits'[b] <=> 8 * b + i \in members'
    <3>1. i \in bits'[b] <=> i \in bits[b] /\ ~(b = o \div 8 /\ i = o % 8)
      BY <1>1, <2>1
    <3> QED BY <1>1, <1>2, <2>1, <3>1
  <2> QED BY <1>1, <1>3, <2>2, <2>3 DEF BitIInv, BitTypeOK, BitsAreMembers
<1>6. ASSUME NEW s \in SUBSET Room, NEW b \in Bytes, NEW i \in Byte
      PROVE  i \in Array(s)[b] <=> 8 * b + i \in s
  <2>1. i \in Array(s)[b] <=> \E o \in s : o \div 8 = b /\ i = o % 8
    BY DEF Array, bytemask
  <2> QED BY <1>2, <2>1
<1>7. ASSUME NEW s \in SUBSET Room, cpr_makemask(s) PROVE BitIInv'
  <2>1. bits' = [b \in Bytes |-> bits[b] \cap Array(s)[b]] /\ members' = members \cap s
    BY <1>7 DEF cpr_makemask
  <2>2. bits' \in [Bytes -> SUBSET Byte] /\ members' \in SUBSET Room
    BY <1>1, <2>1
  <2>3. ASSUME NEW b \in Bytes, NEW i \in Byte PROVE i \in bits'[b] <=> 8 * b + i \in members'
    BY <1>1, <1>6, <2>1
  <2> QED BY <1>1, <1>3, <2>2, <2>3 DEF BitIInv, BitTypeOK, BitsAreMembers
<1>8. ASSUME NEW s \in SUBSET Room, cpr_foldmask(s) PROVE BitIInv'
  <2>1. bits' = [b \in Bytes |-> bits[b] \ Array(s)[b]] /\ members' = members \ s
    BY <1>8 DEF cpr_foldmask
  <2>2. bits' \in [Bytes -> SUBSET Byte] /\ members' \in SUBSET Room
    BY <1>1, <2>1
  <2>3. ASSUME NEW b \in Bytes, NEW i \in Byte PROVE i \in bits'[b] <=> 8 * b + i \in members'
    BY <1>1, <1>6, <2>1
  <2> QED BY <1>1, <1>3, <2>2, <2>3 DEF BitIInv, BitTypeOK, BitsAreMembers
<1>9. CASE UNCHANGED bitVars
  BY <1>1, <1>3, <1>9 DEF bitVars, BitIInv, BitTypeOK, BitsAreMembers
<1> QED BY <1>4, <1>5, <1>7, <1>8, <1>9 DEF BitNext

(* For every size and every sequence of calls a bitset answers and finds like  *)
(* the set of its members, and counts like it as long as no padding bit of its *)
(* last byte is set.                                                           *)
THEOREM BitSafety == BitSpec => [](BitTypeOK /\ BitsetIsSet)
<1>1. BitSpec => []BitIInv
  BY BitInitHolds, BitNextHolds, PTL DEF BitSpec
<1>2. BitIInv => BitTypeOK /\ BitsetIsSet
  BY BitsetFollows DEF BitIInv
<1> QED BY <1>1, <1>2, PTL

-----------------------------------------------------------------------------
(****************************************************************************)
(* Keyfiles: any document, and a crash anywhere in a save.                  *)
(****************************************************************************)

(* A key and a section in memory; the names of keys are in lower case. *)
LowerCase  == Name \ DOMAIN Lowered
KeyData    == [id : LowerCase, value : Seq(Piece)]
KeySection == [id : Name, keys : Seq(KeyData)]

(* What load_keyfile may give: the root comes first. *)
Docs == {d \in Seq(KeySection) : Len(d) >= 1 /\ d[1].id = Root}

(* The first m keys, the last of them first. *)
RevPrefix(keys, z) == [i \in 1 .. z |-> keys[z - i + 1]]

(* How many keys of section s have been printed at the place at. *)
UpTo(d, at, s) == IF s < at.section THEN Len(d[s].keys) ELSE IF s = at.section THEN at.key ELSE 0

(* p is what loading the lines printed up to at gives. *)
IsPrinted(p, d, at) ==
    /\ p \in Docs
    /\ Len(p) = IF at.section = 0 THEN 1 ELSE at.section
    /\ \A s \in 1 .. Len(p) : p[s] = Section(d[s].id, RevPrefix(d[s].keys, UpTo(d, at, s)))

(* at is a place the loops of save_keyfile pass. *)
Reached(d, at) == /\ at.section \in 0 .. Len(d)
                  /\ at.key \in Nat
                  /\ at.section = 0 => at.key = 0
                  /\ at.section > 0 => at.key <= Len(d[at.section].keys)

(* p has nothing that is not in d, in the same sections. *)
Fresh(p, d) == /\ Len(p) <= Len(d)
               /\ \A s \in DOMAIN p : /\ p[s].id = d[s].id
                                      /\ ToSet(p[s].keys) \subseteq ToSet(d[s].keys)

(* What load_keyfile begins with. *)
EmptyRoot == <<Section(Root, <<>>)>>

-----------------------------------------------------------------------------
(* f is the recursive function of load_keyfile, for the first m lines. *)
LoadsUpTo(f, lines, z) == f = [n \in 0 .. z |->
                                IF n = 0 THEN EmptyRoot ELSE LoadLine(f[n - 1], lines[n])]

(* A function is what it is at each place. *)
LEMMA LoadsAt ==
    ASSUME NEW lines, NEW z \in Nat, NEW f,
           f \in [0 .. z -> {f[n] : n \in 0 .. z}],
           f[0] = EmptyRoot,
           \A n \in 1 .. z : f[n] = LoadLine(f[n - 1], lines[n])
    PROVE  LoadsUpTo(f, lines, z)
<1> DEFINE g == [n \in 0 .. z |-> IF n = 0 THEN EmptyRoot ELSE LoadLine(f[n - 1], lines[n])]
<1>1. \A n \in 0 .. z : n # 0 => n \in 1 .. z
  OBVIOUS
<1>2. \A n \in 0 .. z : f[n] = g[n]
  BY <1>1
<1>3. f = [n \in 0 .. z |-> f[n]]
  OBVIOUS
<1>4. f = g
  BY <1>2, <1>3
<1> QED BY <1>4 DEF LoadsUpTo

(* Such a function exists for every number of lines. *)
LEMMA LoadExists ==
    ASSUME NEW lines, NEW z \in Nat
    PROVE  \E f : LoadsUpTo(f, lines, z)
<1> DEFINE T == {k \in Nat : ~\E f : LoadsUpTo(f, lines, k)}
<1> SUFFICES ASSUME T # {} PROVE FALSE
  OBVIOUS
<1>1. PICK k \in T : \A j \in T : k <= j
  <2>1. T \in SUBSET Nat
    OBVIOUS
  <2> HIDE DEF T
  <2> QED BY <2>1, LeastNatural
<1>2. k \in Nat /\ ~\E f : LoadsUpTo(f, lines, k)
  BY <1>1
<1>3. CASE k = 0
  <2> DEFINE f == [n \in 0 .. 0 |-> EmptyRoot]
  <2>1. f = [n \in 0 .. 0 |-> IF n = 0 THEN EmptyRoot ELSE LoadLine(f[n - 1], lines[n])]
    OBVIOUS
  <2>2. LoadsUpTo(f, lines, 0)
    BY <2>1 DEF LoadsUpTo
  <2> QED BY <1>2, <1>3, <2>2
<1>4. CASE k # 0
  <2>1. k - 1 \in Nat /\ ~(k <= k - 1)
    BY <1>2, <1>4
  <2>2. k - 1 \notin T
    BY <1>1, <2>1
  <2>3. PICK f : LoadsUpTo(f, lines, k - 1)
    BY <2>1, <2>2
  <2> DEFINE g == [n \in 0 .. k |-> IF n = k THEN LoadLine(f[k - 1], lines[k]) ELSE f[n]]
  <2>4. /\ f[0] = EmptyRoot
        /\ \A n \in 1 .. k - 1 : f[n] = LoadLine(f[n - 1], lines[n])
    <3>1. f = [n \in 0 .. k - 1 |-> IF n = 0 THEN EmptyRoot ELSE LoadLine(f[n - 1], lines[n])]
      BY <2>3 DEF LoadsUpTo
    <3>2. 0 \in 0 .. k - 1 /\ \A n \in 1 .. k - 1 : n \in 0 .. k - 1 /\ n # 0
      BY <2>1
    <3> QED BY <3>1, <3>2
  <2>5. g[0] = EmptyRoot
    BY <1>2, <1>4, <2>4
  <2>6. ASSUME NEW n \in 1 .. k PROVE g[n] = LoadLine(g[n - 1], lines[n])
    <3>1. n \in 0 .. k /\ n - 1 \in 0 .. k /\ n - 1 # k
      BY <1>2
    <3>2. g[n - 1] = f[n - 1]
      BY <3>1
    <3>3. CASE n = k
      BY <3>1, <3>2, <3>3
    <3>4. CASE n # k
      <4>1. n \in 1 .. k - 1
        BY <1>2, <3>4
      <4>2. g[n] = f[n]
        BY <3>1, <3>4
      <4> QED BY <2>4, <3>2, <4>1, <4>2
    <3> QED BY <3>3, <3>4
  <2>7. g \in [0 .. k -> {g[n] : n \in 0 .. k}]
    OBVIOUS
  <2> HIDE DEF g
  <2>8. LoadsUpTo(g, lines, k)
    BY <1>2, <2>5, <2>6, <2>7, LoadsAt
  <2> QED BY <1>2, <2>8
<1> QED BY <1>3, <1>4

(* And there is only one. *)
LEMMA LoadUnique ==
    ASSUME NEW lines, NEW z \in Nat, NEW f, NEW g,
           LoadsUpTo(f, lines, z), LoadsUpTo(g, lines, z)
    PROVE  f = g
<1>1. /\ f = [n \in 0 .. z |-> IF n = 0 THEN EmptyRoot ELSE LoadLine(f[n - 1], lines[n])]
      /\ g = [n \in 0 .. z |-> IF n = 0 THEN EmptyRoot ELSE LoadLine(g[n - 1], lines[n])]
  BY DEF LoadsUpTo
<1> DEFINE T == {k \in 0 .. z : f[k] # g[k]}
<1>2. CASE T = {}
  <2>1. \A k \in 0 .. z : f[k] = g[k]
    BY <1>2
  <2>2. f = [n \in 0 .. z |-> f[n]] /\ g = [n \in 0 .. z |-> g[n]]
    BY <1>1
  <2> QED BY <2>1, <2>2
<1>3. CASE T # {}
  <2>1. PICK k \in T : \A j \in T : k <= j
    <3>1. T \in SUBSET Nat
      OBVIOUS
    <3> HIDE DEF T
    <3> QED BY <1>3, <3>1, LeastNatural
  <2>2. k \in 0 .. z /\ f[k] # g[k]
    BY <2>1
  <2>3. k # 0
    BY <1>1, <2>2
  <2>4. k - 1 \in 0 .. z /\ ~(k <= k - 1)
    BY <2>2, <2>3
  <2>5. f[k - 1] = g[k - 1]
    BY <2>1, <2>4
  <2>6. f[k] = LoadLine(f[k - 1], lines[k]) /\ g[k] = LoadLine(g[k - 1], lines[k])
    BY <1>1, <2>2, <2>3
  <2> QED BY <2>2, <2>5, <2>6
<1> QED BY <1>2, <1>3

(* load_keyfile is where such a function ends. *)
LEMMA LoadIs ==
    ASSUME NEW lines, Len(lines) \in Nat, NEW f, LoadsUpTo(f, lines, Len(lines))
    PROVE  load_keyfile(lines) = f[Len(lines)]
<1> DEFINE g == CHOOSE h : h = [n \in 0 .. Len(lines) |->
                                  IF n = 0 THEN EmptyRoot ELSE LoadLine(h[n - 1], lines[n])]
<1>1. g = [n \in 0 .. Len(lines) |-> IF n = 0 THEN EmptyRoot ELSE LoadLine(g[n - 1], lines[n])]
  BY DEF LoadsUpTo
<1>2. load_keyfile(lines) = g[Len(lines)]
  BY DEF load_keyfile, EmptyRoot
<1> HIDE DEF g
<1>3. LoadsUpTo(g, lines, Len(lines))
  BY <1>1 DEF LoadsUpTo
<1>4. g = f
  BY <1>3, LoadUnique
<1> QED BY <1>2, <1>4

(* Nothing is loaded from an empty file. *)
LEMMA LoadEmpty == load_keyfile(<<>>) = EmptyRoot
<1>1. Len(<<>>) = 0 /\ Len(<<>>) \in Nat
  OBVIOUS
<1>2. PICK f : LoadsUpTo(f, <<>>, 0)
  BY LoadExists
<1>3. f[0] = EmptyRoot
  BY <1>2 DEF LoadsUpTo
<1>4. LoadsUpTo(f, <<>>, Len(<<>>))
  BY <1>1, <1>2
<1>5. load_keyfile(<<>>) = f[Len(<<>>)]
  BY <1>1, <1>4, LoadIs
<1> QED BY <1>1, <1>3, <1>5

(* A line more is a round of the loop more. *)
LEMMA LoadAppend ==
    ASSUME NEW lines \in Seq(FileLine), NEW item \in FileLine
    PROVE  load_keyfile(Append(lines, item)) = LoadLine(load_keyfile(lines), item)
<1> DEFINE z == Len(lines)
           more == Append(lines, item)
<1>1. /\ z \in Nat /\ Len(more) = z + 1 /\ more[z + 1] = item
      /\ \A n \in 1 .. z : more[n] = lines[n]
  OBVIOUS
<1> HIDE DEF z, more
<1>11. z + 1 \in Nat
  BY <1>1
<1>2. PICK f : LoadsUpTo(f, more, z + 1)
  BY <1>11, LoadExists
<1>3. f = [n \in 0 .. z + 1 |-> IF n = 0 THEN EmptyRoot ELSE LoadLine(f[n - 1], more[n])]
  BY <1>2 DEF LoadsUpTo
<1>4. f[z + 1] = LoadLine(f[z], item)
  <2>1. z + 1 \in 0 .. z + 1 /\ z + 1 # 0 /\ z + 1 - 1 = z
    BY <1>1
  <2> DEFINE k == z + 1
  <2>2. k \in 0 .. k /\ k # 0 /\ k - 1 = z /\ more[k] = item
    BY <1>1, <2>1
  <2>3. f = [n \in 0 .. k |-> IF n = 0 THEN EmptyRoot ELSE LoadLine(f[n - 1], more[n])]
    BY <1>3
  <2> HIDE DEF k
  <2>4. f[k] = LoadLine(f[k - 1], more[k])
    BY <2>2, <2>3
  <2>5. f[k] = LoadLine(f[z], item)
    BY <2>2, <2>4
  <2> QED BY <2>5 DEF k
<1> DEFINE g == [n \in 0 .. z |-> f[n]]
<1>5. g[0] = EmptyRoot /\ g[z] = f[z]
  BY <1>1, <1>3
<1>6. ASSUME NEW n \in 1 .. z PROVE g[n] = LoadLine(g[n - 1], lines[n])
  <2>1. n \in 0 .. z + 1 /\ n \in 0 .. z /\ n # 0 /\ n - 1 \in 0 .. z
    BY <1>1
  <2>2. f[n] = LoadLine(f[n - 1], more[n])
    BY <1>3, <2>1
  <2> QED BY <1>1, <2>1, <2>2
<1>7. g \in [0 .. z -> {g[n] : n \in 0 .. z}]
  OBVIOUS
<1> HIDE DEF g
<1>8. LoadsUpTo(g, lines, z)
  BY <1>1, <1>5, <1>6, <1>7, LoadsAt
<1>9. load_keyfile(lines) = g[z]
  BY <1>1, <1>8, LoadIs DEF z
<1>10. load_keyfile(more) = f[z + 1]
  BY <1>1, <1>2, LoadIs
<1> QED BY <1>4, <1>5, <1>9, <1>10 DEF more

-----------------------------------------------------------------------------
(* Quotes around a text. *)
LEMMA Wrapped ==
    ASSUME NEW q \in Piece, NEW t \in Seq(Piece)
    PROVE  LET w == <<q>> \o t \o <<q>>
           IN  /\ w \in Seq(Piece) /\ Len(w) = Len(t) + 2
               /\ w[1] = q /\ w[Len(w)] = q
               /\ \A i \in 1 .. Len(t) : w[i + 1] = t[i]
<1> DEFINE u == <<q>> \o t
           w == u \o <<q>>
<1>1. /\ u \in Seq(Piece) /\ Len(u) = Len(t) + 1 /\ u[1] = q
      /\ \A i \in 1 .. Len(t) : u[i + 1] = t[i]
  BY PutBefore
<1> HIDE DEF u
<1>2. /\ w \in Seq(Piece) /\ Len(w) = Len(u) + 1 /\ w[Len(u) + 1] = q
      /\ \A i \in 1 .. Len(u) : w[i] = u[i]
  BY <1>1, PutBehind
<1> HIDE DEF w
<1>3. Len(t) \in Nat /\ Len(u) \in Nat
  BY <1>1
<1>4. Len(w) = Len(t) + 2 /\ w[1] = q /\ w[Len(w)] = q
  BY <1>1, <1>2, <1>3
<1>5. ASSUME NEW i \in 1 .. Len(t) PROVE w[i + 1] = t[i]
  <2>1. i + 1 \in 1 .. Len(u)
    BY <1>1, <1>3
  <2> QED BY <1>1, <1>2, <2>1
<1> QED BY <1>2, <1>4, <1>5 DEF u, w

(* Whatever is in a text, load_keyfile takes off the quotes save_keyfile put. *)
LEMMA UnquoteQuote ==
    ASSUME NEW t \in Seq(Piece)
    PROVE  Quote(t) \in Seq(Piece) /\ Unquote(Quote(t)) = t
<1>1. ASSUME NEW q \in {"sq", "dq"}, Quote(t) = <<q>> \o t \o <<q>>
      PROVE  Quote(t) \in Seq(Piece) /\ Unquote(Quote(t)) = t
  <2> DEFINE w == <<q>> \o t \o <<q>>
  <2>1. q \in Piece
    BY DEF Piece
  <2>2. /\ w \in Seq(Piece) /\ Len(w) = Len(t) + 2 /\ w[1] = q /\ w[Len(w)] = q
        /\ \A i \in 1 .. Len(t) : w[i + 1] = t[i]
    BY <2>1, Wrapped
  <2>3. Quote(t) = w
    BY <1>1
  <2> HIDE DEF w
  <2>4. w # <<>> /\ Head(w) = q /\ Last(w) = q
    BY <2>2 DEF Last
  <2>5. Unquote(w) = SubSeq(w, 2, Len(w) - 1)
    BY <2>4 DEF Unquote
  <2> DEFINE v == SubSeq(w, 2, Len(w) - 1)
  <2>6. Len(w) - 1 = Len(t) + 1 /\ Len(t) \in Nat
    BY <2>2
  <2>7. v \in Seq(Piece) /\ Len(v) = Len(t) /\ \A i \in 1 .. Len(t) : v[i] = w[i + 1]
    BY <2>2, <2>6, SubSeqProperties
  <2> HIDE DEF v
  <2>8. v = t
    BY <2>2, <2>7, SeqEqual
  <2> QED BY <2>2, <2>3, <2>5, <2>8 DEF v
<1>2. \/ Quote(t) = <<"dq">> \o t \o <<"dq">>
      \/ Quote(t) = <<"sq">> \o t \o <<"sq">>
  BY DEF Quote
<1> QED BY <1>1, <1>2

(* What is left of a text without its quotes is a text. *)
LEMMA UnquoteType ==
    ASSUME NEW t \in Seq(Piece)
    PROVE  Unquote(t) \in Seq(Piece)
<1>1. CASE t = <<>>
  BY <1>1 DEF Unquote
<1>2. CASE t # <<>>
  <2>1. Len(t) \in Nat /\ Len(t) >= 1
    BY <1>2
  <2>2. SubSeq(t, 2, Len(t) - 1) \in Seq(Piece)
    BY <2>1, SubSeqProperties
  <2> QED BY <2>2 DEF Unquote
<1> QED BY <1>1, <1>2

-----------------------------------------------------------------------------
(* A document begins with the root and is made of sections. *)
LEMMA DocsAre ==
    ASSUME NEW d \in Docs
    PROVE  /\ d \in Seq(KeySection) /\ Len(d) \in Nat /\ Len(d) >= 1 /\ d[1].id = Root
           /\ DOMAIN d = 1 .. Len(d)
           /\ \A s \in 1 .. Len(d) : /\ d[s] \in KeySection /\ d[s].id \in Name
                                     /\ d[s].keys \in Seq(KeyData) /\ Len(d[s].keys) \in Nat
                                     /\ d[s] = Section(d[s].id, d[s].keys)
<1>1. d \in Seq(KeySection) /\ Len(d) \in Nat /\ Len(d) >= 1 /\ d[1].id = Root
      /\ DOMAIN d = 1 .. Len(d)
  BY DEF Docs
<1>2. \A s \in 1 .. Len(d) : d[s] \in KeySection
  BY <1>1
<1>3. ASSUME NEW s \in 1 .. Len(d)
      PROVE  /\ d[s] \in KeySection /\ d[s].id \in Name
             /\ d[s].keys \in Seq(KeyData) /\ Len(d[s].keys) \in Nat
             /\ d[s] = Section(d[s].id, d[s].keys)
  <2>1. d[s] \in KeySection
    BY <1>2
  <2>2. d[s].id \in Name /\ d[s].keys \in Seq(KeyData) /\ d[s] = Section(d[s].id, d[s].keys)
    BY <2>1 DEF KeySection, Section
  <2> QED BY <2>1, <2>2
<1> QED BY <1>1, <1>3

(* An empty root is a document. *)
LEMMA EmptyRootDoc ==
    /\ EmptyRoot \in Docs /\ Len(EmptyRoot) = 1
    /\ EmptyRoot[1] = Section(Root, <<>>)
<1>1. Section(Root, <<>>) \in KeySection
  <2>1. Root \in Name
    BY DEF Name
  <2>2. <<>> \in Seq(KeyData)
    OBVIOUS
  <2> QED BY <2>1, <2>2 DEF Section, KeySection
<1>2. Section(Root, <<>>).id = Root
  BY DEF Section
<1> QED BY <1>1, <1>2 DEF EmptyRoot, Docs

(* Sections of which the first is the root are a document. *)
LEMMA IsDoc ==
    ASSUME NEW d \in Seq(KeySection), Len(d) >= 1, d[1].id = Root
    PROVE  d \in Docs
BY DEF Docs

(* make_keysection *)
LEMMA SectionPut ==
    ASSUME NEW d \in Docs, NEW prior \in 1 .. Len(d), NEW id \in Name
    PROVE  /\ make_keysection(d, prior, id) \in Docs
           /\ Len(make_keysection(d, prior, id)) = prior + 1
           /\ make_keysection(d, prior, id)[prior + 1] = Section(id, <<>>)
           /\ \A s \in 1 .. prior : make_keysection(d, prior, id)[s] = d[s]
<1> DEFINE a == SubSeq(d, 1, prior)
           e == Section(id, <<>>)
<1>1. d \in Seq(KeySection) /\ Len(d) \in Nat /\ Len(d) >= 1 /\ d[1].id = Root /\ prior \in Nat
      /\ \A s \in 1 .. prior : d[s] \in KeySection
  BY DocsAre
<1>2. a \in Seq(KeySection) /\ Len(a) = prior /\ \A s \in 1 .. prior : a[s] = d[s]
  BY <1>1, SubSeqProperties
<1>3. e \in KeySection
  <2>1. <<>> \in Seq(KeyData)
    OBVIOUS
  <2> QED BY <2>1 DEF Section, KeySection
<1> HIDE DEF a, e
<1>4. /\ a \o <<e>> \in Seq(KeySection) /\ Len(a \o <<e>>) = Len(a) + 1
      /\ (a \o <<e>>)[Len(a) + 1] = e
      /\ \A i \in 1 .. Len(a) : (a \o <<e>>)[i] = a[i]
  BY <1>2, <1>3, PutBehind
<1>5. make_keysection(d, prior, id) = a \o <<e>>
  BY DEF make_keysection, a, e
<1>6. /\ \A i \in 1 .. prior : (a \o <<e>>)[i] = d[i]
      /\ (a \o <<e>>)[prior + 1] = e
      /\ Len(a \o <<e>>) = prior + 1
  BY <1>2, <1>4
<1>7. (a \o <<e>>)[1].id = Root
  <2>1. 1 \in 1 .. prior
    BY <1>1
  <2> QED BY <1>1, <1>6, <2>1
<1>8. a \o <<e>> \in Docs
  <2>1. Len(a \o <<e>>) >= 1
    BY <1>1, <1>6
  <2> QED BY <1>4, <1>7, <2>1, IsDoc
<1> QED BY <1>5, <1>6, <1>8 DEF e

(* e is d with one key more in section s. *)
HasKey(e, d, s, id, value) ==
    /\ e \in Docs /\ Len(e) = Len(d)
    /\ e[s] = Section(d[s].id, <<Key(KeyId(id), value)>> \o d[s].keys)
    /\ \A r \in 1 .. Len(d) : r # s => e[r] = d[r]

(* make_keydata in section s *)
LEMMA KeyPut ==
    ASSUME NEW d \in Docs, NEW s \in 1 .. Len(d), NEW id \in Name, NEW value \in Seq(Piece),
           NEW e, e = [d EXCEPT ![s] = make_keydata(@, id, value)]
    PROVE  HasKey(e, d, s, id, value)
<1>1. /\ d \in Seq(KeySection) /\ Len(d) \in Nat /\ Len(d) >= 1 /\ d[1].id = Root
      /\ d[s] \in KeySection /\ d[s].id \in Name /\ d[s].keys \in Seq(KeyData)
  BY DocsAre
<1> DEFINE k == Key(KeyId(id), value)
<1>2. k \in KeyData
  <2>1. KeyId(id) \in LowerCase
    BY KeyAssumption DEF KeyId, LowerCase
  <2> QED BY <2>1 DEF Key, KeyData
<1> HIDE DEF k
<1>3. <<k>> \o d[s].keys \in Seq(KeyData)
  BY <1>1, <1>2, PutBefore
<1>4. make_keydata(d[s], id, value) = Section(d[s].id, <<k>> \o d[s].keys)
  <2>1. ASSUME NEW x \in KeySection, NEW y
        PROVE  [x EXCEPT !.keys = y] = Section(x.id, y)
    BY DEF Section, KeySection
  <2>2. make_keydata(d[s], id, value) = [d[s] EXCEPT !.keys = <<k>> \o d[s].keys]
    BY DEF make_keydata, k
  <2> QED BY <1>1, <2>1, <2>2
<1>5. Section(d[s].id, <<k>> \o d[s].keys) \in KeySection
  BY <1>1, <1>3 DEF Section, KeySection
<1>6. Section(d[s].id, <<k>> \o d[s].keys).id = d[s].id
  BY DEF Section
<1> DEFINE x == Section(d[s].id, <<k>> \o d[s].keys)
<1>7. e = [d EXCEPT ![s] = x]
  BY <1>4
<1>8. x \in KeySection /\ x.id = d[s].id
  BY <1>5, <1>6
<1> HIDE DEF x
<1>9. /\ e \in Seq(KeySection) /\ Len(e) = Len(d) /\ e[s] = x
      /\ \A r \in 1 .. Len(d) : r # s => e[r] = d[r]
  BY <1>1, <1>7, <1>8
<1>10. e[1].id = Root
  <2>1. 1 \in 1 .. Len(d)
    BY <1>1
  <2> QED BY <1>1, <1>8, <1>9, <2>1
<1>11. e \in Docs
  BY <1>1, <1>9, <1>10, IsDoc
<1> QED BY <1>9, <1>11 DEF HasKey, x, k

(* A round of the loop makes a document of a document. *)
LEMMA LoadLineDoc ==
    ASSUME NEW d \in Docs, NEW item \in FileLine
    PROVE  LoadLine(d, item) \in Docs
<1>1. Len(d) \in 1 .. Len(d) /\ item.id \in Name /\ item.text \in Seq(Piece)
  BY DocsAre DEF FileLine
<1>2. make_keysection(d, Len(d), item.id) \in Docs
  BY <1>1, SectionPut
<1>3. Unquote(item.text) \in Seq(Piece)
  BY <1>1, UnquoteType
<1>4. [d EXCEPT ![Len(d)] = make_keydata(@, item.id, Unquote(item.text))] \in Docs
  BY <1>1, <1>3, KeyPut DEF HasKey
<1> QED BY <1>2, <1>4 DEF LoadLine

(* load_keyfile gives a document, whatever is in the file. *)
LEMMA LoadDoc ==
    ASSUME NEW lines \in Seq(FileLine)
    PROVE  load_keyfile(lines) \in Docs
<1>1. Len(lines) \in Nat /\ \A n \in 1 .. Len(lines) : lines[n] \in FileLine
  OBVIOUS
<1>2. PICK f : LoadsUpTo(f, lines, Len(lines))
  BY <1>1, LoadExists
<1>3. f = [n \in 0 .. Len(lines) |-> IF n = 0 THEN EmptyRoot ELSE LoadLine(f[n - 1], lines[n])]
  BY <1>2 DEF LoadsUpTo
<1>4. load_keyfile(lines) = f[Len(lines)]
  BY <1>1, <1>2, LoadIs
<1> DEFINE T == {n \in 0 .. Len(lines) : f[n] \notin Docs}
<1>5. ASSUME T # {} PROVE FALSE
  <2>1. PICK n \in T : \A j \in T : n <= j
    <3>1. T \in SUBSET Nat
      BY <1>1
    <3> HIDE DEF T
    <3> QED BY <1>5, <3>1, LeastNatural
  <2>2. n \in 0 .. Len(lines) /\ f[n] \notin Docs
    BY <2>1
  <2>3. n # 0
    BY <1>3, <2>2, EmptyRootDoc
  <2>4. n - 1 \in 0 .. Len(lines) /\ ~(n <= n - 1) /\ n \in 1 .. Len(lines)
    BY <1>1, <2>2, <2>3
  <2>5. f[n - 1] \in Docs
    BY <2>1, <2>4
  <2>6. f[n] = LoadLine(f[n - 1], lines[n])
    BY <1>3, <2>2, <2>3
  <2> QED BY <1>1, <2>2, <2>4, <2>5, <2>6, LoadLineDoc
<1>6. Len(lines) \notin T
  BY <1>5
<1> QED BY <1>1, <1>4, <1>6

-----------------------------------------------------------------------------
(* The first m keys, the last of them first, are a sequence of m keys. *)
LEMMA RevPrefixIs ==
    ASSUME NEW keys \in Seq(KeyData), NEW z \in 0 .. Len(keys)
    PROVE  /\ RevPrefix(keys, z) \in Seq(KeyData) /\ Len(RevPrefix(keys, z)) = z
           /\ \A i \in 1 .. z : RevPrefix(keys, z)[i] = keys[z - i + 1] /\ z - i + 1 \in 1 .. Len(keys)
           /\ RevPrefix(keys, 0) = <<>>
<1>1. Len(keys) \in Nat /\ z \in Nat
  OBVIOUS
<1>2. \A i \in 1 .. z : z - i + 1 \in 1 .. Len(keys)
  BY <1>1
<1>3. \A i \in 1 .. z : keys[z - i + 1] \in KeyData
  BY <1>2
<1>4. RevPrefix(keys, z) \in [1 .. z -> KeyData]
  BY <1>3 DEF RevPrefix
<1>5. RevPrefix(keys, z) \in Seq(KeyData) /\ Len(RevPrefix(keys, z)) = z
  BY <1>1, <1>4
<1>6. \A i \in 1 .. z : RevPrefix(keys, z)[i] = keys[z - i + 1]
  BY DEF RevPrefix
<1>7. RevPrefix(keys, 0) = <<>>
  <2>1. RevPrefix(keys, 0) \in [1 .. 0 -> KeyData]
    BY DEF RevPrefix
  <2>2. RevPrefix(keys, 0) \in Seq(KeyData) /\ Len(RevPrefix(keys, 0)) = 0
    BY <2>1
  <2> QED BY <2>2, EmptySeq
<1> QED BY <1>2, <1>5, <1>6, <1>7

(* A key more goes before those that are there. *)
LEMMA RevPrefixMore ==
    ASSUME NEW keys \in Seq(KeyData), NEW z \in 0 .. Len(keys) - 1
    PROVE  <<keys[z + 1]>> \o RevPrefix(keys, z) = RevPrefix(keys, z + 1)
<1> DEFINE e == keys[z + 1]
           r == RevPrefix(keys, z)
           more == RevPrefix(keys, z + 1)
           x == <<e>> \o r
<1>1. Len(keys) \in Nat /\ z \in Nat /\ z \in 0 .. Len(keys) /\ z + 1 \in 0 .. Len(keys)
  OBVIOUS
<1>2. e \in KeyData
  BY <1>1
<1>3. r \in Seq(KeyData) /\ Len(r) = z /\ \A i \in 1 .. z : r[i] = keys[z - i + 1]
  BY <1>1, RevPrefixIs
<1>4. /\ more \in Seq(KeyData) /\ Len(more) = z + 1
      /\ \A i \in 1 .. z + 1 : more[i] = keys[z + 1 - i + 1]
  BY <1>1, RevPrefixIs
<1> HIDE DEF e, r, more
<1>5. /\ x \in Seq(KeyData) /\ Len(x) = z + 1 /\ x[1] = e
      /\ \A i \in 1 .. z : x[i + 1] = r[i]
  BY <1>2, <1>3, PutBefore
<1> HIDE DEF x
<1>6. ASSUME NEW i \in 1 .. z + 1 PROVE x[i] = more[i]
  <2>1. CASE i = 1
    <3>1. z + 1 - 1 + 1 = z + 1
      BY <1>1
    <3> QED BY <1>4, <1>5, <2>1, <3>1 DEF e
  <2>2. CASE i # 1
    <3>1. PICK j \in 1 .. z : i = j + 1
      <4>1. i - 1 \in 1 .. z /\ i = (i - 1) + 1
        BY <1>1, <2>2
      <4> QED BY <4>1
    <3>2. z + 1 - i + 1 = z - j + 1
      BY <1>1, <3>1
    <3>3. x[i] = r[j]
      BY <1>5, <3>1
    <3>4. r[j] = keys[z - j + 1]
      BY <1>3
    <3>5. more[i] = keys[z + 1 - i + 1]
      BY <1>4
    <3> QED BY <3>2, <3>3, <3>4, <3>5
  <2> QED BY <2>1, <2>2
<1>7. x = more
  BY <1>1, <1>4, <1>5, <1>6, SeqEqual
<1> QED BY <1>7 DEF x, more, e, r

(* The heading of a section, printed and loaded. *)
LEMMA HeadingStep ==
    ASSUME NEW d \in Docs, Plain(d), NEW n \in 0 .. Len(d) - 1, NEW k \in Nat,
           n = 0 => k = 0, n > 0 => k = Len(d[n].keys),
           NEW p, IsPrinted(p, d, [section |-> n, key |-> k])
    PROVE  IsPrinted(LoadLine(p, Line("section", d[n + 1].id, <<>>)), d,
                     [section |-> n + 1, key |-> 0])
<1> DEFINE at == [section |-> n, key |-> k]
           next == [section |-> n + 1, key |-> 0]
           item == Line("section", d[n + 1].id, <<>>)
           q == LoadLine(p, item)
<1>1. /\ Len(d) \in Nat /\ n \in Nat /\ d[1].id = Root /\ n + 1 \in 1 .. Len(d)
      /\ \A s \in 1 .. Len(d) : d[s].id \in Name /\ d[s].keys \in Seq(KeyData) /\ Len(d[s].keys) \in Nat
  BY DocsAre
<1>2. /\ p \in Docs /\ Len(p) = IF n = 0 THEN 1 ELSE n
      /\ \A s \in 1 .. Len(p) : p[s] = Section(d[s].id, RevPrefix(d[s].keys, UpTo(d, at, s)))
  BY DEF IsPrinted
<1>3. /\ item.kind = "section" /\ item.id = d[n + 1].id /\ item.text = <<>>
      /\ ~item.indented /\ item.nl
  BY DEF Line
<1>4. Whole(item) /\ ~Entry(item)
  <2>1. Len(item.text) = 0
    BY <1>3
  <2> QED BY <1>3, <2>1, KeyAssumption DEF Whole, Entry
<1>5. CASE n = 0
  <2>1. ~Heading(item)
    BY <1>1, <1>3, <1>5, KeyAssumption DEF Heading
  <2>2. q = p
    BY <1>4, <2>1 DEF LoadLine
  <2>3. Len(p) = 1 /\ next.section = 1
    BY <1>2, <1>5
  <2>4. UpTo(d, at, 1) = 0 /\ UpTo(d, next, 1) = 0
    BY <1>5 DEF UpTo
  <2>5. \A s \in 1 .. Len(p) : p[s] = Section(d[s].id, RevPrefix(d[s].keys, UpTo(d, next, s)))
    <3>1. \A s \in 1 .. Len(p) : s = 1
      BY <2>3
    <3>2. 1 \in 1 .. Len(p)
      BY <2>3
    <3>3. p[1] = Section(d[1].id, RevPrefix(d[1].keys, UpTo(d, next, 1)))
      BY <1>2, <2>4, <3>2
    <3> QED BY <3>1, <3>3
  <2> QED BY <1>2, <2>2, <2>3, <2>5 DEF IsPrinted
<1>6. CASE n # 0
  <2>1. d[n + 1].id \notin Short
    <3>1. n + 1 \in DOMAIN d /\ n + 1 > 1
      BY <1>1, <1>6, DocsAre
    <3> QED BY <3>1 DEF Plain
  <2>2. q = make_keysection(p, Len(p), d[n + 1].id)
    BY <1>3, <1>4, <2>1 DEF LoadLine, Heading
  <2>3. Len(p) = n /\ n \in 1 .. Len(p) /\ d[n + 1].id \in Name
    BY <1>1, <1>2, <1>6
  <2>4. /\ q \in Docs /\ Len(q) = n + 1 /\ q[n + 1] = Section(d[n + 1].id, <<>>)
        /\ \A s \in 1 .. n : q[s] = p[s]
    BY <1>2, <2>2, <2>3, SectionPut
  <2>5. ASSUME NEW s \in 1 .. n + 1
        PROVE  q[s] = Section(d[s].id, RevPrefix(d[s].keys, UpTo(d, next, s)))
    <3>1. CASE s = n + 1
      <4>1. UpTo(d, next, s) = 0
        BY <1>1, <3>1 DEF UpTo
      <4>2. RevPrefix(d[s].keys, 0) = <<>>
        <5>1. d[s].keys \in Seq(KeyData) /\ 0 \in 0 .. Len(d[s].keys)
          BY <1>1, <3>1
        <5> QED BY <5>1, RevPrefixIs
      <4> QED BY <2>4, <3>1, <4>1, <4>2
    <3>2. CASE s # n + 1
      <4>1. s \in 1 .. n /\ s < n + 1
        BY <1>1, <3>2
      <4>2. UpTo(d, next, s) = Len(d[s].keys)
        BY <4>1 DEF UpTo
      <4>3. UpTo(d, at, s) = Len(d[s].keys)
        <5>1. CASE s < n
          BY <5>1 DEF UpTo
        <5>2. CASE s = n
          <6>1. k = Len(d[n].keys)
            BY <1>1, <1>6
          <6> QED BY <1>1, <5>2, <6>1 DEF UpTo
        <5> QED BY <1>1, <4>1, <5>1, <5>2
      <4> QED BY <1>2, <2>3, <2>4, <4>1, <4>2, <4>3
    <3> QED BY <3>1, <3>2
  <2>6. next.section = n + 1 /\ next.section # 0
    BY <1>1
  <2> HIDE DEF next, q
  <2>7. IsPrinted(q, d, next)
    BY <2>4, <2>5, <2>6 DEF IsPrinted
  <2> QED BY <2>7 DEF next, q
<1> QED BY <1>5, <1>6

(* A key, printed and loaded. *)
LEMMA KeyStep ==
    ASSUME NEW d \in Docs, Plain(d), NEW n \in 1 .. Len(d), NEW k \in 0 .. Len(d[n].keys) - 1,
           NEW p, IsPrinted(p, d, [section |-> n, key |-> k])
    PROVE  IsPrinted(LoadLine(p, Line("key", d[n].keys[k + 1].id, Quote(d[n].keys[k + 1].value))), d,
                     [section |-> n, key |-> k + 1])
<1> DEFINE at == [section |-> n, key |-> k]
           next == [section |-> n, key |-> k + 1]
           e == d[n].keys[k + 1]
           item == Line("key", e.id, Quote(e.value))
           q == LoadLine(p, item)
<1>1. /\ Len(d) \in Nat /\ n \in Nat /\ n # 0 /\ k \in Nat
      /\ \A s \in 1 .. Len(d) : d[s].id \in Name /\ d[s].keys \in Seq(KeyData) /\ Len(d[s].keys) \in Nat
  BY DocsAre
<1>2. /\ p \in Docs /\ Len(p) = n
      /\ \A s \in 1 .. n : p[s] = Section(d[s].id, RevPrefix(d[s].keys, UpTo(d, at, s)))
  BY <1>1 DEF IsPrinted
<1>3. k + 1 \in 1 .. Len(d[n].keys) /\ k + 1 \in DOMAIN d[n].keys
  BY <1>1
<1>4. /\ e \in KeyData /\ e.id \in Name /\ e.value \in Seq(Piece)
      /\ Key(e.id, e.value) = e /\ KeyId(e.id) = e.id
  <2>1. e \in KeyData
    BY <1>1, <1>3
  <2> HIDE DEF e
  <2>2. e.id \in LowerCase /\ e.value \in Seq(Piece) /\ Key(e.id, e.value) = e
    BY <2>1 DEF KeyData, Key
  <2> QED BY <2>1, <2>2 DEF LowerCase, KeyId
<1>5. e.id \notin Short /\ Len(Quote(e.value)) <= LineMax
  <2>1. n \in DOMAIN d
    BY DocsAre
  <2> QED BY <1>3, <2>1 DEF Plain
<1> HIDE DEF e
<1>6. item.kind = "key" /\ item.id = e.id /\ item.text = Quote(e.value) /\ item.nl
  BY DEF Line
<1>7. Whole(item) /\ Entry(item) /\ ~Heading(item)
  BY <1>5, <1>6 DEF Whole, Entry, Heading
<1>8. Unquote(item.text) = e.value
  BY <1>4, <1>6, UnquoteQuote
<1>9. q = [p EXCEPT ![n] = make_keydata(@, e.id, e.value)]
  BY <1>2, <1>6, <1>7, <1>8 DEF LoadLine
<1> HIDE DEF q
<1>10. n \in 1 .. Len(p)
  BY <1>1, <1>2
<1>11. /\ q \in Docs /\ Len(q) = n
       /\ q[n] = Section(p[n].id, <<Key(e.id, e.value)>> \o p[n].keys)
       /\ \A r \in 1 .. n : r # n => q[r] = p[r]
  <2>1. p \in Docs /\ e.id \in Name /\ e.value \in Seq(Piece)
    BY <1>2, <1>4
  <2>2. /\ q \in Docs /\ Len(q) = Len(p)
        /\ q[n] = Section(p[n].id, <<Key(e.id, e.value)>> \o p[n].keys)
        /\ \A r \in 1 .. Len(p) : r # n => q[r] = p[r]
    <3>1. HasKey(q, p, n, e.id, e.value)
      BY <1>9, <1>10, <2>1, KeyPut
    <3> QED BY <1>4, <3>1 DEF HasKey
  <2> QED BY <1>2, <2>2
<1>12. q[n] = Section(d[n].id, RevPrefix(d[n].keys, k + 1))
  <2>1. UpTo(d, at, n) = k
    BY <1>1 DEF UpTo
  <2>2. p[n] = Section(d[n].id, RevPrefix(d[n].keys, k))
    BY <1>2, <1>10, <2>1
  <2>3. p[n].id = d[n].id /\ p[n].keys = RevPrefix(d[n].keys, k)
    BY <2>2 DEF Section
  <2>4. <<e>> \o RevPrefix(d[n].keys, k) = RevPrefix(d[n].keys, k + 1)
    BY <1>1, RevPrefixMore DEF e
  <2> QED BY <1>4, <1>11, <2>3, <2>4
<1>13. ASSUME NEW s \in 1 .. n
       PROVE  q[s] = Section(d[s].id, RevPrefix(d[s].keys, UpTo(d, next, s)))
  <2>1. CASE s = n
    <3>1. UpTo(d, next, s) = k + 1
      BY <1>1, <2>1 DEF UpTo
    <3> QED BY <1>12, <2>1, <3>1
  <2>2. CASE s # n
    <3>1. s < n
      BY <1>1, <2>2
    <3>2. UpTo(d, next, s) = UpTo(d, at, s)
      BY <3>1 DEF UpTo
    <3> QED BY <1>2, <1>11, <2>2, <3>2
  <2> QED BY <2>1, <2>2
<1>14. next.section = n /\ next.section # 0
  BY <1>1
<1> HIDE DEF next
<1>15. IsPrinted(q, d, next)
  BY <1>11, <1>13, <1>14 DEF IsPrinted
<1> QED BY <1>15 DEF next, q, e

(* Before anything is printed. *)
LEMMA NothingPrinted ==
    ASSUME NEW d \in Docs
    PROVE  IsPrinted(EmptyRoot, d, Nothing)
<1>1. UpTo(d, Nothing, 1) = 0 /\ Nothing.section = 0
  BY DEF UpTo, Nothing
<1>2. d[1].id = Root /\ RevPrefix(d[1].keys, 0) = <<>>
  <2>1. 1 \in 1 .. Len(d)
    BY DocsAre
  <2>2. d[1].keys \in Seq(KeyData) /\ 0 \in 0 .. Len(d[1].keys)
    BY <2>1, DocsAre
  <2> QED BY <2>2, DocsAre, RevPrefixIs
<1>3. \A s \in 1 .. 1 : s = 1
  OBVIOUS
<1> QED BY <1>1, <1>2, <1>3, EmptyRootDoc DEF IsPrinted

(* What was printed is all from the document. *)
LEMMA PrintedIsFresh ==
    ASSUME NEW d \in Docs, NEW at, Reached(d, at), NEW p, IsPrinted(p, d, at)
    PROVE  Fresh(p, d)
<1>1. /\ Len(d) \in Nat /\ Len(d) >= 1 /\ at.section \in 0 .. Len(d) /\ at.key \in Nat
      /\ \A s \in 1 .. Len(d) : d[s].keys \in Seq(KeyData) /\ Len(d[s].keys) \in Nat
  BY DocsAre DEF Reached
<1>2. /\ p \in Docs /\ Len(p) \in Nat /\ DOMAIN p = 1 .. Len(p)
      /\ Len(p) = IF at.section = 0 THEN 1 ELSE at.section
      /\ \A s \in 1 .. Len(p) : p[s] = Section(d[s].id, RevPrefix(d[s].keys, UpTo(d, at, s)))
  BY DocsAre DEF IsPrinted
<1>3. Len(p) <= Len(d)
  BY <1>1, <1>2
<1>4. ASSUME NEW s \in 1 .. Len(p)
      PROVE  p[s].id = d[s].id /\ ToSet(p[s].keys) \subseteq ToSet(d[s].keys)
  <2>1. p[s].id = d[s].id /\ p[s].keys = RevPrefix(d[s].keys, UpTo(d, at, s))
    <3>1. p[s] = Section(d[s].id, RevPrefix(d[s].keys, UpTo(d, at, s)))
      BY <1>2
    <3>2. \A a, b : Section(a, b).id = a /\ Section(a, b).keys = b
      BY DEF Section
    <3> QED BY <3>1, <3>2
  <2>2. s \in 1 .. Len(d)
    BY <1>1, <1>2, <1>3
  <2>3. d[s].keys \in Seq(KeyData) /\ Len(d[s].keys) \in Nat
    BY <1>1, <2>2
  <2>4. UpTo(d, at, s) \in 0 .. Len(d[s].keys)
    <3>1. s = at.section => at.key \in 0 .. Len(d[s].keys)
      BY <1>1, <2>2, <2>3 DEF Reached
    <3> QED BY <1>1, <2>3, <3>1 DEF UpTo
  <2> DEFINE z == UpTo(d, at, s)
             keys == d[s].keys
  <2> HIDE DEF z, keys
  <2>5. /\ RevPrefix(keys, z) \in Seq(KeyData) /\ Len(RevPrefix(keys, z)) = z
        /\ \A i \in 1 .. z : RevPrefix(keys, z)[i] = keys[z - i + 1] /\ z - i + 1 \in 1 .. Len(keys)
    BY <2>3, <2>4, RevPrefixIs DEF z, keys
  <2>6. DOMAIN RevPrefix(keys, z) = 1 .. z /\ DOMAIN keys = 1 .. Len(keys)
    BY <2>3, <2>5 DEF keys
  <2>7. ToSet(RevPrefix(keys, z)) \subseteq ToSet(keys)
    BY <2>5, <2>6 DEF ToSet
  <2> QED BY <2>1, <2>7 DEF z, keys
<1> QED BY <1>2, <1>3, <1>4 DEF Fresh

(* A save that came to its end is the document with its keys reversed. *)
LEMMA AllPrinted ==
    ASSUME NEW d \in Docs, NEW n, n = Len(d), NEW k, k = Len(d[n].keys),
           NEW p, IsPrinted(p, d, [section |-> n, key |-> k])
    PROVE  p = Reversed(d)
<1> DEFINE at == [section |-> n, key |-> k]
<1>1. /\ n \in Nat /\ n >= 1 /\ DOMAIN d = 1 .. n
      /\ \A s \in 1 .. n : d[s].keys \in Seq(KeyData) /\ Len(d[s].keys) \in Nat
  BY DocsAre
<1>2. /\ p \in Docs /\ Len(p) = n
      /\ \A s \in 1 .. n : p[s] = Section(d[s].id, RevPrefix(d[s].keys, UpTo(d, at, s)))
  BY <1>1 DEF IsPrinted
<1>3. ASSUME NEW s \in 1 .. n PROVE p[s] = Section(d[s].id, Reverse(d[s].keys))
  <2>1. UpTo(d, at, s) = Len(d[s].keys)
    BY <1>1 DEF UpTo
  <2>2. RevPrefix(d[s].keys, Len(d[s].keys)) = Reverse(d[s].keys)
    BY DEF RevPrefix, Reverse
  <2> QED BY <1>2, <2>1, <2>2
<1>4. p = [s \in 1 .. n |-> p[s]]
  BY <1>2, DocsAre
<1> QED BY <1>1, <1>3, <1>4 DEF Reversed

-----------------------------------------------------------------------------
(* What a later load gives, for a file f. *)
Found(f) == IF f = NONE THEN EmptyRoot ELSE load_keyfile(f)

(* The document in memory, the file and where a save has come to. *)
KeyTypeOK == /\ doc \in Docs \cup {NONE}
             /\ file \in Seq(FileLine) \cup {NONE}
             /\ saving \in {"idle", "removed", "writing"}
             /\ printed \in [section : Nat, key : Nat]
             /\ target \in Docs
             /\ complete \in BOOLEAN
             /\ edits \in Nat

(* While a save is under way the file is meant to hold what is in memory... *)
SavingDoc == saving # "idle" => doc # NONE /\ target = doc /\ ~complete

(* Between remove() and fopen() there is no file. *)
RemovedGone == saving = "removed" => file = NONE

(* ... and holds exactly what was printed of it. *)
WritingPrinted ==
    saving = "writing" =>
        /\ file # NONE /\ Reached(doc, printed)
        /\ Plain(doc) => IsPrinted(Found(file), doc, printed)

(* The two properties of the run, in terms of Found. *)
CompleteComesBack == complete /\ Plain(target) => Found(file) = Reversed(target)

NothingElse == Plain(target) => Fresh(Found(file), target)

(* The inductive invariant: at every place of the loops of save_keyfile,      *)
(* loading the lines printed so far gives that much of the document, each     *)
(* section's keys in the opposite order.                                       *)
KeyIInv == /\ KeyTypeOK /\ SavingDoc /\ RemovedGone /\ WritingPrinted
           /\ CompleteComesBack /\ NothingElse

(* What a caller gets is what is found in the file. *)
LEMMA LoadedIsFound == LoadedFile = Found(file)
BY DEF LoadedFile, Found, EmptyRoot

(* It is a document. *)
LEMMA FoundDoc ==
    ASSUME NEW f \in Seq(FileLine) \cup {NONE}
    PROVE  Found(f) \in Docs
BY LoadDoc, EmptyRootDoc DEF Found

(* The run's two properties. *)
LEMMA KeyIInvSafe == KeyIInv => RoundTrip /\ NothingInvented
<1> SUFFICES ASSUME KeyIInv PROVE RoundTrip /\ NothingInvented
  OBVIOUS
<1>1. CompleteComesBack /\ NothingElse
  BY DEF KeyIInv
<1>2. RoundTrip
  <2>1. complete /\ Plain(target) => LoadedFile = Reversed(target)
    BY <1>1, LoadedIsFound DEF CompleteComesBack
  <2> QED BY <2>1 DEF RoundTrip
<1>3. NothingInvented
  BY <1>1, LoadedIsFound DEF NothingElse, NothingInvented, Fresh
<1> QED BY <1>2, <1>3

(* A torn line is a line without its end. *)
LEMMA TornLine ==
    ASSUME NEW item \in FileLine
    PROVE  Torn(item) \in FileLine /\ ~Torn(item).nl
<1>1. <<"torn">> \in Seq(Piece)
  BY DEF Piece
<1> DEFINE x == <<"torn">>
<1>2. Torn(item) = [item EXCEPT !.text = x, !.nl = FALSE]
  BY DEF Torn
<1>3. x \in Seq(Piece)
  BY <1>1
<1> HIDE DEF x
<1> QED BY <1>2, <1>3 DEF FileLine

(* A document is its own, with nothing else. *)
LEMMA FreshSelf == ASSUME NEW d \in Docs PROVE Fresh(d, d)
BY DocsAre DEF Fresh

(* Whatever file is there at the beginning. *)
LEMMA KeyInitHolds == KeyInit => KeyIInv
<1> SUFFICES ASSUME KeyInit PROVE KeyIInv
  OBVIOUS
<1>1. file \in Seq(FileLine) \cup {NONE}
  BY KeyAssumption DEF KeyInit
<1>2. target = Found(file) /\ target \in Docs
  BY <1>1, LoadedIsFound, FoundDoc DEF KeyInit
<1>3. printed \in [section : Nat, key : Nat]
  BY DEF KeyInit, Nothing
<1>4. Fresh(Found(file), target)
  BY <1>2, FreshSelf
<1> QED BY <1>1, <1>2, <1>3, <1>4
       DEF KeyInit, KeyIInv, KeyTypeOK, SavingDoc, RemovedGone, WritingPrinted, CompleteComesBack, NothingElse

(* A step that leaves the file, its meaning and the save alone. *)
LEMMA FileLeftAlone ==
    ASSUME KeyIInv, doc' \in Docs \cup {NONE}, saving = "idle", edits' \in Nat,
           UNCHANGED <<file, saving, printed, target, complete>>
    PROVE  KeyIInv'
BY DEF KeyIInv, KeyTypeOK, SavingDoc, RemovedGone, WritingPrinted, CompleteComesBack, NothingElse

(* Each call, and each step of a save, keeps the invariant. *)
LEMMA KeyNextHolds == KeyIInv /\ [KeyNext]_keyVars => KeyIInv'
<1> SUFFICES ASSUME KeyIInv, [KeyNext]_keyVars PROVE KeyIInv'
  OBVIOUS
<1>0. /\ doc \in Docs \cup {NONE} /\ file \in Seq(FileLine) \cup {NONE}
      /\ saving \in {"idle", "removed", "writing"} /\ printed \in [section : Nat, key : Nat]
      /\ target \in Docs /\ complete \in BOOLEAN /\ edits \in Nat
      /\ SavingDoc /\ RemovedGone /\ WritingPrinted /\ CompleteComesBack /\ NothingElse
  BY DEF KeyIInv, KeyTypeOK
<1>01. LoadedFile = Found(file) /\ Found(file) \in Docs
  BY <1>0, LoadedIsFound, FoundDoc
<1>1. CASE Load
  <2>1. saving = "idle" /\ doc' \in Docs
    BY <1>0, <1>01, <1>1 DEF Load, SavingDoc
  <2> QED BY <1>0, <1>1, <2>1, FileLeftAlone DEF Load
<1>2. ASSUME NEW sections \in Docs, Edit(sections) PROVE KeyIInv'
  <2>1. /\ saving = "idle" /\ doc' = sections /\ edits' = edits + 1
        /\ UNCHANGED <<file, saving, printed, target, complete>>
    BY <1>2 DEF Edit, Editing
  <2>2. edits' \in Nat /\ doc' \in Docs \cup {NONE}
    BY <1>0, <2>1
  <2> QED BY <2>1, <2>2, FileLeftAlone
<1>3. ASSUME NEW s \in 1 .. MaxSections, NEW id \in SectionNames, MakeSection(s, id) PROVE KeyIInv'
  <2>1. doc \in Docs /\ s \in DOMAIN doc /\ Edit(make_keysection(doc, s, id)) /\ id \in Name
    BY <1>0, <1>3, KeyAssumption DEF MakeSection, Editing
  <2>2. s \in 1 .. Len(doc)
    BY <2>1, DocsAre
  <2>3. make_keysection(doc, s, id) \in Docs
    BY <2>1, <2>2, SectionPut
  <2> QED BY <1>2, <2>1, <2>3
<1>4. ASSUME NEW s \in 1 .. MaxSections, NEW id \in KeyNames, NEW value \in Texts, MakeKey(s, id, value)
      PROVE  KeyIInv'
  <2> DEFINE e == [doc EXCEPT ![s] = make_keydata(@, id, value)]
  <2>1. doc \in Docs /\ s \in DOMAIN doc /\ Edit(e) /\ id \in Name /\ value \in Seq(Piece)
    BY <1>0, <1>4, KeyAssumption DEF MakeKey, Editing
  <2>2. s \in 1 .. Len(doc)
    BY <2>1, DocsAre
  <2>3. HasKey(e, doc, s, id, value)
    BY <2>1, <2>2, KeyPut
  <2>4. e \in Docs
    BY <2>3 DEF HasKey
  <2> HIDE DEF e
  <2> QED BY <1>2, <2>1, <2>4
<1>5. CASE AppendSections
  <2> DEFINE f == Found(file)
  <2>1. doc \in Docs /\ Edit(f \o doc) /\ f \in Docs
    BY <1>0, <1>01, <1>5 DEF AppendSections
  <2> HIDE DEF f
  <2>2. f \o doc \in Docs
    <3>1. f \in Seq(KeySection) /\ doc \in Seq(KeySection) /\ Len(f) >= 1 /\ f[1].id = Root
      BY <2>1, DocsAre
    <3>2. /\ f \o doc \in Seq(KeySection) /\ Len(f \o doc) = Len(f) + Len(doc)
          /\ Len(f) \in Nat /\ Len(doc) \in Nat
          /\ \A i \in 1 .. Len(f) : (f \o doc)[i] = f[i]
      BY <3>1, ConcatAt
    <3>3. Len(f \o doc) >= 1 /\ 1 \in 1 .. Len(f)
      BY <3>1, <3>2
    <3>4. (f \o doc)[1].id = Root
      BY <3>1, <3>2, <3>3
    <3> QED BY <3>2, <3>3, <3>4, IsDoc
  <2> QED BY <1>2, <2>1, <2>2
<1>6. CASE SaveRemove
  <2>1. /\ doc \in Docs /\ file' = NONE /\ saving' = "removed" /\ target' = doc /\ complete' = FALSE
        /\ UNCHANGED <<doc, printed, edits>> /\ doc # NONE
    BY <1>0, <1>6 DEF SaveRemove, Editing
  <2>2. Found(file') = EmptyRoot
    BY <2>1 DEF Found
  <2>3. Fresh(EmptyRoot, doc)
    <3>1. Reached(doc, Nothing)
      BY <2>1, DocsAre DEF Reached, Nothing
    <3> QED BY <2>1, <3>1, NothingPrinted, PrintedIsFresh
  <2> QED BY <1>0, <2>1, <2>2, <2>3
         DEF KeyIInv, KeyTypeOK, SavingDoc, RemovedGone, WritingPrinted, CompleteComesBack, NothingElse
<1>7. CASE SaveOpen
  <2>1. /\ saving = "removed" /\ doc # NONE /\ doc \in Docs /\ target = doc /\ ~complete /\ file = NONE
        /\ UNCHANGED <<doc, target, complete, edits>>
    BY <1>0, <1>7 DEF SaveOpen, SavingDoc, RemovedGone
  <2>2. Found(file) = EmptyRoot /\ Fresh(EmptyRoot, doc)
    <3>1. Reached(doc, Nothing)
      BY <2>1, DocsAre DEF Reached, Nothing
    <3> QED BY <2>1, <3>1, NothingPrinted, PrintedIsFresh DEF Found
  <2>3. CASE file' = <<>> /\ saving' = "writing" /\ printed' = Nothing
    <3>1. file' \in Seq(FileLine) /\ file' # NONE
      <4>1. <<>> \in Seq(FileLine)
        OBVIOUS
      <4>2. file' \in Seq(FileLine)
        BY <2>3, <4>1
      <4> QED BY <4>2, KeyAssumption
    <3>2. Found(file') = EmptyRoot
      BY <2>3, <3>1, LoadEmpty DEF Found
    <3>3. IsPrinted(EmptyRoot, doc, printed') /\ Reached(doc, printed')
      BY <2>1, <2>3, NothingPrinted, DocsAre DEF Reached, Nothing
    <3>4. printed' \in [section : Nat, key : Nat]
      BY <2>3 DEF Nothing
    <3> QED BY <1>0, <2>1, <2>2, <2>3, <3>1, <3>2, <3>3, <3>4
           DEF KeyIInv, KeyTypeOK, SavingDoc, RemovedGone, WritingPrinted, CompleteComesBack, NothingElse
  <2>4. CASE saving' = "idle" /\ UNCHANGED <<file, printed>>
    BY <1>0, <2>1, <2>4
       DEF KeyIInv, KeyTypeOK, SavingDoc, RemovedGone, WritingPrinted, CompleteComesBack, NothingElse
  <2> QED BY <1>7, <2>3, <2>4 DEF SaveOpen
<1>8. ASSUME saving = "writing"
      PROVE  /\ doc # NONE /\ doc \in Docs /\ target = doc /\ ~complete
             /\ file # NONE /\ file \in Seq(FileLine) /\ Found(file) = load_keyfile(file)
             /\ Reached(doc, printed) /\ printed.section \in Nat /\ printed.key \in Nat
             /\ printed = [section |-> printed.section, key |-> printed.key]
             /\ Plain(doc) => IsPrinted(load_keyfile(file), doc, printed)
  BY <1>0, <1>8 DEF SavingDoc, WritingPrinted, Found
<1>9. ASSUME saving = "writing", NEW item \in FileLine
      PROVE  /\ Append(file, item) \in Seq(FileLine) /\ Append(file, item) # NONE
             /\ Found(Append(file, item)) = LoadLine(load_keyfile(file), item)
  <2>1. Append(file, item) \in Seq(FileLine)
    BY <1>8, <1>9
  <2>2. Append(file, item) # NONE
    BY <2>1, KeyAssumption
  <2>3. load_keyfile(Append(file, item)) = LoadLine(load_keyfile(file), item)
    BY <1>8, <1>9, LoadAppend
  <2> QED BY <2>1, <2>2, <2>3 DEF Found
<1>10. ASSUME saving = "writing", AtKey
       PROVE  /\ KeyLine \in FileLine /\ Torn(KeyLine) \in FileLine /\ ~Torn(KeyLine).nl
              /\ printed.section \in 1 .. Len(doc)
              /\ printed.key \in 0 .. Len(doc[printed.section].keys) - 1
  <2> DEFINE key == doc[printed.section].keys[printed.key + 1]
  <2>1. printed.section \in 1 .. Len(doc) /\ Len(doc) \in Nat
    BY <1>8, <1>10, DocsAre DEF AtKey, Reached
  <2>2. doc[printed.section].keys \in Seq(KeyData) /\ Len(doc[printed.section].keys) \in Nat
    BY <1>8, <1>10, <2>1, DocsAre
  <2>3. /\ printed.key \in 0 .. Len(doc[printed.section].keys) - 1
        /\ printed.key + 1 \in 1 .. Len(doc[printed.section].keys)
    BY <1>8, <1>10, <2>2 DEF AtKey
  <2>4. key \in KeyData
    BY <2>2, <2>3
  <2>5. KeyLine = Line("key", key.id, Quote(key.value))
    BY DEF KeyLine
  <2> HIDE DEF key
  <2>6. key.id \in Name /\ Quote(key.value) \in Seq(Piece)
    BY <2>4, UnquoteQuote DEF KeyData, LowerCase
  <2>7. KeyLine \in FileLine
    BY <2>5, <2>6 DEF Line, FileLine
  <2>8. Torn(KeyLine) \in FileLine /\ ~Torn(KeyLine).nl
    BY <2>7, TornLine
  <2> QED BY <2>1, <2>3, <2>7, <2>8
<1>11. ASSUME saving = "writing", AtHeading
       PROVE  /\ HeadingLine \in FileLine /\ Torn(HeadingLine) \in FileLine /\ ~Torn(HeadingLine).nl
              /\ printed.section \in 0 .. Len(doc) - 1
              /\ printed.section = 0 => printed.key = 0
              /\ printed.section > 0 => printed.key = Len(doc[printed.section].keys)
  <2>1. /\ printed.section \in 0 .. Len(doc) - 1 /\ Len(doc) \in Nat
        /\ printed.section + 1 \in 1 .. Len(doc)
        /\ printed.section = 0 => printed.key = 0
    BY <1>8, <1>11, DocsAre DEF AtHeading, Reached
  <2>2. printed.section > 0 => printed.key = Len(doc[printed.section].keys)
    <3>1. ASSUME printed.section > 0 PROVE Len(doc[printed.section].keys) \in Nat
      <4>1. printed.section \in 1 .. Len(doc)
        BY <2>1, <3>1
      <4> QED BY <1>8, <1>11, <4>1, DocsAre
    <3> QED BY <1>8, <1>11, <3>1 DEF AtHeading, AtKey, Reached
  <2>3. doc[printed.section + 1].id \in Name /\ <<>> \in Seq(Piece)
    BY <1>8, <1>11, <2>1, DocsAre
  <2>4. HeadingLine \in FileLine
    BY <2>3 DEF HeadingLine, Line, FileLine
  <2>5. Torn(HeadingLine) \in FileLine /\ ~Torn(HeadingLine).nl
    BY <2>4, TornLine
  <2> QED BY <2>1, <2>2, <2>4, <2>5
<1>12. CASE SavePrint
  <2>1. saving = "writing" /\ UNCHANGED <<doc, saving, target, complete, edits>>
    BY <1>12 DEF SavePrint
  <2>2. ASSUME file' \in Seq(FileLine), file' # NONE, printed' \in [section : Nat, key : Nat],
               Reached(doc, printed'), Plain(doc) => IsPrinted(Found(file'), doc, printed')
        PROVE  KeyIInv'
    <3>1. Plain(doc) => Fresh(Found(file'), doc)
      BY <1>8, <2>1, <2>2, PrintedIsFresh
    <3> QED BY <1>0, <1>8, <2>1, <2>2, <3>1
           DEF KeyIInv, KeyTypeOK, SavingDoc, RemovedGone, WritingPrinted, CompleteComesBack, NothingElse
  <2>3. CASE AtKey /\ file' = Append(file, KeyLine) /\ printed' = [printed EXCEPT !.key = @ + 1]
    <3> DEFINE n == printed.section
               k == printed.key
    <3>1. /\ n \in 1 .. Len(doc) /\ k \in 0 .. Len(doc[n].keys) - 1 /\ n \in Nat /\ k \in Nat
          /\ printed = [section |-> n, key |-> k] /\ printed' = [section |-> n, key |-> k + 1]
      BY <1>8, <1>10, <2>1, <2>3
    <3>2. file' \in Seq(FileLine) /\ file' # NONE /\ Found(file') = LoadLine(load_keyfile(file), KeyLine)
      BY <1>9, <1>10, <2>1, <2>3
    <3>3. KeyLine = Line("key", doc[n].keys[k + 1].id, Quote(doc[n].keys[k + 1].value))
      BY DEF KeyLine
    <3>4. Len(doc) \in Nat /\ Len(doc[n].keys) \in Nat
      BY <1>8, <2>1, <3>1, DocsAre
    <3> HIDE DEF n, k
    <3>5. Plain(doc) => IsPrinted(Found(file'), doc, printed')
      BY <1>8, <2>1, <3>1, <3>2, <3>3, KeyStep
    <3>6. Reached(doc, printed') /\ printed' \in [section : Nat, key : Nat]
      BY <3>1, <3>4 DEF Reached
    <3> QED BY <2>2, <3>2, <3>5, <3>6
  <2>4. CASE AtHeading /\ file' = Append(file, HeadingLine)
             /\ printed' = [section |-> printed.section + 1, key |-> 0]
    <3> DEFINE n == printed.section
               k == printed.key
    <3>1. /\ n \in 0 .. Len(doc) - 1 /\ n \in Nat /\ k \in Nat
          /\ n = 0 => k = 0
          /\ n > 0 => k = Len(doc[n].keys)
          /\ printed = [section |-> n, key |-> k] /\ printed' = [section |-> n + 1, key |-> 0]
      BY <1>8, <1>11, <2>1, <2>4
    <3>2. file' \in Seq(FileLine) /\ file' # NONE /\ Found(file') = LoadLine(load_keyfile(file), HeadingLine)
      BY <1>9, <1>11, <2>1, <2>4
    <3>3. HeadingLine = Line("section", doc[n + 1].id, <<>>)
      BY DEF HeadingLine
    <3>4. Len(doc) \in Nat /\ n + 1 \in 1 .. Len(doc)
      BY <1>8, <2>1, <3>1, DocsAre
    <3>5. Len(doc[n + 1].keys) \in Nat
      BY <1>8, <2>1, <3>4, DocsAre
    <3> HIDE DEF n, k
    <3>6. Plain(doc) => IsPrinted(Found(file'), doc, printed')
      BY <1>8, <2>1, <3>1, <3>2, <3>3, HeadingStep
    <3>7. Reached(doc, printed') /\ printed' \in [section : Nat, key : Nat]
      BY <3>1, <3>4, <3>5 DEF Reached
    <3> QED BY <2>2, <3>2, <3>6, <3>7
  <2> QED BY <1>12, <2>3, <2>4 DEF SavePrint
<1>17. ASSUME TailLost
       PROVE  /\ file' \in Seq(FileLine) \cup {NONE} /\ Found(file') = Found(file)
  <2>1. ASSUME saving = "writing", NEW item \in FileLine, ~item.nl, file' = Append(file, item)
        PROVE  file' \in Seq(FileLine) /\ Found(file') = Found(file)
    <3>1. LoadLine(load_keyfile(file), item) = load_keyfile(file)
      BY <2>1 DEF LoadLine, Whole
    <3> QED BY <1>8, <1>9, <2>1, <3>1
  <2>2. CASE UNCHANGED file
    BY <1>0, <2>2
  <2>3. CASE saving = "writing" /\ AtKey /\ file' = Append(file, Torn(KeyLine))
    BY <1>10, <2>1, <2>3
  <2>4. CASE saving = "writing" /\ AtHeading /\ file' = Append(file, Torn(HeadingLine))
    BY <1>11, <2>1, <2>4
  <2> QED BY <1>17, <2>2, <2>3, <2>4 DEF TailLost
<1>13. CASE SaveClose
  <2>1. /\ saving = "writing" /\ saving' = "idle" /\ printed' = Nothing
        /\ complete' = ~(AtKey \/ AtHeading) /\ UNCHANGED <<doc, target, edits>>
        /\ file' \in Seq(FileLine) \cup {NONE} /\ Found(file') = Found(file)
    BY <1>13, <1>17 DEF SaveClose
  <2>2. printed' \in [section : Nat, key : Nat] /\ complete' \in BOOLEAN
    BY <2>1 DEF Nothing
  <2>3. ASSUME complete', Plain(target) PROVE Found(file) = Reversed(target)
    <3>1. ~AtKey /\ ~AtHeading
      BY <2>1, <2>3
    <3>2. Len(doc) \in Nat /\ Len(doc) >= 1
      BY <1>8, <2>1, DocsAre
    <3>3. printed.section = Len(doc)
      BY <1>8, <2>1, <3>1, <3>2 DEF AtHeading, Reached
    <3>4. Len(doc[printed.section].keys) \in Nat
      BY <1>8, <2>1, <3>2, <3>3, DocsAre
    <3>5. printed.key = Len(doc[printed.section].keys)
      BY <1>8, <2>1, <3>1, <3>2, <3>3, <3>4 DEF AtKey, Reached
    <3>6. load_keyfile(file) = Reversed(doc)
      BY <1>8, <2>1, <2>3, <3>3, <3>5, AllPrinted
    <3> QED BY <1>8, <2>1, <3>6
  <2> QED BY <1>0, <1>8, <2>1, <2>2, <2>3
         DEF KeyIInv, KeyTypeOK, SavingDoc, RemovedGone, WritingPrinted, CompleteComesBack, NothingElse
<1>14. CASE FreeDoc
  BY <1>0, <1>14, FileLeftAlone DEF FreeDoc, Editing
<1>15. CASE Crash
  <2>1. /\ doc' = NONE /\ saving' = "idle" /\ printed' = Nothing /\ UNCHANGED <<target, complete, edits>>
    BY <1>15 DEF Crash
  <2>2. printed' \in [section : Nat, key : Nat]
    BY <2>1 DEF Nothing
  <2>4. file' \in Seq(FileLine) \cup {NONE} /\ Found(file') = Found(file)
    BY <1>15, <1>17 DEF Crash
  <2> QED BY <1>0, <2>1, <2>2, <2>4
         DEF KeyIInv, KeyTypeOK, SavingDoc, RemovedGone, WritingPrinted, CompleteComesBack, NothingElse
<1>16. CASE UNCHANGED keyVars
  BY <1>0, <1>16
     DEF keyVars, KeyIInv, KeyTypeOK, SavingDoc, RemovedGone, WritingPrinted, CompleteComesBack, NothingElse
<1> QED BY <1>1, <1>3, <1>4, <1>5, <1>6, <1>7, <1>12, <1>13, <1>14, <1>15, <1>16 DEF KeyNext

(* Of a document the file format can hold (Plain: names of two characters and  *)
(* more, values that fit into a line), a save that came to its end comes back, *)
(* and one that was stopped anywhere leaves nothing but what it was given.     *)
THEOREM KeySafety == KeySpec => [](KeyTypeOK /\ RoundTrip /\ NothingInvented)
<1>1. KeySpec => []KeyIInv
  BY KeyInitHolds, KeyNextHolds, PTL DEF KeySpec
<1>2. KeyIInv => KeyTypeOK /\ RoundTrip /\ NothingInvented
  BY KeyIInvSafe DEF KeyIInv
<1> QED BY <1>1, <1>2, PTL

-----------------------------------------------------------------------------
(****************************************************************************)
(* The line reader: any sequence of bytes from the peer.                    *)
(****************************************************************************)

(* The line being read and the terminal's line. *)
LineTypeOK == /\ echo \in BOOLEAN /\ cr \in BOOLEAN
              /\ typed \in Seq(Printable)
              /\ shown \in Seq(Printable) /\ cursor \in 0 .. Len(shown)
              /\ result \in {"none", "line", "error"}

(* As long as it runs there is room for a character and the NUL. *)
RoomWhileRunning == result = "none" => Len(typed) < LineSize - 1

(* The inductive invariant. *)
LineIInv == LineTypeOK /\ RoomWhileRunning /\ EchoIsLine

(* A terminal that is sent one byte. *)
LEMMA EchoOne ==
    ASSUME NEW c, NEW s, s = <<c>>, echo, Echoed(s)
    PROVE  LET t == Terminal([line |-> shown, cursor |-> cursor], c)
           IN  shown' = t.line /\ cursor' = t.cursor
<1> DEFINE o == [line |-> shown, cursor |-> cursor]
           f == [n \in 0 .. 1 |-> IF n = 0 THEN o ELSE Terminal(o, c)]
           g == CHOOSE h : h = [n \in 0 .. 1 |-> IF n = 0 THEN o ELSE Terminal(h[n - 1], s[n])]
<1>1. Len(s) = 1 /\ s[1] = c
  OBVIOUS
<1>2. shown' = g[1].line /\ cursor' = g[1].cursor
  BY <1>1 DEF Echoed
<1>3. f = [n \in 0 .. 1 |-> IF n = 0 THEN o ELSE Terminal(f[n - 1], s[n])]
  <2>1. f[0] = o
    OBVIOUS
  <2>2. \A n \in 0 .. 1 : n # 0 => n = 1
    OBVIOUS
  <2> HIDE DEF o
  <2> QED BY <1>1, <2>1, <2>2
<1> HIDE DEF f, o
<1>4. g = [n \in 0 .. 1 |-> IF n = 0 THEN o ELSE Terminal(g[n - 1], s[n])]
  BY <1>3
<1> HIDE DEF g
<1>5. g[0] = o
  BY <1>4
<1>6. g[1] = Terminal(g[0], s[1])
  <2>1. 1 \in 0 .. 1 /\ 1 - 1 = 0 /\ 1 # 0
    OBVIOUS
  <2>2. g[1] = Terminal(g[1 - 1], s[1])
    BY <1>4, <2>1
  <2> QED BY <2>1, <2>2
<1> QED BY <1>1, <1>2, <1>5, <1>6 DEF o

(* What is sent to rub out a character is one backspace. *)
LEMMA EraseIs == Erase = <<"backspace">>
<1> DEFINE s == <<"backspace", " ", "backspace">>
<1>1. Len(s) = 3 /\ s[1] = "backspace"
  OBVIOUS
<1>2. cpr_strlen(s, 0) = 1
  BY <1>1 DEF cpr_strlen, Lesser
<1>3. Erase = SubSeq(s, 1, 1)
  BY <1>2 DEF Erase, cpr_putline, FirstN
<1>4. SubSeq(s, 1, 1) = <<"backspace">>
  <2> DEFINE v == SubSeq(s, 1, 1)
             x == <<"backspace">>
             S == {"backspace", " "}
  <2>1. s \in Seq(S) /\ 1 \in 0 .. Len(s)
    OBVIOUS
  <2>2. x \in Seq(S) /\ Len(x) = 1 /\ x[1] = s[1]
    OBVIOUS
  <2> HIDE DEF s, S, x
  <2>3. v \in Seq(S) /\ Len(v) = 1 /\ \A i \in 1 .. 1 : v[i] = s[i]
    BY <2>1, FirstPart
  <2> HIDE DEF v
  <2>4. v = x
    BY <2>2, <2>3, SeqEqual
  <2> QED BY <2>4 DEF v, x
<1> QED BY <1>3, <1>4

(* A byte written over a line at the cursor. *)
Overwrite(s, n, c) == SubSeq(s, 1, n) \o <<c>> \o SubSeq(s, n + 2, Len(s))

(* It is kept, behind what was left of the cursor. *)
IsOverwritten(S, s, n, c, w) == /\ w \in Seq(S) /\ n + 1 \in 0 .. Len(w)
                                /\ SubSeq(w, 1, n + 1) = Append(SubSeq(s, 1, n), c)

(* Writing over the line does that. *)
LEMMA Overwritten ==
    ASSUME NEW S, NEW s \in Seq(S), NEW n \in 0 .. Len(s), NEW c \in S
    PROVE  IsOverwritten(S, s, n, c, Overwrite(s, n, c))
<1> DEFINE w == Overwrite(s, n, c)
           k == n + 1
           a == SubSeq(s, 1, n)
           b == SubSeq(s, n + 2, Len(s))
           u == a \o <<c>>
           v == SubSeq(w, 1, k)
           x == Append(a, c)
<1>1. Len(s) \in Nat /\ n \in Nat /\ n + 2 \in Int /\ \A i \in n + 2 .. Len(s) : s[i] \in S
  OBVIOUS
<1>2. a \in Seq(S) /\ Len(a) = n
  BY FirstPart
<1>3. b \in Seq(S) /\ Len(b) \in Nat
  <2>1. b \in Seq(S)
    BY <1>1, SubSeqProperties
  <2> QED BY <2>1
<1>5. w = u \o b
  BY DEF Overwrite
<1> HIDE DEF a, b, w
<1>6. u \in Seq(S) /\ Len(u) = Len(a) + 1 /\ u[Len(a) + 1] = c /\ \A i \in 1 .. Len(a) : u[i] = a[i]
  <2>1. a \in Seq(S) /\ c \in S
    BY <1>2
  <2>2. u = x
    BY <2>1, AppendIsConcat
  <2> HIDE DEF u
  <2> QED BY <2>1, <2>2, AppendProperties
<1> HIDE DEF u
<1>7. /\ u \o b \in Seq(S) /\ Len(u \o b) = Len(u) + Len(b)
      /\ \A i \in 1 .. Len(u) : (u \o b)[i] = u[i]
  <2>1. u \in Seq(S) /\ b \in Seq(S)
    BY <1>3, <1>6
  <2> QED BY <2>1, ConcatAt
<1>8. /\ w \in Seq(S) /\ Len(w) = Len(u) + Len(b)
      /\ \A i \in 1 .. Len(u) : w[i] = u[i]
  BY <1>5, <1>7
<1>9. n + 1 \in 0 .. Len(w) /\ \A i \in 1 .. n + 1 : w[i] = u[i]
  BY <1>1, <1>2, <1>3, <1>6, <1>8
<1>10. v \in Seq(S) /\ Len(v) = n + 1 /\ \A i \in 1 .. n + 1 : v[i] = w[i]
  <2>1. w \in Seq(S) /\ k \in 0 .. Len(w)
    BY <1>8, <1>9
  <2> HIDE DEF k
  <2>2. v \in Seq(S) /\ Len(v) = k /\ \A i \in 1 .. k : v[i] = w[i]
    BY <2>1, FirstPart
  <2> QED BY <2>2 DEF k
<1>11. /\ x \in Seq(S) /\ Len(x) = n + 1 /\ x[n + 1] = c
       /\ \A i \in 1 .. n : x[i] = a[i]
  BY <1>2, AppendProperties
<1> HIDE DEF v, x
<1>12. \A i \in 1 .. n + 1 : v[i] = x[i]
  <2>1. \A i \in 1 .. n + 1 : i = n + 1 \/ i \in 1 .. n
    BY <1>1
  <2> QED BY <1>2, <1>6, <1>9, <1>10, <1>11, <2>1
<1>13. v = x
  BY <1>10, <1>11, <1>12, SeqEqual
<1> QED BY <1>8, <1>9, <1>13 DEF v, x, a, w, IsOverwritten

(* The beginning of a call. *)
LEMMA LineInitHolds == LineInit => LineIInv
<1> SUFFICES ASSUME LineInit PROVE LineIInv
  OBVIOUS
<1>1. <<>> \in Seq(Printable) /\ Len(<<>>) = 0 /\ SubSeq(<<>>, 1, 0) = <<>>
  BY SubSeqEmpty
<1>2. /\ Len(typed) < LineSize - 1 /\ Len(typed) < LineSize /\ cursor = Len(typed)
      /\ SubSeq(shown, 1, cursor) = typed /\ cursor \in 0 .. Len(shown)
  BY <1>1, LineAssumption DEF LineInit
<1> QED BY <1>1, <1>2 DEF LineInit, LineIInv, LineTypeOK, RoomWhileRunning, EchoIsLine

(* Each byte the peer sends keeps the invariant. *)
LEMMA LineNextHolds == LineIInv /\ [LineNext]_lineVars => LineIInv'
<1> SUFFICES ASSUME LineIInv, [LineNext]_lineVars PROVE LineIInv'
  OBVIOUS
<1>0. /\ LineSize \in Nat /\ "backspace" \notin Printable
      /\ echo \in BOOLEAN /\ cr \in BOOLEAN /\ typed \in Seq(Printable) /\ Len(typed) \in Nat
      /\ shown \in Seq(Printable) /\ cursor \in 0 .. Len(shown) /\ Len(shown) \in Nat
      /\ result \in {"none", "line", "error"} /\ RoomWhileRunning
      /\ Len(typed) < LineSize
      /\ echo => cursor = Len(typed) /\ SubSeq(shown, 1, cursor) = typed
  BY LineAssumption DEF LineIInv, LineTypeOK, EchoIsLine
<1>1. ASSUME NEW c \in Printable, Character(c) PROVE LineIInv'
  <2>1. /\ result = "none" /\ typed' = Append(typed, c) /\ cr' = FALSE /\ Echoed(<<c>>) /\ echo' = echo
        /\ IF Len(typed) + 1 < LineSize - 1 THEN result' = result ELSE result' = "line"
    BY <1>1 DEF Character, Running, Continues, Ends
  <2>2. typed' \in Seq(Printable) /\ Len(typed') = Len(typed) + 1
    BY <1>0, <2>1, AppendProperties
  <2>3. Len(typed') < LineSize /\ RoomWhileRunning' /\ result' \in {"none", "line", "error"}
    BY <1>0, <2>1, <2>2 DEF RoomWhileRunning
  <2>4. CASE echo
    <3> DEFINE t == Terminal([line |-> shown, cursor |-> cursor], c)
               w == Overwrite(shown, cursor, c)
    <3>1. shown' = t.line /\ cursor' = t.cursor
      BY <2>1, <2>4, EchoOne
    <3>2. t = [line |-> w, cursor |-> cursor + 1]
      BY <1>0 DEF Terminal, Overwrite
    <3> HIDE DEF t, w
    <3>3. shown' = w /\ cursor' = cursor + 1
      BY <3>1, <3>2
    <3>4. /\ w \in Seq(Printable) /\ cursor + 1 \in 0 .. Len(w)
          /\ SubSeq(w, 1, cursor + 1) = Append(SubSeq(shown, 1, cursor), c)
      <4>1. shown \in Seq(Printable) /\ cursor \in 0 .. Len(shown)
        BY <1>0
      <4>2. IsOverwritten(Printable, shown, cursor, c, Overwrite(shown, cursor, c))
        BY <4>1, Overwritten
      <4> QED BY <4>2 DEF w, IsOverwritten
    <3>5. SubSeq(shown', 1, cursor') = typed' /\ cursor' = Len(typed')
      BY <1>0, <2>1, <2>2, <2>4, <3>3, <3>4
    <3> QED BY <1>0, <2>1, <2>2, <2>3, <3>3, <3>4, <3>5 DEF LineIInv, LineTypeOK, EchoIsLine
  <2>5. CASE ~echo
    BY <1>0, <2>1, <2>2, <2>3, <2>5 DEF Echoed, LineIInv, LineTypeOK, EchoIsLine
  <2> QED BY <2>4, <2>5
<1>2. CASE Backspace /\ typed # <<>>
  <2>1. /\ result' = result /\ typed' = Front(typed) /\ Echoed(Erase) /\ cr' = FALSE /\ echo' = echo
    BY <1>2 DEF Backspace
  <2> DEFINE n == Len(typed) - 1
  <2>2. n \in 0 .. Len(typed) /\ n \in Nat /\ n + 1 = Len(typed)
    BY <1>0, <1>2
  <2>3. typed' = SubSeq(typed, 1, n)
    BY <2>1 DEF Front
  <2>4. typed' \in Seq(Printable) /\ Len(typed') = n /\ \A i \in 1 .. n : typed'[i] = typed[i]
    BY <1>0, <2>2, <2>3, FirstPart
  <2> HIDE DEF n
  <2>5. Len(typed') < LineSize /\ RoomWhileRunning'
    <3>1. result = "none"
      BY <1>2 DEF Backspace, Running
    <3>2. Len(typed) < LineSize - 1
      BY <1>0, <3>1 DEF RoomWhileRunning
    <3>3. Len(typed') < LineSize - 1 /\ Len(typed') < LineSize
      <4>1. LineSize \in Nat /\ Len(typed) \in Nat
        BY <1>0
      <4>2. Len(typed') = n
        BY <2>4
      <4> QED BY <4>1, <4>2, <2>2, <3>2
    <3> QED BY <3>3 DEF RoomWhileRunning
  <2>6. CASE echo
    <3> DEFINE t == Terminal([line |-> shown, cursor |-> cursor], "backspace")
    <3>1. shown' = t.line /\ cursor' = t.cursor
      BY <2>1, <2>6, EchoOne, EraseIs
    <3>2. t = [line |-> shown, cursor |-> IF cursor > 0 THEN cursor - 1 ELSE 0]
      BY DEF Terminal
    <3> HIDE DEF t
    <3>3. shown' = shown /\ cursor' = n /\ cursor = n + 1 /\ n \in 0 .. Len(shown)
      BY <1>0, <2>2, <2>6, <3>1, <3>2
    <3> DEFINE a == SubSeq(shown, 1, n)
    <3>4. a \in Seq(Printable) /\ Len(a) = n /\ \A i \in 1 .. n : a[i] = shown[i]
      BY <1>0, <3>3, FirstPart
    <3>5. \A i \in 1 .. n + 1 : SubSeq(shown, 1, n + 1)[i] = shown[i]
      BY <1>0, <3>3, FirstPart
    <3>6. SubSeq(shown, 1, n + 1) = typed
      BY <1>0, <2>6, <3>3
    <3>7. \A i \in 1 .. n : i \in 1 .. n + 1
      BY <2>2
    <3>8. \A i \in 1 .. n : a[i] = typed'[i]
      BY <2>4, <3>4, <3>5, <3>6, <3>7
    <3> HIDE DEF a
    <3>9. a = typed'
      BY <2>4, <3>4, <3>8, SeqEqual
    <3>10. SubSeq(shown', 1, cursor') = typed' /\ cursor' = Len(typed')
      BY <2>4, <3>3, <3>9 DEF a
    <3> QED BY <1>0, <2>1, <2>4, <2>5, <3>3, <3>10 DEF LineIInv, LineTypeOK, EchoIsLine
  <2>7. CASE ~echo
    BY <1>0, <2>1, <2>4, <2>5, <2>7 DEF Echoed, LineIInv, LineTypeOK, EchoIsLine
  <2> QED BY <2>6, <2>7
<1>3. CASE UNCHANGED <<echo, typed, shown, cursor>> /\ cr' \in BOOLEAN
           /\ result' \in {result, "line", "error"}
  BY <1>0, <1>3 DEF LineIInv, LineTypeOK, RoomWhileRunning, EchoIsLine
<1>4. ASSUME NEW code \in {"lf", "cr"}, EndOfLine(code) PROVE LineIInv'
  BY <1>0, <1>3, <1>4 DEF EndOfLine, Ends
<1>5. CASE CarriageReturn
  BY <1>3, <1>5 DEF CarriageReturn
<1>6. CASE Backspace /\ typed = <<>>
  BY <1>3, <1>6 DEF Backspace
<1>7. CASE OtherControl
  BY <1>3, <1>7 DEF OtherControl
<1>8. CASE Fails
  BY <1>0, <1>3, <1>8 DEF Fails, Ends
<1>9. CASE UNCHANGED lineVars
  BY <1>0, <1>3, <1>9 DEF lineVars
<1> QED BY <1>1, <1>2, <1>4, <1>5, <1>6, <1>7, <1>8, <1>9 DEF LineNext

(* The line fits, and the peer sees it left of the cursor. *)
THEOREM LineSafety == LineSpec => [](LineTypeOK /\ EchoIsLine)
<1>1. LineSpec => []LineIInv
  BY LineInitHolds, LineNextHolds, PTL DEF LineSpec
<1>2. LineIInv => LineTypeOK /\ EchoIsLine
  BY DEF LineIInv
<1> QED BY <1>1, <1>2, PTL

-----------------------------------------------------------------------------
(****************************************************************************)
(* Strings: any sizes, texts and numbers, and whatever malloc leaves.       *)
(****************************************************************************)

(* A C string: no NUL among its characters. *)
IsText(t) == t \in Seq(Letter) /\ \A i \in 1 .. Len(t) : t[i] # NUL

(* Memory that begins with the text t and its NUL. *)
Holds(mem, t) == /\ Len(t) < Len(mem)
                 /\ \A i \in 1 .. Len(t) : mem[i] = t[i]
                 /\ mem[Len(t) + 1] = NUL

(* The bytes, their number and the text. *)
StringTypeOK == /\ size \in Nat /\ used \in Nat
                /\ data \in Seq(Letter) /\ Len(data) = size
                /\ IsText(text)
                /\ filled \in BOOLEAN /\ outside \in BOOLEAN

(* Before any call has given the string a text there is none. *)
NotYet == /\ size = 0 => ~filled /\ ~outside
          /\ ~filled => used = 0 /\ text = <<>>

(* What StringHoldsText says, byte by byte. *)
FilledHolds == filled /\ ~outside => used = Len(text) /\ Holds(data, text)
BehindForACause == outside => size = 1 \/ Len(text) >= size

(* The inductive invariant. *)
StringIInv == StringTypeOK /\ NotYet /\ FilledHolds /\ BehindForACause

(* new is old with the characters of s from at on, as far as it goes. *)
WrittenAt(old, at, s, new) ==
    /\ new \in Seq(Letter) /\ Len(new) = Len(old)
    /\ \A i \in 1 .. Len(old) : i < at => new[i] = old[i]
    /\ \A i \in 1 .. Len(s) : at + i - 1 <= Len(old) => new[at + i - 1] = s[i]
    /\ \A i \in 1 .. Len(old) : i >= at + Len(s) => new[i] = old[i]

(* Store does that. *)
LEMMA StoreWrites ==
    ASSUME NEW old \in Seq(Letter), NEW at \in Nat \ {0}, NEW s \in Seq(Letter)
    PROVE  WrittenAt(old, at, s, Store(old, at, s))
<1> DEFINE n == Len(old)
           new == Store(old, at, s)
<1>1. n \in Nat /\ DOMAIN old = 1 .. n /\ Len(s) \in Nat /\ DOMAIN s = 1 .. Len(s)
      /\ at \in Nat /\ at # 0
  OBVIOUS
<1>2. new = [i \in 1 .. n |-> IF i - at + 1 \in 1 .. Len(s) THEN s[i - at + 1] ELSE old[i]]
  BY <1>1 DEF Store
<1>3. \A i \in 1 .. n : (IF i - at + 1 \in 1 .. Len(s) THEN s[i - at + 1] ELSE old[i]) \in Letter
  BY <1>1
<1> HIDE DEF n, new
<1>4. new \in [1 .. n -> Letter]
  BY <1>2, <1>3
<1>5. new \in Seq(Letter) /\ Len(new) = n
  BY <1>1, <1>4
<1>6. ASSUME NEW i \in 1 .. n, i < at PROVE new[i] = old[i]
  <2>1. i - at + 1 \notin 1 .. Len(s)
    BY <1>1, <1>6
  <2> QED BY <1>2, <2>1
<1>7. ASSUME NEW i \in 1 .. Len(s), at + i - 1 <= n PROVE new[at + i - 1] = s[i]
  <2> DEFINE k == at + i - 1
  <2>1. k \in 1 .. n /\ k - at + 1 = i
    BY <1>1, <1>7
  <2> HIDE DEF k
  <2>2. new[k] = s[i]
    BY <1>2, <2>1
  <2> QED BY <2>2 DEF k
<1>8. ASSUME NEW i \in 1 .. n, i >= at + Len(s) PROVE new[i] = old[i]
  <2>1. i - at + 1 \notin 1 .. Len(s)
    BY <1>1, <1>8
  <2> QED BY <1>2, <2>1
<1> QED BY <1>5, <1>6, <1>7, <1>8 DEF WrittenAt, n, new

(* The first characters of a text, with a NUL behind them. *)
Ended(val, len, s) == /\ s \in Seq(Letter) /\ Len(s) = len + 1 /\ s[len + 1] = NUL
                      /\ \A i \in 1 .. len : s[i] = val[i]

(* That is what the calls write. *)
LEMMA EndedIs ==
    ASSUME NEW val \in Seq(Letter), NEW len \in 0 .. Len(val)
    PROVE  Ended(val, len, FirstN(val, len) \o <<NUL>>)
<1> DEFINE a == SubSeq(val, 1, len)
<1>1. a \in Seq(Letter) /\ Len(a) = len /\ \A i \in 1 .. len : a[i] = val[i]
  BY FirstPart
<1>2. a \in Seq(Letter) /\ NUL \in Letter
  BY <1>1 DEF Letter
<1> HIDE DEF a
<1> DEFINE x == Append(a, NUL)
<1>3. a \o <<NUL>> = x
  BY <1>2, AppendIsConcat
<1>4. /\ x \in Seq(Letter) /\ Len(x) = Len(a) + 1 /\ x[Len(a) + 1] = NUL
      /\ \A i \in 1 .. Len(a) : x[i] = a[i]
  BY <1>2, AppendProperties
<1> HIDE DEF x
<1>5. Ended(val, len, x)
  BY <1>1, <1>4 DEF Ended
<1> QED BY <1>3, <1>5 DEF a, FirstN

(* want is what old begins with up to at, and then len characters of val. *)
Fits(old, at, val, len, want) ==
    /\ Len(want) = at - 1 + len
    /\ \A i \in 1 .. at - 1 : want[i] = old[i]
    /\ \A i \in 1 .. len : want[at - 1 + i] = val[i]

(* Writing them with their NUL leaves want in the memory. *)
LEMMA WriteHolds ==
    ASSUME NEW old \in Seq(Letter), NEW at \in Nat \ {0}, NEW val, NEW len \in Nat,
           NEW want \in Seq(Letter), NEW s, Ended(val, len, s), NEW new, WrittenAt(old, at, s, new),
           Fits(old, at, val, len, want), Len(want) < Len(old)
    PROVE  Holds(new, want)
<1>1. /\ Len(old) \in Nat /\ at \in Nat /\ at # 0 /\ len \in Nat /\ Len(want) = at - 1 + len
      /\ Len(s) = len + 1 /\ Len(new) = Len(old) /\ Len(want) < Len(old)
  BY DEF Ended, WrittenAt, Fits
<1>2. ASSUME NEW k \in 1 .. len + 1 PROVE new[at + k - 1] = s[k]
  <2>1. at + k - 1 <= Len(old)
    BY <1>1
  <2> QED BY <1>1, <2>1 DEF WrittenAt
<1>3. ASSUME NEW i \in 1 .. Len(want) PROVE new[i] = want[i]
  <2>1. CASE i < at
    <3>1. i \in 1 .. Len(old) /\ i \in 1 .. at - 1
      BY <1>1, <2>1
    <3> QED BY <2>1, <3>1 DEF WrittenAt, Fits
  <2>2. CASE ~(i < at)
    <3> DEFINE k == i - at + 1
    <3>1. k \in 1 .. len + 1 /\ k \in 1 .. len /\ at + k - 1 = i /\ at - 1 + k = i
      BY <1>1, <2>2
    <3> HIDE DEF k
    <3>2. new[i] = s[k]
      BY <1>2, <3>1
    <3>3. s[k] = val[k]
      BY <3>1 DEF Ended
    <3>4. want[at - 1 + k] = val[k]
      BY <3>1 DEF Fits
    <3> QED BY <3>1, <3>2, <3>3, <3>4
  <2> QED BY <2>1, <2>2
<1>4. new[Len(want) + 1] = NUL
  <2> DEFINE k == len + 1
  <2>1. k \in 1 .. len + 1 /\ at + k - 1 = Len(want) + 1
    BY <1>1
  <2>2. s[k] = NUL
    BY DEF Ended
  <2> HIDE DEF k
  <2> QED BY <1>2, <2>1, <2>2
<1>5. Len(want) < Len(new)
  BY <1>1
<1> QED BY <1>3, <1>4, <1>5 DEF Holds

(* The string found from at on in memory that begins with a text. *)
LEMMA TextFound ==
    ASSUME NEW mem \in Seq(Letter), NEW t, IsText(t), Holds(mem, t),
           NEW at \in 1 .. Len(t) + 1
    PROVE  TextAt(mem, at) = SubSeq(t, at, Len(t))
<1> DEFINE n == Len(t)
           stop == {i \in at .. Len(mem) : mem[i] = NUL}
           first == CHOOSE i \in stop : \A j \in stop : i <= j
<1>1. /\ n \in Nat /\ Len(mem) \in Nat /\ n < Len(mem) /\ mem[n + 1] = NUL /\ at \in Nat /\ at \in Int
      /\ t \in Seq(Letter) /\ \A i \in 1 .. n : t[i] # NUL /\ mem[i] = t[i]
  BY DEF IsText, Holds
<1>2. n + 1 \in stop /\ \A j \in stop : n + 1 <= j
  <2>1. n + 1 \in at .. Len(mem)
    BY <1>1
  <2>2. ASSUME NEW j \in stop PROVE n + 1 <= j
    <3>1. j \in Int /\ j >= 1 /\ mem[j] = NUL
      BY <1>1
    <3>2. ~(j \in 1 .. n)
      BY <1>1, <3>1
    <3> QED BY <1>1, <3>1, <3>2
  <2> QED BY <1>1, <2>1, <2>2
<1>3. TextAt(mem, at) = SubSeq(mem, at, first - 1)
  BY <1>2 DEF TextAt
<1>4. \A i \in stop : i \in Int
  BY <1>1
<1> HIDE DEF stop
<1>5. first \in stop /\ \A j \in stop : first <= j
  BY <1>2
<1> HIDE DEF first
<1>6. first = n + 1
  BY <1>1, <1>2, <1>4, <1>5
<1>7. TextAt(mem, at) = SubSeq(mem, at, n)
  <2>1. first - 1 = n
    BY <1>1, <1>6
  <2> QED BY <1>3, <2>1
<1> DEFINE a == SubSeq(mem, at, n)
           b == SubSeq(t, at, n)
<1>8. \A i \in at .. n : mem[i] \in Letter /\ t[i] \in Letter
  BY <1>1
<1> HIDE DEF n
<1>9. /\ a \in Seq(Letter) /\ Len(a) = (IF at <= n THEN n - at + 1 ELSE 0)
      /\ \A i \in 1 .. n - at + 1 : a[i] = mem[at + i - 1]
  BY <1>1, <1>8, SubSeqProperties
<1>10. /\ b \in Seq(Letter) /\ Len(b) = (IF at <= n THEN n - at + 1 ELSE 0)
       /\ \A i \in 1 .. n - at + 1 : b[i] = t[at + i - 1]
  BY <1>1, <1>8, SubSeqProperties
<1> HIDE DEF a, b
<1>11. ASSUME NEW i \in 1 .. Len(a) PROVE a[i] = b[i]
  <2>1. at + i - 1 \in 1 .. n /\ i \in 1 .. n - at + 1
    BY <1>1, <1>9
  <2> QED BY <1>1, <1>9, <1>10, <2>1
<1>12. a = b
  BY <1>9, <1>10, <1>11, SeqEqual
<1> QED BY <1>7, <1>12 DEF a, b, n

(* In a string with a text, that is the one found. *)
LEMMA TextIs ==
    ASSUME StringIInv, filled, ~outside
    PROVE  /\ TextAt(data, 1) = text
           /\ \A at \in 1 .. used + 1 : TextAt(data, at) = SubSeq(text, at, Len(text))
           /\ used = Len(text) /\ used < size /\ text \in Seq(Letter) /\ data \in Seq(Letter)
<1>1. /\ data \in Seq(Letter) /\ IsText(text) /\ Holds(data, text) /\ used = Len(text) /\ Len(data) = size
      /\ text \in Seq(Letter) /\ Len(text) \in Nat
  BY DEF StringIInv, StringTypeOK, FilledHolds, IsText
<1>2. ASSUME NEW at \in 1 .. used + 1 PROVE TextAt(data, at) = SubSeq(text, at, Len(text))
  <2>1. at \in 1 .. Len(text) + 1 /\ data \in Seq(Letter) /\ IsText(text) /\ Holds(data, text)
    BY <1>1
  <2> QED BY <2>1, TextFound
<1>3. 1 \in 1 .. used + 1
  BY <1>1
<1>4. TextAt(data, 1) = text
  BY <1>1, <1>2, <1>3, SubSeqFull
<1>5. used < size
  BY <1>1 DEF Holds
<1> QED BY <1>1, <1>2, <1>4, <1>5

(* The run's property follows. *)
LEMMA StringFollows == StringIInv => StringHoldsText
BY TextIs DEF StringIInv, BehindForACause, StringHoldsText

(* A call that writes len characters of val and a NUL from at on. *)
LEMMA PutHolds ==
    ASSUME StringIInv, size > 0, NEW at \in Nat \ {0}, NEW val, NEW len \in Nat, NEW want,
           Put(at, val, len, want), IsText(val), len <= Len(val), IsText(want),
           at + len > size => size = 1 \/ Len(want) >= size,
           at + len <= size => Fits(data, at, val, len, want)
    PROVE  StringIInv'
<1> DEFINE s == FirstN(val, len) \o <<NUL>>
           new == Store(data, at, s)
<1>1. /\ size \in Nat /\ data \in Seq(Letter) /\ Len(data) = size /\ val \in Seq(Letter) /\ want \in Seq(Letter)
      /\ Len(val) \in Nat /\ Len(want) \in Nat
  BY DEF StringIInv, StringTypeOK, IsText
<1>2. /\ used' = at - 1 + len /\ data' = new /\ outside' = (at + len > size) /\ text' = want
      /\ filled' = TRUE /\ size' = size
  BY DEF Put
<1>3. Ended(val, len, s)
  <2>1. val \in Seq(Letter) /\ len \in 0 .. Len(val)
    BY <1>1
  <2> QED BY <2>1, EndedIs
<1> HIDE DEF s
<1>4. WrittenAt(data, at, s, new)
  <2>1. data \in Seq(Letter) /\ s \in Seq(Letter)
    BY <1>1, <1>3 DEF Ended
  <2> QED BY <2>1, StoreWrites
<1> HIDE DEF new
<1>5. new \in Seq(Letter) /\ Len(new) = size
  BY <1>1, <1>4 DEF WrittenAt
<1>6. at - 1 + len \in Nat
  OBVIOUS
<1>7. ASSUME at + len <= size PROVE at - 1 + len = Len(want) /\ Holds(new, want)
  <2>1. Fits(data, at, val, len, want)
    BY <1>7
  <2>2. data \in Seq(Letter) /\ want \in Seq(Letter) /\ Len(want) < Len(data)
    BY <1>1, <1>7, <2>1 DEF Fits
  <2>3. Holds(new, want)
    BY <1>3, <1>4, <2>1, <2>2, WriteHolds, Zenon
  <2> QED BY <2>1, <2>3 DEF Fits
<1>8. ~(at + len > size) => at + len <= size
  BY <1>1
<1>9. StringTypeOK'
  BY <1>1, <1>2, <1>5, <1>6 DEF StringTypeOK
<1>10. NotYet' /\ BehindForACause'
  <2>1. size' # 0
    BY <1>1, <1>2
  <2>2. NotYet'
    BY <1>2, <2>1 DEF NotYet
  <2>3. CASE at + len > size
    <3>1. size = 1 \/ Len(want) >= size
      BY <2>3
    <3> QED BY <1>2, <2>2, <3>1 DEF BehindForACause
  <2>4. CASE ~(at + len > size)
    <3>1. ~outside'
      BY <1>2, <2>4
    <3> QED BY <2>2, <3>1 DEF BehindForACause
  <2> QED BY <2>3, <2>4
<1>11. FilledHolds'
  BY <1>2, <1>7, <1>8 DEF FilledHolds
<1> QED BY <1>9, <1>10, <1>11 DEF StringIInv

(* The lesser of two numbers, and the characters cpr_strlen counts. *)
LEMMA LesserIs ==
    ASSUME NEW a \in Nat, NEW b \in Nat
    PROVE  /\ Lesser(a, b) \in Nat /\ Lesser(a, b) <= a /\ Lesser(a, b) <= b
           /\ Lesser(a, b) = a \/ Lesser(a, b) = b
           /\ a <= b => Lesser(a, b) = a
           /\ b <= a => Lesser(a, b) = b
BY DEF Lesser

(* A part of a text is a text. *)
LEMMA FirstText ==
    ASSUME NEW t, IsText(t), NEW n \in Nat, n <= Len(t)
    PROVE  /\ IsText(FirstN(t, n)) /\ Len(FirstN(t, n)) = n
           /\ \A i \in 1 .. n : FirstN(t, n)[i] = t[i]
<1> DEFINE v == SubSeq(t, 1, n)
<1>1. t \in Seq(Letter) /\ Len(t) \in Nat /\ \A i \in 1 .. Len(t) : t[i] # NUL
  BY DEF IsText
<1>2. n \in 0 .. Len(t)
  BY <1>1
<1>3. v \in Seq(Letter) /\ Len(v) = n /\ \A i \in 1 .. n : v[i] = t[i]
  BY <1>1, <1>2, FirstPart
<1>4. \A i \in 1 .. n : i \in 1 .. Len(t)
  BY <1>1
<1> HIDE DEF v
<1>5. IsText(v)
  BY <1>1, <1>3, <1>4 DEF IsText
<1> QED BY <1>3, <1>5 DEF v, FirstN

(* string_copy of a text, which is cut to the size of the string. *)
LEMMA CopyHolds ==
    ASSUME StringIInv, Exists, NEW val, IsText(val), NEW want, want = val, string_copy(val, want)
    PROVE  StringIInv'
<1> DEFINE len == CopyLength(val)
           n == Lesser(Len(val), size - 1)
           w == FirstN(val, n)
<1>1. size \in Nat /\ size > 0 /\ Len(val) \in Nat /\ size - 1 \in Nat
  BY DEF StringIInv, StringTypeOK, Exists, IsText
<1>2. Put(1, val, len, w)
  BY DEF string_copy
<1>3. /\ n \in Nat /\ n <= Len(val) /\ n <= size - 1
      /\ len \in Nat /\ len <= Len(val)
      /\ size > 1 => len = n
      /\ size = 1 => n = 0
  BY <1>1 DEF CopyLength, cpr_strlen, Lesser
<1> HIDE DEF n, len
<1>4. IsText(w) /\ Len(w) = n /\ \A i \in 1 .. n : w[i] = val[i]
  BY <1>3, FirstText
<1> HIDE DEF w
<1>5. 1 + len > size => size = 1 \/ Len(w) >= size
  BY <1>1, <1>3
<1>6. ASSUME 1 + len <= size PROVE Fits(data, 1, val, len, w)
  <2>1. len = n
    BY <1>1, <1>3, <1>6
  <2>2. Len(w) = 1 - 1 + len /\ \A i \in 1 .. 1 - 1 : FALSE
    BY <1>3, <1>4, <2>1
  <2>3. \A i \in 1 .. len : 1 - 1 + i = i /\ w[i] = val[i]
    BY <1>4, <2>1
  <2> QED BY <2>2, <2>3 DEF Fits
<1>7. 1 \in Nat \ {0}
  OBVIOUS
<1> QED BY <1>1, <1>2, <1>3, <1>4, <1>5, <1>6, <1>7, PutHolds

(* Emptying a string. *)
LEMMA ClearHolds == ASSUME StringIInv, Exists, Put(1, <<>>, 0, <<>>) PROVE StringIInv'
<1> DEFINE w == <<>>
<1>1. size \in Nat /\ size > 0
  BY DEF StringIInv, StringTypeOK, Exists
<1>2. IsText(w) /\ Len(w) = 0
  BY DEF IsText
<1>3. Put(1, w, 0, w)
  OBVIOUS
<1> HIDE DEF w
<1>4. Fits(data, 1, w, 0, w)
  BY <1>2 DEF Fits
<1>5. 1 + 0 <= size /\ ~(1 + 0 > size) /\ 1 \in Nat \ {0} /\ 0 \in Nat /\ 0 <= Len(w)
  BY <1>1, <1>2
<1> QED BY <1>1, <1>2, <1>3, <1>4, <1>5, PutHolds

(* string_append *)
LEMMA AppendHolds ==
    ASSUME StringIInv, NEW val, IsText(val), StrAppend(val)
    PROVE  StringIInv'
<1>1. CASE UNCHANGED stringVars
  BY <1>1 DEF stringVars, StringIInv, StringTypeOK, NotYet, FilledHolds, BehindForACause
<1>2. CASE used < size - 1 /\ Put(used + 1, val, cpr_strlen(val, AppendRoom),
                                  FirstN(text \o val, Lesser(Len(text \o val), size - 1)))
  <2> DEFINE both == text \o val
             len == cpr_strlen(val, AppendRoom)
             n == Lesser(Len(both), size - 1)
             w == FirstN(both, n)
  <2>1. /\ size \in Nat /\ size > 0 /\ ~outside /\ used \in Nat /\ used < size - 1
        /\ text \in Seq(Letter) /\ val \in Seq(Letter) /\ Len(val) \in Nat /\ Len(text) \in Nat
        /\ \A i \in 1 .. Len(text) : text[i] # NUL
        /\ \A i \in 1 .. Len(val) : val[i] # NUL
    BY <1>2 DEF StringIInv, StringTypeOK, StrAppend, Exists, IsText
  <2>2. used = Len(text) /\ \A i \in 1 .. used : data[i] = text[i]
    <3>1. CASE filled
      BY <2>1, <3>1 DEF StringIInv, FilledHolds, Holds
    <3>2. CASE ~filled
      <4>1. used = 0 /\ Len(text) = 0
        BY <3>2 DEF StringIInv, NotYet
      <4> QED BY <4>1
    <3> QED BY <3>1, <3>2
  <2>3. text \in Seq(Letter) /\ val \in Seq(Letter)
    BY <2>1
  <2>4. /\ both \in Seq(Letter) /\ Len(both) = Len(text) + Len(val)
        /\ \A i \in 1 .. Len(text) : both[i] = text[i]
        /\ \A i \in 1 .. Len(val) : both[Len(text) + i] = val[i]
    BY <2>3, ConcatAt
  <2> HIDE DEF both
  <2>5. IsText(both)
    <3>1. ASSUME NEW i \in 1 .. Len(both) PROVE both[i] # NUL
      <4>1. CASE i \in 1 .. Len(text)
        BY <2>1, <2>4, <4>1
      <4>2. CASE i \notin 1 .. Len(text)
        <5>1. PICK k \in 1 .. Len(val) : i = Len(text) + k
          <6>1. i - Len(text) \in 1 .. Len(val) /\ i = Len(text) + (i - Len(text))
            BY <2>1, <2>4, <4>2
          <6> QED BY <6>1
        <5> QED BY <2>1, <2>4, <5>1
      <4> QED BY <4>1, <4>2
    <3> QED BY <2>4, <3>1 DEF IsText
  <2>6. /\ len \in Nat /\ len <= Len(val) /\ used + 1 + len <= size
        /\ n \in Nat /\ n <= Len(both) /\ n = used + len
    <3> DEFINE r == size - used - 1
    <3>1. r \in Nat /\ r # 0 /\ used + 1 + r = size /\ Len(both) = used + Len(val) /\ size - 1 = used + r
      BY <2>1, <2>2, <2>4
    <3>2. len = Lesser(Len(val), r) /\ n = Lesser(used + Len(val), used + r)
      BY <3>1 DEF AppendRoom, cpr_strlen
    <3> HIDE DEF r, len, n
    <3>3. /\ len \in Nat /\ len <= Len(val) /\ len <= r
      BY <2>1, <3>1, <3>2 DEF Lesser
    <3>4. n = used + len
      BY <2>1, <3>1, <3>2 DEF Lesser
    <3> QED BY <2>1, <3>1, <3>3, <3>4
  <2>7. Put(used + 1, val, len, w)
    BY <1>2 DEF both
  <2> HIDE DEF n, len
  <2>8. IsText(w) /\ Len(w) = n /\ \A i \in 1 .. n : w[i] = both[i]
    BY <2>5, <2>6, FirstText
  <2> HIDE DEF w
  <2> DEFINE at == used + 1
  <2>9. at \in Nat \ {0} /\ at - 1 = used /\ at + len <= size /\ ~(at + len > size)
    BY <2>1, <2>6
  <2>10. Put(at, val, len, w)
    BY <2>7
  <2> HIDE DEF at
  <2>11. Fits(data, at, val, len, w)
    <3>1. Len(w) = at - 1 + len
      BY <2>6, <2>8, <2>9
    <3>2. ASSUME NEW i \in 1 .. at - 1 PROVE w[i] = data[i]
      <4>1. i \in 1 .. used /\ i \in 1 .. n /\ i \in 1 .. Len(text)
        BY <2>1, <2>2, <2>6, <2>9
      <4> QED BY <2>2, <2>4, <2>8, <4>1
    <3>3. ASSUME NEW i \in 1 .. len PROVE w[at - 1 + i] = val[i]
      <4>1. PICK k \in 1 .. n : k = at - 1 + i /\ k = Len(text) + i
        <5>1. at - 1 + i \in 1 .. n /\ at - 1 + i = Len(text) + i
          BY <2>1, <2>2, <2>6, <2>9
        <5> QED BY <5>1
      <4>2. i \in 1 .. Len(val)
        BY <2>1, <2>6
      <4>3. w[k] = val[i]
        BY <2>4, <2>8, <4>1, <4>2
      <4> QED BY <4>1, <4>3
    <3> QED BY <3>1, <3>2, <3>3 DEF Fits
  <2> QED BY <2>1, <2>6, <2>8, <2>9, <2>10, <2>11, PutHolds
<1> QED BY <1>1, <1>2 DEF StrAppend

(* The text t begins with exactly k blanks. *)
Leads(t, k) == /\ k \in 0 .. Len(t)
               /\ \A i \in 1 .. k : t[i] \in Blank
               /\ k < Len(t) => t[k + 1] \notin Blank

(* The reference for trimming drops them. *)
LEMMA HeadCut ==
    ASSUME NEW t \in Seq(Letter), NEW k, Leads(t, k)
    PROVE  WithoutHead(t) = SubSeq(t, k + 1, Len(t))
<1> DEFINE n == CHOOSE j \in 0 .. Len(t) : /\ \A i \in 1 .. j : t[i] \in Blank
                                           /\ j < Len(t) => t[j + 1] \notin Blank
<1>1. WithoutHead(t) = SubSeq(t, n + 1, Len(t))
  BY DEF WithoutHead
<1>2. /\ n \in 0 .. Len(t) /\ \A i \in 1 .. n : t[i] \in Blank
      /\ n < Len(t) => t[n + 1] \notin Blank
  BY DEF Leads
<1> HIDE DEF n
<1>3. Len(t) \in Nat /\ k \in 0 .. Len(t) /\ k \in Nat /\ n \in Nat
  BY <1>2 DEF Leads
<1>4. ~(k < n)
  <2> SUFFICES ASSUME k < n PROVE FALSE
    OBVIOUS
  <2>1. k + 1 \in 1 .. n /\ k < Len(t)
    BY <1>2, <1>3
  <2> QED BY <1>2, <2>1 DEF Leads
<1>5. ~(n < k)
  <2> SUFFICES ASSUME n < k PROVE FALSE
    OBVIOUS
  <2>1. n + 1 \in 1 .. k /\ n < Len(t)
    BY <1>2, <1>3
  <2> QED BY <1>2, <2>1 DEF Leads
<1>6. n = k
  BY <1>3, <1>4, <1>5
<1> QED BY <1>1, <1>6

(* A text inside its string is counted to its end. *)
LEMMA StrlenIs ==
    ASSUME NEW t \in Seq(Letter), NEW max \in Nat, Len(t) < max
    PROVE  cpr_strlen(t, max - 1) = Len(t)
<1>1. Len(t) \in Nat /\ max - 1 \in Nat
  OBVIOUS
<1> QED BY <1>1 DEF cpr_strlen, Lesser

(* cpr_strtrim points behind the blanks at the front. *)
LEMMA TrimIs ==
    ASSUME NEW t \in Seq(Letter), NEW max \in Nat, Len(t) < max
    PROVE  \E f \in 1 .. Len(t) + 1 : /\ cpr_strtrim(t, Blank, max) = SubSeq(t, f, Len(t))
                                       /\ WithoutHead(t) = SubSeq(t, f, Len(t))
<1> DEFINE L == cpr_strlen(t, max - 1)
           keep == {i \in 1 .. L : t[i] \notin Blank}
           least == CHOOSE i \in keep : \A j \in keep : i <= j
           from == IF keep = {} THEN L + 1 ELSE least
<1>1. cpr_strtrim(t, Blank, max) = SubSeq(t, from, Len(t))
  BY DEF cpr_strtrim
<1>2. L \in Nat /\ L = Len(t)
  BY StrlenIs
<1> HIDE DEF L
<1>3. CASE keep = {}
  <2>1. Leads(t, L)
    BY <1>2, <1>3 DEF Leads
  <2>2. from = L + 1
    BY <1>3
  <2> HIDE DEF from
  <2>3. from \in 1 .. Len(t) + 1
    BY <1>2, <2>2
  <2>4. WithoutHead(t) = SubSeq(t, from, Len(t))
    BY <1>2, <2>1, <2>2, HeadCut
  <2> QED BY <1>1, <2>3, <2>4
<1>4. CASE keep # {}
  <2>1. keep \in SUBSET Nat
    OBVIOUS
  <2>2. \E i \in keep : \A j \in keep : i <= j
    BY <1>4, <2>1, LeastNatural
  <2>3. least \in keep /\ \A j \in keep : least <= j
    BY <2>2
  <2> HIDE DEF least
  <2> DEFINE k == least - 1
  <2>4. k \in 0 .. L /\ k + 1 = least /\ least \in 1 .. L /\ t[least] \notin Blank
    BY <1>2, <2>3
  <2>5. ASSUME NEW i \in 1 .. k PROVE t[i] \in Blank
    <3>1. i \in 1 .. L /\ ~(least <= i)
      BY <1>2, <2>4
    <3> QED BY <2>3, <3>1
  <2>6. Leads(t, k)
    BY <1>2, <2>4, <2>5 DEF Leads
  <2>7. from = k + 1
    BY <1>4, <2>4
  <2>8. from \in 1 .. Len(t) + 1
    BY <1>2, <2>4, <2>7
  <2> HIDE DEF k, from
  <2>9. WithoutHead(t) = SubSeq(t, from, Len(t))
    BY <2>6, <2>7, HeadCut
  <2> QED BY <1>1, <2>8, <2>9
<1> QED BY <1>3, <1>4

(* A sequence backwards. *)
LEMMA BackwardsIs ==
    ASSUME NEW t \in Seq(Letter)
    PROVE  /\ Backwards(t) \in Seq(Letter) /\ Len(Backwards(t)) = Len(t)
           /\ \A i \in 1 .. Len(t) : Backwards(t)[i] = t[Len(t) - i + 1]
<1> DEFINE L == Len(t)
           b == Backwards(t)
<1>1. L \in Nat /\ DOMAIN t = 1 .. L
  OBVIOUS
<1>2. b = [i \in 1 .. L |-> t[L - i + 1]]
  BY <1>1 DEF Backwards
<1>3. \A i \in 1 .. L : L - i + 1 \in 1 .. L
  BY <1>1
<1>4. \A i \in 1 .. L : t[L - i + 1] \in Letter
  BY <1>3
<1> HIDE DEF b
<1>5. b \in [1 .. L -> Letter]
  BY <1>2, <1>4
<1>6. b \in Seq(Letter) /\ Len(b) = L
  BY <1>1, <1>5
<1>7. \A i \in 1 .. L : b[i] = t[L - i + 1]
  BY <1>2
<1> QED BY <1>6, <1>7 DEF b

(* The reference for chopping keeps what comes before the blanks at the end. *)
LEMMA TailCut ==
    ASSUME NEW t \in Seq(Letter), NEW n \in 0 .. Len(t),
           \A i \in 1 .. Len(t) : i > n => t[i] \in Blank,
           n > 0 => t[n] \notin Blank
    PROVE  WithoutTail(t) = FirstN(t, n)
<1> DEFINE L == Len(t)
           k == L - n
           b == Backwards(t)
           c == SubSeq(b, k + 1, L)
           d == Backwards(c)
           v == SubSeq(t, 1, n)
<1>1. L \in Nat /\ n \in Nat /\ k \in 0 .. L /\ k \in Nat /\ L - (k + 1) + 1 = n
  OBVIOUS
<1>2. b \in Seq(Letter) /\ Len(b) = L /\ \A i \in 1 .. L : b[i] = t[L - i + 1]
  BY BackwardsIs
<1> HIDE DEF b
<1>3. Leads(b, k)
  <2>1. ASSUME NEW i \in 1 .. k PROVE b[i] \in Blank
    <3>1. i \in 1 .. L /\ L - i + 1 \in 1 .. L /\ L - i + 1 > n
      BY <1>1
    <3> QED BY <1>2, <3>1
  <2>2. ASSUME k < L PROVE b[k + 1] \notin Blank
    <3> DEFINE j == k + 1
    <3>1. j \in 1 .. L /\ L - j + 1 = n /\ n > 0
      BY <1>1, <2>2
    <3> HIDE DEF j
    <3>2. b[j] = t[n]
      BY <1>2, <3>1
    <3>3. t[n] \notin Blank
      BY <3>1
    <3> QED BY <3>2, <3>3 DEF j
  <2> QED BY <1>1, <1>2, <2>1, <2>2 DEF Leads
<1>4. WithoutHead(b) = c
  <2>1. WithoutHead(b) = SubSeq(b, k + 1, Len(b))
    BY <1>2, <1>3, HeadCut
  <2> QED BY <1>2, <2>1
<1>5. c \in Seq(Letter) /\ Len(c) = n /\ \A i \in 1 .. n : c[i] = b[k + i]
  <2>1. k + 1 \in Int /\ L \in Int /\ \A i \in k + 1 .. L : b[i] \in Letter
    BY <1>1, <1>2
  <2> DEFINE f == k + 1
  <2> HIDE DEF f, L
  <2>2. f \in Int /\ L \in Int /\ \A i \in f .. L : b[i] \in Letter
    BY <2>1 DEF f
  <2>3. /\ SubSeq(b, f, L) \in Seq(Letter) /\ Len(SubSeq(b, f, L)) = (IF f <= L THEN L - f + 1 ELSE 0)
        /\ \A i \in 1 .. L - f + 1 : SubSeq(b, f, L)[i] = b[f + i - 1]
    BY <2>2, SubSeqProperties
  <2>4. L - f + 1 = n /\ (f <= L => n > 0) /\ (~(f <= L) => n = 0) /\ f = k + 1
    BY <1>1 DEF f
  <2>5. c = SubSeq(b, f, L)
    BY DEF f
  <2> HIDE DEF c
  <2>6. \A i \in 1 .. n : f + i - 1 = k + i
    BY <1>1, <2>4
  <2> QED BY <2>3, <2>4, <2>5, <2>6
<1> HIDE DEF c
<1>6. d \in Seq(Letter) /\ Len(d) = n /\ \A i \in 1 .. n : d[i] = c[n - i + 1]
  BY <1>5, BackwardsIs
<1>7. v \in Seq(Letter) /\ Len(v) = n /\ \A i \in 1 .. n : v[i] = t[i]
  BY FirstPart
<1> HIDE DEF d, v
<1>8. ASSUME NEW i \in 1 .. n PROVE d[i] = v[i]
  <2> DEFINE j == n - i + 1
             h == k + j
  <2>1. j \in 1 .. n /\ h \in 1 .. L /\ L - h + 1 = i
    BY <1>1
  <2>2. h = k + j
    OBVIOUS
  <2>3. d[i] = c[j]
    BY <1>6
  <2> HIDE DEF j, h
  <2>4. c[j] = b[h]
    BY <1>5, <2>1, <2>2
  <2>5. b[h] = t[i]
    BY <1>2, <2>1
  <2> QED BY <1>7, <2>3, <2>4, <2>5
<1>9. d = v
  BY <1>6, <1>7, <1>8, SeqEqual
<1> QED BY <1>4, <1>9 DEF WithoutTail, FirstN, b, d, v

(* cpr_strchop ends the text before them. *)
LEMMA ChopIs ==
    ASSUME NEW t \in Seq(Letter), NEW max \in Nat, Len(t) < max
    PROVE  \E n \in 0 .. Len(t) : /\ cpr_strchop(t, Blank, max) = FirstN(t, n)
                                  /\ WithoutTail(t) = FirstN(t, n)
<1> DEFINE L == cpr_strlen(t, max - 1)
           keep == {i \in 1 .. L : t[i] \notin Blank}
           last == CHOOSE i \in keep : \A j \in keep : j <= i
           upto == IF keep = {} THEN 0 ELSE last
<1>1. cpr_strchop(t, Blank, max) = IF upto = L THEN t ELSE FirstN(t, upto)
  BY DEF cpr_strchop
<1>2. L \in Nat /\ L = Len(t)
  BY StrlenIs
<1> HIDE DEF L
<1>3. cpr_strchop(t, Blank, max) = FirstN(t, upto)
  <2>1. SubSeq(t, 1, L) = t
    BY <1>2, SubSeqFull
  <2> HIDE DEF upto
  <2> QED BY <1>1, <2>1 DEF FirstN
<1>4. CASE keep = {}
  <2>1. upto = 0 /\ 0 \in 0 .. L /\ \A i \in 1 .. L : t[i] \in Blank
    BY <1>2, <1>4
  <2>2. 0 \in 0 .. Len(t) /\ \A i \in 1 .. Len(t) : t[i] \in Blank
    BY <1>2, <2>1
  <2>3. WithoutTail(t) = FirstN(t, 0)
    BY <2>2, TailCut
  <2> HIDE DEF upto
  <2> QED BY <1>3, <2>1, <2>2, <2>3
<1>5. CASE keep # {}
  <2> DEFINE T == {L - i : i \in keep}
  <2>1. T \in SUBSET Nat /\ T # {}
    BY <1>2, <1>5
  <2>2. PICK n \in T : \A j \in T : n <= j
    BY <2>1, LeastNatural
  <2>3. PICK g \in keep : n = L - g
    BY <2>2
  <2>4. ASSUME NEW j \in keep PROVE j <= g
    <3>1. L - j \in T /\ j \in Int /\ g \in Int
      BY <1>2
    <3>2. L - g <= L - j
      BY <2>2, <2>3, <3>1
    <3> QED BY <1>2, <3>1, <3>2
  <2>5. last \in keep /\ \A j \in keep : j <= last
    BY <2>4
  <2> HIDE DEF last
  <2>6. upto = last /\ last \in 1 .. L /\ t[last] \notin Blank
    BY <1>5, <2>5
  <2>7. \A i \in 1 .. L : i > last => t[i] \in Blank
    <3> SUFFICES ASSUME NEW i \in 1 .. L, i > last, t[i] \notin Blank PROVE FALSE
      OBVIOUS
    <3>1. i \in keep
      OBVIOUS
    <3> QED BY <2>5, <2>6, <3>1
  <2>8. last \in 0 .. Len(t)
    BY <1>2, <2>6
  <2>9. \A i \in 1 .. Len(t) : i > last => t[i] \in Blank
    BY <1>2, <2>7
  <2>10. WithoutTail(t) = FirstN(t, last)
    BY <2>6, <2>8, <2>9, TailCut
  <2> HIDE DEF upto
  <2> QED BY <1>3, <2>6, <2>8, <2>10
<1> QED BY <1>4, <1>5

(* The end of a text is a text. *)
LEMMA PartText ==
    ASSUME NEW t, IsText(t), NEW f \in 1 .. Len(t) + 1
    PROVE  IsText(SubSeq(t, f, Len(t)))
<1> DEFINE L == Len(t)
           v == SubSeq(t, f, L)
<1>1. L \in Nat /\ f \in Int /\ f >= 1 /\ L \in Int /\ t \in Seq(Letter) /\ \A i \in 1 .. L : t[i] # NUL
  BY DEF IsText
<1>2. \A i \in f .. L : t[i] \in Letter
  BY <1>1
<1> HIDE DEF L
<1>3. /\ v \in Seq(Letter) /\ Len(v) = (IF f <= L THEN L - f + 1 ELSE 0)
      /\ \A i \in 1 .. L - f + 1 : v[i] = t[f + i - 1]
  BY <1>1, <1>2, SubSeqProperties
<1> HIDE DEF v
<1>4. ASSUME NEW i \in 1 .. Len(v) PROVE v[i] # NUL
  <2>1. i \in 1 .. L - f + 1 /\ f + i - 1 \in 1 .. L
    BY <1>1, <1>3
  <2> QED BY <1>1, <1>3, <2>1
<1>5. IsText(v)
  BY <1>3, <1>4 DEF IsText
<1> QED BY <1>5 DEF v, L

(* The sizes are numbers, the words of the callers texts. *)
LEMMA SizeIs == ASSUME NEW n \in StringSizes PROVE n \in Nat /\ n > 0
BY StringAssumption

LEMMA WordIs == ASSUME NEW w \in Words PROVE IsText(w)
<1>1. w \in Seq(Letter) /\ \A i \in DOMAIN w : w[i] # NUL
  BY StrcharAssumption
<1>2. DOMAIN w = 1 .. Len(w)
  BY <1>1
<1> QED BY <1>1, <1>2 DEF IsText

(* string_trim, string_chop and string_head copy from inside the string. *)
LEMMA CutHolds ==
    ASSUME StringIInv, NEW n \in Nat, Trim \/ Chop \/ LastOf(n)
    PROVE  StringIInv'
<1>1. Exists /\ filled /\ ~outside
  BY DEF Trim, Chop, LastOf, Exists
<1>2. /\ TextAt(data, 1) = text /\ used = Len(text) /\ used < size /\ text \in Seq(Letter)
      /\ \A at \in 1 .. used + 1 : TextAt(data, at) = SubSeq(text, at, Len(text))
  BY <1>1, TextIs
<1>3. size \in Nat /\ IsText(text) /\ Len(text) < size /\ Len(text) \in Nat /\ n \in Nat
  <2>1. size \in Nat /\ IsText(text)
    BY DEF StringIInv, StringTypeOK
  <2> QED BY <1>2, <2>1
<1>4. CASE Trim
  <2>1. text \in Seq(Letter) /\ size \in Nat /\ Len(text) < size
    BY <1>2, <1>3
  <2>2. PICK f \in 1 .. Len(text) + 1 : /\ cpr_strtrim(text, Blank, size) = SubSeq(text, f, Len(text))
                                        /\ WithoutHead(text) = SubSeq(text, f, Len(text))
    BY <2>1, TrimIs
  <2> DEFINE val == cpr_strtrim(text, Blank, size)
             want == WithoutHead(text)
  <2>3. string_copy(val, want)
    BY <1>2, <1>4 DEF Trim
  <2>4. val = want /\ IsText(val)
    BY <1>3, <2>2, PartText
  <2> HIDE DEF val, want
  <2> QED BY <1>1, <2>3, <2>4, CopyHolds
<1>5. CASE Chop
  <2>1. text \in Seq(Letter) /\ size \in Nat /\ Len(text) < size
    BY <1>2, <1>3
  <2>2. PICK k \in 0 .. Len(text) : /\ cpr_strchop(text, Blank, size) = FirstN(text, k)
                                    /\ WithoutTail(text) = FirstN(text, k)
    BY <2>1, ChopIs
  <2> DEFINE val == cpr_strchop(text, Blank, size)
             want == WithoutTail(text)
  <2>3. string_copy(val, want)
    BY <1>2, <1>5 DEF Chop
  <2>4. val = want /\ IsText(val)
    <3>1. k \in Nat /\ k <= Len(text) /\ IsText(text)
      BY <1>3, <2>2
    <3>2. IsText(FirstN(text, k))
      BY <3>1, FirstText
    <3> QED BY <2>2, <3>2
  <2> HIDE DEF val, want
  <2> QED BY <1>1, <2>3, <2>4, CopyHolds
<1>6. CASE LastOf(n)
  <2> DEFINE at == used - Lesser(n, used) + 1
             val == TextAt(data, at)
             want == SubSeq(text, Len(text) - Lesser(n, Len(text)) + 1, Len(text))
  <2>1. string_copy(val, want)
    BY <1>6 DEF LastOf
  <2>2. at \in 1 .. used + 1
    <3> DEFINE k == Lesser(n, used)
    <3>1. used \in Nat /\ n \in Nat
      BY <1>2, <1>3
    <3>2. k \in Nat /\ k <= used
      BY <3>1, LesserIs
    <3> HIDE DEF k
    <3>3. used - k + 1 \in 1 .. used + 1
      BY <3>1, <3>2
    <3> QED BY <3>3 DEF k
  <2>3. want = SubSeq(text, at, Len(text))
    BY <1>2
  <2> HIDE DEF at, want
  <2>4. val = want /\ IsText(val)
    BY <1>2, <1>3, <2>2, <2>3, PartText
  <2> HIDE DEF val
  <2> QED BY <1>1, <2>1, <2>4, CopyHolds
<1> QED BY <1>4, <1>5, <1>6

(* UpperOf and LowerOf leave a text a text of the same length. *)
LEMMA MappedText ==
    ASSUME NEW t, IsText(t), NEW f \in {UpperOf, LowerOf}
    PROVE  IsText(Mapped(t, f)) /\ Len(Mapped(t, f)) = Len(t)
<1> DEFINE L == Len(t)
           u == Mapped(t, f)
<1>1. L \in Nat /\ DOMAIN t = 1 .. L /\ t \in Seq(Letter) /\ \A i \in 1 .. L : t[i] # NUL
  BY DEF IsText
<1>2. u = [i \in 1 .. L |-> IF t[i] \in DOMAIN f THEN f[t[i]] ELSE t[i]]
  BY <1>1 DEF Mapped
<1>3. \A c \in DOMAIN f : f[c] \in {"a", "A"}
  BY DEF UpperOf, LowerOf
<1>4. \A c \in {"a", "A"} : c \in Letter /\ c # NUL
  BY DEF Letter, NUL
<1>5. \A i \in 1 .. L : t[i] \in Letter
  BY <1>1
<1> HIDE DEF u, L
<1>6. ASSUME NEW i \in 1 .. L PROVE u[i] \in Letter /\ u[i] # NUL
  <2>1. u[i] = IF t[i] \in DOMAIN f THEN f[t[i]] ELSE t[i]
    BY <1>2
  <2> QED BY <1>1, <1>3, <1>4, <1>5, <2>1
<1>7. u \in [1 .. L -> Letter]
  BY <1>2, <1>6
<1>8. u \in Seq(Letter) /\ Len(u) = L
  BY <1>1, <1>7
<1>9. IsText(u)
  BY <1>6, <1>8 DEF IsText
<1> QED BY <1>8, <1>9 DEF u, L

(* string_upper and string_lower *)
LEMMA CaseHolds ==
    ASSUME StringIInv, NEW f \in {UpperOf, LowerOf}, ChangeCase(f)
    PROVE  StringIInv'
<1> DEFINE s == Mapped(text, f)
           new == Store(data, 1, s)
<1>1. Exists /\ filled /\ ~outside
  BY DEF ChangeCase, Exists
<1>2. TextAt(data, 1) = text /\ used = Len(text) /\ used < size /\ data \in Seq(Letter)
  BY <1>1, TextIs
<1>3. /\ size \in Nat /\ IsText(text) /\ Len(data) = size /\ Holds(data, text) /\ Len(text) \in Nat
      /\ used \in Nat /\ NotYet /\ BehindForACause
  BY <1>1 DEF StringIInv, StringTypeOK, FilledHolds, IsText
<1>4. /\ data' = new /\ text' = s /\ size' = size /\ used' = used /\ filled' = filled /\ outside' = outside
  BY <1>2 DEF ChangeCase
<1>5. IsText(s) /\ Len(s) = Len(text) /\ s \in Seq(Letter)
  BY <1>3, MappedText DEF IsText
<1> HIDE DEF s
<1>6. WrittenAt(data, 1, s, new)
  <2>1. data \in Seq(Letter) /\ s \in Seq(Letter) /\ 1 \in Nat \ {0}
    BY <1>2, <1>5
  <2> QED BY <2>1, StoreWrites
<1> HIDE DEF new
<1>7. new \in Seq(Letter) /\ Len(new) = size
  BY <1>3, <1>6 DEF WrittenAt
<1>8. Holds(new, s)
  <2>1. ASSUME NEW i \in 1 .. Len(s) PROVE new[i] = s[i]
    <3>1. 1 + i - 1 = i /\ i <= Len(data)
      BY <1>2, <1>3, <1>5
    <3> QED BY <1>6, <3>1 DEF WrittenAt
  <2> DEFINE k == Len(s) + 1
  <2>2. k \in 1 .. Len(data) /\ k >= 1 + Len(s)
    BY <1>2, <1>3, <1>5
  <2>3. data[k] = NUL
    BY <1>3, <1>5 DEF Holds
  <2> HIDE DEF k
  <2>4. new[k] = NUL
    BY <1>6, <2>2, <2>3 DEF WrittenAt
  <2>5. Len(s) < Len(new)
    BY <1>2, <1>5, <1>7
  <2> QED BY <2>1, <2>4, <2>5 DEF Holds, k
<1>9. StringTypeOK'
  BY <1>1, <1>3, <1>4, <1>5, <1>7 DEF StringIInv, StringTypeOK
<1>10. NotYet' /\ BehindForACause'
  BY <1>1, <1>3, <1>4 DEF NotYet, BehindForACause
<1>11. FilledHolds'
  BY <1>2, <1>4, <1>5, <1>8 DEF FilledHolds
<1> QED BY <1>9, <1>10, <1>11 DEF StringIInv

(* string_tail *)
LEMMA CutToHolds ==
    ASSUME StringIInv, NEW n \in StringSizes, CutTo(n)
    PROVE  StringIInv'
<1> DEFINE k == Lesser(n, used)
           at == k + 1
           s == <<NUL>>
           new == Store(data, at, s)
           w == FirstN(text, k)
<1>1. Exists /\ ~outside /\ size > 0
  BY DEF CutTo, Exists
<1>3. /\ size \in Nat /\ IsText(text) /\ Len(data) = size /\ Len(text) \in Nat
      /\ used \in Nat /\ NotYet /\ BehindForACause
      /\ data \in Seq(Letter) /\ text \in Seq(Letter)
  BY <1>1 DEF StringIInv, StringTypeOK, FilledHolds, IsText
<1>2. /\ used = Len(text) /\ used < size /\ data \in Seq(Letter) /\ text \in Seq(Letter)
      /\ \A i \in 1 .. Len(text) : data[i] = text[i]
  <2>1. CASE filled
    BY <1>1, <1>3, <2>1, TextIs DEF StringIInv, FilledHolds, Holds
  <2>2. CASE ~filled
    <3>1. used = 0 /\ Len(text) = 0
      BY <1>3, <2>2 DEF NotYet
    <3> QED BY <1>1, <1>3, <3>1
  <2> QED BY <2>1, <2>2
<1>4. n \in Nat
  BY SizeIs
<1>5. k \in Nat /\ k <= used
  BY <1>3, <1>4, LesserIs
<1>6. /\ data' = new /\ text' = w /\ used' = k /\ size' = size /\ filled' = TRUE /\ outside' = outside
  BY <1>2 DEF CutTo
<1> HIDE DEF k
<1>7. IsText(w) /\ Len(w) = k /\ w \in Seq(Letter) /\ \A i \in 1 .. k : w[i] = text[i]
  <2>1. k <= Len(text)
    BY <1>2, <1>5
  <2>2. IsText(w) /\ Len(w) = k /\ \A i \in 1 .. k : w[i] = text[i]
    BY <1>3, <1>5, <2>1, FirstText
  <2> QED BY <2>2 DEF IsText
<1> HIDE DEF w
<1>8. s \in Seq(Letter) /\ Ended(w, 0, s)
  <2>1. NUL \in Letter
    BY DEF Letter
  <2>2. s \in Seq(Letter) /\ Len(s) = 0 + 1 /\ s[0 + 1] = NUL
    BY <2>1
  <2> QED BY <2>2 DEF Ended
<1> HIDE DEF s
<1>9. at \in Nat \ {0} /\ at - 1 = k /\ Len(w) < Len(data)
  BY <1>2, <1>3, <1>5, <1>7
<1> HIDE DEF at
<1>10. WrittenAt(data, at, s, new)
  <2>1. data \in Seq(Letter) /\ s \in Seq(Letter) /\ at \in Nat \ {0}
    BY <1>2, <1>8, <1>9
  <2> QED BY <2>1, StoreWrites
<1> HIDE DEF new
<1>11. Fits(data, at, w, 0, w)
  <2>1. Len(w) = at - 1 + 0
    BY <1>5, <1>7, <1>9
  <2>2. ASSUME NEW i \in 1 .. at - 1 PROVE w[i] = data[i]
    <3>1. i \in 1 .. k /\ i \in 1 .. Len(text)
      BY <1>2, <1>3, <1>5, <1>9
    <3> QED BY <1>2, <1>7, <3>1
  <2> QED BY <2>1, <2>2 DEF Fits
<1>12. Holds(new, w)
  <2>1. data \in Seq(Letter) /\ at \in Nat \ {0} /\ 0 \in Nat /\ w \in Seq(Letter) /\ Len(w) < Len(data)
    BY <1>2, <1>7, <1>9
  <2>2. Ended(w, 0, s)
    BY <1>8
  <2> QED BY <1>10, <1>11, <2>1, <2>2, WriteHolds
<1>13. new \in Seq(Letter) /\ Len(new) = size
  BY <1>3, <1>10 DEF WrittenAt
<1>14. StringTypeOK'
  BY <1>1, <1>3, <1>5, <1>6, <1>7, <1>13 DEF StringIInv, StringTypeOK
<1>15. NotYet' /\ BehindForACause'
  BY <1>1, <1>3, <1>6 DEF NotYet, BehindForACause
<1>16. FilledHolds'
  BY <1>6, <1>7, <1>12 DEF FilledHolds
<1> QED BY <1>14, <1>15, <1>16 DEF StringIInv

(* new_string and free_string *)
LEMMA NewHolds ==
    ASSUME StringIInv, NEW n \in StringSizes, NewString(n)
    PROVE  StringIInv'
<1>1. n \in Nat /\ n > 0
  BY SizeIs
<1>2. size = 0 /\ outside = FALSE
  BY DEF NewString, StringIInv, StringTypeOK, NotYet
<1>3. /\ size' = n /\ used' = 0 /\ data' \in [1 .. n -> Junk] /\ text' = <<>> /\ filled' = FALSE
      /\ outside' = FALSE
  BY <1>2 DEF NewString
<1>4. data' \in [1 .. n -> Letter]
  BY <1>3, StrcharAssumption
<1>5. data' \in Seq(Letter) /\ Len(data') = n
  BY <1>1, <1>4
<1>6. IsText(text')
  BY <1>3 DEF IsText
<1>7. StringTypeOK'
  BY <1>1, <1>3, <1>5, <1>6 DEF StringTypeOK
<1> QED BY <1>1, <1>3, <1>7 DEF StringIInv, NotYet, FilledHolds, BehindForACause

LEMMA FreeHolds == ASSUME StringIInv, FreeString PROVE StringIInv'
<1>1. /\ size' = 0 /\ used' = 0 /\ data' = <<>> /\ text' = <<>> /\ filled' = FALSE /\ outside' = FALSE
  BY DEF FreeString, Exists, StringIInv, StringTypeOK
<1>2. IsText(text') /\ data' \in Seq(Letter) /\ Len(data') = 0
  BY <1>1 DEF IsText
<1>3. StringTypeOK'
  BY <1>1, <1>2 DEF StringTypeOK
<1> QED BY <1>1, <1>3 DEF StringIInv, NotYet, FilledHolds, BehindForACause

(* make_string *)
LEMMA MakeStringHolds ==
    ASSUME StringIInv, NEW val, IsText(val), NEW max \in StringSizes, MakeString(val, max)
    PROVE  StringIInv'
<1> DEFINE len == cpr_strlen(val, max)
           s == FirstN(val, len) \o <<NUL>>
           w == FirstN(val, len)
<1>1. max \in Nat /\ max > 0 /\ val \in Seq(Letter) /\ Len(val) \in Nat
  BY SizeIs DEF IsText
<1>2. len \in Nat /\ len <= Len(val)
  BY <1>1 DEF cpr_strlen, Lesser
<1>3. outside = FALSE
  BY DEF MakeString, StringIInv, StringTypeOK, NotYet
<1>4. PICK junk \in [1 .. len + 1 -> Junk] : data' = Store(junk, 1, s)
  BY DEF MakeString
<1>5. size' = len + 1 /\ used' = len /\ text' = w /\ filled' = TRUE /\ outside' = FALSE
  BY <1>3 DEF MakeString
<1> DEFINE new == Store(junk, 1, s)
<1> HIDE DEF len
<1>6. junk \in [1 .. len + 1 -> Letter]
  BY <1>4, StrcharAssumption
<1>7. junk \in Seq(Letter) /\ Len(junk) = len + 1
  BY <1>2, <1>6
<1>8. Ended(val, len, s)
  <2>1. len \in 0 .. Len(val)
    BY <1>1, <1>2
  <2> QED BY <1>1, <2>1, EndedIs
<1>9. IsText(w) /\ Len(w) = len /\ w \in Seq(Letter) /\ \A i \in 1 .. len : w[i] = val[i]
  <2>1. IsText(w) /\ Len(w) = len /\ \A i \in 1 .. len : w[i] = val[i]
    BY <1>2, FirstText
  <2> QED BY <2>1 DEF IsText
<1> HIDE DEF s, w
<1>10. WrittenAt(junk, 1, s, new)
  <2>1. junk \in Seq(Letter) /\ s \in Seq(Letter) /\ 1 \in Nat \ {0}
    BY <1>7, <1>8 DEF Ended
  <2> QED BY <2>1, StoreWrites
<1>11. data' = new
  BY <1>4
<1> HIDE DEF new
<1>12. Fits(junk, 1, val, len, w)
  <2>1. Len(w) = 1 - 1 + len /\ \A i \in 1 .. 1 - 1 : FALSE
    BY <1>2, <1>9
  <2>2. \A i \in 1 .. len : 1 - 1 + i = i /\ w[i] = val[i]
    BY <1>9
  <2> QED BY <2>1, <2>2 DEF Fits
<1>13. Holds(new, w)
  <2>1. junk \in Seq(Letter) /\ 1 \in Nat \ {0} /\ len \in Nat /\ w \in Seq(Letter) /\ Len(w) < Len(junk)
    BY <1>2, <1>7, <1>9
  <2> QED BY <1>8, <1>10, <1>12, <2>1, WriteHolds
<1>14. new \in Seq(Letter) /\ Len(new) = len + 1 /\ len + 1 \in Nat /\ len + 1 # 0
  BY <1>2, <1>7, <1>10 DEF WrittenAt
<1>15. StringTypeOK'
  BY <1>2, <1>5, <1>9, <1>11, <1>14 DEF StringTypeOK
<1>16. NotYet' /\ BehindForACause'
  BY <1>5, <1>14 DEF NotYet, BehindForACause
<1>17. FilledHolds'
  BY <1>5, <1>9, <1>11, <1>13 DEF FilledHolds
<1> QED BY <1>15, <1>16, <1>17 DEF StringIInv

(* string_commit of what a caller has written. *)
LEMMA CommitHolds ==
    ASSUME StringIInv, NEW val, IsText(val), Commit(val)
    PROVE  StringIInv'
<1> DEFINE s == val \o <<NUL>>
           new == Store(data, 1, s)
           L == Len(val)
<1>1. /\ size \in Nat /\ data \in Seq(Letter) /\ Len(data) = size /\ val \in Seq(Letter) /\ L \in Nat
      /\ L < size /\ outside = FALSE
  BY DEF StringIInv, StringTypeOK, IsText, Commit, Exists
<1>2. /\ data' = new /\ used' = cpr_strlen(TextAt(new, 1), size - 1) /\ text' = val /\ filled' = TRUE
      /\ size' = size /\ outside' = FALSE
  BY <1>1 DEF Commit
<1>3. Ended(val, L, s)
  <2>1. L \in 0 .. Len(val)
    BY <1>1
  <2>2. Ended(val, L, FirstN(val, L) \o <<NUL>>)
    BY <1>1, <2>1, EndedIs
  <2>3. FirstN(val, L) = val
    BY <1>1, SubSeqFull DEF FirstN
  <2> QED BY <2>2, <2>3
<1> HIDE DEF s
<1>4. WrittenAt(data, 1, s, new)
  <2>1. data \in Seq(Letter) /\ s \in Seq(Letter) /\ 1 \in Nat \ {0}
    BY <1>1, <1>3 DEF Ended
  <2> QED BY <2>1, StoreWrites
<1> HIDE DEF new
<1>5. Fits(data, 1, val, L, val)
  <2>1. Len(val) = 1 - 1 + L /\ \A i \in 1 .. 1 - 1 : FALSE
    BY <1>1
  <2>2. \A i \in 1 .. L : 1 - 1 + i = i
    BY <1>1
  <2> QED BY <2>1, <2>2 DEF Fits
<1>6. Holds(new, val)
  <2>1. data \in Seq(Letter) /\ 1 \in Nat \ {0} /\ L \in Nat /\ val \in Seq(Letter) /\ Len(val) < Len(data)
    BY <1>1
  <2> HIDE DEF L
  <2> QED BY <1>3, <1>4, <1>5, <2>1, WriteHolds
<1>7. new \in Seq(Letter) /\ Len(new) = size
  BY <1>1, <1>4 DEF WrittenAt
<1>8. TextAt(new, 1) = val
  <2>1. 1 \in 1 .. Len(val) + 1
    BY <1>1
  <2>2. TextAt(new, 1) = SubSeq(val, 1, Len(val))
    BY <1>6, <1>7, <2>1, TextFound
  <2> QED BY <1>1, <2>2, SubSeqFull
<1>9. used' = L
  <2>1. val \in Seq(Letter) /\ size \in Nat /\ Len(val) < size
    BY <1>1
  <2>2. cpr_strlen(val, size - 1) = Len(val)
    BY <2>1, StrlenIs
  <2> QED BY <1>2, <1>8, <2>2
<1>10. StringTypeOK'
  BY <1>1, <1>2, <1>7, <1>9 DEF StringTypeOK
<1>11. NotYet' /\ BehindForACause'
  BY <1>1, <1>2 DEF NotYet, BehindForACause
<1>12. FilledHolds'
  BY <1>2, <1>6, <1>9 DEF FilledHolds
<1> QED BY <1>10, <1>11, <1>12 DEF StringIInv

(* string_printf *)
LEMMA PrintfHolds ==
    ASSUME StringIInv, NEW val, IsText(val), Printf(val)
    PROVE  StringIInv'
<1>1. Exists
  BY DEF Printf
<1>2. CASE val = <<>>
  <2>1. Put(1, <<>>, 0, <<>>)
    BY <1>2 DEF Printf
  <2> QED BY <1>1, <2>1, ClearHolds
<1>3. CASE val # <<>>
  <2> DEFINE len == Len(val)
  <2>1. Put(1, val, len, val)
    BY <1>3 DEF Printf
  <2>2. size \in Nat /\ size > 0 /\ len \in Nat /\ len <= Len(val) /\ Len(val) = len
    BY <1>1 DEF Exists, StringIInv, StringTypeOK, IsText
  <2> HIDE DEF len
  <2>3. 1 + len > size => size = 1 \/ Len(val) >= size
    BY <2>2
  <2>4. Fits(data, 1, val, len, val)
    <3>1. Len(val) = 1 - 1 + len /\ \A i \in 1 .. 1 - 1 : FALSE
      BY <2>2
    <3>2. \A i \in 1 .. len : 1 - 1 + i = i
      BY <2>2
    <3> QED BY <3>1, <3>2 DEF Fits
  <2>5. 1 \in Nat \ {0}
    OBVIOUS
  <2> QED BY <2>1, <2>2, <2>3, <2>4, <2>5, PutHolds
<1> QED BY <1>2, <1>3

(* Before new_string there is nothing. *)
LEMMA StringInitHolds == StringInit => StringIInv
<1> SUFFICES ASSUME StringInit PROVE StringIInv
  OBVIOUS
<1>1. /\ size = 0 /\ used = 0 /\ data = <<>> /\ text = <<>> /\ filled = FALSE /\ outside = FALSE
  BY DEF StringInit
<1>2. IsText(text) /\ data \in Seq(Letter) /\ Len(data) = 0
  BY <1>1 DEF IsText
<1>3. StringTypeOK
  BY <1>1, <1>2 DEF StringTypeOK
<1> QED BY <1>1, <1>3 DEF StringIInv, NotYet, FilledHolds, BehindForACause

(* Every call keeps the invariant. *)
LEMMA StringNextHolds == StringIInv /\ [StringNext]_stringVars => StringIInv'
<1> SUFFICES ASSUME StringIInv, [StringNext]_stringVars PROVE StringIInv'
  OBVIOUS
<1>1. CASE FreeString
  BY <1>1, FreeHolds
<1>2. CASE Clear
  BY <1>2, ClearHolds DEF Clear
<1>3. CASE Trim \/ Chop
  <2>1. 0 \in Nat
    OBVIOUS
  <2> QED BY <1>3, <2>1, CutHolds
<1>4. ASSUME NEW f \in {UpperOf, LowerOf}, ChangeCase(f) PROVE StringIInv'
  BY <1>4, CaseHolds
<1>5. ASSUME NEW n \in StringSizes, NewString(n) PROVE StringIInv'
  BY <1>5, NewHolds
<1>6. ASSUME NEW n \in StringSizes, CutTo(n) PROVE StringIInv'
  BY <1>6, CutToHolds
<1>7. ASSUME NEW val \in Words, Copy(val) PROVE StringIInv'
  <2>1. IsText(val) /\ Exists /\ string_copy(val, val)
    BY <1>7, WordIs DEF Copy
  <2> QED BY <2>1, CopyHolds
<1>8. ASSUME NEW val \in Words, StrAppend(val) PROVE StringIInv'
  BY <1>8, WordIs, AppendHolds
<1>9. ASSUME NEW val \in Words, Commit(val) PROVE StringIInv'
  BY <1>9, WordIs, CommitHolds
<1>10. ASSUME NEW val \in Words, Printf(val) PROVE StringIInv'
  BY <1>10, WordIs, PrintfHolds
<1>11. ASSUME NEW val \in Words, NEW max \in StringSizes, MakeString(val, max) PROVE StringIInv'
  BY <1>11, WordIs, MakeStringHolds
<1>12. CASE UNCHANGED stringVars
  BY <1>12 DEF stringVars, StringIInv, StringTypeOK, NotYet, FilledHolds, BehindForACause
<1>13. ASSUME NEW n \in StringSizes, LastOf(n) PROVE StringIInv'
  BY <1>13, CutHolds, SizeIs
<1> QED BY <1>1, <1>2, <1>3, <1>4, <1>5, <1>6, <1>7, <1>8, <1>9, <1>10, <1>11, <1>12, <1>13 DEF StringNext

(* However string_t's calls are mixed, whatever the sizes, the words and the   *)
(* bytes malloc leaves, the string holds the text the calls should have left, *)
(* with its length in used and its NUL inside the string.                     *)
THEOREM StringSafety == StringSpec => [](StringTypeOK /\ StringHoldsText)
<1>1. StringIInv => StringTypeOK /\ StringHoldsText
  BY StringFollows DEF StringIInv
<1> QED BY <1>1, StringInitHolds, StringNextHolds, PTL DEF StringSpec

(* The buffer of the calls of strchar: memory that begins with some text. *)
HoldsSome(mem) == mem \in Seq(Letter) /\ \E t : IsText(t) /\ Holds(mem, t)

(* It does when there is a NUL anywhere in it. *)
LEMMA EndsHere ==
    ASSUME NEW mem \in Seq(Letter), NEW k \in 1 .. Len(mem), mem[k] = NUL
    PROVE  HoldsSome(mem)
<1> DEFINE T == {i \in 1 .. Len(mem) : mem[i] = NUL}
<1>1. T \in SUBSET Nat /\ T # {}
  OBVIOUS
<1> HIDE DEF T
<1>2. PICK f \in T : \A j \in T : f <= j
  BY <1>1, LeastNatural
<1>3. f \in 1 .. Len(mem) /\ mem[f] = NUL
  BY <1>2 DEF T
<1> DEFINE n == f - 1
           t == SubSeq(mem, 1, n)
<1>4. n \in 0 .. Len(mem) /\ n < Len(mem) /\ n + 1 = f /\ Len(mem) \in Nat /\ n \in Nat
  BY <1>3
<1> HIDE DEF n
<1>5. t \in Seq(Letter) /\ Len(t) = n /\ \A i \in 1 .. n : t[i] = mem[i]
  BY <1>4, FirstPart
<1> HIDE DEF t
<1>6. ASSUME NEW i \in 1 .. n PROVE t[i] # NUL
  <2>1. i \in 1 .. Len(mem) /\ ~(f <= i)
    BY <1>4
  <2>2. i \notin T
    BY <1>2, <2>1
  <2>3. mem[i] # NUL
    BY <2>1, <2>2 DEF T
  <2> QED BY <1>5, <2>3
<1>7. IsText(t)
  BY <1>5, <1>6 DEF IsText
<1>8. Holds(mem, t)
  BY <1>3, <1>4, <1>5 DEF Holds
<1> QED BY <1>7, <1>8 DEF HoldsSome

(* What it begins with is what TextAt finds. *)
LEMMA FoundIs ==
    ASSUME NEW mem \in Seq(Letter), NEW t, IsText(t), Holds(mem, t)
    PROVE  TextAt(mem, 1) = t /\ t \in Seq(Letter) /\ Len(t) < Len(mem) /\ Len(t) \in Nat
<1>1. t \in Seq(Letter) /\ Len(t) \in Nat /\ Len(t) < Len(mem)
  BY DEF IsText, Holds
<1>2. 1 \in 1 .. Len(t) + 1
  BY <1>1
<1>3. TextAt(mem, 1) = SubSeq(t, 1, Len(t))
  BY <1>2, TextFound
<1> QED BY <1>1, <1>3, SubSeqFull

(* A text with its NUL, written inside the buffer. *)
LEMMA StoreEnds ==
    ASSUME NEW old \in Seq(Letter), NEW at \in Nat \ {0}, NEW len \in Nat, at + len <= Len(old),
           NEW val, NEW s, Ended(val, len, s)
    PROVE  HoldsSome(Store(old, at, s))
<1> DEFINE new == Store(old, at, s)
           k == at + len
<1>1. s \in Seq(Letter) /\ Len(s) = len + 1 /\ s[len + 1] = NUL
  BY DEF Ended
<1>2. WrittenAt(old, at, s, new)
  BY <1>1, StoreWrites
<1>3. new \in Seq(Letter) /\ Len(new) = Len(old)
  BY <1>2 DEF WrittenAt
<1>4. Len(old) \in Nat /\ k \in 1 .. Len(old) /\ k = at + (len + 1) - 1
  OBVIOUS
<1> HIDE DEF new
<1>5. new[k] = NUL
  <2>1. PICK i \in 1 .. Len(s) : i = len + 1
    BY <1>1
  <2>2. at + i - 1 <= Len(old) /\ at + i - 1 = k
    BY <1>4, <2>1
  <2>3. new[at + i - 1] = s[i]
    BY <1>2, <2>2 DEF WrittenAt
  <2> QED BY <1>1, <2>1, <2>2, <2>3
<1> HIDE DEF k
<1>6. k \in 1 .. Len(new)
  BY <1>3, <1>4
<1>7. HoldsSome(new)
  BY <1>3, <1>5, <1>6, EndsHere
<1> QED BY <1>7 DEF new

(* A NUL of its own. *)
LEMMA NulEnds ==
    ASSUME NEW old \in Seq(Letter), NEW at \in 1 .. Len(old)
    PROVE  HoldsSome(Store(old, at, <<NUL>>))
<1> DEFINE s == <<NUL>>
<1>1. NUL \in Letter
  BY DEF Letter
<1>2. Ended(s, 0, s)
  <2>1. s \in Seq(Letter) /\ Len(s) = 0 + 1 /\ s[0 + 1] = NUL
    BY <1>1
  <2> QED BY <2>1 DEF Ended
<1> HIDE DEF s
<1>3. at \in Nat \ {0} /\ 0 \in Nat /\ at + 0 <= Len(old)
  OBVIOUS
<1>4. HoldsSome(Store(old, at, s))
  BY <1>2, <1>3, StoreEnds
<1> QED BY <1>4 DEF s

(* cpr_strcpy to a place in the buffer, max being what is left from there on. *)
LEMMA StrcpyHolds ==
    ASSUME NEW mem \in Seq(Letter), NEW at \in Nat \ {0}, NEW s, IsText(s), NEW max \in Nat \ {0},
           at - 1 + max = Len(mem), HoldsSome(mem) \/ Len(s) > 0
    PROVE  HoldsSome(cpr_strcpy(mem, at, s, max))
<1> DEFINE n == Taken(s, max)
           e == FirstN(s, n - 1) \o <<NUL>>
<1>1. s \in Seq(Letter) /\ Len(s) \in Nat /\ mem \in Seq(Letter) /\ max \in Nat /\ max # 0
  BY DEF IsText, HoldsSome
<1>2. n \in Nat /\ n <= max /\ n <= Len(s) /\ (n = 0 => Len(s) = 0)
  BY <1>1 DEF Taken, cpr_strlen, Lesser
<1>3. cpr_strcpy(mem, at, s, max) = IF n = 0 THEN mem ELSE Store(mem, at, e)
  BY DEF cpr_strcpy
<1> HIDE DEF n
<1>4. CASE n = 0
  BY <1>1, <1>2, <1>3, <1>4
<1>5. CASE n # 0
  <2> DEFINE k == n - 1
  <2>1. k \in Nat /\ k \in 0 .. Len(s) /\ at + k <= Len(mem)
    BY <1>1, <1>2, <1>5
  <2>2. Ended(s, k, FirstN(s, k) \o <<NUL>>)
    BY <1>1, <2>1, EndedIs
  <2>3. Ended(s, k, e)
    BY <2>2
  <2> HIDE DEF e, k
  <2>4. HoldsSome(Store(mem, at, e))
    BY <1>1, <2>1, <2>3, StoreEnds
  <2> QED BY <1>3, <1>5, <2>4
<1> QED BY <1>4, <1>5

(* cpr_strcat *)
LEMMA StrcatHolds ==
    ASSUME NEW mem, HoldsSome(mem), NEW s, IsText(s)
    PROVE  HoldsSome(cpr_strcat(mem, s, Len(mem)))
<1>1. PICK t : IsText(t) /\ Holds(mem, t)
  BY DEF HoldsSome
<1>2. mem \in Seq(Letter)
  BY DEF HoldsSome
<1>3. TextAt(mem, 1) = t /\ t \in Seq(Letter) /\ Len(t) < Len(mem) /\ Len(t) \in Nat /\ Len(mem) \in Nat
  BY <1>1, <1>2, FoundIs
<1> DEFINE offset == cpr_strlen(TextAt(mem, 1), Len(mem))
           at == offset + 1
           max == Len(mem) - offset
<1>4. offset = Len(t)
  BY <1>3 DEF cpr_strlen, Lesser
<1>5. cpr_strcat(mem, s, Len(mem)) = IF offset >= Len(mem) THEN mem ELSE cpr_strcpy(mem, at, s, max)
  BY DEF cpr_strcat
<1> HIDE DEF offset
<1>6. at \in Nat \ {0} /\ max \in Nat \ {0} /\ at - 1 + max = Len(mem) /\ ~(offset >= Len(mem))
  BY <1>3, <1>4
<1> HIDE DEF at, max
<1>7. HoldsSome(cpr_strcpy(mem, at, s, max))
  BY <1>2, <1>6, StrcpyHolds
<1> QED BY <1>5, <1>6, <1>7

(* cpr_strhead, cpr_strtail and cpr_reverse *)
LEMMA CutBufferHolds ==
    ASSUME NEW mem, HoldsSome(mem), NEW n \in Nat
    PROVE  /\ HoldsSome(cpr_strhead(mem, Len(mem), n)) /\ HoldsSome(cpr_strtail(mem, Len(mem), n))
           /\ HoldsSome(cpr_reverse(mem, 1))
<1>1. PICK t : IsText(t) /\ Holds(mem, t)
  BY DEF HoldsSome
<1>2. mem \in Seq(Letter)
  BY DEF HoldsSome
<1>3. TextAt(mem, 1) = t /\ t \in Seq(Letter) /\ Len(t) < Len(mem) /\ Len(t) \in Nat /\ Len(mem) \in Nat
  BY <1>1, <1>2, FoundIs
<1>4. cpr_strlen(TextAt(mem, 1), Len(mem)) = Len(t)
  BY <1>3 DEF cpr_strlen, Lesser
<1>5. 1 \in 1 .. Len(mem) /\ 1 \in Nat \ {0}
  BY <1>3
<1>6. HoldsSome(Store(mem, 1, <<NUL>>))
  BY <1>2, <1>5, NulEnds
<1>7. HoldsSome(cpr_strhead(mem, Len(mem), n))
  <2> DEFINE f == n + 1
             u == SubSeq(t, f, Len(t))
             e == u \o <<NUL>>
  <2>1. cpr_strhead(mem, Len(mem), n) = IF n >= Len(t) THEN Store(mem, 1, <<NUL>>) ELSE Store(mem, 1, e)
    BY <1>3, <1>4 DEF cpr_strhead
  <2>2. CASE n >= Len(t)
    BY <1>6, <2>1, <2>2
  <2>3. CASE ~(n >= Len(t))
    <3>1. f \in 1 .. Len(t) /\ f \in Int /\ Len(t) \in Int /\ \A i \in f .. Len(t) : t[i] \in Letter
      BY <1>3, <2>3
    <3> HIDE DEF f
    <3>2. u \in Seq(Letter) /\ Len(u) = Len(t) - f + 1
      BY <3>1, SubSeqProperties
    <3> HIDE DEF u
    <3>3. Len(u) \in Nat /\ Len(u) \in 0 .. Len(u) /\ 1 + Len(u) <= Len(mem)
      BY <1>3, <3>1, <3>2
    <3>4. Ended(u, Len(u), FirstN(u, Len(u)) \o <<NUL>>)
      BY <3>2, <3>3, EndedIs
    <3>5. FirstN(u, Len(u)) = u
      BY <3>2, SubSeqFull DEF FirstN
    <3>6. Ended(u, Len(u), e)
      BY <3>4, <3>5
    <3> HIDE DEF e
    <3>7. HoldsSome(Store(mem, 1, e))
      BY <1>2, <1>5, <3>3, <3>6, StoreEnds
    <3> QED BY <2>1, <2>3, <3>7
  <2> QED BY <2>2, <2>3
<1>8. HoldsSome(cpr_strtail(mem, Len(mem), n))
  <2>1. cpr_strtail(mem, Len(mem), n) = IF n >= Len(mem) THEN mem
                                        ELSE IF n >= Len(t) THEN Store(mem, 1, <<NUL>>)
                                        ELSE Store(mem, n + 1, <<NUL>>)
    BY <1>4 DEF cpr_strtail
  <2>2. ASSUME ~(n >= Len(mem)) PROVE HoldsSome(Store(mem, n + 1, <<NUL>>))
    <3>1. n + 1 \in 1 .. Len(mem)
      BY <1>3, <2>2
    <3> QED BY <1>2, <3>1, NulEnds
  <2> QED BY <1>6, <2>1, <2>2
<1>9. HoldsSome(cpr_reverse(mem, 1))
  <2> DEFINE b == Backwards(t)
             new == Store(mem, 1, b)
             k == Len(t) + 1
  <2>1. cpr_reverse(mem, 1) = new
    BY <1>3 DEF cpr_reverse
  <2>2. b \in Seq(Letter) /\ Len(b) = Len(t)
    BY <1>3, BackwardsIs
  <2> HIDE DEF b
  <2>3. WrittenAt(mem, 1, b, new)
    BY <1>2, <1>5, <2>2, StoreWrites
  <2> HIDE DEF new
  <2>4. k \in 1 .. Len(mem) /\ k >= 1 + Len(b)
    BY <1>3, <2>2
  <2>5. mem[k] = NUL
    BY <1>1 DEF Holds
  <2> HIDE DEF k
  <2>6. new \in Seq(Letter) /\ Len(new) = Len(mem) /\ new[k] = NUL
    BY <2>3, <2>4, <2>5 DEF WrittenAt
  <2>7. k \in 1 .. Len(new)
    BY <2>4, <2>6
  <2>8. HoldsSome(new)
    BY <2>6, <2>7, EndsHere
  <2> QED BY <2>1, <2>8
<1> QED BY <1>7, <1>8, <1>9

(* The strings the caller goes on with after cpr_strdup, cpr_upper and          *)
(* cpr_lower.                                                                   *)
LEMMA AppendNulHolds ==
    ASSUME NEW s \in Seq(Letter)
    PROVE  HoldsSome(Append(s, NUL))
<1> DEFINE x == Append(s, NUL)
           k == Len(s) + 1
<1>1. NUL \in Letter
  BY DEF Letter
<1>2. x \in Seq(Letter) /\ Len(x) = k /\ x[k] = NUL /\ Len(s) \in Nat
  BY <1>1, AppendProperties
<1> HIDE DEF x
<1>3. k \in 1 .. Len(x)
  BY <1>2
<1> HIDE DEF k
<1>4. HoldsSome(x)
  BY <1>2, <1>3, EndsHere
<1> QED BY <1>4 DEF x

LEMMA DuplicateText ==
    ASSUME NEW t, IsText(t), NEW n \in Nat,
           NEW s \in {cpr_strdup(t, n), cpr_upper(t, n), cpr_lower(t, n)}
    PROVE  HoldsSome(Append(s, NUL))
<1> DEFINE k == cpr_strlen(t, n)
           u == FirstN(t, k)
<1>3. t \in Seq(Letter) /\ Len(t) \in Nat
  BY DEF IsText
<1>4. k \in Nat /\ k <= Len(t)
  BY <1>3 DEF cpr_strlen, Lesser
<1>5. s = u \/ s = Mapped(u, UpperOf) \/ s = Mapped(u, LowerOf)
  BY DEF cpr_strdup, cpr_upper, cpr_lower
<1> HIDE DEF k
<1>6. IsText(u)
  BY <1>4, FirstText
<1> HIDE DEF u
<1>7. IsText(Mapped(u, UpperOf)) /\ IsText(Mapped(u, LowerOf))
  BY <1>6, MappedText
<1>8. s \in Seq(Letter)
  BY <1>5, <1>6, <1>7 DEF IsText
<1> QED BY <1>8, AppendNulHolds

LEMMA DuplicateHolds ==
    ASSUME NEW mem, HoldsSome(mem), NEW n \in Nat, NEW s \in {cpr_strdup(TextAt(mem, 1), n),
                          cpr_upper(TextAt(mem, 1), n), cpr_lower(TextAt(mem, 1), n)}
    PROVE  HoldsSome(Append(s, NUL))
<1>1. PICK t : IsText(t) /\ Holds(mem, t)
  BY DEF HoldsSome
<1>2. mem \in Seq(Letter)
  BY DEF HoldsSome
<1>3. TextAt(mem, 1) = t
  BY <1>1, <1>2, FoundIs
<1> QED BY <1>1, <1>3, DuplicateText

(* f is v divided by ten again and again. *)
Falls(f, v, n) == f = [k \in 0 .. n |-> IF k = 0 THEN v ELSE f[k - 1] \div 10]

(* Such a function exists. *)
LEMMA FallsExists == ASSUME NEW v, NEW n \in Nat PROVE \E f : Falls(f, v, n)
<1> DEFINE T == {k \in Nat : ~\E f : Falls(f, v, k)}
<1> SUFFICES ASSUME T # {} PROVE FALSE
  OBVIOUS
<1>1. PICK k \in T : \A j \in T : k <= j
  <2>1. T \in SUBSET Nat
    OBVIOUS
  <2> HIDE DEF T
  <2> QED BY <2>1, LeastNatural
<1>2. k \in Nat /\ ~\E f : Falls(f, v, k)
  BY <1>1
<1>3. CASE k = 0
  <2> DEFINE f == [i \in 0 .. 0 |-> v]
  <2>1. f = [i \in 0 .. 0 |-> IF i = 0 THEN v ELSE f[i - 1] \div 10]
    OBVIOUS
  <2>2. Falls(f, v, 0)
    BY <2>1 DEF Falls
  <2> QED BY <1>2, <1>3, <2>2
<1>4. CASE k # 0
  <2>1. k - 1 \in Nat /\ ~(k <= k - 1)
    BY <1>2, <1>4
  <2>2. k - 1 \notin T
    BY <1>1, <2>1
  <2>3. PICK f : Falls(f, v, k - 1)
    BY <2>1, <2>2
  <2> DEFINE g == [i \in 0 .. k |-> IF i = k THEN f[k - 1] \div 10 ELSE f[i]]
  <2>4. /\ f[0] = v
        /\ \A i \in 1 .. k - 1 : f[i] = f[i - 1] \div 10
    <3>1. f = [i \in 0 .. k - 1 |-> IF i = 0 THEN v ELSE f[i - 1] \div 10]
      BY <2>3 DEF Falls
    <3>2. 0 \in 0 .. k - 1 /\ \A i \in 1 .. k - 1 : i \in 0 .. k - 1 /\ i # 0
      BY <2>1
    <3> QED BY <3>1, <3>2
  <2>5. g[0] = v
    BY <1>2, <1>4, <2>4
  <2>6. ASSUME NEW i \in 1 .. k PROVE g[i] = g[i - 1] \div 10
    <3>1. i \in 0 .. k /\ i - 1 \in 0 .. k /\ i - 1 # k
      BY <1>2
    <3>2. g[i - 1] = f[i - 1]
      BY <3>1
    <3>3. CASE i = k
      BY <3>1, <3>2, <3>3
    <3>4. CASE i # k
      <4>1. i \in 1 .. k - 1
        BY <1>2, <3>4
      <4>2. g[i] = f[i]
        BY <3>1, <3>4
      <4> QED BY <2>4, <3>2, <4>1, <4>2
    <3> QED BY <3>3, <3>4
  <2>7. g = [i \in 0 .. k |-> g[i]]
    OBVIOUS
  <2> HIDE DEF g
  <2>8. \A i \in 0 .. k : g[i] = IF i = 0 THEN v ELSE g[i - 1] \div 10
    <3> TAKE i \in 0 .. k
    <3>1. i # 0 => i \in 1 .. k
      BY <1>2
    <3> QED BY <2>5, <2>6, <3>1
  <2>9. Falls(g, v, k)
    BY <2>7, <2>8 DEF Falls
  <2> QED BY <1>2, <2>9
<1> QED BY <1>3, <1>4

(* What the loop of cpr_strlong leaves of a number, round after round. *)
LEMMA LeftOverIs ==
    ASSUME NEW v \in Nat, NEW room \in Nat
    PROVE  /\ LeftOver(v, room)[0] = v
           /\ \A k \in 0 .. room : LeftOver(v, room)[k] \in Nat
           /\ \A k \in 1 .. room : LeftOver(v, room)[k] = LeftOver(v, room)[k - 1] \div 10
<1> DEFINE f == CHOOSE h : h = [k \in 0 .. room |-> IF k = 0 THEN v ELSE h[k - 1] \div 10]
<1>1. LeftOver(v, room) = f
  BY DEF LeftOver
<1>2. f = [k \in 0 .. room |-> IF k = 0 THEN v ELSE f[k - 1] \div 10]
  BY FallsExists DEF Falls
<1> HIDE DEF f
<1>3. 0 \in 0 .. room /\ \A k \in 1 .. room : k \in 0 .. room /\ k # 0
  OBVIOUS
<1>4. f[0] = v /\ \A k \in 1 .. room : f[k] = f[k - 1] \div 10
  BY <1>2, <1>3
<1> DEFINE T == {k \in 0 .. room : f[k] \notin Nat}
<1>5. T = {}
  <2> SUFFICES ASSUME T # {} PROVE FALSE
    OBVIOUS
  <2>1. T \in SUBSET Nat
    OBVIOUS
  <2>2. PICK k \in T : \A j \in T : k <= j
    <3> HIDE DEF T
    <3> QED BY <2>1, LeastNatural
  <2>3. k \in 0 .. room /\ f[k] \notin Nat /\ k # 0
    BY <1>4, <2>2
  <2>4. k \in 1 .. room /\ k - 1 \in 0 .. room /\ ~(k <= k - 1)
    BY <2>3
  <2>5. f[k - 1] \in Nat
    BY <2>2, <2>4
  <2>6. f[k - 1] \div 10 \in Nat
    BY <2>5
  <2> QED BY <1>4, <2>3, <2>4, <2>6
<1>6. \A k \in 0 .. room : f[k] \in Nat
  BY <1>5
<1> QED BY <1>1, <1>4, <1>6

(* It ends with 0, or where there is no more room. *)
LEMMA RoundsIs ==
    ASSUME NEW v \in Nat, NEW room \in Nat
    PROVE  /\ Rounds(v, room) \in 0 .. room
           /\ Rounds(v, room) < room => LeftOver(v, room)[Rounds(v, room)] = 0
<1> DEFINE r == CHOOSE k \in 0 .. room : /\ k < room => LeftOver(v, room)[k] = 0
                                         /\ \A j \in 0 .. k - 1 : LeftOver(v, room)[j] # 0
           T == {k \in 0 .. room : k < room => LeftOver(v, room)[k] = 0}
<1>1. Rounds(v, room) = r
  BY DEF Rounds
<1>2. T \in SUBSET Nat /\ room \in T
  OBVIOUS
<1>3. PICK k \in T : \A j \in T : k <= j
  <2> HIDE DEF T
  <2> QED BY <1>2, LeastNatural
<1>4. ASSUME NEW j \in 0 .. k - 1 PROVE LeftOver(v, room)[j] # 0
  <2>1. k \in 0 .. room /\ j \in 0 .. room /\ ~(k <= j) /\ j < room
    BY <1>3
  <2>2. j \notin T
    BY <1>3, <2>1
  <2> QED BY <2>1, <2>2
<1>5. k \in 0 .. room /\ (k < room => LeftOver(v, room)[k] = 0)
  BY <1>3
<1>6. r \in 0 .. room /\ (r < room => LeftOver(v, room)[r] = 0)
  BY <1>4, <1>5
<1> QED BY <1>1, <1>6

(* Each digit has its own character, and none is a NUL. *)
LEMMA DigitIs ==
    ASSUME NEW d \in 0 .. 9
    PROVE  DigitOf(Digit[d + 1]) = d /\ Digit[d + 1] \in Letter /\ Digit[d + 1] # NUL
<1>1. d + 1 \in 1 .. 10
  OBVIOUS
<1>2. Digit[d + 1] \in Letter
  BY <1>1 DEF Letter
<1>3. d \in {0, 1, 2, 3, 4, 5, 6, 7, 8, 9}
  OBVIOUS
<1>4. /\ Digit[1] = "0" /\ Digit[2] = "1" /\ Digit[3] = "2" /\ Digit[4] = "3" /\ Digit[5] = "4"
      /\ Digit[6] = "5" /\ Digit[7] = "6" /\ Digit[8] = "7" /\ Digit[9] = "8" /\ Digit[10] = "9"
  BY DEF Digit
<1>5. Digit[d + 1] # NUL
  BY <1>3, <1>4 DEF NUL
<1>6. ASSUME NEW e \in 0 .. 9, Digit[e + 1] = Digit[d + 1] PROVE e = d
  <2>1. e \in {0, 1, 2, 3, 4, 5, 6, 7, 8, 9}
    OBVIOUS
  <2> QED BY <1>3, <1>4, <1>6, <2>1
<1> DEFINE c == Digit[d + 1]
           x == CHOOSE e \in 0 .. 9 : Digit[e + 1] = c
<1>7. x \in 0 .. 9 /\ Digit[x + 1] = c
  OBVIOUS
<1>8. DigitOf(c) = x
  BY DEF DigitOf
<1> HIDE DEF x
<1>9. x = d
  BY <1>6, <1>7
<1> QED BY <1>2, <1>5, <1>8, <1>9

(* The value of a string, from any function that adds its digits up. *)
LEMMA ValueIs ==
    ASSUME NEW s, Len(s) \in Nat, NEW f \in [0 .. Len(s) -> Nat], f[0] = 0,
           \A n \in 1 .. Len(s) : f[n] = 10 * f[n - 1] + DigitOf(s[n])
    PROVE  ValueOf(s) = f[Len(s)]
<1> DEFINE g == CHOOSE h : h = [n \in 0 .. Len(s) |-> IF n = 0 THEN 0 ELSE 10 * h[n - 1] + DigitOf(s[n])]
<1>1. ValueOf(s) = g[Len(s)]
  BY DEF ValueOf
<1>2. \A n \in 0 .. Len(s) : f[n] = IF n = 0 THEN 0 ELSE 10 * f[n - 1] + DigitOf(s[n])
  <2> TAKE n \in 0 .. Len(s)
  <2>1. n # 0 => n \in 1 .. Len(s)
    OBVIOUS
  <2> QED BY <2>1
<1>3. f = [n \in 0 .. Len(s) |-> IF n = 0 THEN 0 ELSE 10 * f[n - 1] + DigitOf(s[n])]
  BY <1>2
<1>4. g = [n \in 0 .. Len(s) |-> IF n = 0 THEN 0 ELSE 10 * g[n - 1] + DigitOf(s[n])]
  BY <1>3
<1> HIDE DEF g
<1>5. 0 \in 0 .. Len(s) /\ Len(s) \in 0 .. Len(s) /\ \A n \in 1 .. Len(s) : n \in 0 .. Len(s) /\ n # 0
  OBVIOUS
<1>6. g[0] = 0 /\ \A n \in 1 .. Len(s) : g[n] = 10 * g[n - 1] + DigitOf(s[n])
  BY <1>4, <1>5
<1> DEFINE T == {n \in 0 .. Len(s) : g[n] # f[n]}
<1>7. T = {}
  <2> SUFFICES ASSUME T # {} PROVE FALSE
    OBVIOUS
  <2>1. T \in SUBSET Nat
    OBVIOUS
  <2>2. PICK n \in T : \A j \in T : n <= j
    <3> HIDE DEF T
    <3> QED BY <2>1, LeastNatural
  <2>3. n \in 0 .. Len(s) /\ g[n] # f[n] /\ n # 0
    BY <1>6, <2>2
  <2>4. n \in 1 .. Len(s) /\ n - 1 \in 0 .. Len(s) /\ ~(n <= n - 1)
    BY <2>3
  <2>5. g[n - 1] = f[n - 1]
    BY <2>2, <2>4
  <2> QED BY <1>6, <2>3, <2>4, <2>5
<1>8. g[Len(s)] = f[Len(s)]
  BY <1>5, <1>7
<1> QED BY <1>1, <1>8

(* The digits of cpr_strlong, turned round, spell the number when there was     *)
(* room for one more.                                                           *)
LEMMA DigitsSpell ==
    ASSUME NEW v \in Nat, NEW room \in Nat
    PROVE  /\ IsText(LowDigits(v, room)) /\ Len(LowDigits(v, room)) <= room
           /\ IsText(Backwards(LowDigits(v, room)))
           /\ Len(LowDigits(v, room)) < room => ValueOf(Backwards(LowDigits(v, room))) = v
<1> DEFINE left == LeftOver(v, room)
           r == Rounds(v, room)
           D == LowDigits(v, room)
           b == Backwards(D)
<1>1. /\ left[0] = v /\ \A k \in 0 .. room : left[k] \in Nat
      /\ \A k \in 1 .. room : left[k] = left[k - 1] \div 10
  BY LeftOverIs
<1>2. r \in 0 .. room /\ (r < room => left[r] = 0)
  BY RoundsIs
<1>3. D = [k \in 1 .. r |-> Digit[(left[k - 1] % 10) + 1]]
  BY DEF LowDigits
<1> HIDE DEF left, r, D
<1>4. ASSUME NEW k \in 1 .. r
      PROVE  /\ left[k - 1] \in Nat /\ left[k] \in Nat /\ left[k - 1] % 10 \in 0 .. 9
             /\ left[k - 1] = 10 * left[k] + (left[k - 1] % 10)
  <2>1. k \in 1 .. room /\ k - 1 \in 0 .. room /\ k \in 0 .. room
    BY <1>2
  <2>2. left[k - 1] \in Nat /\ left[k] \in Nat /\ left[k] = left[k - 1] \div 10
    BY <1>1, <2>1
  <2>3. \A x \in Nat : x % 10 \in 0 .. 9 /\ x = 10 * (x \div 10) + (x % 10)
    OBVIOUS
  <2>4. left[k - 1] % 10 \in 0 .. 9 /\ left[k - 1] = 10 * (left[k - 1] \div 10) + (left[k - 1] % 10)
    BY <2>2, <2>3
  <2> QED BY <2>2, <2>4
<1>5. ASSUME NEW k \in 1 .. r
      PROVE  /\ D[k] \in Letter /\ D[k] # NUL /\ DigitOf(D[k]) = left[k - 1] % 10
  <2> DEFINE d == left[k - 1] % 10
  <2>1. d \in 0 .. 9
    BY <1>4
  <2>2. D[k] = Digit[d + 1]
    BY <1>3
  <2> HIDE DEF d
  <2>3. DigitOf(Digit[d + 1]) = d /\ Digit[d + 1] \in Letter /\ Digit[d + 1] # NUL
    BY <2>1, DigitIs
  <2> QED BY <2>2, <2>3 DEF d
<1>6. r \in Nat /\ room \in Nat /\ r <= room
  BY <1>2
<1>7. D \in [1 .. r -> Letter]
  BY <1>3, <1>5
<1>8. D \in Seq(Letter) /\ Len(D) = r
  BY <1>6, <1>7
<1>9. IsText(D)
  BY <1>5, <1>8 DEF IsText
<1>10. b \in Seq(Letter) /\ Len(b) = r /\ \A i \in 1 .. r : b[i] = D[r - i + 1]
  BY <1>8, BackwardsIs
<1> HIDE DEF b
<1>11. IsText(b)
  <2>1. ASSUME NEW i \in 1 .. r PROVE b[i] # NUL
    <3>1. r - i + 1 \in 1 .. r
      BY <1>6
    <3> QED BY <1>5, <1>10, <3>1
  <2> QED BY <1>10, <2>1 DEF IsText
<1>12. ASSUME r < room PROVE ValueOf(b) = v
  <2> DEFINE f == [n \in 0 .. r |-> left[r - n]]
  <2>1. \A n \in 0 .. r : r - n \in 0 .. room
    BY <1>6
  <2>2. f \in [0 .. r -> Nat]
    BY <1>1, <2>1
  <2>3. f[0] = 0 /\ f[r] = v
    <3>1. 0 \in 0 .. r /\ r \in 0 .. r /\ r - 0 = r /\ r - r = 0
      BY <1>6
    <3> QED BY <1>1, <1>2, <1>12, <3>1
  <2>4. ASSUME NEW n \in 1 .. r PROVE f[n] = 10 * f[n - 1] + DigitOf(b[n])
    <3>1. PICK k \in 1 .. r : k = r - n + 1
      BY <1>6
    <3>2. n \in 0 .. r /\ n - 1 \in 0 .. r /\ r - n = k - 1 /\ r - (n - 1) = k
      BY <1>6, <3>1
    <3>3. f[n] = left[k - 1] /\ f[n - 1] = left[k]
      BY <3>2
    <3>4. b[n] = D[k]
      BY <1>10, <3>1
    <3> HIDE DEF f
    <3>5. DigitOf(b[n]) = left[k - 1] % 10
      BY <1>5, <3>4
    <3>6. left[k - 1] = 10 * left[k] + (left[k - 1] % 10)
      BY <1>4
    <3> QED BY <3>3, <3>5, <3>6
  <2> HIDE DEF f
  <2>5. Len(b) \in Nat /\ f \in [0 .. Len(b) -> Nat] /\ f[0] = 0
        /\ \A n \in 1 .. Len(b) : f[n] = 10 * f[n - 1] + DigitOf(b[n])
    BY <1>6, <1>10, <2>2, <2>3, <2>4
  <2>6. ValueOf(b) = f[Len(b)]
    BY <2>5, ValueIs
  <2> QED BY <1>10, <2>3, <2>6
<1> QED BY <1>6, <1>8, <1>9, <1>11, <1>12 DEF D, b

(* The text t spells v. *)
Spells(t, v) == IF v < 0 THEN t[1] = "-" /\ ValueOf(Tail(t)) = -v ELSE ValueOf(t) = v

(* The digits behind a sign, stored, ended and turned round in the buffer. *)
LEMMA TurnedHolds ==
    ASSUME NEW mem \in Seq(Letter), NEW sign, IsText(sign), NEW D, IsText(D),
           Len(sign) + Len(D) < Len(mem), NEW b, b = Backwards(D), IsText(b),
           NEW at, at = Len(sign) + 1, NEW new,
           new = cpr_reverse(Store(Store(mem, 1, sign \o D), at + Len(D), <<NUL>>), at)
    PROVE  new \in Seq(Letter) /\ Holds(new, sign \o b)
<1> DEFINE t0 == sign \o D
           raw == Store(mem, 1, t0)
           p == at + Len(D)
           z == <<NUL>>
           ended == Store(raw, p, z)
           t == sign \o b
<1>1. /\ Len(mem) \in Nat /\ sign \in Seq(Letter) /\ D \in Seq(Letter) /\ b \in Seq(Letter)
      /\ Len(sign) \in Nat /\ Len(D) \in Nat /\ Len(b) = Len(D)
  BY BackwardsIs DEF IsText
<1>2. /\ t0 \in Seq(Letter) /\ Len(t0) = Len(sign) + Len(D)
      /\ \A i \in 1 .. Len(sign) : t0[i] = sign[i]
      /\ \A i \in 1 .. Len(D) : t0[Len(sign) + i] = D[i]
  BY <1>1, ConcatAt
<1>3. /\ t \in Seq(Letter) /\ Len(t) = Len(sign) + Len(b)
      /\ \A i \in 1 .. Len(sign) : t[i] = sign[i]
      /\ \A i \in 1 .. Len(b) : t[Len(sign) + i] = b[i]
  <2>1. sign \in Seq(Letter) /\ b \in Seq(Letter)
    BY <1>1
  <2> QED BY <2>1, ConcatAt
<1> HIDE DEF t0, t
<1>4. /\ p = Len(t0) + 1 /\ p \in 1 .. Len(mem) /\ p \in Nat \ {0} /\ at \in Nat \ {0} /\ 1 \in Nat \ {0}
  BY <1>1, <1>2
<1>5. z \in Seq(Letter) /\ Len(z) = 1 /\ z[1] = NUL
  <2>1. NUL \in Letter
    BY DEF Letter
  <2> QED BY <2>1
<1>6. new = cpr_reverse(ended, at)
  BY DEF t0
<1> HIDE DEF z, p
<1>7. WrittenAt(mem, 1, t0, raw)
  BY <1>2, <1>4, StoreWrites
<1>8. raw \in Seq(Letter) /\ Len(raw) = Len(mem)
  BY <1>7 DEF WrittenAt
<1> HIDE DEF raw
<1>9. WrittenAt(raw, p, z, ended)
  BY <1>4, <1>5, <1>8, StoreWrites
<1>10. ended \in Seq(Letter) /\ Len(ended) = Len(mem)
  BY <1>8, <1>9 DEF WrittenAt
<1> HIDE DEF ended
<1>11. ASSUME NEW i \in 1 .. Len(t0) PROVE ended[i] = t0[i]
  <2>1. i \in 1 .. Len(raw) /\ i < p /\ 1 + i - 1 = i /\ i <= Len(mem)
    BY <1>1, <1>2, <1>4, <1>8
  <2>2. raw[i] = t0[i]
    BY <1>7, <2>1 DEF WrittenAt
  <2> QED BY <1>9, <2>1, <2>2 DEF WrittenAt
<1>12. ended[p] = NUL
  <2>1. 1 \in 1 .. Len(z) /\ p + 1 - 1 = p /\ p <= Len(raw)
    BY <1>4, <1>5, <1>8
  <2>2. ended[p + 1 - 1] = z[1]
    BY <1>9, <2>1 DEF WrittenAt
  <2> QED BY <1>5, <2>1, <2>2
<1>13. Holds(ended, t0)
  BY <1>4, <1>10, <1>11, <1>12, <1>2, <1>1 DEF Holds
<1>14. IsText(t0)
  <2>1. ASSUME NEW i \in 1 .. Len(t0) PROVE t0[i] # NUL
    <3>1. CASE i \in 1 .. Len(sign)
      BY <1>2, <3>1 DEF IsText
    <3>2. CASE i \notin 1 .. Len(sign)
      <4>1. PICK k \in 1 .. Len(D) : i = Len(sign) + k
        <5>1. i - Len(sign) \in 1 .. Len(D) /\ i = Len(sign) + (i - Len(sign))
          BY <1>1, <1>2, <3>2
        <5> QED BY <5>1
      <4> QED BY <1>2, <4>1 DEF IsText
    <3> QED BY <3>1, <3>2
  <2> QED BY <1>2, <2>1 DEF IsText
<1>15. TextAt(ended, at) = D
  <2> DEFINE u == SubSeq(t0, at, Len(t0))
             L == Len(t0)
  <2>1. at \in 1 .. Len(t0) + 1
    BY <1>1, <1>2
  <2>2. TextAt(ended, at) = SubSeq(t0, at, L)
    BY <1>10, <1>13, <1>14, <2>1, TextFound
  <2>3. at \in Int /\ L \in Int /\ \A i \in at .. L : t0[i] \in Letter
    BY <1>1, <1>2, <1>4
  <2>4. L - at + 1 = Len(D) /\ (at <= L => Len(D) > 0) /\ (~(at <= L) => Len(D) = 0)
    BY <1>1, <1>2
  <2> HIDE DEF L
  <2> DEFINE w == SubSeq(t0, at, L)
  <2>5. /\ w \in Seq(Letter) /\ Len(w) = (IF at <= L THEN L - at + 1 ELSE 0)
        /\ \A i \in 1 .. L - at + 1 : w[i] = t0[at + i - 1]
    BY <2>3, SubSeqProperties
  <2> HIDE DEF w
  <2>6. Len(w) = Len(D)
    BY <1>1, <2>4, <2>5
  <2>7. ASSUME NEW i \in 1 .. Len(w) PROVE w[i] = D[i]
    <3>1. at + i - 1 = Len(sign) + i /\ i \in 1 .. L - at + 1 /\ i \in 1 .. Len(D)
      BY <1>1, <2>4, <2>6
    <3>2. w[i] = t0[at + i - 1] /\ t0[Len(sign) + i] = D[i]
      BY <1>2, <2>5, <3>1
    <3> QED BY <3>1, <3>2
  <2>8. w = D
    BY <1>1, <2>5, <2>6, <2>7, SeqEqual
  <2> QED BY <2>2, <2>8 DEF w
<1>16. new = Store(ended, at, b)
  BY <1>6, <1>15 DEF cpr_reverse
<1>17. WrittenAt(ended, at, b, new)
  <2>1. WrittenAt(ended, at, b, Store(ended, at, b))
    BY <1>1, <1>4, <1>10, StoreWrites
  <2> QED BY <1>16, <2>1
<1>18. new \in Seq(Letter) /\ Len(new) = Len(mem)
  BY <1>10, <1>17 DEF WrittenAt
<1>19. ASSUME NEW i \in 1 .. Len(t) PROVE new[i] = t[i]
  <2>1. CASE i < at
    <3>1. i \in 1 .. Len(sign) /\ i \in 1 .. Len(ended) /\ i \in 1 .. Len(t0)
      BY <1>1, <1>2, <1>3, <1>10, <2>1
    <3>2. new[i] = ended[i]
      BY <1>17, <2>1, <3>1 DEF WrittenAt
    <3> QED BY <1>2, <1>3, <1>11, <3>1, <3>2
  <2>2. CASE ~(i < at)
    <3>1. PICK k \in 1 .. Len(b) : k = i - at + 1
      <4>1. i - at + 1 \in 1 .. Len(b)
        BY <1>1, <1>3, <1>4, <2>2
      <4> QED BY <4>1
    <3>2. at + k - 1 = i /\ Len(sign) + k = i /\ i <= Len(ended)
      BY <1>1, <1>3, <1>10, <3>1
    <3>3. new[at + k - 1] = b[k]
      BY <1>17, <3>2 DEF WrittenAt
    <3>4. t[Len(sign) + k] = b[k]
      BY <1>3
    <3> QED BY <3>2, <3>3, <3>4
  <2> QED BY <2>1, <2>2
<1>20. new[p] = NUL /\ p = Len(t) + 1 /\ Len(t) < Len(new)
  <2>1. p \in 1 .. Len(ended) /\ p >= at + Len(b) /\ p = Len(t) + 1 /\ Len(t) < Len(new)
    BY <1>1, <1>2, <1>3, <1>4, <1>10, <1>18
  <2>2. new[p] = ended[p]
    BY <1>17, <2>1 DEF WrittenAt
  <2> QED BY <1>12, <2>1, <2>2
<1>21. Holds(new, t)
  BY <1>19, <1>20 DEF Holds
<1> QED BY <1>18, <1>21 DEF t

(* cpr_strlong into the whole buffer. *)
LEMMA StrlongHolds ==
    ASSUME NEW mem \in Seq(Letter), NEW v \in Int, NEW r, r = cpr_strlong(mem, v, Len(mem)), r.ok
    PROVE  r.mem \in Seq(Letter) /\ \E t : IsText(t) /\ Holds(r.mem, t) /\ Spells(t, v)
<1> DEFINE s == Len(mem)
           sign == IF v < 0 THEN <<"-">> ELSE <<>>
           room == s - 1 - Len(sign)
           u == IF v < 0 THEN -v ELSE v
           D == LowDigits(u, room)
           at == Len(sign) + 1
           raw == Store(mem, 1, sign \o D)
           new == cpr_reverse(Store(raw, at + Len(D), <<NUL>>), at)
<1>1. r = IF s < 2 THEN [mem |-> mem, ok |-> FALSE]
          ELSE IF v = 0 THEN [mem |-> Store(mem, 1, <<"0", NUL>>), ok |-> TRUE]
          ELSE IF ~NumberFits(D, room) THEN [mem |-> raw, ok |-> FALSE]
          ELSE [mem |-> new, ok |-> TRUE]
  BY DEF cpr_strlong
<1>2. s \in Nat /\ ~(s < 2)
  BY <1>1
<1>3. CASE v = 0
  <2> DEFINE x == <<"0", NUL>>
             t == <<"0">>
             z == Store(mem, 1, x)
  <2>1. r.mem = z
    BY <1>1, <1>2, <1>3
  <2>2. 0 \in 0 .. 9 /\ Digit[0 + 1] = "0"
    BY DEF Digit
  <2>3. DigitOf("0") = 0 /\ "0" \in Letter /\ "0" # NUL
    BY <2>2, DigitIs
  <2>4. NUL \in Letter
    BY DEF Letter
  <2>5. x \in Seq(Letter) /\ Len(x) = 2 /\ x[1] = "0" /\ x[2] = NUL
    BY <2>3, <2>4
  <2>6. t \in Seq(Letter) /\ Len(t) = 1 /\ t[1] = "0"
    BY <2>3
  <2> HIDE DEF x, t
  <2>7. 1 \in Nat \ {0}
    OBVIOUS
  <2>8. WrittenAt(mem, 1, x, z)
    BY <2>5, <2>7, StoreWrites
  <2> HIDE DEF z
  <2>9. z \in Seq(Letter) /\ Len(z) = s
    BY <2>8 DEF WrittenAt
  <2>10. z[1] = "0" /\ z[2] = NUL
    <3>1. \A i \in 1 .. 2 : 1 + i - 1 = i /\ 1 + i - 1 <= s
      BY <1>2
    <3>2. \A i \in 1 .. 2 : z[i] = x[i]
      BY <2>5, <2>8, <3>1 DEF WrittenAt
    <3> QED BY <2>5, <3>2
  <2>11. Holds(z, t)
    BY <1>2, <2>6, <2>9, <2>10 DEF Holds
  <2>12. IsText(t)
    BY <2>3, <2>6 DEF IsText
  <2>13. ValueOf(t) = 0
    <3> DEFINE f == [n \in 0 .. Len(t) |-> 0]
    <3>1. f \in [0 .. Len(t) -> Nat] /\ f[0] = 0 /\ f[Len(t)] = 0 /\ Len(t) \in Nat
      BY <2>6
    <3>2. ASSUME NEW n \in 1 .. Len(t) PROVE f[n] = 10 * f[n - 1] + DigitOf(t[n])
      <4>1. n = 1 /\ f[1] = 0 /\ n - 1 = 0
        BY <2>6
      <4> QED BY <2>3, <2>6, <3>1, <4>1
    <3> HIDE DEF f
    <3> QED BY <3>1, <3>2, ValueIs
  <2>14. Spells(t, v)
    BY <1>3, <2>13 DEF Spells
  <2> QED BY <2>1, <2>9, <2>11, <2>12, <2>14
<1>4. CASE v # 0
  <2>1. r.mem = new /\ NumberFits(D, room)
    BY <1>1, <1>2, <1>4
  <2>2. Len(D) < room
    BY <2>1 DEF NumberFits
  <2>3. /\ IsText(sign)
        /\ v < 0 => Len(sign) = 1 /\ sign[1] = "-"
        /\ ~(v < 0) => Len(sign) = 0
    <3>1. CASE v < 0
      <4>1. "-" \in Letter /\ "-" # NUL
        BY DEF Letter, NUL
      <4>2. sign \in Seq(Letter) /\ Len(sign) = 1 /\ sign[1] = "-"
        BY <3>1, <4>1
      <4> HIDE DEF sign
      <4>3. IsText(sign)
        BY <4>1, <4>2 DEF IsText
      <4> QED BY <3>1, <4>2, <4>3
    <3>2. CASE ~(v < 0)
      <4>1. sign = <<>>
        BY <3>2
      <4> HIDE DEF sign
      <4>2. IsText(sign) /\ Len(sign) = 0
        BY <4>1 DEF IsText
      <4> QED BY <3>2, <4>2
    <3> QED BY <3>1, <3>2
  <2>4. ~(v < 0) => sign = <<>>
    OBVIOUS
  <2> HIDE DEF sign
  <2>5. room \in Nat /\ u \in Nat /\ room = s - 1 - Len(sign)
    <3>1. Len(sign) = 0 \/ Len(sign) = 1
      BY <2>3
    <3>2. \A x \in Nat, y \in {0, 1} : ~(x < 2) => x - 1 - y \in Nat
      OBVIOUS
    <3>3. s - 1 - Len(sign) \in Nat
      <4> HIDE DEF s
      <4> QED BY <1>2, <3>1, <3>2
    <3>4. u \in Nat
      OBVIOUS
    <3> QED BY <3>3, <3>4
  <2> HIDE DEF room, u
  <2> DEFINE b == Backwards(D)
             t == sign \o b
  <2>6. IsText(D) /\ Len(D) <= room /\ IsText(b) /\ ValueOf(b) = u
    BY <2>2, <2>5, DigitsSpell
  <2>7. Len(D) \in Nat
    BY <2>6 DEF IsText
  <2> HIDE DEF D
  <2>8. Len(sign) + Len(D) < Len(mem)
    BY <1>2, <2>2, <2>3, <2>5, <2>7
  <2> HIDE DEF at
  <2>9. b = Backwards(D) /\ at = Len(sign) + 1 /\ new = cpr_reverse(Store(Store(mem, 1, sign \o D), at + Len(D), <<NUL>>), at)
    BY DEF at
  <2> HIDE DEF b, new
  <2>10. new \in Seq(Letter) /\ Holds(new, sign \o b)
    BY <2>3, <2>6, <2>8, <2>9, TurnedHolds
  <2>11. /\ sign \in Seq(Letter) /\ b \in Seq(Letter) /\ Len(sign) \in Nat /\ Len(b) \in Nat
         /\ \A i \in 1 .. Len(b) : b[i] # NUL
         /\ \A i \in 1 .. Len(sign) : sign[i] # NUL
    BY <2>3, <2>6 DEF IsText
  <2>12. /\ t \in Seq(Letter) /\ Len(t) = Len(sign) + Len(b)
         /\ \A i \in 1 .. Len(sign) : t[i] = sign[i]
         /\ \A i \in 1 .. Len(b) : t[Len(sign) + i] = b[i]
    BY <2>11, ConcatAt
  <2> HIDE DEF t
  <2>13. IsText(t)
    <3>1. ASSUME NEW i \in 1 .. Len(t) PROVE t[i] # NUL
      <4>1. CASE i \in 1 .. Len(sign)
        BY <2>11, <2>12, <4>1
      <4>2. CASE i \notin 1 .. Len(sign)
        <5>1. PICK k \in 1 .. Len(b) : i = Len(sign) + k
          <6>1. i - Len(sign) \in 1 .. Len(b) /\ i = Len(sign) + (i - Len(sign))
            BY <2>11, <2>12, <4>2
          <6> QED BY <6>1
        <5> QED BY <2>11, <2>12, <5>1
      <4> QED BY <4>1, <4>2
    <3> QED BY <2>12, <3>1 DEF IsText
  <2>14. Spells(t, v)
    <3>1. CASE v < 0
      <4>1. Len(sign) = 1 /\ t[1] = "-" /\ Len(t) = 1 + Len(b) /\ u = -v
        <5>1. u = -v
          BY <3>1 DEF u
        <5>2. Len(sign) = 1 /\ sign[1] = "-"
          BY <2>3, <3>1
        <5>3. 1 \in 1 .. Len(sign)
          BY <5>2
        <5> QED BY <2>12, <5>1, <5>2, <5>3
      <4> DEFINE w == Tail(t)
      <4>2. t \in Seq(Letter) /\ t # <<>>
        BY <2>11, <2>12, <4>1
      <4>3. w \in Seq(Letter) /\ Len(w) = Len(t) - 1 /\ \A i \in 1 .. Len(t) - 1 : w[i] = t[i + 1]
        BY <4>2, HeadTailProperties
      <4> HIDE DEF w
      <4>4. Len(w) = Len(b)
        BY <2>11, <4>1, <4>3
      <4>5. ASSUME NEW i \in 1 .. Len(w) PROVE w[i] = b[i]
        <5>1. i + 1 = Len(sign) + i /\ i \in 1 .. Len(b) /\ i \in 1 .. Len(t) - 1
          BY <2>11, <4>1, <4>3, <4>4
        <5> QED BY <2>12, <4>3, <5>1
      <4>6. w = b
        BY <2>11, <4>3, <4>4, <4>5, SeqEqual
      <4> QED BY <2>6, <3>1, <4>1, <4>6 DEF Spells, w
    <3>2. CASE ~(v < 0)
      <4>1. t = b /\ u = v
        BY <2>4, <2>11, <3>2 DEF t, u
      <4> QED BY <2>6, <3>2, <4>1 DEF Spells
    <3> QED BY <3>1, <3>2
  <2> QED BY <2>1, <2>10, <2>13, <2>14 DEF t
<1> QED BY <1>3, <1>4

(* What a refused cpr_strlong leaves. *)
LEMMA RefusedLeaves ==
    ASSUME NEW mem \in Seq(Letter), NEW v \in Int, NEW r, r = cpr_strlong(mem, v, Len(mem)), ~r.ok
    PROVE  r.mem \in Seq(Letter) /\ Len(r.mem) = Len(mem)
<1> DEFINE s == Len(mem)
           sign == IF v < 0 THEN <<"-">> ELSE <<>>
           room == s - 1 - Len(sign)
           u == IF v < 0 THEN -v ELSE v
           D == LowDigits(u, room)
           at == Len(sign) + 1
           x == sign \o D
           raw == Store(mem, 1, x)
           new == cpr_reverse(Store(raw, at + Len(D), <<NUL>>), at)
<1>1. r = IF s < 2 THEN [mem |-> mem, ok |-> FALSE]
          ELSE IF v = 0 THEN [mem |-> Store(mem, 1, <<"0", NUL>>), ok |-> TRUE]
          ELSE IF ~NumberFits(D, room) THEN [mem |-> raw, ok |-> FALSE]
          ELSE [mem |-> new, ok |-> TRUE]
  BY DEF cpr_strlong
<1> HIDE DEF new
<1>2. CASE s < 2
  BY <1>1, <1>2
<1>3. CASE ~(s < 2)
  <2>1. r.mem = raw
    BY <1>1, <1>3
  <2>2. sign \in Seq(Letter) /\ (Len(sign) = 0 \/ Len(sign) = 1)
    <3>1. "-" \in Letter
      BY DEF Letter
    <3> QED BY <3>1
  <2> HIDE DEF sign
  <2>3. room \in Nat /\ u \in Nat
    <3>1. \A k \in Nat, j \in {0, 1} : ~(k < 2) => k - 1 - j \in Nat
      OBVIOUS
    <3>2. s \in Nat /\ Len(sign) \in {0, 1}
      BY <2>2
    <3>3. room \in Nat
      <4> HIDE DEF s
      <4> QED BY <1>3, <3>1, <3>2
    <3>4. u \in Nat
      OBVIOUS
    <3> QED BY <3>3, <3>4
  <2> HIDE DEF room, u
  <2>4. D \in Seq(Letter)
    BY <2>3, DigitsSpell DEF IsText
  <2> HIDE DEF D
  <2>5. x \in Seq(Letter)
    BY <2>2, <2>4
  <2> HIDE DEF x
  <2>6. 1 \in Nat \ {0}
    OBVIOUS
  <2>7. WrittenAt(mem, 1, x, raw)
    BY <2>5, <2>6, StoreWrites
  <2> QED BY <2>1, <2>7 DEF WrittenAt
<1> QED BY <1>2, <1>3

(* Memory without a NUL: all of it is found, and cpr_strlen counts it all. *)
LEMMA NoEnd ==
    ASSUME NEW mem \in Seq(Letter), ~HoldsSome(mem)
    PROVE  /\ TextAt(mem, 1) = mem
           /\ ~Terminated(mem)
           /\ Len(mem) > 0 => cpr_strlen(TextAt(mem, 1), Len(mem)) = Len(mem)
<1>1. Len(mem) \in Nat /\ DOMAIN mem = 1 .. Len(mem)
  OBVIOUS
<1>2. \A i \in 1 .. Len(mem) : mem[i] # NUL
  BY EndsHere
<1>3. {i \in 1 .. Len(mem) : mem[i] = NUL} = {}
  BY <1>2
<1>4. TextAt(mem, 1) = SubSeq(mem, 1, Len(mem))
  BY <1>3 DEF TextAt
<1>5. TextAt(mem, 1) = mem
  BY <1>4, SubSeqFull
<1>6. ~Terminated(mem)
  BY <1>1, <1>2 DEF Terminated
<1> QED BY <1>1, <1>5, <1>6 DEF cpr_strlen, Lesser

(* The buffer and the number it was last made to spell. *)
BufTypeOK == /\ m \in Seq(Letter) /\ Len(m) > 0
             /\ told \in {"nothing", "empty", "string"}
             /\ astray \in BOOLEAN
             /\ number \in Seq(Int)

(* The inductive invariant. *)
BufIInv == /\ BufTypeOK
           /\ told = "string" =>
                 \E t : IsText(t) /\ Holds(m, t) /\ \A i \in DOMAIN number : Spells(t, number[i])
           /\ told # "string" => number = <<>>
           /\ astray => told = "empty"

(* The run's property follows. *)
LEMMA BufFollows == BufIInv => BufferRight
<1> SUFFICES ASSUME BufIInv PROVE BufferRight
  OBVIOUS
<1>1. m \in Seq(Letter) /\ (astray => told = "empty")
  BY DEF BufIInv, BufTypeOK
<1>2. CASE told = "string"
  <2>1. PICK t : IsText(t) /\ Holds(m, t) /\ \A i \in DOMAIN number : Spells(t, number[i])
    BY <1>2 DEF BufIInv
  <2>2. TextAt(m, 1) = t /\ Len(t) < Len(m)
    BY <1>1, <2>1, FoundIs
  <2> QED BY <1>1, <2>1, <2>2 DEF BufferRight, Spells
<1>3. CASE told # "string"
  <2>1. DOMAIN number = {}
    BY <1>3 DEF BufIInv
  <2> QED BY <1>1, <1>3, <2>1 DEF BufferRight
<1> QED BY <1>2, <1>3

(* Memory that begins with some text has a place for it. *)
LEMMA SomeRoom == ASSUME NEW mem, HoldsSome(mem) PROVE mem \in Seq(Letter) /\ Len(mem) > 0
<1>1. PICK t : IsText(t) /\ Holds(mem, t)
  BY DEF HoldsSome
<1>2. mem \in Seq(Letter)
  BY DEF HoldsSome
<1> QED BY <1>1, <1>2 DEF Holds, IsText

(* A call that leaves no number. *)
LEMMA RewriteHolds ==
    ASSUME BufIInv, ~astray, NEW mem \in Seq(Letter), Len(mem) > 0, NEW as \in {"nothing", "empty", "string"},
           as = "string" => HoldsSome(mem), Rewrite(mem, as)
    PROVE  BufIInv'
<1>1. m' = mem /\ told' = as /\ number' = <<>> /\ astray' = astray
  BY DEF Rewrite
<1>2. number' \in Seq(Int) /\ DOMAIN number' = {}
  BY <1>1
<1>3. astray \in BOOLEAN
  BY DEF BufIInv, BufTypeOK
<1> QED BY <1>1, <1>2, <1>3 DEF BufIInv, BufTypeOK, HoldsSome

LEMMA BufInitHolds == StrInit => BufIInv
<1> SUFFICES ASSUME StrInit PROVE BufIInv
  OBVIOUS
<1>1. m \in [1 .. BufMax -> Junk] /\ told = "nothing" /\ astray = FALSE /\ number = <<>>
  BY DEF StrInit
<1>2. BufMax \in Nat /\ BufMax # 0 /\ Junk \subseteq Letter
  BY StrcharAssumption
<1>3. m \in [1 .. BufMax -> Letter]
  BY <1>1, <1>2
<1>4. m \in Seq(Letter) /\ Len(m) = BufMax
  BY <1>2, <1>3
<1>5. number \in Seq(Int) /\ Len(m) > 0
  BY <1>1, <1>2, <1>4
<1> QED BY <1>1, <1>4, <1>5 DEF BufIInv, BufTypeOK

(* cpr_strcpy *)
LEMMA CopyInHolds == ASSUME BufIInv, ~astray, NEW s \in Words, CopyIn(s) PROVE BufIInv'
<1> DEFINE as == IF s # <<>> \/ told = "string" THEN "string" ELSE "empty"
           new == cpr_strcpy(m, 1, s, Len(m))
<1>1. m \in Seq(Letter) /\ Len(m) \in Nat /\ Len(m) > 0 /\ (told = "string" => HoldsSome(m))
  BY DEF BufIInv, BufTypeOK, HoldsSome
<1>2. IsText(s) /\ s \in Seq(Letter) /\ Len(s) \in Nat
  BY WordIs DEF IsText
<1>3. Rewrite(new, as)
  BY DEF CopyIn
<1>4. as \in {"nothing", "empty", "string"}
  OBVIOUS
<1>5. CASE HoldsSome(m) \/ Len(s) > 0
  <2>1. Len(m) \in Nat \ {0} /\ 1 \in Nat \ {0} /\ 1 - 1 + Len(m) = Len(m)
    BY <1>1
  <2>2. HoldsSome(new)
    BY <1>1, <1>2, <1>5, <2>1, StrcpyHolds
  <2> HIDE DEF as, new
  <2> QED BY <1>3, <1>4, <2>2, SomeRoom, RewriteHolds
<1>6. CASE ~(HoldsSome(m) \/ Len(s) > 0)
  <2>1. Len(s) = 0 /\ s = <<>>
    BY <1>2, <1>6
  <2>2. Taken(s, Len(m)) = 0
    BY <1>1, <2>1 DEF Taken, cpr_strlen, Lesser
  <2>3. new = m
    BY <2>2 DEF cpr_strcpy
  <2>4. as = "empty"
    BY <1>1, <1>6, <2>1
  <2> HIDE DEF as, new
  <2>5. Rewrite(m, "empty") /\ "empty" \in {"nothing", "empty", "string"}
    BY <1>3, <2>3, <2>4
  <2> QED BY <1>1, <2>5, RewriteHolds
<1> QED BY <1>5, <1>6

(* cpr_strcat, cpr_strhead, cpr_strtail and cpr_reverse *)
LEMMA EditHolds ==
    ASSUME BufIInv, ~astray, NEW s \in Words, NEW n \in Nat, EditBuffer(s, n)
    PROVE  BufIInv'
<1>1. /\ m \in Seq(Letter) /\ Len(m) \in Nat /\ Len(m) > 0 /\ (told = "string" => HoldsSome(m))
      /\ told \in {"nothing", "empty", "string"}
  BY DEF BufIInv, BufTypeOK, HoldsSome
<1>2. IsText(s)
  BY WordIs
<1>3. ASSUME NEW mem, HoldsSome(mem), Rewrite(mem, told) PROVE BufIInv'
  BY <1>1, <1>3, SomeRoom, RewriteHolds
<1>4. CASE HoldsSome(m)
  <2>1. HoldsSome(cpr_strcat(m, s, Len(m)))
    BY <1>2, <1>4, StrcatHolds
  <2>2. /\ HoldsSome(cpr_strhead(m, Len(m), n)) /\ HoldsSome(cpr_strtail(m, Len(m), n))
        /\ HoldsSome(cpr_reverse(m, 1))
    BY <1>4, CutBufferHolds
  <2> QED BY <1>3, <2>1, <2>2 DEF EditBuffer
<1>5. CASE ~HoldsSome(m)
  <2>1. ~Terminated(m) /\ cpr_strlen(TextAt(m, 1), Len(m)) = Len(m) /\ told # "string"
    BY <1>1, <1>5, NoEnd
  <2>2. cpr_strcat(m, s, Len(m)) = m
    BY <1>1, <2>1 DEF cpr_strcat
  <2>3. n >= Len(m) => cpr_strhead(m, Len(m), n) = Store(m, 1, <<NUL>>)
    BY <2>1 DEF cpr_strhead
  <2>4. /\ n >= Len(m) => cpr_strtail(m, Len(m), n) = m
        /\ ~(n >= Len(m)) => cpr_strtail(m, Len(m), n) = Store(m, n + 1, <<NUL>>)
    BY <2>1 DEF cpr_strtail
  <2>5. 1 \in 1 .. Len(m) /\ (~(n >= Len(m)) => n + 1 \in 1 .. Len(m))
    BY <1>1
  <2>6. HoldsSome(Store(m, 1, <<NUL>>))
    BY <1>1, <2>5, NulEnds
  <2>7. ~(n >= Len(m)) => HoldsSome(Store(m, n + 1, <<NUL>>))
    BY <1>1, <2>5, NulEnds
  <2>8. Rewrite(m, told) => BufIInv'
    BY <1>1, <2>1, RewriteHolds
  <2>9. \/ Rewrite(cpr_strcat(m, s, Len(m)), told)
        \/ Rewrite(cpr_strtail(m, Len(m), n), told)
        \/ n >= Len(m) /\ Rewrite(cpr_strhead(m, Len(m), n), told)
    BY <2>1 DEF EditBuffer
  <2>10. CASE Rewrite(cpr_strcat(m, s, Len(m)), told)
    BY <2>2, <2>8, <2>10
  <2>11. CASE Rewrite(cpr_strtail(m, Len(m), n), told)
    <3>1. CASE n >= Len(m)
      BY <2>4, <2>8, <2>11, <3>1
    <3>2. CASE ~(n >= Len(m))
      BY <1>3, <2>4, <2>7, <2>11, <3>2
    <3> QED BY <3>1, <3>2
  <2>12. CASE n >= Len(m) /\ Rewrite(cpr_strhead(m, Len(m), n), told)
    BY <1>3, <2>3, <2>6, <2>12
  <2> QED BY <2>9, <2>10, <2>11, <2>12
<1> QED BY <1>4, <1>5

(* cpr_strdup, cpr_upper and cpr_lower *)
LEMMA DupHolds == ASSUME BufIInv, ~astray, NEW n \in Nat, Duplicate(n) PROVE BufIInv'
<1>1. m \in Seq(Letter) /\ Len(m) \in Nat /\ Len(m) > 0
  BY DEF BufIInv, BufTypeOK
<1>2. PICK s \in {cpr_strdup(TextAt(m, 1), n), cpr_upper(TextAt(m, 1), n),
                  cpr_lower(TextAt(m, 1), n)} : Rewrite(Append(s, NUL), "string")
  BY DEF Duplicate
<1>3. HoldsSome(Append(s, NUL))
  <2>1. CASE HoldsSome(m)
    BY <2>1, DuplicateHolds
  <2>2. CASE ~HoldsSome(m)
    <3>1. TextAt(m, 1) = m /\ IsText(m)
      <4>1. \A i \in 1 .. Len(m) : m[i] # NUL
        BY <1>1, <2>2, EndsHere
      <4> QED BY <1>1, <2>2, <4>1, NoEnd DEF IsText
    <3> QED BY <1>1, <3>1, DuplicateText
  <2> QED BY <2>1, <2>2
<1>4. "string" \in {"nothing", "empty", "string"}
  OBVIOUS
<1> HIDE DEF NUL
<1> QED BY <1>2, <1>3, <1>4, SomeRoom, RewriteHolds

(* cpr_strlong *)
LEMMA NumberHolds == ASSUME BufIInv, ~astray, NEW v \in Numbers, SpellNumber(v) PROVE BufIInv'
<1> DEFINE r == cpr_strlong(m, v, Len(m))
<1>1. \/ ~r.ok /\ Rewrite(r.mem, "nothing")
      \/ r.ok /\ m' = r.mem /\ told' = "string" /\ number' = <<v>> /\ UNCHANGED astray
  BY DEF SpellNumber
<1>2. v \in Int
  BY StrcharAssumption
<1>3. r = cpr_strlong(m, v, Len(m)) /\ m \in Seq(Letter) /\ Len(m) > 0 /\ astray \in BOOLEAN
  BY DEF BufIInv, BufTypeOK
<1> HIDE DEF r
<1>4. CASE r.ok
  <2>1. r.mem \in Seq(Letter) /\ \E t : IsText(t) /\ Holds(r.mem, t) /\ Spells(t, v)
    BY <1>2, <1>3, <1>4, StrlongHolds
  <2>2. m' = r.mem /\ number' = <<v>> /\ told' = "string" /\ astray' = astray
    BY <1>1, <1>4
  <2>3. number' \in Seq(Int) /\ \A i \in DOMAIN number' : number'[i] = v
    BY <1>2, <2>2
  <2>4. HoldsSome(r.mem)
    BY <2>1 DEF HoldsSome
  <2>5. Len(r.mem) > 0
    BY <2>4, SomeRoom
  <2> QED BY <1>3, <2>1, <2>2, <2>3, <2>5 DEF BufIInv, BufTypeOK
<1>5. CASE ~r.ok
  <2>1. r.mem \in Seq(Letter) /\ Len(r.mem) = Len(m)
    BY <1>2, <1>3, <1>5, RefusedLeaves
  <2>2. Rewrite(r.mem, "nothing") /\ "nothing" \in {"nothing", "empty", "string"}
    BY <1>1, <1>5
  <2> QED BY <1>3, <2>1, <2>2, RewriteHolds
<1> QED BY <1>4, <1>5

(* Every call keeps the invariant. *)
LEMMA BufNextHolds == BufIInv /\ [StrNext]_strVars => BufIInv'
<1> SUFFICES ASSUME BufIInv, [StrNext]_strVars PROVE BufIInv'
  OBVIOUS
<1>1. \A n \in 0 .. BufMax : n \in Nat
  BY StrcharAssumption
<1>2. ASSUME StrNext PROVE BufIInv'
  <2>1. ~astray
    BY <1>2 DEF StrNext
  <2>2. CASE \E s \in Words : CopyIn(s)
    BY <2>1, <2>2, CopyInHolds
  <2>3. CASE \E s \in Words, n \in 0 .. BufMax : EditBuffer(s, n)
    BY <1>1, <2>1, <2>3, EditHolds
  <2>4. CASE \E n \in 0 .. BufMax : Duplicate(n)
    BY <1>1, <2>1, <2>4, DupHolds
  <2>5. CASE \E v \in Numbers : SpellNumber(v)
    BY <2>1, <2>5, NumberHolds
  <2>6. CASE RunOn
    <3>1. ~Terminated(m) /\ astray' = TRUE /\ m' = m /\ told' = told /\ number' = number /\ told # "nothing"
      BY <2>6 DEF RunOn
    <3>2. told # "string"
      <4>1. ASSUME told = "string" PROVE Terminated(m)
        <5>1. PICK t : IsText(t) /\ Holds(m, t)
          BY <4>1 DEF BufIInv
        <5>2. m \in Seq(Letter) /\ Len(t) \in Nat /\ Len(t) < Len(m) /\ m[Len(t) + 1] = NUL
          BY <5>1 DEF BufIInv, BufTypeOK, Holds, IsText
        <5>3. Len(t) + 1 \in DOMAIN m
          BY <5>2
        <5> QED BY <5>2, <5>3 DEF Terminated
      <4> QED BY <3>1, <4>1
    <3> QED BY <3>1, <3>2 DEF BufIInv, BufTypeOK
  <2> QED BY <1>2, <2>2, <2>3, <2>4, <2>5, <2>6 DEF StrNext
<1>3. CASE UNCHANGED strVars
  BY <1>3 DEF strVars, BufIInv, BufTypeOK
<1> QED BY <1>2, <1>3

(* After any sequence of the calls of strchar.c on a buffer of any size that    *)
(* held anything, with any words and any numbers but the least long: a buffer   *)
(* that the calls returned holds a string that ends inside it, unless all they  *)
(* did was to copy an empty string, and only then a call can go on behind the   *)
(* end; and what cpr_strlong has returned spells its number, sign and all.      *)
THEOREM BufferSafety == StrSpec => [](BufTypeOK /\ BufferRight)
<1>1. BufIInv => BufTypeOK /\ BufferRight
  BY BufFollows DEF BufIInv
<1> QED BY <1>1, BufInitHolds, BufNextHolds, PTL DEF StrSpec

===============================================================================
