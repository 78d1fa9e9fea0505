-------------------------------- MODULE Bufio --------------------------------
(***************************************************************************)
(* bufio_t of src/bufio.h and src/bufio.c: a stream buffer over a file      *)
(* descriptor, with an input half that the get calls and fillbuf work on    *)
(* and an output half that the put calls and flushbuf work on.              *)
(*                                                                         *)
(* A byte is the number of its place in its stream: the descriptor delivers *)
(* the bytes 1 .. StreamLen and the caller puts 1, 2, 3...; 0 is the NUL    *)
(* the code writes and whatever malloc left.  A read delivers any part of   *)
(* what was asked for and a write takes any part, and each may fail.        *)
(*                                                                         *)
(* One thread uses a buffer, so a call is one step, except for lgetbuf,     *)
(* whose loop may go round for ever: each round is a step.                  *)
(***************************************************************************)
EXTENDS Integers, Sequences

CONSTANTS Bufsize,    \* bufsize of cpr_makebuf, the size of each half
          StreamLen,  \* the bytes there are to read before end of file
          DelimLen,   \* the length of lgetbuf's delimiter
          DelimSets,  \* the places where a delimiter may begin in the stream
          JunkMax,    \* bound: the uninitialised put is at most this
          MaxPut      \* bound: the bytes put into the buffer

NUL == 0

ASSUME SizeAssumption == Bufsize \in Nat \ {0} /\ StreamLen \in Nat
ASSUME DelimAssumption == /\ DelimLen \in Nat \ {0}
                          /\ DelimSets \subseteq SUBSET (1 .. StreamLen)
ASSUME BoundAssumption == JunkMax \in Nat /\ MaxPut \in Nat

VARIABLES buf, start, end,  \* the input half: buf[start .. end - 1] is unread
          got,              \* how many bytes read() has delivered
          taken,            \* how many the get calls and resetbuf have consumed
          view,             \* the bytes the last get call points its caller to
          scan,             \* lgetbuf's scan while it runs, else -1
          eof,              \* the last fillbuf ended because read() gave nothing
          delims            \* where the delimiters begin

VARIABLES out,              \* the output half; its length is put
          wire,             \* what write() has taken
          accepted,         \* how many bytes the put calls have accepted
          failed,           \* some write() failed
          alive             \* false once cpr_freebuf has released the buffer

reader == <<buf, start, end, got, taken, view, scan, eof, delims>>
writer == <<out, wire, accepted, failed>>
vars   == <<reader, writer, alive>>

Index  == 0 .. Bufsize     \* one byte more than bufsize, for the NUL
NoView == [at |-> 0, len |-> 0]
put    == Len(out)
Idle   == alive /\ scan = -1

(* The bytes the put calls are about to be given. *)
Bytes(n) == [i \in 1 .. n |-> accepted + i]

-----------------------------------------------------------------------------
(* cpr_makebuf leaves put as malloc did. *)
Init == /\ buf = [k \in Index |-> NUL]
        /\ start = 0 /\ end = 0
        /\ got = 0 /\ taken = 0
        /\ view = NoView
        /\ scan = -1
        /\ eof = FALSE
        /\ delims \in DelimSets
        /\ out \in {[i \in 1 .. n |-> NUL] : n \in 0 .. JunkMax}
        /\ wire = <<>>
        /\ accepted = 0
        /\ failed = FALSE
        /\ alive = TRUE

(* Mutant: the move forgets to take the consumed bytes off the end. *)
CompactedKeepsEnd(h) ==
    [start |-> 0, end |-> h.end, got |-> h.got,
     buf |-> [k \in Index |-> IF k < h.end - h.start THEN h.buf[k + h.start] ELSE h.buf[k]]]

(* The memmove of the unread bytes to the front, with start and end after it. *)
Compacted(h) ==
    [start |-> 0, end |-> h.end - h.start, got |-> h.got,
     buf |-> [k \in Index |-> IF k < h.end - h.start THEN h.buf[k + h.start] ELSE h.buf[k]]]

(* read() of n bytes at the end of the input half. *)
Extended(h, n) ==
    [start |-> h.start, end |-> h.end + n, got |-> h.got + n,
     buf |-> [k \in Index |-> IF k \in h.end .. h.end + n - 1 THEN h.got + 1 + (k - h.end)
                              ELSE h.buf[k]]]

(* The NUL behind the unread bytes. *)
Terminated(h) == [start |-> h.start, end |-> h.end, got |-> h.got,
                  buf |-> [h.buf EXCEPT ![h.end] = NUL]]

(* n bytes are consumed. *)
Advanced(h, n) == [start |-> h.start + n, end |-> h.end, got |-> h.got, buf |-> h.buf]

(* cpr_fillbuf's test for a move: too little room behind start, and unread bytes. *)
MustMove(h, want) == Bufsize - h.start < want /\ h.start < h.end

(* cpr_fillbuf: what it may make of the input half h, and whether it returns  *)
(* true.  Request 0 asks for a full buffer and forgives a failing read().     *)
Fill(h, request) ==
    LET refill == request = 0
        want   == IF refill THEN Bufsize ELSE request
        m      == IF MustMove(h, want) THEN Compacted(h) ELSE h
        room   == Bufsize - m.end
        left   == StreamLen - m.got
    IN  IF request > Bufsize THEN {[half |-> h, ok |-> FALSE, eof |-> FALSE]}
        ELSE IF h.end - h.start >= want
        THEN {[half |-> Terminated(h), ok |-> TRUE, eof |-> FALSE]}
        ELSE {[half |-> Terminated(Extended(m, n)),
               ok   |-> m.end + n - m.start >= want,
               eof  |-> FALSE] : n \in {i \in 1 .. room : i <= left}}
             \cup {[half |-> Terminated(m), ok |-> refill, eof |-> FALSE]}
             \cup (IF room = 0 \/ left = 0
                   THEN {[half |-> Terminated(m), ok |-> FALSE, eof |-> TRUE]}
                   ELSE {})

Half == [start |-> start, end |-> end, got |-> got, buf |-> buf]

(* The input half becomes h, with n more bytes consumed. *)
Become(h, n) == /\ buf' = h.buf /\ start' = h.start /\ end' = h.end
                /\ got' = h.got
                /\ taken' = taken + n

(* cpr_fillbuf *)
FillBuf(request) ==
    /\ Idle
    /\ \E f \in Fill(Half, request) : Become(f.half, 0) /\ eof' = f.eof
    /\ view' = NoView
    /\ UNCHANGED <<scan, delims, writer, alive>>

(* Mutant: the pointer is taken before fillbuf, which may move the bytes. *)
PointerBeforeFill(f) == start

(* The pointer cpr_xgetbuf returns, taken after fillbuf. *)
Pointer(f) == f.half.start

(* cpr_xgetbuf; cpr_cgetbuf is cpr_xgetbuf of one byte. *)
XGetBuf(request) ==
    /\ Idle
    /\ request <= Bufsize
    /\ \E f \in Fill(Half, request) :
          /\ \/ /\ f.ok
                /\ Become(Advanced(f.half, request), request)
                /\ view' = [at |-> Pointer(f), len |-> request]
             \/ /\ ~f.ok
                /\ Become(f.half, 0)
                /\ view' = NoView
          /\ eof' = f.eof
    /\ UNCHANGED <<scan, delims, writer, alive>>

(* cpr_resetbuf: consume, move what remains to the front, fill the rest. *)
ResetBuf(consume) ==
    /\ Idle
    /\ start + consume <= end
    /\ LET h == Compacted(Advanced(Half, consume))
       IN  \/ /\ h.end < Bufsize
              /\ \E f \in Fill(h, Bufsize - h.end) : Become(f.half, consume) /\ eof' = f.eof
           \/ /\ h.end = Bufsize
              /\ Become(h, consume)
              /\ UNCHANGED eof
    /\ view' = NoView
    /\ UNCHANGED <<scan, delims, writer, alive>>

(* The memcmp of cpr_lgetbuf: a whole delimiter at k, inside the unread bytes. *)
DelimAt(k) == /\ k + DelimLen <= end
              /\ \E d \in delims : \A j \in 0 .. DelimLen - 1 : buf[k + j] = d + j

LGetCall == /\ Idle
            /\ scan' = start
            /\ view' = NoView
            /\ UNCHANGED <<buf, start, end, got, taken, eof, delims, writer, alive>>

(* cpr_lgetbuf finds its delimiter.  Without an outlen the caller gets a NUL   *)
(* in its place.                                                               *)
LGetFound ==
    /\ alive /\ scan # -1
    /\ \E k \in scan .. Bufsize :
          /\ DelimAt(k)
          /\ \A j \in scan .. k - 1 : ~DelimAt(j)
          /\ view' = [at |-> start, len |-> k - start]
          /\ buf' \in {buf, [buf EXCEPT ![k] = NUL]}
          /\ start' = k + DelimLen
          /\ taken' = taken + (k + DelimLen - start)
    /\ scan' = -1
    /\ UNCHANGED <<end, got, eof, delims, writer, alive>>

(* cpr_lgetbuf finds none and asks for more.  scan stays where it came to, as *)
(* an index of the buffer, even when fillbuf moves the bytes.                 *)
LGetFill ==
    /\ alive /\ scan # -1
    /\ \A j \in scan .. Bufsize : ~DelimAt(j)
    /\ \E f \in Fill(Half, 0) :
          /\ Become(f.half, 0)
          /\ eof' = f.eof
          /\ scan' = IF ~f.ok THEN -1
                     ELSE IF scan + DelimLen > end THEN scan ELSE end - DelimLen + 1
    /\ UNCHANGED <<view, delims, writer, alive>>

-----------------------------------------------------------------------------
(* Mutant: after a partial write all the bytes are kept. *)
AfterPartialKeepsAll(n) == out

(* The bytes cpr_flushbuf keeps after write() took n of them. *)
AfterPartial(n) == SubSeq(out, n + 1, put)

(* cpr_flushbuf with something to write: what write() may take, what is left, *)
(* and the result.  A failing write() returns -1, which as a size_t is not    *)
(* below put: the bytes are dropped and the result is true.                   *)
Flush ==
    {[out |-> AfterPartial(n), sent |-> SubSeq(out, 1, n), ok |-> FALSE, failed |-> FALSE] :
        n \in 0 .. put - 1}
    \cup {[out |-> <<>>, sent |-> out, ok |-> TRUE, failed |-> FALSE],
          [out |-> <<>>, sent |-> <<>>, ok |-> TRUE, failed |-> TRUE]}

Sent(f) == /\ wire' = wire \o f.sent
           /\ failed' = (failed \/ f.failed)

(* cpr_flushbuf *)
FlushBuf ==
    /\ alive /\ put > 0
    /\ \E f \in Flush : out' = f.out /\ Sent(f)
    /\ UNCHANGED <<reader, accepted, alive>>

(* Mutant: a flush is due only when no byte fits. *)
FitsOne(room) == put < Bufsize

(* The test of cpr_xputbuf and cpr_fmtbuf for room bytes of free space. *)
Fits(room) == room + put <= Bufsize

(* Flush for room bytes if they do not fit, and, if that leaves none behind,   *)
(* append the n bytes: what cpr_xputbuf and cpr_fmtbuf have in common.  A      *)
(* flush that fails to empty the buffer makes the call return false.           *)
PutBytes(room, n) ==
    /\ \/ /\ Fits(room)
          /\ out' = out \o Bytes(n)
          /\ accepted' = accepted + n
          /\ UNCHANGED <<wire, failed>>
       \/ /\ ~Fits(room)
          /\ \E f \in Flush :
                /\ Sent(f)
                /\ \/ f.ok /\ out' = Bytes(n) /\ accepted' = accepted + n
                   \/ ~f.ok /\ out' = f.out /\ UNCHANGED accepted
    /\ UNCHANGED <<reader, alive>>

(* cpr_xputbuf; cpr_cputbuf is cpr_xputbuf of one byte, and cpr_sputbuf of the *)
(* text's length, which is cut to bufsize + 1, so that it is too long.         *)
XPutBuf(request) ==
    /\ alive
    /\ accepted + request <= MaxPut
    /\ request <= Bufsize
    /\ PutBytes(request, request)

(* cpr_fmtbuf: text of n bytes where the caller expected fewer than estimated. *)
(* A longer text is refused, after the flush.                                  *)
FmtBuf(estimated, n) ==
    /\ alive
    /\ accepted + n <= MaxPut
    /\ estimated \in 1 .. Bufsize
    /\ PutBytes(estimated, IF n < estimated THEN n ELSE 0)

(* cpr_freebuf: one flush, whatever comes of it, then the memory is released. *)
FreeBuf ==
    /\ Idle
    /\ \/ put = 0 /\ UNCHANGED writer
       \/ put > 0 /\ \E f \in Flush : out' = f.out /\ Sent(f) /\ UNCHANGED accepted
    /\ alive' = FALSE
    /\ UNCHANGED reader

Next == \/ \E n \in 0 .. Bufsize + 1 : FillBuf(n) \/ XGetBuf(n) \/ ResetBuf(n)
        \/ LGetCall \/ LGetFound \/ LGetFill
        \/ FlushBuf \/ FreeBuf
        \/ \E n \in 0 .. Bufsize : XPutBuf(n)
        \/ \E e, n \in 0 .. Bufsize : FmtBuf(e, n)

Spec == Init /\ [][Next]_vars
-----------------------------------------------------------------------------
(* The indices stay inside their half, and nothing is read beyond the stream. *)
TypeOK == /\ buf \in [Index -> 0 .. StreamLen]
          /\ end \in 0 .. Bufsize /\ start \in 0 .. end
          /\ got \in 0 .. StreamLen /\ taken \in 0 .. StreamLen
          /\ view.at \in Index /\ view.len \in 0 .. Bufsize
          /\ scan \in -1 .. Bufsize + 1
          /\ eof \in BOOLEAN /\ delims \in DelimSets
          /\ out \in Seq(0 .. MaxPut) /\ wire \in Seq(0 .. MaxPut)
          /\ accepted \in 0 .. MaxPut
          /\ failed \in BOOLEAN /\ alive \in BOOLEAN

(* Whatever mix of moves, short reads and failed reads came before, the       *)
(* unread part of the input half is the stream from the first byte that was   *)
(* not consumed to the last that was read: no byte is lost, doubled or        *)
(* overwritten, by a move or by the NUL behind it.                            *)
StreamIntact == /\ got = taken + (end - start)
                /\ \A k \in start .. end - 1 : buf[k] = taken + 1 + (k - start)

(* The bytes a get call points its caller to are the next of the stream, and *)
(* nothing the call does after it chose them writes over them.               *)
ViewIntact == \A k \in 0 .. view.len - 1 :
                 buf[view.at + k] = taken + 1 - (start - view.at) + k

(* What went to the descriptor, followed by what is still buffered, is in the *)
(* order of the calls, with nothing twice; and while no write() has failed it *)
(* is every byte the put calls accepted, also those retried after a partial   *)
(* flush.  Only bytes the buffer held before the first call come before them. *)
OutputIntact ==
    LET all == wire \o out
    IN  /\ \A i, j \in 1 .. Len(all) :
              i < j => all[i] < all[j] \/ (all[i] = NUL /\ all[j] = NUL)
        /\ failed \/ \A b \in 1 .. accepted : \E i \in 1 .. Len(all) : all[i] = b

(* put calls store inside the output half: only what malloc left can be longer. *)
PutInside == put <= Bufsize \/ \A i \in 1 .. put : out[i] = NUL

(* fillbuf reports end of file only when the stream has been read.  Not so:   *)
(* when the last byte of a full buffer has been consumed there is no room to  *)
(* read into and nothing to move, so that read() is asked for 0 bytes.        *)
EofIsEof == eof => got = StreamLen

===============================================================================
