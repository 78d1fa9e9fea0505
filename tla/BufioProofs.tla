----------------------------- MODULE BufioProofs -----------------------------
(***************************************************************************)
(* bufio_t for buffers and streams of any length: the unread bytes are the  *)
(* stream's next, the pointers handed out point to the right bytes, and     *)
(* what is written is in order, complete up to the first failed write.      *)
(***************************************************************************)
EXTENDS Bufio, SequenceTheorems, TLAPS

(* An input half whose unread bytes are the stream's from byte t + 1 on. *)
HalfType == [buf : [Index -> 0 .. StreamLen], start : Nat, end : Nat, got : Nat]

Good(h, t) ==
    /\ h \in HalfType
    /\ h.start <= h.end /\ h.end <= Bufsize
    /\ h.got <= StreamLen
    /\ h.got = t + (h.end - h.start)
    /\ \A k \in h.start .. h.end - 1 : h.buf[k] = t + 1 + (k - h.start)

(* The move keeps the unread bytes. *)
LEMMA CompactedGood ==
    ASSUME NEW t \in Nat, NEW h, Good(h, t)
    PROVE  /\ Good(Compacted(h), t)
           /\ Compacted(h).start = 0
           /\ Compacted(h).end = h.end - h.start
<1> DEFINE b == [k \in Index |-> IF k < h.end - h.start THEN h.buf[k + h.start] ELSE h.buf[k]]
<1>0. h \in HalfType /\ h.start \in Nat /\ h.end \in Nat /\ h.got \in Nat
      /\ h.buf \in [Index -> 0 .. StreamLen]
  BY DEF Good, HalfType
<1>1. /\ Compacted(h).start = 0 /\ Compacted(h).end = h.end - h.start
      /\ Compacted(h).got = h.got /\ Compacted(h).buf = b
      /\ Compacted(h) = [start |-> 0, end |-> h.end - h.start, got |-> h.got, buf |-> b]
  BY <1>0 DEF Compacted, HalfType
<1>2. b \in [Index -> 0 .. StreamLen]
  <2> SUFFICES ASSUME NEW k \in Index
               PROVE  (IF k < h.end - h.start THEN h.buf[k + h.start] ELSE h.buf[k]) \in 0 .. StreamLen
    OBVIOUS
  <2>1. k < h.end - h.start => k + h.start \in Index
    BY <1>0, SizeAssumption DEF Good, Index
  <2> QED BY <2>1, <1>0
<1>3. \A k \in 0 .. h.end - h.start - 1 : b[k] = t + 1 + k
  <2> SUFFICES ASSUME NEW k \in 0 .. h.end - h.start - 1 PROVE b[k] = t + 1 + k
    OBVIOUS
  <2>1. k \in Index /\ k + h.start \in h.start .. h.end - 1
    BY <1>0, SizeAssumption DEF Good, Index
  <2>2. b[k] = h.buf[k + h.start]
    BY <2>1, <1>0
  <2>3. h.buf[k + h.start] = t + 1 + ((k + h.start) - h.start)
    BY <2>1 DEF Good
  <2> QED BY <2>1, <2>2, <2>3, <1>0
<1>4. Compacted(h) \in HalfType
  BY <1>0, <1>1, <1>2 DEF HalfType, Good
<1> HIDE DEF b
<1> QED BY <1>0, <1>1, <1>3, <1>4, SizeAssumption DEF Good

(* read() appends the next bytes of the stream. *)
LEMMA ExtendedGood ==
    ASSUME NEW t \in Nat, NEW h, Good(h, t), NEW n \in Nat,
           n <= Bufsize - h.end, n <= StreamLen - h.got
    PROVE  /\ Good(Extended(h, n), t)
           /\ Extended(h, n).start = h.start
           /\ Extended(h, n).end = h.end + n
<1> DEFINE b == [k \in Index |-> IF k \in h.end .. h.end + n - 1
                                 THEN h.got + 1 + (k - h.end) ELSE h.buf[k]]
<1>0. h \in HalfType /\ h.start \in Nat /\ h.end \in Nat /\ h.got \in Nat
      /\ h.buf \in [Index -> 0 .. StreamLen]
  BY DEF Good, HalfType
<1>1. /\ Extended(h, n).start = h.start /\ Extended(h, n).end = h.end + n
      /\ Extended(h, n).got = h.got + n /\ Extended(h, n).buf = b
      /\ Extended(h, n) = [start |-> h.start, end |-> h.end + n, got |-> h.got + n, buf |-> b]
  BY <1>0 DEF Extended, HalfType
<1>2. b \in [Index -> 0 .. StreamLen]
  <2> SUFFICES ASSUME NEW k \in Index
               PROVE  (IF k \in h.end .. h.end + n - 1 THEN h.got + 1 + (k - h.end)
                       ELSE h.buf[k]) \in 0 .. StreamLen
    OBVIOUS
  <2>1. k \in h.end .. h.end + n - 1 => h.got + 1 + (k - h.end) \in 0 .. StreamLen
    BY <1>0, SizeAssumption
  <2>2. h.buf[k] \in 0 .. StreamLen
    BY <1>0
  <2> QED BY <2>1, <2>2
<1>3. \A k \in h.start .. h.end + n - 1 : b[k] = t + 1 + (k - h.start)
  <2> SUFFICES ASSUME NEW k \in h.start .. h.end + n - 1 PROVE b[k] = t + 1 + (k - h.start)
    OBVIOUS
  <2>1. k \in Index
    BY <1>0, SizeAssumption DEF Index
  <2>2. CASE k < h.end
    BY <2>1, <2>2, <1>0 DEF Good
  <2>3. CASE k >= h.end
    <3>1. b[k] = h.got + 1 + (k - h.end)
      BY <2>1, <2>3, <1>0
    <3>2. h.got = t + (h.end - h.start)
      BY DEF Good
    <3> QED BY <3>1, <3>2, <1>0
  <2> QED BY <2>2, <2>3, <1>0
<1>4. Extended(h, n) \in HalfType
  BY <1>0, <1>1, <1>2 DEF HalfType
<1> HIDE DEF b
<1> QED BY <1>0, <1>1, <1>3, <1>4, SizeAssumption DEF Good

(* The NUL goes behind the unread bytes. *)
LEMMA TerminatedGood ==
    ASSUME NEW t \in Nat, NEW h, Good(h, t)
    PROVE  /\ Good(Terminated(h), t)
           /\ Terminated(h).start = h.start
           /\ Terminated(h).end = h.end
<1> DEFINE b == [h.buf EXCEPT ![h.end] = NUL]
<1>0. h \in HalfType /\ h.start \in Nat /\ h.end \in Nat /\ h.got \in Nat
      /\ h.buf \in [Index -> 0 .. StreamLen] /\ h.end \in Index
  BY SizeAssumption DEF Good, HalfType, Index
<1>1. /\ Terminated(h).start = h.start /\ Terminated(h).end = h.end
      /\ Terminated(h).got = h.got /\ Terminated(h).buf = b
      /\ Terminated(h) = [start |-> h.start, end |-> h.end, got |-> h.got, buf |-> b]
  BY <1>0 DEF Terminated, HalfType
<1>2. b \in [Index -> 0 .. StreamLen]
  BY <1>0, SizeAssumption DEF NUL
<1>3. \A k \in h.start .. h.end - 1 : b[k] = h.buf[k]
  <2> SUFFICES ASSUME NEW k \in h.start .. h.end - 1 PROVE b[k] = h.buf[k]
    OBVIOUS
  <2>1. k \in Index /\ k # h.end
    BY <1>0, SizeAssumption DEF Index
  <2> QED BY <2>1, <1>0
<1>4. Terminated(h) \in HalfType
  BY <1>0, <1>1, <1>2 DEF HalfType
<1> HIDE DEF b
<1> QED BY <1>0, <1>1, <1>3, <1>4, SizeAssumption DEF Good

(* fillbuf keeps the unread bytes, adds the next ones, and returns true only *)
(* with what was asked for.                                                  *)
LEMMA FillGood ==
    ASSUME NEW t \in Nat, NEW h, Good(h, t), NEW request \in Nat, NEW f \in Fill(h, request)
    PROVE  /\ Good(f.half, t)
           /\ f.eof \in BOOLEAN
           /\ f.half.start \in {0, h.start}
           /\ f.ok => f.half.end - f.half.start >= request
<1> DEFINE refill == request = 0
           want == IF refill THEN Bufsize ELSE request
           m == IF MustMove(h, want) THEN Compacted(h) ELSE h
           room == Bufsize - m.end
           left == StreamLen - m.got
<1>1. Good(m, t) /\ m.start \in {0, h.start}
  BY CompactedGood
<1>2. CASE request > Bufsize
  <2>1. f = [half |-> h, ok |-> FALSE, eof |-> FALSE]
    BY <1>2 DEF Fill
  <2> QED BY <2>1
<1>3. CASE request <= Bufsize /\ h.end - h.start >= want
  <2>1. f = [half |-> Terminated(h), ok |-> TRUE, eof |-> FALSE]
    BY <1>3, SizeAssumption DEF Fill
  <2>2. Good(Terminated(h), t) /\ Terminated(h).start = h.start /\ Terminated(h).end = h.end
    BY TerminatedGood
  <2>3. h.end \in Nat /\ h.start \in Nat
    BY DEF Good, HalfType
  <2> QED BY <2>1, <2>2, <2>3, <1>3, SizeAssumption
<1>4. CASE request <= Bufsize /\ ~(h.end - h.start >= want)
  <2>1. \/ \E n \in {i \in 1 .. room : i <= left} :
              f = [half |-> Terminated(Extended(m, n)),
                   ok |-> m.end + n - m.start >= want, eof |-> FALSE]
        \/ f = [half |-> Terminated(m), ok |-> refill, eof |-> FALSE]
        \/ f = [half |-> Terminated(m), ok |-> FALSE, eof |-> TRUE]
    BY <1>4, SizeAssumption DEF Fill
  <2>0. m.end \in Nat /\ m.start \in Nat /\ m.got \in Nat /\ m.end <= Bufsize /\ m.start <= m.end
    BY <1>1 DEF Good, HalfType
  <2>2. Good(Terminated(m), t) /\ Terminated(m).start = m.start /\ Terminated(m).end = m.end
    BY <1>1, TerminatedGood
  <2>3. ASSUME NEW n \in 1 .. room, n <= left,
               f = [half |-> Terminated(Extended(m, n)),
                    ok |-> m.end + n - m.start >= want, eof |-> FALSE]
        PROVE  /\ Good(f.half, t)
               /\ f.eof \in BOOLEAN
               /\ f.half.start \in {0, h.start}
               /\ f.ok => f.half.end - f.half.start >= request
    <3>1. n \in Nat /\ n <= Bufsize - m.end /\ n <= StreamLen - m.got
      BY <2>0, <2>3, SizeAssumption
    <3> HIDE DEF m
    <3>2. Good(Extended(m, n), t) /\ Extended(m, n).start = m.start /\ Extended(m, n).end = m.end + n
      BY <3>1, <1>1, ExtendedGood
    <3>3. /\ Good(Terminated(Extended(m, n)), t)
          /\ Terminated(Extended(m, n)).start = m.start
          /\ Terminated(Extended(m, n)).end = m.end + n
      BY <3>2, TerminatedGood
    <3>4. f.half = Terminated(Extended(m, n)) /\ f.eof = FALSE
      BY <2>3
    <3>6. f.ok = (m.end + n - m.start >= want)
      BY <2>3
    <3>5. want \in Nat /\ want >= request
      BY SizeAssumption, <1>4
    <3> HIDE DEF want
    <3>8. f.ok => m.end + n - m.start >= request
      <4>1. f.ok => m.end + n - m.start >= want
        BY <3>6, Zenon
      <4> QED BY <4>1, <3>5, <2>0, <3>1
    <3>9. f.half.end = m.end + n /\ f.half.start = m.start
      BY <3>3, <3>4, Zenon
    <3>10. Good(f.half, t) /\ f.eof \in BOOLEAN
      BY <3>3, <3>4
    <3>11. f.half.end - f.half.start = m.end + n - m.start
      BY <3>9, <2>0, <3>1, SMT
    <3>12. f.ok => f.half.end - f.half.start >= request
      BY <3>8, <3>11, Zenon
    <3> QED BY <3>9, <3>10, <3>12, <1>1
  <2>4. CASE f = [half |-> Terminated(m), ok |-> refill, eof |-> FALSE]
    <3> HIDE DEF m
    <3>1. f.half = Terminated(m) /\ f.eof = FALSE
      BY <2>4
    <3>2. f.ok = (request = 0)
      BY <2>4
    <3>3. f.ok => request = 0
      BY <3>2, Zenon
    <3>4. request = 0 => m.end - m.start >= request
      BY <2>0
    <3> QED BY <3>1, <3>3, <3>4, <2>2, <1>1
  <2>5. CASE f = [half |-> Terminated(m), ok |-> FALSE, eof |-> TRUE]
    <3> HIDE DEF m
    <3> QED BY <2>5, <2>2, <1>1
  <2> HIDE DEF m
  <2> QED BY <2>1, <2>3, <2>4, <2>5
<1>5. h.end \in Nat /\ h.start \in Nat
  BY DEF Good, HalfType
<1> QED BY <1>2, <1>3, <1>4, <1>5, SizeAssumption

-----------------------------------------------------------------------------
(* The reader: the unread bytes are in place, the last pointer handed out is  *)
(* right, and lgetbuf's scan, however stale, is an index behind start.        *)
ViewInside == view.at \in Nat /\ view.len \in Nat /\ view.at + view.len <= start

ScanInside == \/ scan = -1
              \/ scan \in start .. Bufsize /\ view = NoView

ReaderInv == /\ taken \in Nat
             /\ Good(Half, taken)
             /\ eof \in BOOLEAN /\ delims \in DelimSets
             /\ view \in [at : Nat, len : Nat] /\ ViewInside /\ ViewIntact
             /\ ScanInside

(* What Become makes of the input half. *)
LEMMA BecomeHalf ==
    ASSUME NEW h, NEW n, NEW t, Good(h, t), Become(h, n)
    PROVE  Half' = h /\ taken' = taken + n
<1>1. h = [start |-> h.start, end |-> h.end, got |-> h.got, buf |-> h.buf]
  BY DEF Good, HalfType
<1> QED BY <1>1 DEF Become, Half

(* Consuming n of the unread bytes. *)
LEMMA AdvancedGood ==
    ASSUME NEW t \in Nat, NEW h, Good(h, t), NEW n \in Nat, n <= h.end - h.start
    PROVE  /\ Good(Advanced(h, n), t + n)
           /\ Advanced(h, n).start = h.start + n
           /\ Advanced(h, n).end = h.end
           /\ Advanced(h, n).buf = h.buf
<1>0. h.start \in Nat /\ h.end \in Nat /\ h.got \in Nat
      /\ h.buf \in [Index -> 0 .. StreamLen]
  BY DEF Good, HalfType
<1>1. /\ Advanced(h, n).start = h.start + n /\ Advanced(h, n).end = h.end
      /\ Advanced(h, n).got = h.got /\ Advanced(h, n).buf = h.buf
      /\ Advanced(h, n) \in HalfType
  BY <1>0 DEF Advanced, HalfType
<1>2. \A k \in h.start + n .. h.end - 1 : h.buf[k] = (t + n) + 1 + (k - (h.start + n))
  <2> SUFFICES ASSUME NEW k \in h.start + n .. h.end - 1
               PROVE  h.buf[k] = (t + n) + 1 + (k - (h.start + n))
    OBVIOUS
  <2>1. k \in h.start .. h.end - 1
    BY <1>0
  <2>2. h.buf[k] = t + 1 + (k - h.start)
    BY <2>1 DEF Good
  <2> QED BY <2>2, <1>0
<1> QED BY <1>0, <1>1, <1>2 DEF Good

(* A half that replaces the old one, with no pointer handed out, is enough. *)
LEMMA ReaderStep ==
    ASSUME ReaderInv, NEW h, NEW n \in Nat, Good(h, taken + n), Become(h, n),
           view' = NoView, eof' \in BOOLEAN, delims' = delims,
           scan' = -1 \/ scan' \in start' .. Bufsize
    PROVE  ReaderInv'
<1>1. Half' = h /\ taken' = taken + n
  BY BecomeHalf
<1>2. taken' \in Nat /\ Good(Half', taken')
  BY <1>1 DEF ReaderInv
<1>3. start' \in Nat
  BY <1>2 DEF Good, HalfType, Half
<1>4. view'.at = 0 /\ view'.len = 0 /\ view' \in [at : Nat, len : Nat]
  BY DEF NoView
<1>5. ViewInside' /\ ViewIntact'
  BY <1>3, <1>4 DEF ViewInside, ViewIntact
<1>6. ScanInside'
  BY DEF ScanInside, NoView
<1>7. Good(Half, taken)'
  BY <1>2 DEF Good, HalfType, Half, Index
<1> QED BY <1>2, <1>4, <1>5, <1>6, <1>7 DEF ReaderInv

(* cpr_fillbuf keeps the reader's part. *)
LEMMA FillBufHolds ==
    ASSUME ReaderInv, NEW request \in Nat, FillBuf(request)
    PROVE  ReaderInv'
<1>1. PICK f \in Fill(Half, request) : Become(f.half, 0) /\ eof' = f.eof
  BY DEF FillBuf
<1>2. Good(f.half, taken + 0) /\ f.eof \in BOOLEAN
  BY FillGood DEF ReaderInv
<1>3. scan' = -1 /\ view' = NoView /\ delims' = delims
  BY DEF FillBuf, Idle
<1> QED BY <1>1, <1>2, <1>3, ReaderStep

(* cpr_resetbuf keeps it, with the bytes it consumes. *)
LEMMA ResetBufHolds ==
    ASSUME ReaderInv, NEW consume \in Nat, ResetBuf(consume)
    PROVE  ReaderInv'
<1> DEFINE h == Compacted(Advanced(Half, consume))
<1>1. /\ Good(Half, taken) /\ taken \in Nat /\ Half.end = end /\ Half.start = start
      /\ start \in Nat /\ end \in Nat
  BY DEF ReaderInv, Half, Good, HalfType
<1>2. consume <= Half.end - Half.start
  BY <1>1 DEF ResetBuf
<1>3. Good(Advanced(Half, consume), taken + consume) /\ taken + consume \in Nat
  BY <1>1, <1>2, AdvancedGood
<1>4. Good(h, taken + consume)
  BY <1>3, CompactedGood
<1>5. scan' = -1 /\ view' = NoView /\ delims' = delims
  BY DEF ResetBuf, Idle
<1> HIDE DEF h
<1>6. \/ \E f \in Fill(h, Bufsize - h.end) : h.end < Bufsize /\ Become(f.half, consume) /\ eof' = f.eof
      \/ Become(h, consume) /\ UNCHANGED eof
  BY DEF ResetBuf, h
<1>7. CASE Become(h, consume) /\ UNCHANGED eof
  BY <1>4, <1>5, <1>7, ReaderStep DEF ReaderInv
<1>8. CASE \E f \in Fill(h, Bufsize - h.end) :
             h.end < Bufsize /\ Become(f.half, consume) /\ eof' = f.eof
  <2>1. PICK f \in Fill(h, Bufsize - h.end) :
           h.end < Bufsize /\ Become(f.half, consume) /\ eof' = f.eof
    BY <1>8
  <2>2. Bufsize - h.end \in Nat
    BY <2>1, <1>4, SizeAssumption DEF Good, HalfType
  <2>3. Good(f.half, taken + consume) /\ f.eof \in BOOLEAN
    BY <2>2, <1>3, <1>4, FillGood
  <2> QED BY <2>1, <2>3, <1>5, ReaderStep
<1> QED BY <1>6, <1>7, <1>8

(* cpr_xgetbuf keeps it, and its pointer is to the bytes it consumed. *)
LEMMA XGetBufHolds ==
    ASSUME ReaderInv, NEW request \in Nat, XGetBuf(request)
    PROVE  ReaderInv'
<1>0. Good(Half, taken) /\ taken \in Nat
  BY DEF ReaderInv
<1>1. PICK f \in Fill(Half, request) :
          /\ \/ /\ f.ok
                /\ Become(Advanced(f.half, request), request)
                /\ view' = [at |-> f.half.start, len |-> request]
             \/ /\ ~f.ok
                /\ Become(f.half, 0)
                /\ view' = NoView
          /\ eof' = f.eof
  BY DEF XGetBuf, Pointer
<1>2. /\ Good(f.half, taken) /\ f.eof \in BOOLEAN
      /\ f.ok => f.half.end - f.half.start >= request
  BY <1>0, FillGood
<1>3. scan' = -1 /\ delims' = delims
  BY DEF XGetBuf, Idle
<1>4. CASE Become(f.half, 0) /\ view' = NoView
  <2>1. Good(f.half, taken + 0)
    BY <1>0, <1>2
  <2> QED BY <1>1, <1>2, <1>3, <1>4, <2>1, ReaderStep
<1>5. CASE /\ f.ok
           /\ Become(Advanced(f.half, request), request)
           /\ view' = [at |-> f.half.start, len |-> request]
  <2>0. f.half.start \in Nat /\ f.half.end \in Nat
    BY <1>2 DEF Good, HalfType
  <2>1. request <= f.half.end - f.half.start
    BY <1>2, <1>5, <2>0
  <2>2. /\ Good(Advanced(f.half, request), taken + request)
        /\ Advanced(f.half, request).start = f.half.start + request
        /\ Advanced(f.half, request).buf = f.half.buf
    BY <1>0, <1>2, <2>1, AdvancedGood
  <2>3. /\ Half' = Advanced(f.half, request) /\ taken' = taken + request
        /\ start' = f.half.start + request /\ buf' = f.half.buf
    BY <1>5, <2>2, BecomeHalf DEF Become
  <2>4. Good(Half, taken)' /\ taken' \in Nat
    BY <1>0, <2>2, <2>3 DEF Good, HalfType, Half, Index
  <2>5. view'.at = f.half.start /\ view'.len = request /\ view' \in [at : Nat, len : Nat]
    BY <1>5, <2>0
  <2>6. ViewInside'
    BY <2>0, <2>3, <2>5 DEF ViewInside
  <2>7. ViewIntact'
    <3> SUFFICES ASSUME NEW k \in 0 .. request - 1
                 PROVE  buf'[view'.at + k] = taken' + 1 - (start' - view'.at) + k
      BY <2>5 DEF ViewIntact
    <3>1. f.half.start + k \in f.half.start .. f.half.end - 1
      BY <2>0, <2>1
    <3>2. f.half.buf[f.half.start + k] = taken + 1 + ((f.half.start + k) - f.half.start)
      BY <1>2, <3>1 DEF Good
    <3> QED BY <1>0, <2>0, <2>3, <2>5, <3>2
  <2> QED BY <1>1, <1>2, <1>3, <2>4, <2>5, <2>6, <2>7 DEF ReaderInv, ScanInside
<1> QED BY <1>1, <1>4, <1>5

(* cpr_lgetbuf starts its scan at the first unread byte. *)
LEMMA LGetCallHolds == ASSUME ReaderInv, LGetCall PROVE ReaderInv'
<1>1. start \in Nat /\ end \in Nat /\ start <= end /\ end <= Bufsize
  BY DEF ReaderInv, Half, Good, HalfType
<1>2. Good(Half, taken + 0) /\ Become(Half, 0) /\ eof' \in BOOLEAN
  BY DEF ReaderInv, LGetCall, Become, Half, Good, HalfType
<1>3. scan' \in start' .. Bufsize /\ view' = NoView /\ delims' = delims
  BY <1>1, SizeAssumption DEF LGetCall
<1> QED BY <1>2, <1>3, ReaderStep

(* The scan stays behind start: start only moves to the front meanwhile. *)
LEMMA LGetFillHolds == ASSUME ReaderInv, LGetFill PROVE ReaderInv'
<1>1. start \in Nat /\ end \in Nat /\ start <= end /\ end <= Bufsize
  BY DEF ReaderInv, Half, Good, HalfType
<1>2. scan \in start .. Bufsize /\ view = NoView
  BY DEF LGetFill, ReaderInv, ScanInside
<1>3. PICK f \in Fill(Half, 0) :
          /\ Become(f.half, 0)
          /\ eof' = f.eof
          /\ scan' = IF ~f.ok THEN -1
                     ELSE IF scan + DelimLen > end THEN scan ELSE end - DelimLen + 1
  BY DEF LGetFill
<1>4. Good(f.half, taken + 0) /\ f.eof \in BOOLEAN
  BY FillGood DEF ReaderInv
<1>5. start' \in 0 .. start
  <2>1. start' = f.half.start
    BY <1>3 DEF Become
  <2>2. f.half.start \in {0, start}
    BY FillGood DEF ReaderInv, Half
  <2> QED BY <2>1, <2>2, <1>1
<1>6. scan' = -1 \/ scan' \in start' .. Bufsize
  BY <1>1, <1>2, <1>3, <1>5, DelimAssumption, SizeAssumption
<1>7. view' = NoView /\ delims' = delims
  BY <1>2 DEF LGetFill
<1> QED BY <1>3, <1>4, <1>6, <1>7, ReaderStep

(* cpr_lgetbuf's line is the unread bytes before the delimiter. *)
LEMMA LGetFoundHolds == ASSUME ReaderInv, LGetFound PROVE ReaderInv'
<1>1. /\ start \in Nat /\ end \in Nat /\ start <= end /\ end <= Bufsize /\ got \in Nat
      /\ taken \in Nat /\ got <= StreamLen /\ got = taken + (end - start)
      /\ buf \in [Index -> 0 .. StreamLen]
      /\ \A k \in start .. end - 1 : buf[k] = taken + 1 + (k - start)
  BY DEF ReaderInv, Half, Good, HalfType
<1>2. scan \in start .. Bufsize /\ view = NoView
  BY DEF LGetFound, ReaderInv, ScanInside
<1>3. PICK k \in scan .. Bufsize :
          /\ k + DelimLen <= end
          /\ view' = [at |-> start, len |-> k - start]
          /\ buf' \in {buf, [buf EXCEPT ![k] = NUL]}
          /\ start' = k + DelimLen
          /\ taken' = taken + (k + DelimLen - start)
  BY DEF LGetFound, DelimAt
<1>4. scan' = -1 /\ end' = end /\ got' = got /\ eof' = eof /\ delims' = delims
  BY DEF LGetFound
<1>5. k \in Nat /\ k >= start /\ k < end /\ start' \in Nat /\ start' <= end /\ taken' \in Nat
      /\ start' > k
  BY <1>1, <1>2, <1>3, DelimAssumption, SizeAssumption
<1>6. buf' \in [Index -> 0 .. StreamLen] /\ \A j \in Index : j # k => buf'[j] = buf[j]
  BY <1>1, <1>3, SizeAssumption DEF NUL
<1>7. \A j \in start .. end - 1 : j # k => buf'[j] = taken + 1 + (j - start)
  BY <1>1, <1>6, SizeAssumption DEF Index
<1>8. \A j \in start' .. end - 1 : buf'[j] = taken' + 1 + (j - start')
  <2> SUFFICES ASSUME NEW j \in start' .. end - 1
               PROVE  buf'[j] = taken' + 1 + (j - start')
    OBVIOUS
  <2>1. j \in start .. end - 1 /\ j # k
    BY <1>1, <1>5
  <2>2. buf'[j] = taken + 1 + (j - start)
    BY <1>7, <2>1
  <2> QED BY <1>1, <1>3, <1>5, <2>2, DelimAssumption
<1>9. Good(Half, taken)'
  <2>1. got' = taken' + (end' - start')
    BY <1>1, <1>3, <1>4, <1>5, DelimAssumption
  <2>2. Half'.start = start' /\ Half'.end = end' /\ Half'.got = got' /\ Half'.buf = buf'
        /\ Half' \in HalfType
    BY <1>1, <1>4, <1>5, <1>6 DEF Half, HalfType
  <2> QED BY <1>1, <1>4, <1>5, <1>8, <2>1, <2>2 DEF Good, HalfType, Index
<1>10. view'.at = start /\ view'.len = k - start /\ view' \in [at : Nat, len : Nat]
  BY <1>1, <1>3, <1>5
<1>11. ViewInside'
  BY <1>1, <1>5, <1>10 DEF ViewInside
<1>12. ViewIntact'
  <2> SUFFICES ASSUME NEW j \in 0 .. k - start - 1
               PROVE  buf'[start + j] = taken' + 1 - (start' - start) + j
    BY <1>10 DEF ViewIntact
  <2>1. start + j \in start .. end - 1 /\ start + j # k
    BY <1>1, <1>5
  <2>2. buf'[start + j] = taken + 1 + ((start + j) - start)
    BY <1>7, <2>1
  <2> QED BY <1>1, <1>3, <1>5, <2>2, DelimAssumption
<1> QED BY <1>4, <1>5, <1>9, <1>10, <1>11, <1>12 DEF ReaderInv, ScanInside

-----------------------------------------------------------------------------
(* The writer: what was sent followed by what is buffered. *)
Byte == 0 .. MaxPut

Ordered(s, a) ==
    /\ \A i, j \in 1 .. Len(s) : i < j => s[i] < s[j] \/ (s[i] = NUL /\ s[j] = NUL)
    /\ \A i \in 1 .. Len(s) : s[i] <= a

Complete(s, a) == \A b \in 1 .. a : \E i \in 1 .. Len(s) : s[i] = b

WriterInv == /\ out \in Seq(Byte) /\ wire \in Seq(Byte)
             /\ accepted \in Byte /\ failed \in BOOLEAN
             /\ PutInside
             /\ Ordered(wire \o out, accepted)
             /\ failed \/ Complete(wire \o out, accepted)

(* The bytes a put call is given, as a sequence. *)
LEMMA BytesSeq ==
    ASSUME accepted \in Byte, NEW n \in Nat, accepted + n <= MaxPut
    PROVE  /\ Bytes(n) \in Seq(Byte) /\ Len(Bytes(n)) = n
           /\ \A i \in 1 .. n : Bytes(n)[i] = accepted + i
<1>1. \A i \in 1 .. n : accepted + i \in Byte
  BY BoundAssumption DEF Byte
<1>2. Bytes(n) \in [1 .. n -> Byte]
  BY <1>1 DEF Bytes
<1>3. Bytes(n) \in Seq(Byte)
  BY <1>2
<1> QED BY <1>2, <1>3 DEF Bytes

(* New bytes behind an ordered sequence keep it ordered, and complete. *)
LEMMA AppendedBytes ==
    ASSUME accepted \in Byte, NEW n \in Nat, accepted + n <= MaxPut,
           NEW s \in Seq(Byte), Ordered(s, accepted)
    PROVE  /\ Ordered(s \o Bytes(n), accepted + n)
           /\ Complete(s, accepted) => Complete(s \o Bytes(n), accepted + n)
<1> DEFINE u == s \o Bytes(n)
<1>1. /\ Bytes(n) \in Seq(Byte) /\ Len(Bytes(n)) = n
      /\ \A i \in 1 .. n : Bytes(n)[i] = accepted + i
  BY BytesSeq
<1>2. /\ Len(u) = Len(s) + n /\ Len(s) \in Nat
      /\ \A i \in 1 .. Len(s) + n : u[i] = IF i <= Len(s) THEN s[i] ELSE Bytes(n)[i - Len(s)]
  BY <1>1, ConcatProperties, LenProperties
<1>3. /\ \A i \in 1 .. Len(s) : u[i] = s[i]
      /\ \A i \in Len(s) + 1 .. Len(s) + n : u[i] = accepted + (i - Len(s))
  <2>1. \A i \in 1 .. Len(s) : u[i] = s[i]
    BY <1>2
  <2>2. ASSUME NEW i \in Len(s) + 1 .. Len(s) + n PROVE u[i] = accepted + (i - Len(s))
    <3>1. i - Len(s) \in 1 .. n /\ i \in 1 .. Len(s) + n /\ ~(i <= Len(s))
      BY <1>2
    <3> QED BY <3>1, <1>1, <1>2
  <2> QED BY <2>1, <2>2
<1>4. \A i \in 1 .. Len(s) : s[i] \in Byte
  BY ElementOfSeq
<1>5. accepted \in Nat /\ MaxPut \in Nat
  BY BoundAssumption DEF Byte
<1> HIDE DEF u
<1>6. \A i \in 1 .. Len(u) : u[i] <= accepted + n
  BY <1>2, <1>3, <1>4, <1>5 DEF Ordered, Byte
<1>7. ASSUME NEW i \in 1 .. Len(u), NEW j \in 1 .. Len(u), i < j
      PROVE  u[i] < u[j] \/ (u[i] = NUL /\ u[j] = NUL)
  <2>1. CASE j <= Len(s)
    BY <1>2, <1>3, <1>7, <2>1 DEF Ordered
  <2>2. CASE j > Len(s) /\ i <= Len(s)
    <3>1. u[i] = s[i] /\ s[i] <= accepted /\ s[i] \in Byte
      BY <1>2, <1>3, <1>4, <2>2 DEF Ordered
    <3>2. u[j] = accepted + (j - Len(s))
      BY <1>2, <1>3, <2>2
    <3> QED BY <3>1, <3>2, <1>2, <1>5, <2>2 DEF Byte
  <2>3. CASE j > Len(s) /\ i > Len(s)
    BY <1>2, <1>3, <1>5, <1>7, <2>3
  <2> QED BY <1>2, <2>1, <2>2, <2>3
<1>8. ASSUME Complete(s, accepted) PROVE Complete(u, accepted + n)
  <2> SUFFICES ASSUME NEW b \in 1 .. accepted + n
               PROVE  \E i \in 1 .. Len(u) : u[i] = b
    BY DEF Complete
  <2>1. CASE b <= accepted
    <3>1. PICK i \in 1 .. Len(s) : s[i] = b
      BY <1>5, <1>8, <2>1 DEF Complete
    <3>2. i \in 1 .. Len(u) /\ u[i] = b
      BY <3>1, <1>2, <1>3
    <3> QED BY <3>2
  <2>2. CASE b > accepted
    <3>1. Len(s) + (b - accepted) \in Len(s) + 1 .. Len(s) + n
      BY <1>2, <1>5, <2>2
    <3>2. u[Len(s) + (b - accepted)] = b
      BY <3>1, <1>2, <1>3, <1>5
    <3>3. Len(s) + (b - accepted) \in 1 .. Len(u)
      BY <3>1, <1>2, <1>5
    <3> QED BY <3>2, <3>3
  <2> QED BY <2>1, <2>2, <1>5
<1> QED BY <1>6, <1>7, <1>8 DEF Ordered, u

(* flushbuf, whatever write() takes, keeps the order; nothing is missing as   *)
(* long as no write() fails.                                                  *)
LEMMA FlushKeeps ==
    ASSUME WriterInv, NEW f \in Flush
    PROVE  /\ f.out \in Seq(Byte) /\ f.sent \in Seq(Byte) /\ f.failed \in BOOLEAN
           /\ wire \o f.sent \in Seq(Byte)
           /\ Ordered((wire \o f.sent) \o f.out, accepted)
           /\ failed \/ f.failed \/ Complete((wire \o f.sent) \o f.out, accepted)
           /\ Len(f.out) <= Bufsize \/ \A i \in 1 .. Len(f.out) : f.out[i] = NUL
           /\ f.ok => f.out = <<>>
<1>0. out \in Seq(Byte) /\ wire \in Seq(Byte) /\ put \in Nat /\ <<>> \in Seq(Byte) /\ Len(<<>>) = 0
  BY LenProperties, EmptySeq DEF WriterInv, put
<1>1. \A i \in 1 .. put : out[i] \in Byte
  BY <1>0, ElementOfSeq DEF put
<1>2. ASSUME NEW n \in 0 .. put - 1,
             f = [out |-> SubSeq(out, n + 1, put), sent |-> SubSeq(out, 1, n),
                  ok |-> FALSE, failed |-> FALSE]
      PROVE  /\ f.out \in Seq(Byte) /\ f.sent \in Seq(Byte) /\ f.failed = FALSE /\ f.ok = FALSE
             /\ (wire \o f.sent) \o f.out = wire \o out
             /\ Len(f.out) <= Bufsize \/ \A i \in 1 .. Len(f.out) : f.out[i] = NUL
  <2>1. f.out = SubSeq(out, n + 1, put) /\ f.sent = SubSeq(out, 1, n) /\ f.failed = FALSE /\ f.ok = FALSE
    BY <1>2
  <2>2. /\ SubSeq(out, n + 1, put) \in Seq(Byte)
        /\ Len(SubSeq(out, n + 1, put)) = put - n
        /\ \A i \in 1 .. put - n : SubSeq(out, n + 1, put)[i] = out[n + i]
    <3>1. n + 1 \in Int /\ put \in Int /\ \A i \in n + 1 .. put : out[i] \in Byte
      BY <1>0, <1>1
    <3>2. /\ SubSeq(out, n + 1, put) \in Seq(Byte)
          /\ Len(SubSeq(out, n + 1, put)) = IF n + 1 <= put THEN put - (n + 1) + 1 ELSE 0
          /\ \A i \in 1 .. put - (n + 1) + 1 : SubSeq(out, n + 1, put)[i] = out[(n + 1) + i - 1]
      BY <3>1, SubSeqProperties
    <3>3. n + 1 <= put /\ put - (n + 1) + 1 = put - n
      BY <1>0
    <3>4. Len(SubSeq(out, n + 1, put)) = put - n
      BY <3>2, <3>3
    <3>5. \A i \in 1 .. put - n : (n + 1) + i - 1 = n + i
      BY <1>0
    <3> QED BY <3>2, <3>3, <3>4, <3>5
  <2>3. SubSeq(out, 1, n) \in Seq(Byte)
    <3>1. 1 \in Int /\ n \in Int /\ \A i \in 1 .. n : out[i] \in Byte
      BY <1>0, <1>1
    <3> QED BY <3>1, SubSeqProperties
  <2>4. SubSeq(out, 1, n) \o SubSeq(out, n + 1, put) = out
    <3>1. 1 \in 1 .. Len(out) + 1 /\ n \in 1 - 1 .. Len(out) /\ put \in n .. Len(out)
      BY <1>0 DEF put
    <3>2. SubSeq(out, 1, n) \o SubSeq(out, n + 1, put) = SubSeq(out, 1, put)
      BY <3>1, <1>0, ConcatAdjacentSubSeq
    <3>3. SubSeq(out, 1, put) = out
      BY <1>0, SubSeqFull DEF put
    <3> QED BY <3>2, <3>3
  <2>5. (wire \o SubSeq(out, 1, n)) \o SubSeq(out, n + 1, put) = wire \o out
    <3> DEFINE a == SubSeq(out, 1, n)
               b == SubSeq(out, n + 1, put)
    <3>1. wire \in Seq(Byte) /\ a \in Seq(Byte) /\ b \in Seq(Byte)
      BY <1>0, <2>2, <2>3
    <3>2. a \o b = out
      BY <2>4
    <3> HIDE DEF a, b
    <3>3. (wire \o a) \o b = wire \o (a \o b)
      BY <3>1, ConcatAssociative
    <3>4. (wire \o a) \o b = wire \o out
      BY <3>2, <3>3
    <3> QED BY <3>4 DEF a, b
  <2>6. put - n <= Bufsize \/ \A i \in 1 .. put - n : SubSeq(out, n + 1, put)[i] = NUL
    <3>1. CASE put <= Bufsize
      BY <3>1, <1>0, SizeAssumption
    <3>2. CASE \A i \in 1 .. put : out[i] = NUL
      BY <3>2, <2>2, <1>0
    <3> QED BY <3>1, <3>2 DEF WriterInv, PutInside
  <2> QED BY <2>1, <2>2, <2>3, <2>5, <2>6
<1>3. CASE \E n \in 0 .. put - 1 :
              f = [out |-> SubSeq(out, n + 1, put), sent |-> SubSeq(out, 1, n),
                   ok |-> FALSE, failed |-> FALSE]
  <2>1. /\ f.out \in Seq(Byte) /\ f.sent \in Seq(Byte) /\ f.failed = FALSE /\ f.ok = FALSE
        /\ (wire \o f.sent) \o f.out = wire \o out
        /\ Len(f.out) <= Bufsize \/ \A i \in 1 .. Len(f.out) : f.out[i] = NUL
    BY <1>2, <1>3
  <2>2. wire \o f.sent \in Seq(Byte)
    BY <2>1, <1>0, ConcatProperties
  <2> QED BY <2>1, <2>2 DEF WriterInv
<1>4. CASE f = [out |-> <<>>, sent |-> out, ok |-> TRUE, failed |-> FALSE]
  <2>1. f.out = <<>> /\ f.sent = out /\ f.failed = FALSE
    BY <1>4
  <2>2. wire \o out \in Seq(Byte)
    BY <1>0, ConcatProperties
  <2>3. (wire \o out) \o <<>> = wire \o out
    BY <2>2, ConcatEmptySeq
  <2>4. Len(f.out) <= Bufsize
    BY <2>1, <1>0, SizeAssumption
  <2>5. (wire \o f.sent) \o f.out = wire \o out /\ wire \o f.sent \in Seq(Byte)
    BY <2>1, <2>2, <2>3
  <2>6. Ordered(wire \o out, accepted) /\ (failed \/ Complete(wire \o out, accepted))
    BY DEF WriterInv
  <2> QED BY <2>1, <2>4, <2>5, <2>6, <1>0
<1>5. CASE f = [out |-> <<>>, sent |-> <<>>, ok |-> TRUE, failed |-> TRUE]
  <2>1. f.out = <<>> /\ f.sent = <<>> /\ f.failed = TRUE
    BY <1>5
  <2>2. wire \o <<>> = wire /\ (wire \o <<>>) \o <<>> = wire
    BY <1>0, ConcatEmptySeq
  <2>3. /\ Len(wire \o out) = Len(wire) + put /\ Len(wire) \in Nat
        /\ \A i \in 1 .. Len(wire) : (wire \o out)[i] = wire[i]
    BY <1>0, ConcatProperties, LenProperties DEF put
  <2>4. Ordered(wire, accepted)
    BY <2>3, <1>0 DEF WriterInv, Ordered
  <2>5. Len(f.out) <= Bufsize
    BY <2>1, <1>0, SizeAssumption
  <2>6. (wire \o f.sent) \o f.out = wire /\ wire \o f.sent \in Seq(Byte)
    BY <2>1, <2>2, <1>0
  <2> QED BY <2>1, <2>4, <2>5, <2>6, <1>0
<1> QED BY <1>3, <1>4, <1>5 DEF Flush, AfterPartial

(* The put calls, at most as many bytes as the room they ask for. *)
LEMMA PutHolds ==
    ASSUME WriterInv, NEW room \in 0 .. Bufsize, NEW n \in 0 .. room,
           accepted + n <= MaxPut, PutBytes(room, n)
    PROVE  WriterInv'
<1>0. /\ out \in Seq(Byte) /\ wire \in Seq(Byte) /\ accepted \in Byte /\ n \in Nat
      /\ Ordered(wire \o out, accepted) /\ failed \in BOOLEAN /\ put \in Nat
      /\ failed \/ Complete(wire \o out, accepted)
      /\ accepted + n \in Byte
  BY LenProperties, BoundAssumption, SizeAssumption DEF WriterInv, put, Byte
<1>1. Bytes(n) \in Seq(Byte) /\ Len(Bytes(n)) = n
  BY <1>0, BytesSeq
<1>2. CASE /\ Fits(room) /\ out' = out \o Bytes(n)
           /\ accepted' = accepted + n /\ UNCHANGED <<wire, failed>>
  <2>1. out' \in Seq(Byte) /\ Len(out') = put + n
    BY <1>0, <1>1, <1>2, ConcatProperties DEF put
  <2>2. wire' \o out' = (wire \o out) \o Bytes(n)
    BY <1>0, <1>1, <1>2, ConcatAssociative
  <2>3. wire \o out \in Seq(Byte)
    BY <1>0, ConcatProperties
  <2>4. /\ Ordered((wire \o out) \o Bytes(n), accepted + n)
        /\ Complete(wire \o out, accepted) => Complete((wire \o out) \o Bytes(n), accepted + n)
    BY <1>0, <2>3, AppendedBytes
  <2>5. PutInside'
    BY <1>0, <1>2, <2>1, SizeAssumption DEF PutInside, put, Fits
  <2>6. Ordered(wire' \o out', accepted')
    BY <1>2, <2>2, <2>4
  <2>7. failed' \/ Complete(wire' \o out', accepted')
    BY <1>0, <1>2, <2>2, <2>4
  <2>8. wire' \in Seq(Byte) /\ accepted' \in Byte /\ failed' \in BOOLEAN
    BY <1>0, <1>2
  <2> QED BY <2>1, <2>5, <2>6, <2>7, <2>8 DEF WriterInv, Ordered, Complete, Byte
<1>3. CASE \E f \in Flush :
              /\ Sent(f)
              /\ \/ f.ok /\ out' = Bytes(n) /\ accepted' = accepted + n
                 \/ ~f.ok /\ out' = f.out /\ UNCHANGED accepted
  <2>1. PICK f \in Flush :
              /\ Sent(f)
              /\ \/ f.ok /\ out' = Bytes(n) /\ accepted' = accepted + n
                 \/ ~f.ok /\ out' = f.out /\ UNCHANGED accepted
    BY <1>3
  <2>2. /\ f.out \in Seq(Byte) /\ f.sent \in Seq(Byte) /\ f.failed \in BOOLEAN
        /\ wire \o f.sent \in Seq(Byte)
        /\ Ordered((wire \o f.sent) \o f.out, accepted)
        /\ failed \/ f.failed \/ Complete((wire \o f.sent) \o f.out, accepted)
        /\ Len(f.out) <= Bufsize \/ \A i \in 1 .. Len(f.out) : f.out[i] = NUL
        /\ f.ok => f.out = <<>>
    BY FlushKeeps
  <2>3. wire' = wire \o f.sent /\ failed' = (failed \/ f.failed)
    BY <2>1 DEF Sent
  <2>4. failed' \in BOOLEAN /\ wire' \in Seq(Byte)
    BY <2>2, <2>3, <1>0
  <2>5. CASE ~f.ok /\ out' = f.out /\ UNCHANGED accepted
    <3>1. PutInside'
      BY <2>2, <2>5 DEF PutInside, put
    <3>2. wire' \o out' = (wire \o f.sent) \o f.out /\ accepted' = accepted
      BY <2>3, <2>5
    <3>3. Ordered(wire' \o out', accepted')
      BY <2>2, <3>2
    <3>4. failed' \/ Complete(wire' \o out', accepted')
      BY <2>2, <2>3, <3>2
    <3>5. out' \in Seq(Byte) /\ accepted' \in Byte
      BY <2>2, <2>5, <1>0
    <3> QED BY <2>4, <3>1, <3>3, <3>4, <3>5 DEF WriterInv, Ordered, Complete, Byte
  <2>6. CASE f.ok /\ out' = Bytes(n) /\ accepted' = accepted + n
    <3>1. (wire \o f.sent) \o f.out = wire \o f.sent
      BY <2>2, <2>6, ConcatEmptySeq
    <3>2. Ordered(wire \o f.sent, accepted) /\ (failed \/ f.failed \/ Complete(wire \o f.sent, accepted))
      BY <2>2, <3>1
    <3>3. /\ Ordered((wire \o f.sent) \o Bytes(n), accepted + n)
          /\ Complete(wire \o f.sent, accepted)
                => Complete((wire \o f.sent) \o Bytes(n), accepted + n)
      BY <1>0, <2>2, <3>2, AppendedBytes
    <3>4. wire' \o out' = (wire \o f.sent) \o Bytes(n)
      BY <2>3, <2>6
    <3>5. Ordered(wire' \o out', accepted')
      BY <2>6, <3>3, <3>4
    <3>6. failed' \/ Complete(wire' \o out', accepted')
      BY <2>3, <2>6, <3>2, <3>3, <3>4
    <3>7. out' \in Seq(Byte) /\ accepted' \in Byte /\ Len(out') = n
      BY <1>0, <1>1, <2>6
    <3>8. PutInside'
      BY <3>7, SizeAssumption DEF PutInside, put
    <3> QED BY <2>4, <3>5, <3>6, <3>7, <3>8 DEF WriterInv, Ordered, Complete, Byte
  <2> QED BY <2>1, <2>5, <2>6
<1> QED BY <1>2, <1>3 DEF PutBytes

(* cpr_flushbuf keeps the writer's part. *)
LEMMA FlushHolds ==
    ASSUME WriterInv, UNCHANGED accepted, NEW f \in Flush, out' = f.out, Sent(f)
    PROVE  WriterInv'
<1>1. /\ f.out \in Seq(Byte) /\ f.failed \in BOOLEAN
      /\ wire \o f.sent \in Seq(Byte)
      /\ Ordered((wire \o f.sent) \o f.out, accepted)
      /\ failed \/ f.failed \/ Complete((wire \o f.sent) \o f.out, accepted)
      /\ Len(f.out) <= Bufsize \/ \A i \in 1 .. Len(f.out) : f.out[i] = NUL
  BY FlushKeeps
<1>2. wire' = wire \o f.sent /\ failed' = (failed \/ f.failed)
  BY DEF Sent
<1>3. wire' \in Seq(Byte) /\ out' \in Seq(Byte) /\ failed' \in BOOLEAN /\ accepted' \in Byte
  BY <1>1, <1>2 DEF WriterInv
<1>4. PutInside'
  BY <1>1 DEF PutInside, put
<1>5. wire' \o out' = (wire \o f.sent) \o f.out
  BY <1>2
<1>6. Ordered(wire' \o out', accepted')
  BY <1>1, <1>5
<1>7. failed' \/ Complete(wire' \o out', accepted')
  BY <1>1, <1>2, <1>5
<1> QED BY <1>3, <1>4, <1>6, <1>7 DEF WriterInv, Ordered, Complete, Byte

-----------------------------------------------------------------------------
(* The inductive invariant. *)
IInv == ReaderInv /\ WriterInv /\ alive \in BOOLEAN

(* A fresh buffer, whatever malloc left in put. *)
LEMMA InitHolds == Init => IInv
<1> SUFFICES ASSUME Init PROVE IInv
  OBVIOUS
<1>1. ReaderInv
  <2>1. Half = [start |-> 0, end |-> 0, got |-> 0, buf |-> [k \in Index |-> NUL]]
    BY DEF Init, Half
  <2>2. [k \in Index |-> NUL] \in [Index -> 0 .. StreamLen]
    BY SizeAssumption DEF NUL
  <2>3. Half \in HalfType
    BY <2>1, <2>2 DEF HalfType
  <2>4. Good(Half, taken)
    BY <2>1, <2>3, SizeAssumption DEF Init, Good
  <2>5. /\ view.at = 0 /\ view.len = 0 /\ view \in [at : Nat, len : Nat]
        /\ start = 0 /\ taken \in Nat /\ scan = -1
        /\ eof \in BOOLEAN /\ delims \in DelimSets
    BY DEF Init, NoView
  <2>6. ViewInside /\ ViewIntact
    BY <2>5 DEF ViewInside, ViewIntact
  <2> QED BY <2>4, <2>5, <2>6 DEF ReaderInv, ScanInside
<1>2. WriterInv
  <2>1. PICK n \in 0 .. JunkMax : out = [i \in 1 .. n |-> NUL]
    BY DEF Init
  <2>2. n \in Nat /\ NUL \in Byte /\ wire = <<>> /\ accepted = 0 /\ failed = FALSE /\ 0 \in Byte
    BY BoundAssumption DEF Init, NUL, Byte
  <2>3. out \in [1 .. n -> Byte]
    BY <2>1, <2>2
  <2>4. out \in Seq(Byte) /\ Len(out) = n /\ \A i \in 1 .. n : out[i] = NUL
    BY <2>1, <2>2, <2>3
  <2>5. wire \in Seq(Byte) /\ wire \o out = out
    BY <2>2, <2>4, EmptySeq, ConcatEmptySeq
  <2>6. PutInside
    BY <2>4 DEF PutInside, put
  <2>7. Ordered(out, 0)
    BY <2>2, <2>4 DEF Ordered, NUL
  <2>8. Complete(out, 0)
    BY DEF Complete
  <2>9. Ordered(wire \o out, accepted) /\ Complete(wire \o out, accepted)
    BY <2>2, <2>5, <2>7, <2>8
  <2> QED BY <2>2, <2>4, <2>5, <2>6, <2>9 DEF WriterInv
<1> QED BY <1>1, <1>2 DEF Init, IInv

(* The put calls leave the reader's part alone. *)
LEMMA ReaderUnchanged == ASSUME ReaderInv, UNCHANGED reader PROVE ReaderInv'
BY DEF ReaderInv, reader, Half, Good, HalfType, Index, ViewInside, ViewIntact, ScanInside, NoView

(* The get calls leave the writer's part alone. *)
LEMMA WriterUnchanged == ASSUME WriterInv, UNCHANGED writer PROVE WriterInv'
<1>1. out' = out /\ wire' = wire /\ accepted' = accepted /\ failed' = failed
  BY DEF writer
<1>2. PutInside'
  BY <1>1 DEF WriterInv, PutInside, put
<1>3. wire' \o out' = wire \o out
  BY <1>1
<1>4. Ordered(wire' \o out', accepted') /\ (failed' \/ Complete(wire' \o out', accepted'))
  BY <1>1, <1>3 DEF WriterInv
<1>5. out' \in Seq(Byte) /\ wire' \in Seq(Byte) /\ accepted' \in Byte /\ failed' \in BOOLEAN
  BY <1>1 DEF WriterInv
<1> QED BY <1>2, <1>4, <1>5 DEF WriterInv, Ordered, Complete, Byte

(* Every step keeps the inductive invariant. *)
LEMMA NextHolds == IInv /\ [Next]_vars => IInv'
<1> SUFFICES ASSUME IInv, [Next]_vars PROVE IInv'
  OBVIOUS
<1> USE DEF IInv
<1>1. ASSUME NEW n \in 0 .. Bufsize + 1, FillBuf(n) \/ XGetBuf(n) \/ ResetBuf(n) PROVE IInv'
  <2>1. n \in Nat
    BY SizeAssumption
  <2>2. ReaderInv'
    BY <1>1, <2>1, FillBufHolds, XGetBufHolds, ResetBufHolds
  <2>3. UNCHANGED writer /\ alive' = alive
    BY <1>1 DEF FillBuf, XGetBuf, ResetBuf
  <2> QED BY <2>2, <2>3, WriterUnchanged
<1>2. ASSUME LGetCall \/ LGetFound \/ LGetFill PROVE IInv'
  <2>1. ReaderInv'
    BY <1>2, LGetCallHolds, LGetFoundHolds, LGetFillHolds
  <2>2. UNCHANGED writer /\ alive' = alive
    BY <1>2 DEF LGetCall, LGetFound, LGetFill
  <2> QED BY <2>1, <2>2, WriterUnchanged
<1>3. ASSUME FlushBuf PROVE IInv'
  <2>1. PICK f \in Flush : out' = f.out /\ Sent(f)
    BY <1>3 DEF FlushBuf
  <2>2. UNCHANGED accepted /\ UNCHANGED reader /\ alive' = alive
    BY <1>3 DEF FlushBuf
  <2>3. WriterInv'
    BY <2>1, <2>2, FlushHolds
  <2> QED BY <2>2, <2>3, ReaderUnchanged
<1>4. ASSUME FreeBuf PROVE IInv'
  <2>1. UNCHANGED reader /\ alive' \in BOOLEAN
    BY <1>4 DEF FreeBuf
  <2>2. CASE UNCHANGED writer
    BY <2>1, <2>2, WriterUnchanged, ReaderUnchanged
  <2>3. CASE \E f \in Flush : out' = f.out /\ Sent(f) /\ UNCHANGED accepted
    BY <2>1, <2>3, FlushHolds, ReaderUnchanged
  <2> QED BY <1>4, <2>2, <2>3 DEF FreeBuf
<1>5. ASSUME NEW n \in 0 .. Bufsize, XPutBuf(n) PROVE IInv'
  <2>1. n \in 0 .. n /\ accepted + n <= MaxPut /\ PutBytes(n, n)
    BY <1>5, SizeAssumption DEF XPutBuf
  <2>2. WriterInv'
    BY <2>1, PutHolds
  <2>3. UNCHANGED reader /\ alive' = alive
    BY <1>5 DEF XPutBuf, PutBytes
  <2> QED BY <2>2, <2>3, ReaderUnchanged
<1>6. ASSUME NEW e \in 0 .. Bufsize, NEW n \in 0 .. Bufsize, FmtBuf(e, n) PROVE IInv'
  <2> DEFINE l == IF n < e THEN n ELSE 0
  <2>0. accepted \in Nat /\ MaxPut \in Nat
    BY BoundAssumption DEF WriterInv, Byte
  <2>1. l \in 0 .. e /\ accepted + l <= MaxPut /\ PutBytes(e, l)
    BY <1>6, <2>0, SizeAssumption DEF FmtBuf
  <2> HIDE DEF l
  <2>2. WriterInv'
    BY <2>1, PutHolds
  <2>3. UNCHANGED reader /\ alive' = alive
    BY <1>6 DEF FmtBuf, PutBytes
  <2> QED BY <2>2, <2>3, ReaderUnchanged
<1>7. CASE UNCHANGED vars
  <2>1. UNCHANGED reader /\ UNCHANGED writer /\ alive' = alive
    BY <1>7 DEF vars
  <2> QED BY <2>1, ReaderUnchanged, WriterUnchanged
<1> QED BY <1>1, <1>2, <1>3, <1>4, <1>5, <1>6, <1>7 DEF Next

(* The properties the runs check follow. *)
LEMMA IInvImplies == IInv => TypeOK /\ StreamIntact /\ ViewIntact /\ OutputIntact /\ PutInside
<1> SUFFICES ASSUME IInv PROVE TypeOK /\ StreamIntact /\ ViewIntact /\ OutputIntact /\ PutInside
  OBVIOUS
<1>1. StreamIntact
  BY DEF IInv, ReaderInv, Good, Half, StreamIntact
<1>2. OutputIntact
  BY DEF IInv, WriterInv, Ordered, Complete, OutputIntact
<1>3. TypeOK
  <2>1. /\ buf \in [Index -> 0 .. StreamLen] /\ start \in Nat /\ end \in Nat /\ got \in Nat
        /\ start <= end /\ end <= Bufsize /\ got <= StreamLen /\ got = taken + (end - start)
        /\ taken \in Nat
    BY DEF IInv, ReaderInv, Good, HalfType, Half
  <2>2. /\ end \in 0 .. Bufsize /\ start \in 0 .. end
        /\ got \in 0 .. StreamLen /\ taken \in 0 .. StreamLen
    BY <2>1, SizeAssumption
  <2>3. view.at \in Index /\ view.len \in 0 .. Bufsize
    BY <2>1, SizeAssumption DEF IInv, ReaderInv, ViewInside, Index
  <2>4. scan \in -1 .. Bufsize + 1
    BY <2>1, SizeAssumption DEF IInv, ReaderInv, ScanInside
  <2> QED BY <2>1, <2>2, <2>3, <2>4 DEF IInv, ReaderInv, WriterInv, Byte, TypeOK
<1> QED BY <1>1, <1>2, <1>3 DEF IInv, ReaderInv, WriterInv

(* For buffers, streams and puts of any length, and whatever read() and       *)
(* write() do: the unread bytes of the input half are the stream's next, the  *)
(* pointer a get call hands out is to the right bytes, and what the put calls *)
(* accepted goes out in order, all of it until a write() fails, and is stored *)
(* inside the output half.                                                    *)
THEOREM Safety == Spec => [](TypeOK /\ StreamIntact /\ ViewIntact /\ OutputIntact /\ PutInside)
<1>1. Init => IInv
  BY InitHolds
<1>2. IInv /\ [Next]_vars => IInv'
  BY NextHolds
<1>3. IInv => TypeOK /\ StreamIntact /\ ViewIntact /\ OutputIntact /\ PutInside
  BY IInvImplies
<1> QED BY <1>1, <1>2, <1>3, PTL DEF Spec

===============================================================================
