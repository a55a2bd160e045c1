------------------------- MODULE ProxyRequestProofs -------------------------
(***************************************************************************)
(* The proxy is transparent for a body of any size and for any sizes of the *)
(* scan: what the upstream is sent is the client's body.  And its row tells *)
(* what happened, whatever the side buffers had to leave out.               *)
(*                                                                          *)
(* BodyIsForwarded alone is not inductive, for it says nothing of what has  *)
(* been read and not yet sent.  ReplayInv says that the prefix is the       *)
(* beginning of the body and that whichever of prefix and sent is longer is *)
(* all that was taken from the client, so that replay and source join       *)
(* without a gap.                                                           *)
(*                                                                          *)
(* What a side buffer gives at the end is decided byte by byte as it is     *)
(* written: Holds says what a prefixTailBuffer, with the ring of its last   *)
(* half, contains after n bytes however they were cut, Window what Bytes    *)
(* then makes of it.  ProbeInv and SampleInv say that probe and sample hold *)
(* what was sent and received, RowInv that the counters agree with both.    *)
(***************************************************************************)
EXTENDS ProxyRequest, SequenceTheorems, TLAPS

\* Fields(a, b) is a sequence of b - a numbers.
LEMMA FieldsSequence ==
  ASSUME NEW a \in Nat, NEW b \in Nat, a <= b
  PROVE  /\ Fields(a, b) \in Seq(Nat)
         /\ Len(Fields(a, b)) = b - a
         /\ \A i \in 1..(b - a) : Fields(a, b)[i] = a + i
<1>1. b - a \in Nat /\ \A i \in 1..(b - a) : a + i \in Nat
  OBVIOUS
<1>2. Fields(a, b) \in Seq(Nat)
  BY <1>1 DEF Fields
<1>3. Len(Fields(a, b)) = b - a
  BY <1>1, <1>2 DEF Fields
<1> QED BY <1>1, <1>2, <1>3 DEF Fields

\* A sequence of the numbers a + 1, ..., b is Fields(a, b).
LEMMA FieldsEqual ==
  ASSUME NEW a \in Nat, NEW b \in Nat, a <= b,
         NEW s \in Seq(Nat), Len(s) = b - a, \A i \in 1..(b - a) : s[i] = a + i
  PROVE  s = Fields(a, b)
<1> DEFINE t == Fields(a, b)
<1>1. t \in Seq(Nat) /\ Len(t) = b - a /\ \A i \in 1..(b - a) : t[i] = a + i
  BY FieldsSequence
<1> HIDE DEF t
<1>2. s = t
  BY <1>1, SeqEqual
<1> QED BY <1>2 DEF t

\* Two pieces of the body that follow each other are one (append in the scan,
\* what the upstream receives, and the two buffers of a prefixTailBuffer).
LEMMA FieldsJoin ==
  ASSUME NEW a \in Nat, NEW b \in Nat, NEW c \in Nat, a <= b, b <= c
  PROVE  Fields(a, b) \o Fields(b, c) = Fields(a, c)
<1> DEFINE s == Fields(a, b)  t == Fields(b, c)
<1>1. /\ s \in Seq(Nat) /\ Len(s) = b - a /\ \A i \in 1..(b - a) : s[i] = a + i
      /\ t \in Seq(Nat) /\ Len(t) = c - b /\ \A i \in 1..(c - b) : t[i] = b + i
  BY FieldsSequence
<1> HIDE DEF s, t
<1>2. /\ s \o t \in Seq(Nat) /\ Len(s \o t) = Len(s) + Len(t)
      /\ \A i \in 1..(Len(s) + Len(t)) :
           (s \o t)[i] = IF i <= Len(s) THEN s[i] ELSE t[i - Len(s)]
  BY <1>1, ConcatProperties
<1>3. a <= c /\ Len(s \o t) = c - a /\ \A i \in 1..(c - a) : (s \o t)[i] = a + i
  BY <1>1, <1>2
<1>4. s \o t = Fields(a, c)
  BY <1>2, <1>3, FieldsEqual
<1> QED BY <1>4 DEF s, t

\* A piece of any sequence of numbers.
LEMMA PartProperties ==
  ASSUME NEW s \in Seq(Nat), NEW i \in Nat, NEW j \in Nat, i <= j, j <= Len(s)
  PROVE  /\ SubSeq(s, i + 1, j) \in Seq(Nat)
         /\ Len(SubSeq(s, i + 1, j)) = j - i
         /\ \A l \in 1..(j - i) : SubSeq(s, i + 1, j)[l] = s[i + l]
<1> DEFINE u == SubSeq(s, i + 1, j)
<1>1. u = [l \in 1..(j - i) |-> s[l + (i + 1) - 1]]
  <2>1. i + 1 \in Int /\ j \in Int /\ 1 <= i + 1
    OBVIOUS
  <2> QED BY <2>1
<1>2. \A l \in 1..(j - i) : s[l + (i + 1) - 1] = s[i + l] /\ s[i + l] \in Nat
  OBVIOUS
<1>3. u \in Seq(Nat)
  BY <1>1, <1>2
<1>4. Len(u) = j - i
  BY <1>1, <1>3
<1> QED BY <1>1, <1>2, <1>3, <1>4

\* A piece of a piece of the body is a piece of the body (replayReader.Read,
\* and the slices of Write).
LEMMA FieldsPart ==
  ASSUME NEW a \in Nat, NEW c \in Nat, NEW x \in Nat, NEW y \in Nat,
         a <= x, x <= y, y <= c
  PROVE  SubSeq(Fields(a, c), x - a + 1, y - a) = Fields(x, y)
<1> DEFINE s == Fields(a, c)  i == x - a  j == y - a  u == SubSeq(s, i + 1, j)
<1>0. i \in Nat /\ j \in Nat /\ i <= j /\ j <= c - a /\ a <= c /\ j - i = y - x
      /\ \A l \in Nat : a + (i + l) = x + l
  OBVIOUS
<1>1. s \in Seq(Nat) /\ Len(s) = c - a /\ \A l \in 1..(c - a) : s[l] = a + l
  BY <1>0, FieldsSequence
<1> HIDE DEF s, i, j
<1>2. u \in Seq(Nat) /\ Len(u) = j - i /\ \A l \in 1..(j - i) : u[l] = s[i + l]
  BY <1>0, <1>1, PartProperties
<1> HIDE DEF u
<1>3. \A l \in 1..(y - x) : u[l] = x + l
  <2> TAKE l \in 1..(y - x)
  <2>1. l \in Nat /\ l \in 1..(j - i) /\ i + l \in 1..(c - a)
    BY <1>0
  <2> QED BY <1>0, <1>1, <1>2, <2>1
<1>4. u = Fields(x, y)
  BY <1>0, <1>2, <1>3, FieldsEqual
<1> QED BY <1>4 DEF s, u, i, j

\* The same for pieces that begin with the body.
LEMMA BodyJoin ==
  ASSUME NEW a \in Nat, NEW b \in Nat, a <= b
  PROVE  Fields(0, a) \o Fields(a, b) = Fields(0, b)
<1>1. 0 \in Nat /\ 0 <= a
  OBVIOUS
<1> QED BY <1>1, FieldsJoin

\* A piece of the beginning of the body.
LEMMA BodyPart ==
  ASSUME NEW c \in Nat, NEW a \in Nat, NEW b \in Nat, a <= b, b <= c
  PROVE  SubSeq(Fields(0, c), a + 1, b) = Fields(a, b)
<1>1. 0 \in Nat /\ 0 <= a /\ a + 1 = a - 0 + 1 /\ b = b - 0
  OBVIOUS
<1>2. SubSeq(Fields(0, c), a - 0 + 1, b - 0) = Fields(a, b)
  BY <1>1, FieldsPart
<1> QED BY <1>1, <1>2

\* An empty read is the empty sequence.
LEMMA FieldsEmpty == Fields(0, 0) = <<>>
<1>1. Fields(0, 0) \in Seq(Nat) /\ Len(Fields(0, 0)) = 0 - 0
  BY FieldsSequence
<1> QED BY <1>1, EmptySeq

-----------------------------------------------------------------------------
(* What the side buffers hold *)

\* Of the first n bytes a ring of length h, n >= h, has the last h of those that
\* came after the first h: those up to wpos are the newest, and, once it has
\* been filled, those after wpos the oldest.
RingHolds(ring, wpos, full, n, h) ==
  /\ ring \in Seq(Nat) /\ Len(ring) = h /\ wpos \in 0..(h - 1)
  /\ full \in BOOLEAN /\ (full <=> n >= 2 * h)
  /\ ~full => wpos = n - h
  /\ \A j \in 1..h : /\ j <= wpos => ring[j] = n - wpos + j
                     /\ j > wpos /\ full => ring[j] = n - h + j - wpos

\* The place of slot j in what is written: the writing begins after wpos and goes
\* on at the beginning of the ring.
LEMMA SlotOrder ==
  ASSUME NEW h \in Nat, NEW w \in 0..(h - 1), NEW j \in 1..h
  PROVE  (j - 1 - w) % h = IF j > w THEN j - 1 - w ELSE j - 1 - w + h
  OBVIOUS

\* The position after r more bytes.
LEMMA NextPosition ==
  ASSUME NEW h \in Nat, NEW w \in 0..(h - 1), NEW r \in 1..(h - 1)
  PROVE  (w + r) % h = IF w + r >= h THEN w + r - h ELSE w + r
  OBVIOUS

\* appendTail's ring after a write that does not fill it.
LEMMA RingStep ==
  ASSUME NEW h \in Nat, NEW n \in Nat, NEW r \in 1..(h - 1), n >= h,
         NEW ring, NEW w, NEW full, RingHolds(ring, w, full, n, h)
  PROVE  RingHolds(RingWrite(ring, w, Fields(n, n + r)), (w + r) % h,
                   full \/ w + r >= h, n + r, h)
<1> DEFINE rest == Fields(n, n + r)
           at(j) == (j - 1 - w) % h
           new == RingWrite(ring, w, rest)
           v == (w + r) % h
           filled == full \/ w + r >= h
<1>1. /\ ring \in Seq(Nat) /\ Len(ring) = h /\ w \in 0..(h - 1) /\ DOMAIN ring = 1..h
      /\ \A j \in 1..h : ring[j] \in Nat
      /\ full \in BOOLEAN /\ (full <=> n >= 2 * h) /\ (~full => w = n - h)
      /\ \A j \in 1..h : /\ j <= w => ring[j] = n - w + j
                         /\ j > w /\ full => ring[j] = n - h + j - w
  BY DEF RingHolds
<1>0. w \in 0..(h - 1) /\ w \in Nat /\ h \in Nat /\ n \in Nat /\ r \in Nat
  BY <1>1
<1>2. rest \in Seq(Nat) /\ Len(rest) = r /\ \A i \in 1..r : rest[i] = n + i
  <2>1. n + r \in Nat /\ n <= n + r /\ (n + r) - n = r
    OBVIOUS
  <2> HIDE DEF rest
  <2>2. rest \in Seq(Nat) /\ Len(rest) = (n + r) - n /\ \A i \in 1..((n + r) - n) : rest[i] = n + i
    BY <2>1, FieldsSequence DEF rest
  <2> QED BY <2>1, <2>2
<1> HIDE DEF rest
<1>3. new = [j \in 1..h |-> IF at(j) < r THEN rest[at(j) + 1] ELSE ring[j]]
  BY <1>1, <1>2 DEF RingWrite
<1>4. \A j \in 1..h : at(j) \in Nat /\ at(j) = IF j > w THEN j - 1 - w ELSE j - 1 - w + h
  <2> TAKE j \in 1..h
  <2>1. at(j) = IF j > w THEN j - 1 - w ELSE j - 1 - w + h
    BY <1>0, SlotOrder
  <2> HIDE DEF at
  <2> QED BY <1>0, <2>1
<1>5. v = IF w + r >= h THEN w + r - h ELSE w + r
  BY <1>1, NextPosition
<1>6. v \in 0..(h - 1)
  BY <1>1, <1>5
<1> HIDE DEF at, v
<1>7. \A j \in 1..h : new[j] = IF at(j) < r THEN n + at(j) + 1 ELSE ring[j]
  <2> TAKE j \in 1..h
  <2>1. at(j) \in Nat
    BY <1>4
  <2>2. at(j) < r => rest[at(j) + 1] = n + (at(j) + 1)
    BY <1>2, <2>1
  <2> QED BY <1>3, <2>1, <2>2
<1>8. new \in Seq(Nat) /\ Len(new) = h
  <2>1. ASSUME NEW j \in 1..h PROVE new[j] \in Nat
    <3>1. at(j) \in Nat /\ ring[j] \in Nat /\ n + at(j) + 1 \in Nat
      BY <1>1, <1>4
    <3> QED BY <1>7, <3>1
  <2>2. new = [j \in 1..h |-> new[j]]
    BY <1>3
  <2> HIDE DEF new
  <2>3. new \in Seq(Nat)
    BY <2>1, <2>2
  <2> QED BY <2>2, <2>3
<1> HIDE DEF new
<1>9. filled \in BOOLEAN /\ (filled <=> n + r >= 2 * h) /\ (~filled => v = n + r - h)
  BY <1>1, <1>5
<1>10. ASSUME NEW j \in 1..h, j <= v PROVE new[j] = n + r - v + j
  <2>1. /\ at(j) = IF j > w THEN j - 1 - w ELSE j - 1 - w + h
        /\ new[j] = IF at(j) < r THEN n + at(j) + 1 ELSE ring[j]
        /\ j <= w => ring[j] = n - w + j
    BY <1>1, <1>4, <1>7
  <2>2. CASE w + r < h
    BY <1>0, <1>5, <1>10, <2>1, <2>2
  <2>3. CASE w + r >= h
    BY <1>0, <1>5, <1>10, <2>1, <2>3
  <2> QED BY <1>0, <2>2, <2>3
<1>11. ASSUME NEW j \in 1..h, j > v, filled PROVE new[j] = n + r - h + j - v
  <2>1. /\ at(j) = IF j > w THEN j - 1 - w ELSE j - 1 - w + h
        /\ new[j] = IF at(j) < r THEN n + at(j) + 1 ELSE ring[j]
        /\ j <= w => ring[j] = n - w + j
        /\ j > w /\ full => ring[j] = n - h + j - w
    BY <1>1, <1>4, <1>7
  <2>2. CASE w + r < h
    <3>1. full /\ v = w + r /\ j > w /\ ~(at(j) < r)
      BY <1>0, <1>1, <1>5, <1>11, <2>1, <2>2
    <3> QED BY <1>0, <2>1, <3>1
  <2>3. CASE w + r >= h
    BY <1>0, <1>5, <1>11, <2>1, <2>3
  <2> QED BY <1>0, <2>2, <2>3
<1> HIDE DEF filled
<1>12. RingHolds(new, v, filled, n + r, h)
  BY <1>6, <1>8, <1>9, <1>10, <1>11 DEF RingHolds
<1> QED BY <1>12 DEF new, v, filled, rest

\* appendTail puts the ring in order: what it holds is the end of the n bytes,
\* as far as it does not lie in the first h.
LEMMA RingOrder ==
  ASSUME NEW h \in Nat, NEW n \in Nat, n > h,
         NEW b, RingHolds(b.tail, b.wpos, b.full, n, h)
  PROVE  Chronological(b) = Fields(IF n - h > h THEN n - h ELSE h, n)
<1> DEFINE ring == b.tail  w == b.wpos  newest == SubSeq(ring, 1, w)  oldest == SubSeq(ring, w + 1, h)
<1>1. /\ ring \in Seq(Nat) /\ Len(ring) = h
      /\ b.full \in BOOLEAN /\ (b.full <=> n >= 2 * h) /\ (~b.full => w = n - h)
      /\ \A j \in 1..h : /\ j <= w => ring[j] = n - w + j
                         /\ j > w /\ b.full => ring[j] = n - h + j - w
  BY DEF RingHolds
<1>2. w \in Nat /\ w < h
  BY DEF RingHolds
<1>3. Chronological(b) = IF b.full THEN oldest \o newest ELSE newest
  BY <1>1 DEF Chronological
<1> HIDE DEF ring, w
<1>4. newest = Fields(n - w, n)
  <2>1. 0 \in Nat /\ 0 + 1 = 1 /\ 0 <= w /\ w <= Len(ring)
    BY <1>1, <1>2
  <2>2. /\ newest \in Seq(Nat) /\ Len(newest) = w - 0
        /\ \A l \in 1..(w - 0) : newest[l] = ring[0 + l]
    BY <1>1, <1>2, <2>1, PartProperties
  <2> HIDE DEF newest
  <2>3. /\ n - w \in Nat /\ n - w <= n /\ Len(newest) = n - (n - w)
        /\ \A l \in 1..(n - (n - w)) : newest[l] = (n - w) + l
    BY <1>1, <1>2, <2>2
  <2> QED BY <2>2, <2>3, FieldsEqual
<1>5. b.full => oldest = Fields(n - h, n - w)
  <2>1. w <= h /\ h <= Len(ring)
    BY <1>1, <1>2
  <2>2. /\ oldest \in Seq(Nat) /\ Len(oldest) = h - w
        /\ \A l \in 1..(h - w) : oldest[l] = ring[w + l]
    BY <1>1, <1>2, <2>1, PartProperties
  <2> HIDE DEF oldest
  <2>3. /\ n - h \in Nat /\ n - w \in Nat /\ n - h <= n - w /\ (n - w) - (n - h) = h - w
    BY <1>2
  <2>4. ASSUME b.full, NEW l \in 1..((n - w) - (n - h)) PROVE oldest[l] = (n - h) + l
    <3>1. w + l \in 1..h /\ w + l > w /\ l \in 1..(h - w)
      BY <1>2
    <3>2. oldest[l] = ring[w + l] /\ ring[w + l] = n - h + (w + l) - w
      BY <1>1, <2>2, <2>4, <3>1
    <3> QED BY <1>2, <3>2
  <2> QED BY <2>2, <2>3, <2>4, FieldsEqual
<1> HIDE DEF newest, oldest
<1>6. CASE b.full
  <2>1. n - h \in Nat /\ n - w \in Nat /\ n - h <= n - w /\ n - w <= n /\ n - h >= h
    BY <1>1, <1>2, <1>6
  <2>2. oldest \o newest = Fields(n - h, n)
    BY <1>4, <1>5, <1>6, <2>1, FieldsJoin, ZenonT(40)
  <2>3. (IF n - h > h THEN n - h ELSE h) = n - h
    BY <2>1
  <2> QED BY <1>3, <1>6, <2>2, <2>3
<1>7. CASE ~b.full
  <2>1. n - w = h /\ ~(n - h > h)
    BY <1>1, <1>2, <1>7
  <2> QED BY <1>3, <1>4, <1>7, <2>1
<1> QED BY <1>1, <1>6, <1>7

\* A prefixTailBuffer with halves of h bytes that was given the first n of a
\* body.
Holds(b, n, h) ==
  /\ b = [prefix |-> Fields(0, Smaller(h, n)), tail |-> b.tail, wpos |-> b.wpos,
          full |-> b.full, total |-> n]
  /\ n <= h => b.tail = <<>> /\ b.wpos = 0 /\ b.full = FALSE
  /\ n > h => RingHolds(b.tail, b.wpos, b.full, n, h)

\* Half of any limit, 1 included, is positive.
LEMMA HalfPositive ==
  ASSUME NEW max \in Nat \ {0}
  PROVE  Half(max) \in Nat /\ Half(max) > 0
  BY DEF Half

\* An empty buffer, before anything is written.
LEMMA HoldsNothing ==
  ASSUME NEW h \in Nat, h > 0
  PROVE  Holds(EmptyPrefixTail, 0, h)
<1>1. Smaller(h, 0) = 0 /\ 0 <= h /\ ~(0 > h)
  BY DEF Smaller
<1> QED BY <1>1, FieldsEmpty DEF Holds, EmptyPrefixTail

\* prefixTailBuffer.Write of the next k bytes.
LEMMA HoldsMore ==
  ASSUME NEW max \in Nat \ {0}, NEW n \in Nat, NEW k \in Nat, k > 0,
         NEW b, Holds(b, n, Half(max))
  PROVE  Holds(PrefixTailWrite(b, Fields(n, n + k), max), n + k, Half(max))
<1> DEFINE h == Half(max)
           m == n + k
           p == Fields(n, m)
           need == Smaller(h - Len(b.prefix), Len(p))
           q == n + need
           rest == SubSeq(p, need + 1, Len(p))
           r == Len(rest)
           ring == IF b.tail = <<>> THEN [j \in 1..h |-> Gap] ELSE b.tail
           first == b.prefix \o SubSeq(p, 1, need)
           total == b.total + Len(p)
           c == PrefixTailWrite(b, p, max)
<1> HIDE DEF h, m, p, need, q, rest, r, ring, first, total, c
<1> SUFFICES Holds(c, m, h)
  BY DEF c, p, m, h
<1>1. h \in Nat /\ h > 0 /\ m \in Nat /\ n <= m /\ m - n = k /\ m = n + k
  BY HalfPositive DEF h, m
<1>2. p \in Seq(Nat) /\ Len(p) = k
  BY <1>1, FieldsSequence DEF p
<1>3. /\ b = [prefix |-> b.prefix, tail |-> b.tail, wpos |-> b.wpos, full |-> b.full, total |-> b.total]
      /\ b.prefix = Fields(0, Smaller(h, n)) /\ b.total = n
  BY DEF Holds, h
<1>4. n <= h => b.tail = <<>> /\ b.wpos = 0 /\ b.full = FALSE
  BY DEF Holds, h
<1>5. n > h => RingHolds(b.tail, b.wpos, b.full, n, h)
  BY <1>1 DEF Holds, h
<1>6. c = [prefix |-> first,
           tail |-> IF rest = <<>> THEN b.tail
                    ELSE IF r >= h THEN SubSeq(rest, r - h + 1, r)
                    ELSE RingWrite(ring, b.wpos, rest),
           wpos |-> IF rest = <<>> THEN b.wpos
                    ELSE IF r >= h THEN 0 ELSE (b.wpos + r) % h,
           full |-> IF rest = <<>> THEN b.full
                    ELSE IF r >= h THEN TRUE ELSE b.full \/ b.wpos + r >= h,
           total |-> total]
  <2>1. c = LET filled == [b EXCEPT !.prefix = first, !.total = total]
            IN  IF rest = <<>> THEN filled
                ELSE IF r >= h
                  THEN [filled EXCEPT !.tail = SubSeq(rest, r - h + 1, r), !.wpos = 0, !.full = TRUE]
                ELSE [filled EXCEPT !.tail = RingWrite(ring, b.wpos, rest),
                                    !.wpos = (b.wpos + r) % h,
                                    !.full = b.full \/ b.wpos + r >= h]
    BY DEF PrefixTailWrite, c, first, total, rest, r, ring, h, need
  <2> QED BY <1>3, <2>1
<1>7. Len(b.prefix) = Smaller(h, n) /\ Smaller(h, n) \in Nat
  <2>1. Smaller(h, n) \in Nat /\ 0 \in Nat /\ 0 <= Smaller(h, n)
    BY <1>1 DEF Smaller
  <2>2. Len(Fields(0, Smaller(h, n))) = Smaller(h, n) - 0
    BY <2>1, FieldsSequence
  <2> QED BY <1>3, <2>1, <2>2
\* The prefix is filled up to need more bytes; q is where the rest begins.
<1>8. need = IF n <= h THEN IF m <= h THEN k ELSE h - n ELSE 0
  <2>1. need = IF h - Smaller(h, n) <= k THEN h - Smaller(h, n) ELSE k
    BY <1>2, <1>7 DEF need, Smaller
  <2>2. Smaller(h, n) = IF n <= h THEN n ELSE h
    BY <1>1 DEF Smaller
  <2> QED BY <1>1, <2>1, <2>2
<1>9. /\ need \in Nat /\ need <= k /\ q \in Nat /\ n <= q /\ q <= m /\ q = n + need
      /\ q = IF m <= h THEN m ELSE IF n <= h THEN h ELSE n
  BY <1>1, <1>8 DEF q
<1>10. first = Fields(0, Smaller(h, m))
  <2>1. SubSeq(p, 1, need) = Fields(n, q)
    <3>1. n \in Nat /\ m \in Nat /\ q \in Nat /\ n <= n /\ n <= q /\ q <= m
      BY <1>1, <1>9
    <3>2. SubSeq(Fields(n, m), n - n + 1, q - n) = Fields(n, q)
      BY ONLY <3>1, FieldsPart
    <3>3. 1 = n - n + 1 /\ need = q - n
      BY <1>9
    <3> QED BY <3>2, <3>3 DEF p
  <2>2. CASE n <= h
    <3>1. Smaller(h, n) = n /\ Smaller(h, m) = q
      BY <1>1, <1>9, <2>2 DEF Smaller
    <3>2. Fields(0, n) \o Fields(n, q) = Fields(0, q)
      BY <1>9, BodyJoin
    <3> QED BY <1>3, <2>1, <3>1, <3>2 DEF first
  <2>3. CASE n > h
    <3>1. Smaller(h, n) = h /\ Smaller(h, m) = h /\ need = 0
      BY <1>1, <1>8, <2>3 DEF Smaller
    <3>2. Fields(0, h) \in Seq(Nat)
      <4>1. 0 \in Nat /\ 0 <= h
        BY <1>1
      <4> QED BY <1>1, <4>1, FieldsSequence
    <3>3. SubSeq(p, 1, 0) = <<>>
      BY <1>2
    <3>4. Fields(0, h) \o <<>> = Fields(0, h)
      BY <3>2
    <3> QED BY <1>3, <3>1, <3>3, <3>4 DEF first
  <2> QED BY <1>1, <2>2, <2>3
<1>11. rest = Fields(q, m) /\ rest \in Seq(Nat) /\ r = m - q
  <2>1. SubSeq(p, need + 1, k) = Fields(q, m)
    <3>1. n \in Nat /\ m \in Nat /\ q \in Nat /\ n <= q /\ q <= m /\ m <= m
      BY <1>1, <1>9
    <3>2. SubSeq(Fields(n, m), q - n + 1, m - n) = Fields(q, m)
      BY ONLY <3>1, FieldsPart
    <3>3. need + 1 = q - n + 1 /\ k = m - n
      BY <1>1, <1>9
    <3> QED BY <3>2, <3>3 DEF p
  <2>2. rest = Fields(q, m)
    BY <1>2, <2>1 DEF rest
  <2>3. Fields(q, m) \in Seq(Nat) /\ Len(Fields(q, m)) = m - q
    BY <1>1, <1>9, FieldsSequence
  <2> QED BY <2>2, <2>3 DEF r
<1>12. total = m
  BY <1>1, <1>2, <1>3 DEF total
<1>13. c = [prefix |-> Fields(0, Smaller(h, m)), tail |-> c.tail, wpos |-> c.wpos,
            full |-> c.full, total |-> m]
  BY <1>6, <1>10, <1>12
<1>14. CASE m <= h
  <2>1. r = 0 /\ n <= h
    BY <1>1, <1>9, <1>11, <1>14
  <2>2. rest = <<>>
    BY <1>11, <2>1, EmptySeq DEF r
  <2>3. c.tail = <<>> /\ c.wpos = 0 /\ c.full = FALSE
    BY <1>4, <1>6, <2>1, <2>2
  <2>4. ~(m > h)
    BY <1>1, <1>14
  <2> QED BY <1>13, <2>3, <2>4 DEF Holds
<1>15. CASE m > h
  <2>1. r > 0 /\ r \in Nat /\ q >= h /\ m = q + r /\ q = IF n <= h THEN h ELSE n
    BY <1>1, <1>9, <1>11, <1>15
  <2>2. rest # <<>>
    BY <1>11, <2>1 DEF r
  <2>3. RingHolds(c.tail, c.wpos, c.full, m, h)
    <3>1. CASE r >= h
      <4>1. c.tail = SubSeq(rest, r - h + 1, r) /\ c.wpos = 0 /\ c.full = TRUE
        BY <1>6, <2>2, <3>1
      <4>2. /\ r - h + 1 = (m - h) - q + 1 /\ r = m - q /\ q <= m - h /\ m <= m
            /\ m - h \in Nat /\ m - h <= m /\ m - (m - h) = h /\ m >= 2 * h
        BY <1>1, <1>9, <2>1, <3>1
      <4>3. c.tail = Fields(m - h, m)
        <5> DEFINE o == m - h
        <5>1. q \in Nat /\ m \in Nat /\ o \in Nat /\ q <= o /\ o <= m /\ m <= m
          BY <1>1, <1>9, <4>2
        <5>2. r - h + 1 = o - q + 1
          BY <4>2
        <5> HIDE DEF o
        <5>3. SubSeq(Fields(q, m), o - q + 1, m - q) = Fields(o, m)
          BY ONLY <5>1, FieldsPart
        <5>4. c.tail = Fields(o, m)
          BY <1>11, <4>1, <4>2, <5>2, <5>3
        <5> QED BY <5>4 DEF o
      <4>4. /\ c.tail \in Seq(Nat) /\ Len(c.tail) = h
            /\ \A j \in 1..h : c.tail[j] = m - h + j
        <5>1. LET t == Fields(m - h, m)
              IN  /\ t \in Seq(Nat) /\ Len(t) = m - (m - h)
                  /\ \A j \in 1..(m - (m - h)) : t[j] = (m - h) + j
          BY <1>1, <4>2, FieldsSequence
        <5> QED BY <4>2, <4>3, <5>1
      <4>5. /\ 0 \in 0..(h - 1) /\ TRUE \in BOOLEAN
            /\ \A j \in 1..h : ~(j <= 0) /\ m - h + j = m - h + j - 0
        BY <1>1
      <4> QED BY <4>1, <4>2, <4>4, <4>5 DEF RingHolds
    <3>2. CASE r < h
      <4>1. ~(r >= h) /\ r \in 1..(h - 1)
        BY <1>1, <2>1, <3>2
      <4>2. /\ c.tail = RingWrite(ring, b.wpos, rest) /\ c.wpos = (b.wpos + r) % h
            /\ c.full = (b.full \/ b.wpos + r >= h)
        BY <1>6, <2>2, <4>1
      <4>3. RingHolds(ring, b.wpos, b.full, q, h)
        <5>1. CASE n <= h
          <6>1. ring = [j \in 1..h |-> 0] /\ b.wpos = 0 /\ b.full = FALSE /\ q = h
            BY <1>4, <2>1, <5>1 DEF Gap, ring
          <6>2. ring \in Seq(Nat)
            BY <1>1, <6>1
          <6>3. Len(ring) = h
            BY <1>1, <6>1, <6>2
          <6>4. 0 \in 0..(h - 1) /\ ~(h >= 2 * h) /\ 0 = h - h /\ \A j \in 1..h : ~(j <= 0)
            BY <1>1
          <6> QED BY <6>1, <6>2, <6>3, <6>4 DEF RingHolds
        <5>2. CASE n > h
          <6>1. RingHolds(b.tail, b.wpos, b.full, n, h) /\ q = n
            BY <1>1, <1>5, <2>1, <5>2
          <6>2. b.tail \in Seq(Nat) /\ Len(b.tail) = h
            BY <6>1 DEF RingHolds
          <6>3. b.tail # <<>>
            BY <1>1, <6>2
          <6> QED BY <6>1, <6>3 DEF ring
        <5> QED BY <1>1, <5>1, <5>2
      <4>4. RingHolds(RingWrite(ring, b.wpos, Fields(q, q + r)), (b.wpos + r) % h,
                      b.full \/ b.wpos + r >= h, q + r, h)
        BY <1>1, <1>9, <2>1, <4>1, <4>3, RingStep
      <4> QED BY <1>11, <2>1, <4>2, <4>4
    <3> QED BY <1>1, <2>1, <3>1, <3>2
  <2>4. ~(m <= h)
    BY <1>1, <1>15
  <2> QED BY <1>13, <2>3, <2>4 DEF Holds
<1> QED BY <1>1, <1>14, <1>15

\* What Bytes makes of the first n bytes written: all of them when max and the
\* two halves have room for them, else the ends and a gap.
Window(n, max) ==
  LET h == Half(max)
  IN  IF n <= max /\ n <= 2 * h THEN Fields(0, n)
      ELSE Fields(0, h) \o <<Gap>> \o Fields(IF n - h > h THEN n - h ELSE h, n)

\* prefixTailBuffer.Bytes of a buffer that was given n bytes.
LEMMA BytesAreWindow ==
  ASSUME NEW max \in Nat \ {0}, NEW n \in Nat, NEW b, Holds(b, n, Half(max))
  PROVE  PrefixTailBytes(b, max) = Window(n, max)
<1> DEFINE h == Half(max)
           tail == Chronological(b)
           from == IF n - h > h THEN n - h ELSE h
<1>1. h \in Nat /\ h > 0 /\ h <= max /\ max \in Nat
  BY HalfPositive DEF Half
<1> HIDE DEF h, tail, from
<1>2. /\ b.prefix = Fields(0, Smaller(h, n)) /\ b.total = n
      /\ n <= h => b.tail = <<>> /\ b.wpos = 0 /\ b.full = FALSE
      /\ n > h => RingHolds(b.tail, b.wpos, b.full, n, h)
  BY DEF Holds, h
<1>3. PrefixTailBytes(b, max) =
        LET overlap == Len(b.prefix) + Len(tail) - b.total
        IN  IF tail = <<>> \/ b.total <= Len(b.prefix) THEN b.prefix
            ELSE IF b.total <= max /\ overlap >= 0
              THEN b.prefix \o SubSeq(tail, overlap + 1, Len(tail))
            ELSE b.prefix \o <<Gap>> \o tail
  BY DEF PrefixTailBytes, tail
<1>4. Window(n, max) = IF n <= max /\ n <= 2 * h THEN Fields(0, n)
                       ELSE Fields(0, h) \o <<Gap>> \o Fields(from, n)
  BY DEF Window, h, from
<1>5. CASE n <= h
  <2>1. tail = <<>>
    BY <1>2, <1>5 DEF tail, Chronological
  <2>2. b.prefix = Fields(0, n) /\ n <= max /\ n <= 2 * h
    BY <1>1, <1>2, <1>5 DEF Smaller
  <2> QED BY <1>3, <1>4, <2>1, <2>2
<1>6. CASE n > h
  <2>1. from \in Nat /\ h <= from /\ from < n /\ (from = h <=> n <= 2 * h)
    BY <1>1, <1>6 DEF from
  <2>2. b.prefix = Fields(0, h) /\ Len(b.prefix) = h
    <3>1. Smaller(h, n) = h /\ 0 \in Nat /\ 0 <= h /\ h - 0 = h
      BY <1>1, <1>6 DEF Smaller
    <3>2. Len(Fields(0, h)) = h - 0
      BY <1>1, <3>1, FieldsSequence
    <3> QED BY <1>2, <3>1, <3>2
  <2>3. tail = Fields(from, n) /\ tail \in Seq(Nat) /\ Len(tail) = n - from
    <3>1. tail = Fields(from, n)
      BY <1>1, <1>2, <1>6, RingOrder DEF tail, from
    <3>2. from \in Nat /\ n \in Nat /\ from <= n
      BY <2>1
    <3>3. Fields(from, n) \in Seq(Nat) /\ Len(Fields(from, n)) = n - from
      BY ONLY <3>2, FieldsSequence
    <3> QED BY <3>1, <3>3
  <2>4. tail # <<>>
    <3>1. Len(tail) # 0
      BY <2>1, <2>3
    <3> QED BY <2>3, <3>1, EmptySeq
  <2> DEFINE overlap == Len(b.prefix) + Len(tail) - b.total
  <2>5. ~(b.total <= Len(b.prefix)) /\ overlap = h - from
    BY <1>1, <1>2, <1>6, <2>1, <2>2, <2>3
  <2>6. CASE n <= max /\ n <= 2 * h
    <3>1. overlap >= 0 /\ overlap + 1 = 1
      BY <1>1, <2>1, <2>5, <2>6
    <3>2. SubSeq(tail, 1, Len(tail)) = tail
      BY <2>3
    <3>3. Fields(0, h) \o Fields(h, n) = Fields(0, n)
      <4>1. h \in Nat /\ n \in Nat /\ h <= n
        BY <1>1, <1>6
      <4> QED BY ONLY <4>1, BodyJoin
    <3>4. PrefixTailBytes(b, max) = b.prefix \o tail
      BY <1>2, <1>3, <2>4, <2>5, <2>6, <3>1, <3>2
    <3>5. tail = Fields(h, n)
      BY <2>1, <2>3, <2>6
    <3> QED BY <1>4, <2>2, <2>6, <3>3, <3>4, <3>5
  <2>7. CASE ~(n <= max /\ n <= 2 * h)
    <3>1. ~(n <= max /\ overlap >= 0)
      BY <1>1, <2>1, <2>5, <2>7
    <3>2. PrefixTailBytes(b, max) = b.prefix \o <<Gap>> \o tail
      BY <1>2, <1>3, <2>4, <2>5, <3>1
    <3> QED BY <1>4, <2>2, <2>3, <2>7, <3>2
  <2> QED BY <2>6, <2>7
<1> QED BY <1>1, <1>5, <1>6

-----------------------------------------------------------------------------
(* What the scanner finds in a sample *)

\* A piece of the body names the model if its field lies in it.
LEMMA ModelInFields ==
  ASSUME NEW a \in Nat, NEW b \in Nat, a <= b, body.modelAt \in Nat
  PROVE  Model(Fields(a, b)) <=> body.modelAt # 0 /\ a < body.modelAt /\ body.modelAt <= b
<1> DEFINE s == Fields(a, b)  at == body.modelAt
<1>1. s \in Seq(Nat) /\ Len(s) = b - a /\ \A i \in 1..(b - a) : s[i] = a + i
  BY FieldsSequence
<1> HIDE DEF s
<1>2. DOMAIN s = 1..(b - a)
  BY <1>1
<1>3. ASSUME a < at, at <= b PROVE \E i \in DOMAIN s : s[i] = at
  <2>1. at - a \in 1..(b - a) /\ a + (at - a) = at
    BY <1>3
  <2> QED BY <1>1, <1>2, <2>1
<1>4. ASSUME NEW i \in DOMAIN s, s[i] = at PROVE a < at /\ at <= b
  BY <1>1, <1>2, <1>4
<1>5. Model(s) <=> at # 0 /\ \E i \in DOMAIN s : s[i] = at
  BY DEF Model, Gap
<1>6. Model(s) <=> at # 0 /\ a < at /\ at <= b
  BY <1>3, <1>4, <1>5
<1> QED BY <1>6 DEF s

\* The two ends with the line break between them.
LEMMA EndsElements ==
  ASSUME NEW s \in Seq(Nat), NEW t \in Seq(Nat)
  PROVE  LET u == s \o <<Gap>> \o t
         IN  /\ u \in Seq(Nat) /\ Len(u) = Len(s) + 1 + Len(t)
             /\ DOMAIN u = 1..(Len(s) + 1 + Len(t))
             /\ \A i \in 1..Len(s) : u[i] = s[i]
             /\ u[Len(s) + 1] = 0
             /\ \A i \in 1..Len(t) : u[Len(s) + 1 + i] = t[i]
<1> DEFINE l == Len(s)  u == s \o <<Gap>> \o t
<1>1. /\ l \in Nat /\ Len(t) \in Nat /\ DOMAIN s = 1..l /\ DOMAIN t = 1..Len(t)
      /\ <<Gap>> \in Seq(Nat) /\ Len(<<Gap>>) = 1 /\ <<Gap>>[1] = 0
  BY DEF Gap
<1>2. /\ s \o <<Gap>> \in Seq(Nat) /\ Len(s \o <<Gap>>) = l + 1
      /\ \A i \in 1..l : (s \o <<Gap>>)[i] = s[i]
      /\ (s \o <<Gap>>)[l + 1] = 0
  BY <1>1 DEF Gap
<1>3. /\ u \in Seq(Nat) /\ Len(u) = l + 1 + Len(t)
      /\ \A i \in 1..(l + 1) : u[i] = (s \o <<Gap>>)[i]
      /\ \A i \in 1..Len(t) : u[l + 1 + i] = t[i]
  BY <1>1, <1>2
<1>4. /\ DOMAIN u = 1..(l + 1 + Len(t))
      /\ \A i \in 1..l : u[i] = s[i]
      /\ u[l + 1] = 0
  BY <1>1, <1>2, <1>3
<1> HIDE DEF u
<1> QED BY <1>3, <1>4 DEF u

\* The line break names nothing; a field in either end is found.
LEMMA ModelInEnds ==
  ASSUME NEW s \in Seq(Nat), NEW t \in Seq(Nat)
  PROVE  Model(s \o <<Gap>> \o t) <=> Model(s) \/ Model(t)
<1> DEFINE u == s \o <<Gap>> \o t  l == Len(s)  at == body.modelAt
<1>1. l \in Nat /\ Len(t) \in Nat /\ DOMAIN s = 1..l /\ DOMAIN t = 1..Len(t)
  OBVIOUS
<1>2. /\ DOMAIN u = 1..(l + 1 + Len(t))
      /\ \A i \in 1..l : u[i] = s[i]
      /\ u[l + 1] = 0
      /\ \A i \in 1..Len(t) : u[l + 1 + i] = t[i]
  BY EndsElements
<1> HIDE DEF u, l
<1>3. ASSUME NEW i \in DOMAIN s, s[i] = at PROVE \E j \in DOMAIN u : u[j] = at
  BY <1>1, <1>2, <1>3
<1>4. ASSUME NEW i \in DOMAIN t, t[i] = at PROVE \E j \in DOMAIN u : u[j] = at
  <2>1. i \in 1..Len(t)
    BY <1>1
  <2>2. u[l + 1 + i] = t[i]
    BY <1>2, <2>1
  <2>3. l + 1 + i \in 1..(l + 1 + Len(t))
    BY <1>1, <2>1
  <2> QED BY <1>2, <1>4, <2>2, <2>3
<1>5. ASSUME NEW j \in DOMAIN u, u[j] = at, at # 0
      PROVE  (\E i \in DOMAIN s : s[i] = at) \/ (\E i \in DOMAIN t : t[i] = at)
  <2>1. CASE j <= l
    <3>1. j \in DOMAIN s /\ s[j] = at
      BY <1>1, <1>2, <1>5, <2>1
    <3> QED BY <3>1
  <2>2. CASE j = l + 1
    BY <1>2, <1>5, <2>2
  <2>3. CASE j > l + 1
    <3>1. j - (l + 1) \in DOMAIN t /\ l + 1 + (j - (l + 1)) = j
      BY <1>1, <1>2, <1>5, <2>3
    <3>2. t[j - (l + 1)] = at
      BY <1>1, <1>2, <1>5, <3>1
    <3> QED BY <3>1, <3>2
  <2> QED BY <1>1, <1>2, <2>1, <2>2, <2>3
<1>6. /\ Model(s) <=> at # 0 /\ \E i \in DOMAIN s : s[i] = at
      /\ Model(t) <=> at # 0 /\ \E i \in DOMAIN t : t[i] = at
      /\ Model(u) <=> at # 0 /\ \E i \in DOMAIN u : u[i] = at
  BY DEF Model, Gap
<1>7. Model(u) <=> Model(s) \/ Model(t)
  BY <1>3, <1>4, <1>5, <1>6
<1> QED BY <1>7 DEF u

\* The two ends of n fields, of h each.
LEMMA EndsOfFields ==
  ASSUME NEW h \in Nat, h > 0, NEW n \in Nat, n > 2 * h
  PROVE  LET u == Fields(0, h) \o <<Gap>> \o Fields(n - h, n)
         IN  /\ u \in Seq(Nat) /\ Len(u) = 2 * h + 1 /\ DOMAIN u = 1..(2 * h + 1)
             /\ \A i \in 1..h : u[i] = i
             /\ u[h + 1] = 0
             /\ \A i \in 1..h : u[h + 1 + i] = n - h + i
<1> DEFINE m == n - h  s == Fields(0, h)  t == Fields(m, n)  u == s \o <<Gap>> \o t
<1>1. m \in Nat /\ m <= n /\ n - m = h /\ 0 \in Nat /\ 0 <= h /\ h - 0 = h
  OBVIOUS
<1> HIDE DEF m
<1>2. /\ s \in Seq(Nat) /\ Len(s) = h - 0 /\ \A i \in 1..(h - 0) : s[i] = 0 + i
      /\ t \in Seq(Nat) /\ Len(t) = n - m /\ \A i \in 1..(n - m) : t[i] = m + i
  BY <1>1, FieldsSequence
<1> HIDE DEF s, t
<1>3. /\ u \in Seq(Nat) /\ Len(u) = Len(s) + 1 + Len(t)
      /\ DOMAIN u = 1..(Len(s) + 1 + Len(t))
      /\ \A i \in 1..Len(s) : u[i] = s[i]
      /\ u[Len(s) + 1] = 0
      /\ \A i \in 1..Len(t) : u[Len(s) + 1 + i] = t[i]
  BY <1>2, EndsElements
<1> HIDE DEF u
<1>4. Len(s) = h /\ Len(t) = h /\ h + 1 + h = 2 * h + 1
  BY <1>1, <1>2
<1>5. \A i \in 1..h : u[i] = i /\ u[h + 1 + i] = m + i
  BY <1>1, <1>2, <1>3, <1>4
<1> QED BY <1>3, <1>4, <1>5 DEF u, s, t, m

\* Half of an even limit.
LEMMA HalfOfEven ==
  ASSUME NEW max \in Nat \ {0}, max % 2 = 0
  PROVE  Half(max) \in Nat /\ Half(max) > 0 /\ max = 2 * Half(max)
  BY DEF Half

\* With an even limit the probe shows a field of the first n unless it lies
\* between the halves.
LEMMA ModelInWindow ==
  ASSUME NEW max \in Nat \ {0}, max % 2 = 0, NEW n \in Nat, NEW b,
         Holds(b, n, Half(max)), body.modelAt \in Nat
  PROVE  Model(PrefixTailBytes(b, max)) <=>
           /\ body.modelAt # 0 /\ body.modelAt <= n
           /\ n <= max \/ body.modelAt <= Half(max) \/ body.modelAt > n - Half(max)
<1> DEFINE h == Half(max)  at == body.modelAt
<1>1. h \in Nat /\ h > 0 /\ max = 2 * h
  BY HalfOfEven
<1>2. PrefixTailBytes(b, max) = Window(n, max)
  BY BytesAreWindow
<1>3. Window(n, max) = IF n <= max /\ n <= 2 * h THEN Fields(0, n)
                       ELSE Fields(0, h) \o <<Gap>> \o Fields(IF n - h > h THEN n - h ELSE h, n)
  BY DEF Window
<1> HIDE DEF h
<1>4. CASE n <= max
  <2>1. Window(n, max) = Fields(0, n) /\ 0 \in Nat /\ 0 <= n
    BY <1>1, <1>3, <1>4
  <2>2. Model(Fields(0, n)) <=> at # 0 /\ 0 < at /\ at <= n
    BY <2>1, ModelInFields
  <2> QED BY <1>2, <1>4, <2>1, <2>2
<1>5. CASE n > max
  <2> DEFINE m == n - h
  <2>1. m \in Nat /\ m <= n /\ m > h /\ 0 \in Nat /\ 0 <= h
    BY <1>1, <1>5
  <2>2. Window(n, max) = Fields(0, h) \o <<Gap>> \o Fields(m, n)
    <3>1. ~(n <= max) /\ (IF n - h > h THEN n - h ELSE h) = m
      BY <1>1, <1>5, <2>1
    <3> HIDE DEF m
    <3> QED BY <1>3, <3>1
  <2> HIDE DEF m
  <2>3. Fields(0, h) \in Seq(Nat) /\ Fields(m, n) \in Seq(Nat)
    BY <1>1, <2>1, FieldsSequence
  <2>4. Model(Window(n, max)) <=> Model(Fields(0, h)) \/ Model(Fields(m, n))
    BY <2>2, <2>3, ModelInEnds, ZenonT(40)
  <2>5. /\ Model(Fields(0, h)) <=> at # 0 /\ 0 < at /\ at <= h
        /\ Model(Fields(m, n)) <=> at # 0 /\ m < at /\ at <= n
    BY <1>1, <2>1, ModelInFields
  <2>6. m = n - h
    BY DEF m
  <2>7. Model(Window(n, max)) <=> at # 0 /\ at <= n /\ (at <= h \/ at > m)
    BY <1>1, <2>1, <2>4, <2>5
  <2>8. ~(n <= max)
    BY <1>1, <1>5
  <2> QED BY <1>2, <2>6, <2>7, <2>8 DEF h
<1> QED BY <1>1, <1>4, <1>5

(***************************************************************************)
(* The invariant                                                           *)
(***************************************************************************)

ReplayInv ==
  /\ body.size \in Nat
  /\ taken \in 0..body.size
  /\ Len(prefix) \in Nat /\ prefix = Fields(0, Len(prefix))
  /\ Len(sent) \in Nat /\ sent = Fields(0, Len(sent))
  /\ taken = IF Len(sent) >= Len(prefix) THEN Len(sent) ELSE Len(prefix)
  /\ phase = "prefix" => prefix = <<>>
  /\ phase \in {"prefix", "scan"} => sent = <<>>
  /\ phase = "scan" => Len(prefix) < ScanMax
  /\ upload = "sent" => Len(sent) = body.size

\* What a read up to k bytes returns (io.ReadAll of the LimitReader).
LEMMA ReadAllPart ==
  ASSUME NEW k \in Nat, body.size \in Nat, taken \in 0..body.size
  PROVE  \E t \in taken..body.size :
            /\ ReadAll(k) = Fields(taken, t)
            /\ Len(ReadAll(k)) = t - taken
            /\ t <= taken + k
<1> DEFINE t == Smaller(taken + k, body.size)
<1>1. t \in taken..body.size /\ t <= taken + k /\ t \in Nat /\ taken \in Nat /\ taken <= t
  BY DEF Smaller
<1>2. ReadAll(k) = Fields(taken, t)
  BY DEF ReadAll
<1> HIDE DEF t
<1>3. Len(Fields(taken, t)) = t - taken
  BY <1>1, FieldsSequence
<1> QED BY <1>1, <1>2, <1>3

\* Before the first read nothing is taken and nothing is sent.
LEMMA ReplayInit == Init => ReplayInv
<1> SUFFICES ASSUME Init PROVE ReplayInv
  OBVIOUS
<1>1. /\ body.size \in Nat /\ taken = 0 /\ prefix = <<>> /\ sent = <<>>
      /\ upload = "sending" /\ phase \in {"prefix", "roundtrip"}
  BY SizeAssumption DEF Init
<1>2. Len(<<>>) = 0 /\ <<>> = Fields(0, 0)
  BY FieldsEmpty
<1> QED BY <1>1, <1>2 DEF ReplayInv

\* What the transport takes with one read is the next piece of the body, from
\* the prefix as from the source, and the probe is given the same piece.
LEMMA UploadPart ==
  ASSUME ReplayInv, NEW k \in 1..MaxBody, Upload(k)
  PROVE  /\ ReplayInv'
         /\ k \in Nat /\ k > 0 /\ Len(sent) \in Nat /\ Len(sent') = Len(sent) + k
         /\ Metered => probe' = PrefixTailWrite(probe, Fields(Len(sent), Len(sent) + k), MaxBytes)
<1> USE DEF ReplayInv
<1> DEFINE n == Len(sent) + k
           replayed == Len(sent) < Len(prefix)
           p == IF replayed THEN SubSeq(prefix, Len(sent) + 1, n) ELSE Fields(taken, taken + k)
<1>1. /\ phase \in {"roundtrip", "copy"} /\ upload = "sending"
      /\ UNCHANGED <<body, prefix, upload, phase>>
      /\ k <= IF replayed THEN Len(prefix) - Len(sent) ELSE body.size - taken
      /\ taken' = IF replayed THEN taken ELSE taken + k
      /\ sent' = sent \o p
      /\ Metered => probe' = PrefixTailWrite(probe, p, MaxBytes)
  BY DEF Upload, Sending, requestVars
<1>2. k \in Nat /\ k > 0 /\ n \in Nat /\ Len(sent) <= n /\ 0 <= Len(sent)
  BY SizeAssumption
<1>3. /\ p = Fields(Len(sent), n)
      /\ taken' \in 0..body.size
      /\ taken' = IF n >= Len(prefix) THEN n ELSE Len(prefix)
  <2>1. CASE replayed
    <3>1. n <= Len(prefix) /\ taken' = Len(prefix)
      BY <1>1, <1>2, <2>1
    <3> HIDE DEF n
    <3>2. SubSeq(Fields(0, Len(prefix)), Len(sent) + 1, n) = Fields(Len(sent), n)
      BY <1>2, <3>1, BodyPart
    <3>3. SubSeq(prefix, Len(sent) + 1, n) = Fields(Len(sent), n)
      BY <3>2
    <3>4. p = Fields(Len(sent), n)
      BY <2>1, <3>3
    <3> QED BY <1>2, <3>1, <3>4
  <2>2. CASE ~replayed
    <3>1. taken = Len(sent) /\ taken' = n /\ n <= body.size /\ n >= Len(prefix)
      BY <1>1, <1>2, <2>2
    <3> QED BY <1>2, <2>2, <3>1
  <2> QED BY <2>1, <2>2
<1> HIDE DEF p, n
<1>4. sent' = Fields(0, n)
  <2>1. Fields(0, Len(sent)) \o Fields(Len(sent), n) = Fields(0, n)
    BY <1>2, BodyJoin
  <2> QED BY <1>1, <1>3, <2>1
<1>5. Len(sent') = n
  <2>1. 0 \in Nat /\ 0 <= n
    BY <1>2
  <2>2. Len(Fields(0, n)) = n - 0
    BY <1>2, <2>1, FieldsSequence
  <2> QED BY <2>2, <1>2, <1>4
<1>6. ReplayInv'
  BY <1>1, <1>2, <1>3, <1>4, <1>5
<1>7. Metered => probe' = PrefixTailWrite(probe, Fields(Len(sent), Len(sent) + k), MaxBytes)
  BY <1>1, <1>3 DEF n
<1> QED BY <1>2, <1>5, <1>6, <1>7 DEF n

\* Scan, replay and upload keep prefix and sent joined.
LEMMA ReplayStep == ReplayInv /\ [Next]_vars => ReplayInv'
<1> SUFFICES ASSUME ReplayInv, [Next]_vars PROVE ReplayInv'
  OBVIOUS
<1> USE DEF ReplayInv
<1>1. CASE ReadPrefix
  <2>1. /\ phase = "prefix" /\ prefix = <<>> /\ sent = <<>> /\ taken = 0
        /\ prefix' = ReadAll(InitialBytes) /\ taken' = Len(prefix')
        /\ phase' \in {"scan", "roundtrip"} /\ UNCHANGED <<body, sent, upload>>
        /\ phase' = "scan" => Len(prefix') < ScanMax
    BY <1>1 DEF ReadPrefix, requestVars
  <2>2. PICK t \in 0..body.size : prefix' = Fields(0, t) /\ Len(prefix') = t - 0
    BY <2>1, ReadAllPart, SizeAssumption
  <2>3. Len(sent) = 0 /\ Len(prefix') = t /\ t \in Nat
    BY <2>1, <2>2
  <2> QED BY <2>1, <2>2, <2>3
<1>2. CASE Scan
  <2> DEFINE k == Smaller(ReadSize, ScanMax - Len(prefix))
             chunk == ReadAll(k)
  <2>1. /\ phase = "scan" /\ Len(prefix) < ScanMax /\ sent = <<>>
        /\ taken = Len(prefix) /\ taken' = taken + Len(chunk) /\ prefix' = prefix \o chunk
        /\ UNCHANGED <<body, sent, upload>>
    BY <1>2 DEF Scan, requestVars
  <2>2. phase' \in {"scan", "roundtrip"} /\ (phase' = "scan" => ~(Len(prefix') >= ScanMax))
    BY <1>2 DEF Scan
  <2>3. k \in Nat /\ ScanMax \in Nat
    BY <2>1, SizeAssumption DEF Smaller, ScanMax
  <2> HIDE DEF k
  <2>4. PICK t \in taken..body.size : chunk = Fields(taken, t) /\ Len(chunk) = t - taken
    BY <2>3, ReadAllPart
  <2> HIDE DEF chunk
  <2>5. t \in Nat /\ taken \in Nat /\ taken <= t /\ taken' = t
    BY <2>1, <2>4
  <2>6. prefix' = Fields(0, t)
    <3>1. prefix = Fields(0, taken)
      BY <2>1
    <3> QED BY <3>1, <2>1, <2>4, <2>5, BodyJoin
  <2>7. Len(prefix') = t
    <3>1. Len(Fields(0, t)) = t - 0
      BY <2>5, FieldsSequence
    <3> QED BY <3>1, <2>5, <2>6
  <2> QED BY <2>1, <2>2, <2>3, <2>4, <2>5, <2>6, <2>7
<1>3. ASSUME NEW k \in 1..MaxBody, Upload(k) PROVE ReplayInv'
  BY <1>3, UploadPart
<1>4. CASE UploadEnds
  <2>1. /\ Len(sent) >= Len(prefix) /\ taken = body.size
        /\ UNCHANGED <<body, prefix, taken, sent, phase>>
    BY <1>4 DEF UploadEnds, requestVars
  <2>2. Len(sent) = body.size
    BY <2>1
  <2> QED BY <2>1, <2>2
<1>5. ASSUME UNCHANGED <<body, prefix, taken, sent, upload>>,
             phase' = phase \/ phase' \in {"copy", "done", "failed"}
      PROVE  ReplayInv'
  BY <1>5
<1>6. ASSUME NEW timeout \in BOOLEAN, RoundTripFails(timeout) PROVE ReplayInv'
  BY <1>5, <1>6 DEF RoundTripFails, requestVars, uploadVars
<1>7. ASSUME NEW resp \in Responses, NEW status \in {200, 400}, RoundTrip(resp, status)
      PROVE  ReplayInv'
  BY <1>5, <1>7 DEF RoundTrip, requestVars, uploadVars
<1>8. ASSUME NEW k \in 1..MaxResponse, Copy(k) PROVE ReplayInv'
  BY <1>5, <1>8 DEF Copy, requestVars, uploadVars
<1>9. ASSUME NEW k \in 1..MaxResponse, NEW j \in 0..MaxResponse, ClientGone(k, j)
      PROVE  ReplayInv'
  BY <1>5, <1>9 DEF ClientGone, Finish, requestVars, uploadVars
<1>10. CASE ResponseEnds
  BY <1>5, <1>10 DEF ResponseEnds, Finish, requestVars, uploadVars
<1>11. CASE UNCHANGED vars
  BY <1>5, <1>11 DEF vars, requestVars, uploadVars
<1> QED
  BY <1>1, <1>2, <1>3, <1>4, <1>6, <1>7, <1>8, <1>9, <1>10, <1>11 DEF Next

\* The upstream is sent the client's body, in order, without a gap and without
\* a repetition, and all of it when the sending ends well (replayReader and the
\* scan of ServeHTTP).
THEOREM UpstreamGetsTheBody == Spec => []BodyIsForwarded
<1>1. ReplayInv => BodyIsForwarded
  BY DEF ReplayInv, BodyIsForwarded
<1> QED BY <1>1, ReplayInit, ReplayStep, PTL DEF Spec

-----------------------------------------------------------------------------
(* The row *)

\* recordUsage is called with what Record is given and with what the handler
\* sees of the transport's side, which is exact when the body has been sent.
LEMMA RecordRow ==
  ASSUME NEW status, NEW outcome, NEW reason, NEW responseBytes,
         Record(status, outcome, reason, responseBytes)
  PROVE  /\ row'.status = status /\ row'.outcome = outcome /\ row'.reason = reason
         /\ row'.responseBytes = responseBytes
         /\ upload = "sent" => row'.requestBytes = bytesRead
         /\ upload = "sent" =>
              (row'.model <=> Model(PrefixTailBytes(probe, MaxBytes)) \/ Model(prefix))
<1>1. PICK b \in SeenBytes, m \in SeenModels :
        row' = [status |-> status, outcome |-> outcome, reason |-> reason,
                requestBytes |-> b, responseBytes |-> responseBytes,
                model |-> m \/ Model(prefix)]
  BY DEF Record
<1>2. upload = "sent" => b = bytesRead
  BY DEF SeenBytes
<1>3. upload = "sent" => m = Model(PrefixTailBytes(probe, MaxBytes))
  BY DEF SeenModels
<1>4. row'.model = (m \/ Model(prefix))
  BY <1>1
<1>5. upload = "sent" =>
        (row'.model <=> Model(PrefixTailBytes(probe, MaxBytes)) \/ Model(prefix))
  BY <1>3, <1>4
<1> QED BY <1>1, <1>2, <1>5

Extracted(s) == IF SampleBytes(s) = <<>> THEN "none" ELSE Extract(SampleBytes(s))

\* The row that a handler leaves at its end.
LEMMA FinishRow ==
  ASSUME route \in {"transparent", "request_only", "metered"},
         NEW s, NEW written, Finish(s, written)
  PROVE  /\ phase' = "done"
         /\ route = "transparent" => row' = row
         /\ route # "transparent" =>
              /\ row'.status = client.status /\ row'.responseBytes = written
              /\ upload = "sent" => row'.requestBytes = bytesRead
              /\ upload = "sent" =>
                   (row'.model <=> Model(PrefixTailBytes(probe, MaxBytes)) \/ Model(prefix))
         /\ Metered /\ ~response.stream =>
              /\ Extracted(s) = "usage" => row'.outcome = "captured"
              /\ Extracted(s) = "none" => row'.reason = "usage_not_present"
              /\ Extracted(s) = "error" /\ Overflow(s) =>
                   row'.outcome = "skipped" /\ row'.reason = "sample_limit_exceeded"
<1>1. Extracted(s) \in {"usage", "none", "error"}
  BY DEF Extracted, Extract
<1>2. phase' = "done"
  BY DEF Finish
<1>3. CASE route = "transparent"
  BY <1>2, <1>3 DEF Finish, Metered
<1>4. CASE route = "request_only"
  <2>1. Record(client.status, "captured", "request_only_profile", written)
    BY <1>4 DEF Finish, Metered
  <2> QED BY <1>2, <1>4, <2>1, RecordRow DEF Metered
<1>5. CASE Metered /\ response.stream
  <2>1. Record(client.status, "stream", "", written)
    BY <1>5 DEF Finish, Metered
  <2> QED BY <1>2, <1>5, <2>1, RecordRow DEF Metered
<1>6. CASE Metered /\ ~response.stream
  <2>1. CASE Extracted(s) = "usage"
    <3>1. Record(client.status, "captured", "", written)
      BY <1>6, <2>1 DEF Finish, Metered, Extracted
    <3> QED BY <1>2, <1>6, <2>1, <3>1, RecordRow DEF Metered
  <2>2. CASE Extracted(s) = "none"
    <3>1. Record(client.status, "skipped", "usage_not_present", written)
      BY <1>6, <2>2 DEF Finish, Metered, Extracted
    <3> QED BY <1>2, <1>6, <2>2, <3>1, RecordRow DEF Metered
  <2>3. CASE Extracted(s) = "error" /\ Overflow(s)
    <3>1. Record(client.status, "skipped", "sample_limit_exceeded", written)
      BY <1>6, <2>3 DEF Finish, Metered, Extracted
    <3> QED BY <1>2, <1>6, <2>3, <3>1, RecordRow DEF Metered
  <2>4. CASE Extracted(s) = "error" /\ ~Overflow(s)
    <3>1. Record(client.status, "failed", "parse_error", written)
      BY <1>6, <2>4 DEF Finish, Metered, Extracted
    <3> QED BY <1>2, <1>6, <2>4, <3>1, RecordRow DEF Metered
  <2> QED BY <1>1, <2>1, <2>2, <2>3, <2>4
<1> QED BY <1>3, <1>4, <1>5, <1>6 DEF Metered

\* Until the handler is done there is no row, and the client has what was read;
\* there is no response before the upstream has answered; the counter counts
\* what was sent.
RowInv ==
  /\ route \in {"transparent", "request_only", "metered"}
  /\ bytesRead = Len(sent)
  /\ client = [status |-> client.status, got |-> client.got]
  /\ client.got \in Nat /\ received \in Nat
  /\ phase \notin {"done", "failed"} => row = NoRow /\ received = client.got
  /\ phase \in {"prefix", "scan", "roundtrip"} => received = 0 /\ response = NoResponse

\* A handler begins without a row.
LEMMA RowInit == Init => RowInv /\ RowIsTrue
<1>1. Len(<<>>) = 0
  OBVIOUS
<1> QED BY <1>1 DEF Init, RowInv, RowIsTrue, Metered

\* Each step keeps the counters true, and the one that ends a handler its row.
LEMMA RowStep ==
  ReplayInv /\ RowInv /\ RowIsTrue /\ [Next]_vars => RowInv' /\ RowIsTrue'
<1> SUFFICES ASSUME ReplayInv, RowInv, RowIsTrue, [Next]_vars PROVE RowInv' /\ RowIsTrue'
  OBVIOUS
<1> USE DEF RowInv
<1>1. ASSUME phase \in {"prefix", "scan"}, phase' \in {"scan", "roundtrip"},
             UNCHANGED <<route, sent, bytesRead, client, received, response, row>>
      PROVE  RowInv' /\ RowIsTrue'
  BY <1>1 DEF RowIsTrue
<1>2. CASE ReadPrefix
  BY <1>1, <1>2 DEF ReadPrefix, requestVars
<1>3. CASE Scan
  <2>1. phase' \in {"scan", "roundtrip"}
    BY <1>3 DEF Scan
  <2> QED BY <1>1, <1>3, <2>1 DEF Scan, requestVars
<1>4. ASSUME NEW k \in 1..MaxBody, Upload(k) PROVE RowInv' /\ RowIsTrue'
  <2>1. Len(sent') = Len(sent) + k
    BY <1>4, UploadPart
  <2>2. /\ phase \in {"roundtrip", "copy"} /\ bytesRead' = bytesRead + k
        /\ UNCHANGED <<route, client, received, response, row, phase>>
    BY <1>4 DEF Upload, Sending, requestVars
  <2> QED BY <2>1, <2>2 DEF RowIsTrue
<1>5. CASE UploadEnds
  BY <1>5 DEF UploadEnds, Sending, requestVars, RowIsTrue
<1>6. ASSUME NEW timeout \in BOOLEAN, RoundTripFails(timeout) PROVE RowInv' /\ RowIsTrue'
  <2> DEFINE status == IF timeout THEN 504 ELSE 502
  <2>1. /\ phase = "roundtrip" /\ phase' = "failed"
        /\ client' = [client EXCEPT !.status = status]
        /\ UNCHANGED <<route, sent, bytesRead, upload, received, response>>
        /\ IF route = "transparent" THEN UNCHANGED row
           ELSE \E b \in SeenBytes :
                  row' = [status |-> status, outcome |-> "failed", reason |-> "upstream_error",
                          requestBytes |-> b, responseBytes |-> 0, model |-> Model(prefix)]
    BY <1>6 DEF RoundTripFails, requestVars, uploadVars
  <2> HIDE DEF status
  <2>2. client' = [status |-> client'.status, got |-> client'.got]
        /\ client'.status = status /\ client'.got = client.got /\ client.got = 0
    BY <2>1
  <2>3. RowInv'
    BY <2>1, <2>2
  <2>4. CASE route = "transparent"
    BY <2>1, <2>4 DEF RowIsTrue
  <2>5. CASE route # "transparent"
    <3>1. PICK b \in SeenBytes :
            row' = [status |-> status, outcome |-> "failed", reason |-> "upstream_error",
                    requestBytes |-> b, responseBytes |-> 0, model |-> Model(prefix)]
      BY <2>1, <2>5
    <3>2. row'.status = status /\ row'.requestBytes = b /\ row'.responseBytes = 0
      BY <3>1
    <3>3. upload = "sent" => b = Len(sent)
      BY DEF SeenBytes
    <3> QED BY <2>1, <2>2, <2>5, <3>2, <3>3 DEF RowIsTrue
  <2> QED BY <2>3, <2>4, <2>5
<1>7. ASSUME NEW resp \in Responses, NEW status \in {200, 400}, RoundTrip(resp, status)
      PROVE  RowInv' /\ RowIsTrue'
  <2>1. /\ phase = "roundtrip" /\ phase' = "copy"
        /\ client' = [client EXCEPT !.status = status]
        /\ UNCHANGED <<route, sent, bytesRead, received, row>>
    BY <1>7 DEF RoundTrip, requestVars, uploadVars
  <2>2. client' = [status |-> client'.status, got |-> client'.got] /\ client'.got = client.got
    BY <2>1
  <2> QED BY <2>1, <2>2 DEF RowIsTrue
<1>8. ASSUME NEW k \in 1..MaxResponse, Copy(k) PROVE RowInv' /\ RowIsTrue'
  <2>1. /\ phase = "copy" /\ phase' = "copy" /\ received' = received + k
        /\ client' = [client EXCEPT !.got = @ + k]
        /\ UNCHANGED <<route, sent, bytesRead, response, row>>
    BY <1>8 DEF Copy, requestVars, uploadVars
  <2>2. client' = [status |-> client'.status, got |-> client'.got] /\ client'.got = client.got + k
    BY <2>1
  <2>3. k \in Nat
    BY SizeAssumption
  <2> QED BY <2>1, <2>2, <2>3 DEF RowIsTrue
<1>9. ASSUME NEW k \in 1..MaxResponse, NEW j \in 0..MaxResponse, ClientGone(k, j)
      PROVE  RowInv' /\ RowIsTrue'
  <2> DEFINE written == IF Metered /\ response.stream THEN client.got + k ELSE client.got + j
  <2>1. /\ phase = "copy" /\ received' = received + k /\ j \in 0..(k - 1)
        /\ client' = [client EXCEPT !.got = @ + j]
        /\ Finish(sample', written)
        /\ UNCHANGED <<route, sent, bytesRead, upload, response>>
    BY <1>9 DEF ClientGone, requestVars, uploadVars
  <2>2. client' = [status |-> client'.status, got |-> client'.got]
        /\ client'.got = client.got + j /\ client'.status = client.status
    BY <2>1
  <2>3. k \in Nat /\ j \in Nat /\ j < k
    BY <2>1, SizeAssumption
  <2> HIDE DEF written
  <2>4. /\ phase' = "done"
        /\ route = "transparent" => row' = row
        /\ route # "transparent" =>
             /\ row'.status = client.status /\ row'.responseBytes = written
             /\ upload = "sent" => row'.requestBytes = bytesRead
    BY <2>1, FinishRow
  <2>5. RowInv'
    BY <2>1, <2>2, <2>3, <2>4
  <2>6. received' # client'.got
    BY <2>1, <2>2, <2>3
  <2>7. ~response.stream => written = client'.got
    BY <2>2 DEF written
  <2>8. RowIsTrue'
    BY <2>1, <2>2, <2>4, <2>6, <2>7 DEF RowIsTrue
  <2> QED BY <2>5, <2>8
<1>10. CASE ResponseEnds
  <2>1. /\ phase = "copy" /\ Finish(sample, client.got)
        /\ UNCHANGED <<route, sent, bytesRead, upload, response, received, client>>
    BY <1>10 DEF ResponseEnds, requestVars, uploadVars
  <2>2. /\ phase' = "done"
        /\ route = "transparent" => row' = row
        /\ route # "transparent" =>
             /\ row'.status = client.status /\ row'.responseBytes = client.got
             /\ upload = "sent" => row'.requestBytes = bytesRead
    BY <2>1, FinishRow
  <2> QED BY <2>1, <2>2 DEF RowIsTrue
<1>11. CASE UNCHANGED vars
  BY <1>11 DEF vars, requestVars, uploadVars, RowIsTrue
<1> QED
  BY <1>2, <1>3, <1>4, <1>5, <1>6, <1>7, <1>8, <1>9, <1>10, <1>11 DEF Next

\* The row has the status and the sizes of what happened, whichever step was the
\* last (handleNonStream, handleStream, forwardRequestOnly, writeError).
THEOREM RowsAreTrue == Spec => []RowIsTrue
<1>1. Init => ReplayInv /\ RowInv /\ RowIsTrue
  BY ReplayInit, RowInit
<1>2. ReplayInv /\ RowInv /\ RowIsTrue /\ [Next]_vars => (ReplayInv /\ RowInv /\ RowIsTrue)'
  BY ReplayStep, RowStep
<1> QED BY <1>1, <1>2, PTL DEF Spec

-----------------------------------------------------------------------------
(* The model's name *)

\* What scanner and probe know of the model, once both are done.
NameSeen == Model(PrefixTailBytes(probe, MaxBytes)) \/ Model(prefix)

\* The probe of a metered request holds what was sent, and the row what the two
\* know.
ProbeInv ==
  /\ body.modelAt \in Nat /\ body.modelAt <= body.size
  /\ Metered => Holds(probe, Len(sent), Half(MaxBytes))
  /\ phase = "done" /\ Metered /\ upload = "sent" => (row.model <=> NameSeen)

\* A handler begins with an empty probe.
LEMMA ProbeInit == Init => ProbeInv
<1> SUFFICES ASSUME Init PROVE ProbeInv
  OBVIOUS
<1>1. /\ body.modelAt \in Nat /\ body.modelAt <= body.size
      /\ sent = <<>> /\ probe = EmptyPrefixTail /\ phase # "done"
  BY SizeAssumption DEF Init
<1>2. Half(MaxBytes) \in Nat /\ Half(MaxBytes) > 0 /\ Len(sent) = 0
  <2>1. MaxBytes \in Nat \ {0}
    BY SizeAssumption
  <2> QED BY <1>1, <2>1, HalfPositive
<1>3. Holds(probe, Len(sent), Half(MaxBytes))
  BY <1>1, <1>2, HoldsNothing
<1> QED BY <1>1, <1>3 DEF ProbeInv

\* The probe is written what the upload reads, and nothing after it.
LEMMA ProbeStep ==
  ReplayInv /\ RowInv /\ ProbeInv /\ [Next]_vars => ProbeInv'
<1> SUFFICES ASSUME ReplayInv, RowInv, ProbeInv, [Next]_vars PROVE ProbeInv'
  OBVIOUS
<1>1. ASSUME phase' # "done", UNCHANGED <<route, body, sent, probe>> PROVE ProbeInv'
  BY <1>1 DEF ProbeInv, Metered
<1>2. ASSUME UNCHANGED <<route, body, prefix, sent, upload, probe>>,
             phase' = "done",
             route # "transparent" /\ upload = "sent" => (row'.model <=> NameSeen)
      PROVE  ProbeInv'
  BY <1>2 DEF ProbeInv, Metered, NameSeen, Model
<1>3. CASE ReadPrefix
  BY <1>1, <1>3 DEF ReadPrefix, requestVars
<1>4. CASE Scan
  <2>1. phase' # "done"
    BY <1>4 DEF Scan
  <2> QED BY <1>1, <1>4, <2>1 DEF Scan, requestVars
<1>5. ASSUME NEW k \in 1..MaxBody, Upload(k) PROVE ProbeInv'
  <2>1. /\ k \in Nat /\ k > 0 /\ Len(sent) \in Nat /\ Len(sent') = Len(sent) + k
        /\ Metered => probe' = PrefixTailWrite(probe, Fields(Len(sent), Len(sent) + k), MaxBytes)
    BY <1>5, UploadPart
  <2>2. phase' # "done" /\ UNCHANGED <<route, body>>
    BY <1>5 DEF Upload, Sending, requestVars
  <2>3. MaxBytes \in Nat \ {0}
    BY SizeAssumption
  <2>4. Metered => Holds(probe', Len(sent'), Half(MaxBytes))
    <3> SUFFICES ASSUME Metered PROVE Holds(probe', Len(sent'), Half(MaxBytes))
      OBVIOUS
    <3>1. Holds(probe, Len(sent), Half(MaxBytes))
      BY DEF ProbeInv
    <3>2. Holds(PrefixTailWrite(probe, Fields(Len(sent), Len(sent) + k), MaxBytes),
                Len(sent) + k, Half(MaxBytes))
      BY <2>1, <2>3, <3>1, HoldsMore
    <3> QED BY <2>1, <3>2
  <2> QED BY <2>2, <2>4 DEF ProbeInv, Metered
<1>6. CASE UploadEnds
  BY <1>1, <1>6 DEF UploadEnds, Sending, requestVars
<1>7. ASSUME NEW timeout \in BOOLEAN, RoundTripFails(timeout) PROVE ProbeInv'
  BY <1>1, <1>7 DEF RoundTripFails, requestVars, uploadVars
<1>8. ASSUME NEW resp \in Responses, NEW status \in {200, 400}, RoundTrip(resp, status)
      PROVE  ProbeInv'
  BY <1>1, <1>8 DEF RoundTrip, requestVars, uploadVars
<1>9. ASSUME NEW k \in 1..MaxResponse, Copy(k) PROVE ProbeInv'
  BY <1>1, <1>9 DEF Copy, requestVars, uploadVars
<1>10. ASSUME NEW s, NEW written, Finish(s, written),
              UNCHANGED <<requestVars, prefix, uploadVars>>
       PROVE  ProbeInv'
  <2>1. route \in {"transparent", "request_only", "metered"}
    BY DEF RowInv
  <2>2. /\ phase' = "done"
        /\ route # "transparent" /\ upload = "sent" => (row'.model <=> NameSeen)
    BY <1>10, <2>1, FinishRow DEF NameSeen
  <2> QED BY <1>2, <1>10, <2>2 DEF requestVars, uploadVars
<1>11. ASSUME NEW k \in 1..MaxResponse, NEW j \in 0..MaxResponse, ClientGone(k, j)
       PROVE  ProbeInv'
  BY <1>10, <1>11 DEF ClientGone
<1>12. CASE ResponseEnds
  BY <1>10, <1>12 DEF ResponseEnds
<1>13. CASE UNCHANGED vars
  BY <1>13 DEF vars, requestVars, uploadVars, ProbeInv, Metered, NameSeen, Model
<1> QED
  BY <1>3, <1>4, <1>5, <1>6, <1>7, <1>8, <1>9, <1>11, <1>12, <1>13 DEF Next

\* With an even limit the row of a request that was sent and answered names the
\* model exactly if the name lies where the scan or the probe looks, however the
\* reads cut the body (requestBodyProbe, prefixTailBuffer).
THEOREM ModelsAreFound ==
  ASSUME MaxBytes % 2 = 0
  PROVE  Spec => []ModelIsFound
<1>1. ASSUME ReplayInv, ProbeInv PROVE ModelIsFound
  <2> SUFFICES ASSUME phase = "done", Metered, upload = "sent"
      PROVE row.model <=>
              /\ body.modelAt # 0
              /\ \/ body.modelAt <= Len(prefix)
                 \/ body.size <= MaxBytes
                 \/ body.modelAt <= Half(MaxBytes)
                 \/ body.modelAt > body.size - Half(MaxBytes)
    BY DEF ModelIsFound
  <2>1. /\ Len(sent) = body.size /\ Len(sent) \in Nat
        /\ Len(prefix) \in Nat /\ prefix = Fields(0, Len(prefix))
    BY <1>1 DEF ReplayInv
  <2>2. /\ body.modelAt \in Nat /\ body.modelAt <= body.size
        /\ Holds(probe, Len(sent), Half(MaxBytes)) /\ (row.model <=> NameSeen)
    BY <1>1 DEF ProbeInv
  <2>3. MaxBytes \in Nat \ {0} /\ 0 \in Nat /\ 0 <= Len(prefix)
    BY <2>1, SizeAssumption
  <2>4. Model(PrefixTailBytes(probe, MaxBytes)) <=>
          /\ body.modelAt # 0 /\ body.modelAt <= body.size
          /\ \/ body.size <= MaxBytes
             \/ body.modelAt <= Half(MaxBytes)
             \/ body.modelAt > body.size - Half(MaxBytes)
    BY <2>1, <2>2, <2>3, ModelInWindow
  <2>5. Model(prefix) <=> body.modelAt # 0 /\ 0 < body.modelAt /\ body.modelAt <= Len(prefix)
    BY <2>1, <2>2, <2>3, ModelInFields
  <2>6. body.modelAt # 0 => 0 < body.modelAt
    BY <2>2
  <2> QED BY <2>2, <2>4, <2>5, <2>6 DEF NameSeen
<1>2. Init => ReplayInv /\ RowInv /\ RowIsTrue /\ ProbeInv
  BY ReplayInit, RowInit, ProbeInit
<1>3. ReplayInv /\ RowInv /\ RowIsTrue /\ ProbeInv /\ [Next]_vars
        => (ReplayInv /\ RowInv /\ RowIsTrue /\ ProbeInv)'
  BY ReplayStep, RowStep, ProbeStep
<1> QED BY <1>1, <1>2, <1>3, PTL DEF Spec

-----------------------------------------------------------------------------
(* What is read out of the sample *)

\* The side buffer of a response of which n bytes were read.
Sampled(s, n) ==
  IF tailProfile THEN Holds(s.pt, n, Half(MaxSample))
  ELSE /\ s.limited = [buf |-> Fields(0, Smaller(MaxSample, n)), overflow |-> s.limited.overflow]
       /\ s.limited.overflow \in BOOLEAN
       /\ s.limited.overflow <=> n > MaxSample

\* limitedBuffer.Write of the next k bytes.
LEMMA LimitedMore ==
  ASSUME NEW max \in Nat \ {0}, NEW n \in Nat, NEW k \in Nat, k > 0, NEW b,
         b = [buf |-> Fields(0, Smaller(max, n)), overflow |-> b.overflow],
         b.overflow \in BOOLEAN, b.overflow <=> n > max
  PROVE  LET c == LimitedWrite(b, Fields(n, n + k), max)
         IN  /\ c = [buf |-> Fields(0, Smaller(max, n + k)), overflow |-> c.overflow]
             /\ c.overflow \in BOOLEAN
             /\ c.overflow <=> n + k > max
<1> DEFINE m == n + k
           p == Fields(n, m)
           need == max - Len(b.buf)
           c == LimitedWrite(b, p, max)
<1>1. m \in Nat /\ n <= m /\ m - n = k /\ m > n /\ max \in Nat /\ max > 0
  OBVIOUS
<1> HIDE DEF m, p, need, c
<1>2. Len(p) = k
  BY <1>1, FieldsSequence DEF p
<1>3. b.buf = Fields(0, Smaller(max, n))
  OBVIOUS
<1>4. c = IF b.overflow THEN b
          ELSE IF Len(p) > need THEN [buf |-> b.buf \o SubSeq(p, 1, need), overflow |-> TRUE]
          ELSE [b EXCEPT !.buf = @ \o p]
  BY DEF LimitedWrite, c, need
<1>5. CASE n > max
  <2>1. c = b /\ Smaller(max, n) = max /\ Smaller(max, m) = max /\ m > max
    BY <1>1, <1>4, <1>5 DEF Smaller
  <2> QED BY <1>5, <2>1 DEF c, p, m
<1>6. CASE n <= max
  <2>1. ~b.overflow /\ b.buf = Fields(0, n) /\ Len(b.buf) = n
    <3>1. Smaller(max, n) = n /\ 0 \in Nat /\ 0 <= n /\ n - 0 = n /\ ~(n > max)
      BY <1>1, <1>6 DEF Smaller
    <3>2. Len(Fields(0, n)) = n - 0
      BY <3>1, FieldsSequence
    <3> QED BY <1>3, <3>1, <3>2
  <2>2. need = max - n /\ need \in Nat
    BY <1>1, <1>6, <2>1 DEF need
  <2>3. CASE k > need
    <3>1. SubSeq(p, 1, need) = Fields(n, max)
      <4>1. n \in Nat /\ m \in Nat /\ max \in Nat /\ n <= n /\ n <= max /\ max <= m
        BY <1>1, <1>6, <2>2, <2>3
      <4>2. SubSeq(Fields(n, m), n - n + 1, max - n) = Fields(n, max)
        BY ONLY <4>1, FieldsPart
      <4>3. n - n + 1 = 1
        OBVIOUS
      <4> QED BY <2>2, <4>2, <4>3 DEF p
    <3>2. Fields(0, n) \o Fields(n, max) = Fields(0, max)
      BY <1>1, <1>6, BodyJoin
    <3>3. c = [buf |-> Fields(0, max), overflow |-> TRUE]
      BY <1>2, <1>4, <2>1, <2>3, <3>1, <3>2
    <3>4. Smaller(max, m) = max /\ m > max
      BY <1>1, <2>2, <2>3 DEF Smaller
    <3>5. c = [buf |-> Fields(0, Smaller(max, m)), overflow |-> c.overflow] /\ c.overflow = TRUE
      BY <3>3, <3>4
    <3> QED BY <3>4, <3>5 DEF c, p, m
  <2>4. CASE k <= need
    <3>1. Fields(0, n) \o p = Fields(0, m)
      BY <1>1, BodyJoin DEF p
    <3>2. ~(Len(p) > need)
      BY <1>2, <2>2, <2>4
    <3>3. c = [buf |-> Fields(0, m), overflow |-> b.overflow]
      BY <1>4, <2>1, <3>1, <3>2
    <3>4. Smaller(max, m) = m /\ ~(m > max)
      BY <1>1, <2>2, <2>4 DEF Smaller
    <3>5. /\ c = [buf |-> Fields(0, Smaller(max, m)), overflow |-> c.overflow]
          /\ c.overflow = b.overflow
      BY <3>3, <3>4
    <3> QED BY <2>1, <3>4, <3>5 DEF c, p, m
  <2> QED BY <1>1, <2>2, <2>3, <2>4
<1> QED BY <1>1, <1>5, <1>6

\* The two ends of a response hold the field and its value unless they, or the
\* line between them, lie in the gap.
LEMMA UsageInEnds ==
  ASSUME NEW h \in Nat, h > 0, NEW n \in Nat, n > 2 * h, NEW at \in Nat, at # 0, at < n
  PROVE  LET u == Fields(0, h) \o <<Gap>> \o Fields(n - h, n)
         IN  (\E i \in DOMAIN u : /\ u[i] = at /\ u[i] # Gap
                                  /\ i < Len(u) /\ u[i + 1] = at + 1)
               <=> at < h \/ at > n - h
<1> DEFINE u == Fields(0, h) \o <<Gap>> \o Fields(n - h, n)
<1>1. /\ u \in Seq(Nat) /\ Len(u) = 2 * h + 1 /\ DOMAIN u = 1..(2 * h + 1)
      /\ \A i \in 1..h : u[i] = i
      /\ u[h + 1] = 0
      /\ \A i \in 1..h : u[h + 1 + i] = n - h + i
  BY EndsOfFields
<1> HIDE DEF u
<1>2. ASSUME NEW i \in DOMAIN u, u[i] = at, i < Len(u), u[i + 1] = at + 1
      PROVE  at < h \/ at > n - h
  <2>1. CASE i <= h
    <3>1. at = i /\ i # h
      BY <1>1, <1>2, <2>1
    <3> QED BY <1>1, <2>1, <3>1
  <2>2. CASE i = h + 1
    BY <1>1, <1>2, <2>2
  <2>3. CASE i > h + 1
    <3>1. i - (h + 1) \in 1..h /\ h + 1 + (i - (h + 1)) = i
      BY <1>1, <2>3
    <3>2. at = n - h + (i - (h + 1))
      BY <1>1, <1>2, <3>1
    <3> QED BY <3>1, <3>2
  <2> QED BY <1>1, <2>1, <2>2, <2>3
<1>3. ASSUME at < h
      PROVE  \E i \in DOMAIN u : u[i] = at /\ u[i] # Gap /\ i < Len(u) /\ u[i + 1] = at + 1
  <2>1. at \in 1..h /\ at + 1 \in 1..h /\ at \in DOMAIN u /\ at < Len(u)
    BY <1>1, <1>3
  <2>2. u[at] = at /\ u[at + 1] = at + 1
    BY <1>1, <2>1
  <2> QED BY <2>1, <2>2 DEF Gap
<1>4. ASSUME at > n - h
      PROVE  \E i \in DOMAIN u : u[i] = at /\ u[i] # Gap /\ i < Len(u) /\ u[i + 1] = at + 1
  <2> DEFINE j == at - (n - h)
  <2>1. j \in 1..h /\ j + 1 \in 1..h /\ n - h + j = at /\ n - h + (j + 1) = at + 1
    BY <1>4
  <2>2. h + 1 + j \in DOMAIN u /\ h + 1 + j < Len(u) /\ h + 1 + (j + 1) = (h + 1 + j) + 1
    BY <1>1, <2>1
  <2> HIDE DEF j
  <2>3. u[h + 1 + j] = at /\ u[(h + 1 + j) + 1] = at + 1
    BY <1>1, <2>1, <2>2
  <2> QED BY <2>2, <2>3 DEF Gap
<1> QED BY <1>2, <1>3, <1>4 DEF u
\* A response that came whole is extracted from what the sample holds of it, and
\* a sample that holds less is marked as too small.
LEMMA WholeResponse ==
  ASSUME MaxSample % 2 = 0, NEW s, Sampled(s, response.size),
         response.size \in Nat, response.usageAt \in Nat,
         response.usageAt = 0 \/ response.usageAt < response.size
  PROVE  LET has == response.usageAt # 0
             seen == InWindow(response.usageAt, response.size)
         IN  /\ has /\ seen => Extracted(s) = "usage"
             /\ ~has /\ response.size <= MaxSample => Extracted(s) = "none"
             /\ ~(has /\ seen) /\ ~(~has /\ response.size <= MaxSample)
                  => Extracted(s) = "error" /\ Overflow(s)
<1> DEFINE n == response.size  at == response.usageAt  h == Half(MaxSample)
           bytes == SampleBytes(s)
           found == \E i \in DOMAIN bytes : /\ bytes[i] = at /\ bytes[i] # Gap
                                            /\ i < Len(bytes) /\ bytes[i + 1] = at + 1
<1>1. /\ n \in Nat /\ at \in Nat /\ (at = 0 \/ at < n) /\ MaxSample \in Nat \ {0}
      /\ h \in Nat /\ h > 0 /\ MaxSample = 2 * h
  BY SizeAssumption, HalfOfEven
<1> HIDE DEF h, bytes
<1>2. Extracted(s) = IF bytes = <<>> THEN "none"
                     ELSE IF bytes = Fields(0, n) THEN IF at # 0 THEN "usage" ELSE "none"
                     ELSE IF tailProfile /\ found THEN "usage" ELSE "error"
  BY DEF Extracted, Extract, bytes
<1>3. InWindow(at, n) <=> n <= MaxSample \/ (tailProfile /\ (at < h \/ at > n - h))
  BY DEF InWindow, h
<1>4. /\ Fields(0, n) \in Seq(Nat) /\ Len(Fields(0, n)) = n
      /\ \A i \in 1..n : Fields(0, n)[i] = i
  <2>1. 0 \in Nat /\ 0 <= n /\ n - 0 = n /\ \A i \in 1..n : 0 + i = i
    BY <1>1
  <2>2. /\ Fields(0, n) \in Seq(Nat) /\ Len(Fields(0, n)) = n - 0
        /\ \A i \in 1..(n - 0) : Fields(0, n)[i] = 0 + i
    BY <1>1, <2>1, FieldsSequence
  <2> QED BY <2>1, <2>2
<1>5. tailProfile => bytes = IF n <= MaxSample THEN Fields(0, n)
                             ELSE Fields(0, h) \o <<Gap>> \o Fields(n - h, n)
  <2> SUFFICES ASSUME tailProfile
               PROVE  bytes = IF n <= MaxSample THEN Fields(0, n)
                              ELSE Fields(0, h) \o <<Gap>> \o Fields(n - h, n)
    OBVIOUS
  <2>1. Holds(s.pt, n, Half(MaxSample))
    BY DEF Sampled
  <2>2. bytes = Window(n, MaxSample)
    BY <1>1, <2>1, BytesAreWindow DEF bytes, SampleBytes
  <2>3. Window(n, MaxSample) =
          IF n <= MaxSample /\ n <= 2 * h THEN Fields(0, n)
          ELSE Fields(0, h) \o <<Gap>> \o Fields(IF n - h > h THEN n - h ELSE h, n)
    BY DEF Window, h
  <2>4. CASE n <= MaxSample
    BY <1>1, <2>2, <2>3, <2>4
  <2>5. CASE ~(n <= MaxSample)
    <3>1. (IF n - h > h THEN n - h ELSE h) = n - h
      BY <1>1, <2>5
    <3> QED BY <2>2, <2>3, <2>5, <3>1
  <2> QED BY <2>4, <2>5
<1>6. ~tailProfile => /\ bytes = Fields(0, Smaller(MaxSample, n))
                      /\ s.limited.overflow <=> n > MaxSample
  BY DEF Sampled, SampleBytes, bytes
<1>7. CASE n <= MaxSample
  <2>1. bytes = Fields(0, n)
    <3>1. Smaller(MaxSample, n) = n
      BY <1>1, <1>7 DEF Smaller
    <3> QED BY <1>5, <1>6, <1>7, <3>1
  <2>2. bytes = <<>> => at = 0
    BY <1>1, <1>4, <2>1
  <2> HIDE DEF found
  <2> QED BY <1>2, <1>3, <1>7, <2>1, <2>2
<1>8. CASE n > MaxSample
  <2>0. ~(n <= MaxSample) /\ n > 2 * h
    BY <1>1, <1>8
  <2>1. CASE ~tailProfile
    <3>1. bytes = Fields(0, MaxSample) /\ Overflow(s)
      <4>1. Smaller(MaxSample, n) = MaxSample
        BY <1>1, <1>8 DEF Smaller
      <4> QED BY <1>6, <1>8, <2>1, <4>1 DEF Overflow
    <3>2. Len(bytes) = MaxSample
      <4>1. 0 \in Nat /\ MaxSample \in Nat /\ 0 <= MaxSample /\ MaxSample - 0 = MaxSample
        BY <1>1
      <4>2. Len(Fields(0, MaxSample)) = MaxSample - 0
        BY ONLY <4>1, FieldsSequence
      <4> QED BY <3>1, <4>1, <4>2
    <3>3. bytes # <<>> /\ bytes # Fields(0, n)
      BY <1>1, <1>4, <1>8, <3>2
    <3> HIDE DEF found
    <3> QED BY <1>2, <1>3, <2>0, <2>1, <3>1, <3>3
  <2>2. CASE tailProfile
    <3>1. bytes = Fields(0, h) \o <<Gap>> \o Fields(n - h, n)
      BY <1>5, <2>0, <2>2
    <3>2. Overflow(s)
      BY <2>0, <2>2, <1>8 DEF Overflow, Sampled, Holds
    <3>3. bytes # <<>> /\ bytes # Fields(0, n)
      <4>1. bytes \in Seq(Nat) /\ Len(bytes) = 2 * h + 1 /\ bytes[h + 1] = 0
        BY <1>1, <2>0, <3>1, EndsOfFields
      <4>2. h + 1 \in 1..n /\ h + 1 # 0 /\ 2 * h + 1 # 0
        BY <1>1, <2>0
      <4>3. Fields(0, n)[h + 1] = h + 1
        BY <1>4, <4>2
      <4> QED BY <4>1, <4>2, <4>3
    <3>4. at # 0 => (found <=> at < h \/ at > n - h)
      <4> SUFFICES ASSUME at # 0 PROVE found <=> at < h \/ at > n - h
        OBVIOUS
      <4> DEFINE u == Fields(0, h) \o <<Gap>> \o Fields(n - h, n)
      <4>1. h \in Nat /\ h > 0 /\ n \in Nat /\ n > 2 * h /\ at \in Nat /\ at # 0 /\ at < n
        BY <1>1, <2>0
      <4> HIDE DEF n, at
      <4>2. (\E i \in DOMAIN u : /\ u[i] = at /\ u[i] # Gap
                                 /\ i < Len(u) /\ u[i + 1] = at + 1)
              <=> at < h \/ at > n - h
        BY ONLY <4>1, UsageInEnds
      <4> HIDE DEF u
      <4>3. bytes = u
        BY <3>1 DEF u
      <4> QED BY <4>2, <4>3
    <3>5. at = 0 => ~found
      BY DEF Gap
    <3> HIDE DEF found
    <3> QED BY <1>2, <1>3, <2>0, <2>2, <3>2, <3>3, <3>4, <3>5
  <2> QED BY <2>1, <2>2
<1> QED BY <1>1, <1>7, <1>8

\* The sample holds what was read of the response, and the row files what could
\* be extracted from it.
SampleInv ==
  /\ sample = [limited |-> sample.limited, pt |-> sample.pt]
  /\ phase \in {"copy", "done"} =>
       /\ response.size \in Nat /\ response.usageAt \in Nat
       /\ response.usageAt = 0 \/ response.usageAt < response.size
  /\ Metered /\ ~response.stream => Sampled(sample, received)
  /\ phase = "done" /\ Metered /\ ~response.stream =>
       /\ Extracted(sample) = "usage" => row.outcome = "captured"
       /\ Extracted(sample) = "none" => row.reason = "usage_not_present"
       /\ Extracted(sample) = "error" /\ Overflow(sample) =>
            row.outcome = "skipped" /\ row.reason = "sample_limit_exceeded"

\* Before anything is read the sample is empty.
LEMMA SampledNothing == Init => Sampled(sample, 0)
<1> SUFFICES ASSUME Init PROVE Sampled(sample, 0)
  OBVIOUS
<1>1. sample = [limited |-> EmptyLimited, pt |-> EmptyPrefixTail]
  BY DEF Init
<1>2. MaxSample \in Nat /\ MaxSample > 0 /\ Half(MaxSample) \in Nat /\ Half(MaxSample) > 0
  BY SizeAssumption, HalfPositive
<1>3. Holds(sample.pt, 0, Half(MaxSample))
  BY <1>1, <1>2, HoldsNothing
<1>4. sample.limited = [buf |-> Fields(0, 0), overflow |-> FALSE]
  BY <1>1, FieldsEmpty DEF EmptyLimited
<1>5. Smaller(MaxSample, 0) = 0 /\ ~(0 > MaxSample)
  BY <1>2 DEF Smaller
<1>6. /\ sample.limited = [buf |-> Fields(0, Smaller(MaxSample, 0)),
                           overflow |-> sample.limited.overflow]
      /\ sample.limited.overflow = FALSE
  <2>1. sample.limited.overflow = FALSE
    BY <1>4
  <2>2. Fields(0, Smaller(MaxSample, 0)) = Fields(0, 0)
    BY <1>5
  <2> QED BY <1>4, <2>1, <2>2
<1> QED BY <1>3, <1>5, <1>6 DEF Sampled

\* A handler begins with an empty sample.
LEMMA SampleInit == Init => SampleInv
<1> SUFFICES ASSUME Init PROVE SampleInv
  OBVIOUS
<1>1. /\ sample = [limited |-> EmptyLimited, pt |-> EmptyPrefixTail]
      /\ received = 0 /\ phase \in {"prefix", "roundtrip"}
  BY DEF Init
<1> QED BY <1>1, SampledNothing DEF SampleInv

\* io.TeeReader: what is read next goes into the sample.
LEMMA SampleMore ==
  ASSUME SampleInv, Metered, ~response.stream, received \in Nat, NEW k \in Nat, k > 0
  PROVE  Sampled(SampleWrite(Fields(received, received + k)), received + k)
<1> DEFINE p == Fields(received, received + k)  t == SampleWrite(p)
<1>1. sample = [limited |-> sample.limited, pt |-> sample.pt] /\ Sampled(sample, received)
  BY DEF SampleInv
<1>2. MaxSample \in Nat \ {0}
  BY SizeAssumption
<1> HIDE DEF p
<1>3. CASE tailProfile
  <2>1. t.pt = PrefixTailWrite(sample.pt, p, MaxSample)
    BY <1>1, <1>3 DEF SampleWrite
  <2>2. Holds(sample.pt, received, Half(MaxSample))
    BY <1>1, <1>3 DEF Sampled
  <2>3. Holds(PrefixTailWrite(sample.pt, p, MaxSample), received + k, Half(MaxSample))
    BY <1>2, <2>2, HoldsMore DEF p
  <2> HIDE DEF t
  <2>4. Sampled(t, received + k)
    BY <1>3, <2>1, <2>3 DEF Sampled
  <2> QED BY <2>4 DEF t, p
<1>4. CASE ~tailProfile
  <2>1. t.limited = LimitedWrite(sample.limited, p, MaxSample)
    BY <1>1, <1>4 DEF SampleWrite
  <2>2. /\ sample.limited = [buf |-> Fields(0, Smaller(MaxSample, received)),
                             overflow |-> sample.limited.overflow]
        /\ sample.limited.overflow \in BOOLEAN
        /\ sample.limited.overflow <=> received > MaxSample
    BY <1>1, <1>4 DEF Sampled
  <2>3. LET c == LimitedWrite(sample.limited, p, MaxSample)
        IN  /\ c = [buf |-> Fields(0, Smaller(MaxSample, received + k)), overflow |-> c.overflow]
            /\ c.overflow \in BOOLEAN
            /\ c.overflow <=> received + k > MaxSample
    BY <1>2, <2>2, LimitedMore DEF p
  <2> HIDE DEF t
  <2>4. Sampled(t, received + k)
    BY <1>4, <2>1, <2>3 DEF Sampled
  <2> QED BY <2>4 DEF t, p
<1> QED BY <1>3, <1>4

\* The sample is written what is copied, and decides the row at the end.
LEMMA SampleStep ==
  RowInv /\ SampleInv /\ [Next]_vars => SampleInv'
<1> SUFFICES ASSUME RowInv, SampleInv, [Next]_vars PROVE SampleInv'
  OBVIOUS
<1>1. ASSUME phase' # "done", phase' = "copy" => phase = "copy",
             UNCHANGED <<route, tailProfile, response, received, sample>>
      PROVE  SampleInv'
  BY <1>1 DEF SampleInv, Metered, Sampled
<1>2. CASE ReadPrefix
  BY <1>1, <1>2 DEF ReadPrefix, requestVars
<1>3. CASE Scan
  <2>1. phase' \in {"scan", "roundtrip"}
    BY <1>3 DEF Scan
  <2> QED BY <1>1, <1>3, <2>1 DEF Scan, requestVars
<1>4. ASSUME NEW k \in 1..MaxBody, Upload(k) PROVE SampleInv'
  BY <1>1, <1>4 DEF Upload, Sending, requestVars
<1>5. CASE UploadEnds
  BY <1>1, <1>5 DEF UploadEnds, Sending, requestVars
<1>6. ASSUME NEW timeout \in BOOLEAN, RoundTripFails(timeout) PROVE SampleInv'
  BY <1>1, <1>6 DEF RoundTripFails, requestVars, uploadVars
<1>7. ASSUME NEW resp \in Responses, NEW status \in {200, 400}, RoundTrip(resp, status)
      PROVE  SampleInv'
  <2>1. /\ phase = "roundtrip" /\ phase' = "copy" /\ response' = resp
        /\ resp.usageAt = 0 \/ resp.usageAt < resp.size
        /\ UNCHANGED <<route, tailProfile, received, sample>>
    BY <1>7 DEF RoundTrip, requestVars, uploadVars
  <2>2. resp.size \in Nat /\ resp.usageAt \in Nat
    BY SizeAssumption DEF Responses
  <2>3. response.stream = FALSE
    BY <2>1 DEF RowInv, NoResponse
  <2> QED BY <2>1, <2>2, <2>3 DEF SampleInv, Metered, Sampled
<1>8. ASSUME NEW k \in 1..MaxResponse, phase = "copy", received' = received + k,
             sample' = SampleWrite(Fields(received, received + k)),
             UNCHANGED <<requestVars, response>>
      PROVE  /\ sample' = [limited |-> sample'.limited, pt |-> sample'.pt]
             /\ response'.size \in Nat /\ response'.usageAt \in Nat
             /\ response'.usageAt = 0 \/ response'.usageAt < response'.size
             /\ Metered' = Metered
             /\ Metered /\ ~response.stream => Sampled(sample, received)'
  <2>1. k \in Nat /\ k > 0 /\ received \in Nat
    BY SizeAssumption DEF RowInv
  <2>2. sample' = [limited |-> sample'.limited, pt |-> sample'.pt]
    <3> DEFINE p == Fields(received, received + k)
    <3> HIDE DEF p
    <3>1. \/ sample' = sample
          \/ sample' = [sample EXCEPT !.pt = PrefixTailWrite(@, p, MaxSample)]
          \/ sample' = [sample EXCEPT !.limited = LimitedWrite(@, p, MaxSample)]
      BY <1>8 DEF SampleWrite, p
    <3> QED BY <3>1 DEF SampleInv
  <2>3. Metered /\ ~response.stream => Sampled(sample, received)'
    <3> SUFFICES ASSUME Metered, ~response.stream PROVE Sampled(sample, received)'
      OBVIOUS
    <3>1. Sampled(SampleWrite(Fields(received, received + k)), received + k)
      BY <2>1, SampleMore
    <3> QED BY <1>8, <3>1 DEF Sampled, requestVars
  <2> QED BY <1>8, <2>2, <2>3 DEF SampleInv, Metered, requestVars
<1>9. ASSUME NEW k \in 1..MaxResponse, Copy(k) PROVE SampleInv'
  <2>1. phase' = "copy"
    BY <1>9 DEF Copy
  <2> QED BY <1>8, <1>9, <2>1 DEF Copy, SampleInv
<1>10. ASSUME NEW written, Finish(sample', written),
              UNCHANGED <<requestVars, response>>,
              sample' = [limited |-> sample'.limited, pt |-> sample'.pt],
              response.size \in Nat /\ response.usageAt \in Nat,
              response.usageAt = 0 \/ response.usageAt < response.size,
              Metered /\ ~response.stream => Sampled(sample, received)'
       PROVE  SampleInv'
  <2>1. route \in {"transparent", "request_only", "metered"}
    BY DEF RowInv
  <2>2. /\ phase' = "done"
        /\ Metered /\ ~response.stream =>
             /\ Extracted(sample') = "usage" => row'.outcome = "captured"
             /\ Extracted(sample') = "none" => row'.reason = "usage_not_present"
             /\ Extracted(sample') = "error" /\ Overflow(sample') =>
                  row'.outcome = "skipped" /\ row'.reason = "sample_limit_exceeded"
    BY <1>10, <2>1, FinishRow
  <2>3. Extracted(sample)' = Extracted(sample') /\ (Overflow(sample)' <=> Overflow(sample'))
    BY <1>10 DEF Extracted, Extract, SampleBytes, Overflow, requestVars
  <2>4. Metered' = Metered /\ response' = response
    BY <1>10 DEF Metered, requestVars
  <2> HIDE DEF Extracted, Overflow
  <2> QED BY <1>10, <2>2, <2>3, <2>4 DEF SampleInv
<1>11. ASSUME NEW k \in 1..MaxResponse, NEW j \in 0..MaxResponse, ClientGone(k, j)
       PROVE  SampleInv'
  <2>1. /\ phase = "copy" /\ received' = received + k
        /\ sample' = SampleWrite(Fields(received, received + k))
        /\ UNCHANGED <<requestVars, response>>
        /\ Finish(sample', IF Metered /\ response.stream THEN client.got + k ELSE client.got + j)
    BY <1>11 DEF ClientGone
  <2>2. /\ sample' = [limited |-> sample'.limited, pt |-> sample'.pt]
        /\ response.size \in Nat /\ response.usageAt \in Nat
        /\ response.usageAt = 0 \/ response.usageAt < response.size
        /\ Metered /\ ~response.stream => Sampled(sample, received)'
    BY <1>8, <2>1
  <2> QED BY <1>10, <2>1, <2>2
<1>12. CASE ResponseEnds
  <2>1. /\ phase = "copy" /\ UNCHANGED <<requestVars, response, received, sample>>
        /\ Finish(sample, client.got)
    BY <1>12 DEF ResponseEnds
  <2>2. Finish(sample', client.got)
    BY <2>1
  <2>3. /\ sample' = [limited |-> sample'.limited, pt |-> sample'.pt]
        /\ response.size \in Nat /\ response.usageAt \in Nat
        /\ response.usageAt = 0 \/ response.usageAt < response.size
        /\ Metered /\ ~response.stream => Sampled(sample, received)'
    BY <2>1 DEF SampleInv, Sampled, requestVars
  <2> QED BY <1>10, <2>1, <2>2, <2>3
<1>13. CASE UNCHANGED vars
  BY <1>13 DEF vars, requestVars, SampleInv, Metered, Sampled, Extracted, Extract,
               SampleBytes, Overflow
<1> QED
  BY <1>2, <1>3, <1>4, <1>5, <1>6, <1>7, <1>9, <1>11, <1>12, <1>13 DEF Next

\* With an even limit, a response that came whole is captured exactly if the
\* sample holds its usage, and is never filed as broken (the end of
\* handleNonStream).
THEOREM OutcomesAreRight ==
  ASSUME MaxSample % 2 = 0
  PROVE  Spec => []OutcomeIsRight
<1>1. ASSUME SampleInv PROVE OutcomeIsRight
  <2> DEFINE has == response.usageAt # 0
             seen == InWindow(response.usageAt, response.size)
  <2> SUFFICES ASSUME phase = "done", Metered, ~response.stream, received = response.size
      PROVE CASE has /\ seen -> row.outcome = "captured"
              [] ~has /\ response.size <= MaxSample -> row.reason = "usage_not_present"
              [] OTHER -> row.outcome = "skipped" /\ row.reason = "sample_limit_exceeded"
    BY DEF OutcomeIsRight
  <2>1. /\ response.size \in Nat /\ response.usageAt \in Nat
        /\ response.usageAt = 0 \/ response.usageAt < response.size
        /\ Sampled(sample, response.size)
        /\ Extracted(sample) = "usage" => row.outcome = "captured"
        /\ Extracted(sample) = "none" => row.reason = "usage_not_present"
        /\ Extracted(sample) = "error" /\ Overflow(sample) =>
             row.outcome = "skipped" /\ row.reason = "sample_limit_exceeded"
    BY <1>1 DEF SampleInv
  <2>2. /\ has /\ seen => Extracted(sample) = "usage"
        /\ ~has /\ response.size <= MaxSample => Extracted(sample) = "none"
        /\ ~(has /\ seen) /\ ~(~has /\ response.size <= MaxSample)
             => Extracted(sample) = "error" /\ Overflow(sample)
    BY <2>1, WholeResponse
  <2> HIDE DEF has, seen
  <2> QED BY <2>1, <2>2
<1>2. Init => ReplayInv /\ RowInv /\ RowIsTrue /\ SampleInv
  BY ReplayInit, RowInit, SampleInit
<1>3. ReplayInv /\ RowInv /\ RowIsTrue /\ SampleInv /\ [Next]_vars
        => (ReplayInv /\ RowInv /\ RowIsTrue /\ SampleInv)'
  BY ReplayStep, RowStep, SampleStep
<1> QED BY <1>1, <1>2, <1>3, PTL DEF Spec

-----------------------------------------------------------------------------
(* The bounds of the buffers *)

\* Two halves and a line break fit into one byte more than the limit, unless the
\* limit is 1, of which the half is 1 too.
LEMMA WindowLength ==
  ASSUME NEW max \in Nat \ {0, 1}, NEW n \in Nat
  PROVE  Len(Window(n, max)) <= max + 1
<1> DEFINE h == Half(max)
           from == IF n - h > h THEN n - h ELSE h
<1>1. h \in Nat /\ h > 0 /\ 2 * h <= max /\ max \in Nat
  BY DEF Half
<1>2. Window(n, max) = IF n <= max /\ n <= 2 * h THEN Fields(0, n)
                       ELSE Fields(0, h) \o <<Gap>> \o Fields(from, n)
  BY DEF Window
<1> HIDE DEF h, from
<1>3. CASE n <= max /\ n <= 2 * h
  <2>1. 0 \in Nat /\ 0 <= n /\ n - 0 = n
    OBVIOUS
  <2>2. Len(Fields(0, n)) = n - 0
    BY <2>1, FieldsSequence
  <2> QED BY <1>1, <1>2, <1>3, <2>1, <2>2
<1>4. CASE ~(n <= max /\ n <= 2 * h)
  <2>1. from \in Nat /\ from <= n /\ n - from <= h /\ 0 \in Nat /\ 0 <= h /\ h - 0 = h
    BY <1>1, <1>4 DEF from
  <2>2. Fields(0, h) \in Seq(Nat) /\ Len(Fields(0, h)) = h - 0
    BY <1>1, <2>1, FieldsSequence
  <2>3. Fields(from, n) \in Seq(Nat) /\ Len(Fields(from, n)) = n - from
    BY <2>1, FieldsSequence
  <2>4. Len(Fields(0, h) \o <<Gap>> \o Fields(from, n)) =
          Len(Fields(0, h)) + 1 + Len(Fields(from, n))
    BY <2>2, <2>3, EndsElements
  <2> QED BY <1>1, <1>2, <1>4, <2>1, <2>2, <2>3, <2>4
<1> QED BY <1>3, <1>4

\* The scan stops at its limit, nobody reads more than there is, and what the
\* buffers hold are the n first bytes of something.
SizeInv ==
  /\ Len(prefix) <= ScanMax \/ Len(prefix) <= InitialBytes
  /\ received <= response.size
  /\ \E n \in Nat : Holds(probe, n, Half(MaxBytes))
  /\ \E n \in Nat : Sampled(sample, n)
  /\ upload \in {"sending", "sent", "failed"}
  /\ phase \in {"prefix", "scan", "roundtrip", "copy", "done", "failed"}

\* A handler begins with all sizes 0.
LEMMA SizeInit == Init => SizeInv
<1> SUFFICES ASSUME Init PROVE SizeInv
  OBVIOUS
<1>1. /\ probe = EmptyPrefixTail /\ prefix = <<>> /\ received = 0 /\ response = NoResponse
      /\ upload = "sending" /\ phase \in {"prefix", "roundtrip"}
  BY DEF Init
<1>2. Half(MaxBytes) \in Nat /\ Half(MaxBytes) > 0
  <2>1. MaxBytes \in Nat \ {0}
    BY SizeAssumption
  <2> QED BY <2>1, HalfPositive
<1>3. Holds(probe, 0, Half(MaxBytes))
  BY <1>1, <1>2, HoldsNothing
<1>4. Sampled(sample, 0)
  BY SampledNothing
<1>5. 0 \in Nat /\ Len(<<>>) = 0 /\ 0 <= InitialBytes /\ 0 <= NoResponse.size
  BY SizeAssumption DEF NoResponse
<1> QED BY <1>1, <1>3, <1>4, <1>5 DEF SizeInv

\* No step takes more than there is.
LEMMA SizeStep ==
  /\ ReplayInv /\ RowInv /\ ProbeInv /\ SampleInv /\ SizeInv
  /\ (ReplayInv /\ RowInv /\ ProbeInv /\ SampleInv)'
  /\ [Next]_vars
  => SizeInv'
<1> SUFFICES ASSUME ReplayInv, RowInv, ProbeInv, SampleInv, SizeInv,
                    (ReplayInv /\ RowInv /\ ProbeInv /\ SampleInv)', [Next]_vars
             PROVE  SizeInv'
  OBVIOUS
<1> DEFINE Phases == {"prefix", "scan", "roundtrip", "copy", "done", "failed"}
           Bounded == Len(prefix) <= ScanMax \/ Len(prefix) <= InitialBytes
           ProbeHolds == \E n \in Nat : Holds(probe, n, Half(MaxBytes))
           SampleHolds == \E n \in Nat : Sampled(sample, n)
<1>1. UNCHANGED probe => ProbeHolds'
  BY DEF SizeInv
<1>2. UNCHANGED <<tailProfile, sample>> => SampleHolds'
  BY DEF SizeInv, Sampled
<1>3. UNCHANGED prefix => Bounded'
  BY DEF SizeInv, ScanMax
<1>4. ASSUME Bounded', ProbeHolds', SampleHolds', received' <= response'.size,
             upload' \in {"sending", "sent", "failed"}, phase' \in Phases
      PROVE  SizeInv'
  BY <1>4 DEF SizeInv
<1> HIDE DEF Bounded, ProbeHolds, SampleHolds
<1>5. ASSUME UNCHANGED <<tailProfile, probe, received, response, sample, upload>>,
             Bounded', phase' \in Phases
      PROVE  SizeInv'
  BY <1>1, <1>2, <1>4, <1>5 DEF SizeInv
<1>6. CASE ReadPrefix
  <2>1. /\ taken = 0 /\ taken \in 0..body.size /\ body.size \in Nat
        /\ prefix' = ReadAll(InitialBytes) /\ phase' \in {"scan", "roundtrip"}
    BY <1>6 DEF ReadPrefix, ReplayInv
  <2>2. InitialBytes \in Nat
    BY SizeAssumption
  <2>3. PICK t \in taken..body.size : Len(ReadAll(InitialBytes)) = t - taken /\ t <= taken + InitialBytes
    BY <2>1, <2>2, ReadAllPart
  <2>4. Bounded'
    BY <2>1, <2>2, <2>3 DEF Bounded
  <2> QED BY <1>5, <1>6, <2>1, <2>4 DEF ReadPrefix, requestVars
<1>7. CASE Scan
  <2> DEFINE k == Smaller(ReadSize, ScanMax - Len(prefix))
  <2>0. /\ phase = "scan" /\ phase' \in {"scan", "roundtrip"}
        /\ prefix' = prefix \o ReadAll(k) /\ taken' = taken + Len(ReadAll(k))
    BY <1>7 DEF Scan
  <2>1. /\ taken = Len(prefix) /\ taken \in 0..body.size /\ body.size \in Nat
        /\ Len(prefix) < ScanMax /\ ScanMax \in Nat /\ Len(prefix) \in Nat
    <3>1. ScanMax \in Nat
      BY SizeAssumption DEF ScanMax
    <3>2. Len(sent) = 0
      BY <2>0 DEF ReplayInv
    <3> QED BY <2>0, <3>1, <3>2 DEF ReplayInv
  <2>2. k \in Nat /\ k <= ScanMax - Len(prefix)
    BY <2>1, SizeAssumption DEF Smaller
  <2> HIDE DEF k
  <2>3. PICK t \in taken..body.size : Len(ReadAll(k)) = t - taken /\ t <= taken + k
    BY <2>1, <2>2, ReadAllPart
  <2>4. Len(prefix') <= taken'
    <3>1. taken' = IF Len(sent') >= Len(prefix') THEN Len(sent') ELSE Len(prefix')
      BY DEF ReplayInv
    <3>2. Len(prefix') \in Nat /\ Len(sent') \in Nat
      BY DEF ReplayInv
    <3> QED BY <3>1, <3>2
  <2>5. Bounded'
    <3>1. taken' <= ScanMax /\ Len(prefix') \in Nat /\ taken' \in Nat
      BY <2>0, <2>1, <2>2, <2>3 DEF ReplayInv
    <3> QED BY <2>1, <2>4, <3>1 DEF Bounded, ScanMax
  <2> QED BY <1>5, <1>7, <2>0, <2>5 DEF Scan, requestVars
<1>8. ASSUME NEW k \in 1..MaxBody, Upload(k) PROVE SizeInv'
  <2>1. ProbeHolds'
    <3>1. CASE Metered
      <4>1. Holds(probe', Len(sent'), Half(MaxBytes)) /\ Len(sent') \in Nat
        BY <1>8, <3>1 DEF ProbeInv, ReplayInv, Upload, requestVars, Metered
      <4> QED BY <4>1 DEF ProbeHolds
    <3>2. CASE ~Metered
      BY <1>1, <1>8, <3>2 DEF Upload
    <3> QED BY <3>1, <3>2
  <2> QED BY <1>2, <1>3, <1>4, <1>8, <2>1 DEF Upload, requestVars, SizeInv
<1>9. CASE UploadEnds
  <2>1. upload' \in {"sending", "sent", "failed"}
    BY <1>9 DEF UploadEnds
  <2> QED BY <1>1, <1>2, <1>3, <1>4, <1>9, <2>1 DEF UploadEnds, requestVars, SizeInv
<1>10. ASSUME NEW timeout \in BOOLEAN, RoundTripFails(timeout) PROVE SizeInv'
  BY <1>3, <1>5, <1>10 DEF RoundTripFails, requestVars, uploadVars
<1>11. ASSUME NEW resp \in Responses, NEW status \in {200, 400}, RoundTrip(resp, status)
       PROVE  SizeInv'
  <2>1. received' = 0 /\ response'.size \in Nat /\ phase' = "copy"
    BY <1>11, SizeAssumption DEF RoundTrip, RowInv, Responses
  <2> QED BY <1>1, <1>2, <1>3, <1>4, <1>11, <2>1
          DEF RoundTrip, requestVars, uploadVars, SizeInv
<1>12. ASSUME NEW k \in 1..MaxResponse, k \in 1..(response.size - received),
              received' = received + k, phase' \in {"copy", "done"},
              sample' = SampleWrite(Fields(received, received + k)),
              UNCHANGED <<requestVars, prefix, uploadVars, response>>
       PROVE  SizeInv'
  <2>1. SampleHolds'
    <3>1. CASE Metered /\ ~response.stream
      <4>1. Sampled(sample, received)' /\ received' \in Nat
        BY <1>12, <3>1 DEF SampleInv, RowInv, Metered, requestVars
      <4> QED BY <4>1 DEF SampleHolds, Sampled
    <3>2. CASE ~(Metered /\ ~response.stream)
      <4>1. sample' = sample
        BY <1>12, <3>2 DEF SampleWrite
      <4> QED BY <1>2, <1>12, <4>1 DEF requestVars
    <3> QED BY <3>1, <3>2
  <2>2. response.size \in Int /\ received \in Nat /\ received' <= response'.size
    <3>1. response.size \in Nat /\ received \in Nat /\ received' \in Nat
      BY <1>12 DEF SampleInv, RowInv
    <3> QED BY <1>12, <3>1
  <2> QED BY <1>1, <1>3, <1>4, <1>12, <2>1, <2>2 DEF uploadVars, SizeInv
<1>13. ASSUME NEW k \in 1..MaxResponse, Copy(k) PROVE SizeInv'
  BY <1>12, <1>13 DEF Copy
<1>14. ASSUME NEW k \in 1..MaxResponse, NEW j \in 0..MaxResponse, ClientGone(k, j)
       PROVE  SizeInv'
  <2>1. phase' = "done"
    BY <1>14 DEF ClientGone, Finish
  <2> QED BY <1>12, <1>14, <2>1 DEF ClientGone
<1>15. CASE ResponseEnds
  <2>1. phase' = "done"
    BY <1>15 DEF ResponseEnds, Finish
  <2> QED BY <1>3, <1>5, <1>15, <2>1 DEF ResponseEnds, requestVars, uploadVars
<1>16. CASE UNCHANGED vars
  <2>1. phase' \in Phases
    BY <1>16 DEF vars, SizeInv
  <2> QED BY <1>3, <1>5, <1>16, <2>1 DEF vars, requestVars, uploadVars
<1> QED
  BY <1>6, <1>7, <1>8, <1>9, <1>10, <1>11, <1>13, <1>14, <1>15, <1>16 DEF Next

\* No side buffer grows beyond its limit and a line break, whatever arrives, and
\* no more is forwarded or read than there is (limitedBuffer, prefixTailBuffer).
\* A limit of 1 is left out: both halves of such a buffer hold one byte.
THEOREM BuffersAreBounded ==
  ASSUME MaxBytes # 1, MaxSample # 1
  PROVE  Spec => []TypeOK
<1>1. ASSUME ReplayInv, RowInv, SizeInv PROVE TypeOK
  <2>1. /\ MaxBytes \in Nat \ {0, 1} /\ MaxBytes \in Nat \ {0}
        /\ MaxSample \in Nat \ {0, 1} /\ MaxSample \in Nat \ {0}
    BY SizeAssumption
  <2>2. Len(PrefixTailBytes(probe, MaxBytes)) <= MaxBytes + 1
    <3>1. PICK n \in Nat : Holds(probe, n, Half(MaxBytes))
      BY <1>1 DEF SizeInv
    <3>2. PrefixTailBytes(probe, MaxBytes) = Window(n, MaxBytes)
      BY <2>1, <3>1, BytesAreWindow
    <3>3. Len(Window(n, MaxBytes)) <= MaxBytes + 1
      BY <2>1, WindowLength
    <3> QED BY <3>2, <3>3
  <2>3. Len(SampleBytes(sample)) <= MaxSample + (IF tailProfile THEN 1 ELSE 0)
    <3>1. PICK n \in Nat : Sampled(sample, n)
      BY <1>1 DEF SizeInv
    <3>2. CASE tailProfile
      <4>1. Holds(sample.pt, n, Half(MaxSample)) /\ SampleBytes(sample) = PrefixTailBytes(sample.pt, MaxSample)
        BY <3>1, <3>2 DEF Sampled, SampleBytes
      <4>2. PrefixTailBytes(sample.pt, MaxSample) = Window(n, MaxSample)
        BY <2>1, <4>1, BytesAreWindow
      <4>3. Len(Window(n, MaxSample)) <= MaxSample + 1
        BY <2>1, WindowLength
      <4> QED BY <3>2, <4>1, <4>2, <4>3
    <3>3. CASE ~tailProfile
      <4> DEFINE m == Smaller(MaxSample, n)
      <4>1. m \in Nat /\ m <= MaxSample /\ MaxSample + 0 = MaxSample /\ 0 \in Nat /\ 0 <= m /\ m - 0 = m
        BY <2>1 DEF Smaller
      <4>2. SampleBytes(sample) = Fields(0, m)
        BY <3>1, <3>3 DEF Sampled, SampleBytes
      <4> HIDE DEF m
      <4>3. Len(Fields(0, m)) = m - 0
        BY <4>1, FieldsSequence
      <4> QED BY <3>3, <4>1, <4>2, <4>3
    <3> QED BY <3>2, <3>3
  <2>4. bytesRead \in 0..body.size
    <3>1. /\ bytesRead = Len(sent) /\ Len(sent) \in Nat /\ Len(prefix) \in Nat
          /\ body.size \in Nat /\ taken \in 0..body.size
          /\ taken = IF Len(sent) >= Len(prefix) THEN Len(sent) ELSE Len(prefix)
      BY <1>1 DEF ReplayInv, RowInv
    <3> QED BY <3>1
  <2>5. received \in 0..response.size
    BY <1>1 DEF RowInv, SizeInv
  <2> QED BY <1>1, <2>2, <2>3, <2>4, <2>5 DEF TypeOK, SizeInv
<1> DEFINE Inv == ReplayInv /\ RowInv /\ RowIsTrue /\ ProbeInv /\ SampleInv /\ SizeInv
<1>2. Init => Inv
  BY ReplayInit, RowInit, ProbeInit, SampleInit, SizeInit
<1>3. Inv /\ [Next]_vars => Inv'
  <2> SUFFICES ASSUME Inv, [Next]_vars PROVE Inv'
    OBVIOUS
  <2>1. (ReplayInv /\ RowInv /\ RowIsTrue /\ ProbeInv /\ SampleInv)'
    BY ReplayStep, RowStep, ProbeStep, SampleStep
  <2> QED BY <2>1, SizeStep
<1> QED BY <1>1, <1>2, <1>3, PTL DEF Spec
=============================================================================
