---------------------------- MODULE SampleBuffers ----------------------------
(***************************************************************************)
(* The bounded side buffers of internal/proxy/proxy.go: limitedBuffer keeps *)
(* the first max bytes of what is written to it, prefixTailBuffer the first *)
(* half of max and, in a ring, the last half.                               *)
(***************************************************************************)
EXTENDS Integers, Sequences

\* Stands where prefixTailBuffer.Bytes puts a line break for what it lost.
Gap == 0

EmptyLimited == [buf |-> <<>>, overflow |-> FALSE]

LimitedWrite(b, p, max) ==
  LET need == max - Len(b.buf)
  IN  IF b.overflow THEN b
      ELSE IF Len(p) > need THEN [buf |-> b.buf \o SubSeq(p, 1, need), overflow |-> TRUE]
      ELSE [b EXCEPT !.buf = @ \o p]

EmptyPrefixTail == [prefix |-> <<>>, tail |-> <<>>, wpos |-> 0, full |-> FALSE, total |-> 0]

Half(max) == IF max \div 2 > 0 THEN max \div 2 ELSE max
Smaller(a, b) == IF a <= b THEN a ELSE b

\* rest goes into the ring at wpos, or replaces it when it fills it.
BugNoWrap(ring, wpos, rest) ==
  [j \in DOMAIN ring |-> IF j > wpos /\ j <= wpos + Len(rest) THEN rest[j - wpos] ELSE ring[j]]

RingWrite(ring, wpos, rest) ==
  LET at(j) == (j - 1 - wpos) % Len(ring)
  IN  [j \in DOMAIN ring |-> IF at(j) < Len(rest) THEN rest[at(j) + 1] ELSE ring[j]]

PrefixTailWrite(b, p, max) ==
  LET half == Half(max)
      need == Smaller(half - Len(b.prefix), Len(p))
      rest == SubSeq(p, need + 1, Len(p))
      ring == IF b.tail = <<>> THEN [j \in 1..half |-> Gap] ELSE b.tail
      filled == [b EXCEPT !.prefix = @ \o SubSeq(p, 1, need), !.total = @ + Len(p)]
  IN  IF rest = <<>> THEN filled
      ELSE IF Len(rest) >= half
        THEN [filled EXCEPT !.tail = SubSeq(rest, Len(rest) - half + 1, Len(rest)),
                            !.wpos = 0, !.full = TRUE]
      ELSE [filled EXCEPT !.tail = RingWrite(ring, b.wpos, rest),
                          !.wpos = (b.wpos + Len(rest)) % half,
                          !.full = b.full \/ b.wpos + Len(rest) >= half]

\* appendTail: the ring, oldest byte first.
Chronological(b) ==
  IF b.full THEN SubSeq(b.tail, b.wpos + 1, Len(b.tail)) \o SubSeq(b.tail, 1, b.wpos)
  ELSE SubSeq(b.tail, 1, b.wpos)

BugJoinsBelowLimit(b, max) ==
  LET tail == Chronological(b)
      overlap == Len(b.prefix) + Len(tail) - b.total
  IN  IF tail = <<>> \/ b.total <= Len(b.prefix) THEN b.prefix
      ELSE IF b.total < max /\ overlap >= 0
        THEN b.prefix \o SubSeq(tail, overlap + 1, Len(tail))
      ELSE b.prefix \o <<Gap>> \o tail

PrefixTailBytes(b, max) ==
  LET tail == Chronological(b)
      overlap == Len(b.prefix) + Len(tail) - b.total
  IN  IF tail = <<>> \/ b.total <= Len(b.prefix) THEN b.prefix
      ELSE IF b.total <= max /\ overlap >= 0
        THEN b.prefix \o SubSeq(tail, overlap + 1, Len(tail))
      ELSE b.prefix \o <<Gap>> \o tail
=============================================================================
