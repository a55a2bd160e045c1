-------------------------- MODULE StreamCaptureProofs --------------------------
(***************************************************************************)
(* What handleStream makes of a stream does not depend on how the reads cut *)
(* it, and what it meters has reached the client; for streams of any length *)
(* and lines of any size.                                                   *)
(*                                                                          *)
(* Three invariants, one upon the other:                                    *)
(*  - BasicInv: the types, and that the row is that of the events.          *)
(*  - ForwardInv counts: each document's end is an event, or in the         *)
(*    assembler, in the line buffer or in the chunk, and all of these were  *)
(*    forwarded.                                                            *)
(*  - ParseInv says where the parser is.  What is behind it are the first m *)
(*    lines of the stream, and the line buffer is the beginning of the next *)
(*    (At); usage in those lines was seen (LostInv); and if their documents *)
(*    are in order, the events, with what the assembler holds, are these    *)
(*    documents (WholeInv).  At the end the m lines are the lines of the    *)
(*    stream that have their break.                                         *)
(*                                                                          *)
(* FlattenSeq and the place of line m in the stream are functions defined   *)
(* by recursion.  What is said of them for every number is shown by the     *)
(* least number for which it is false (Induction).                          *)
(***************************************************************************)
EXTENDS StreamCapture, SequenceTheorems, FiniteSetTheorems, WellFoundedInduction,
        NaturalsInduction, TLAPS

-----------------------------------------------------------------------------
(* Induction, over sets of numbers *)

\* A set of numbers has a least one.
LEMMA Least ==
  ASSUME NEW T, T \subseteq Nat, T # {}
  PROVE  \E x \in T : \A y \in T : x <= y
<1> DEFINE R == OpToRel(<, Nat)
<1>1. IsWellFoundedOn(R, Nat)
  BY NatLessThanWellFounded
<1>2. \A x, y \in Nat : y < x => <<y, x>> \in R
  BY DEF OpToRel
<1> HIDE DEF R
<1>3. PICK x \in T : \A y \in T : <<y, x>> \notin R
  BY <1>1, WFMin
<1>4. \A y \in T : ~(y < x)
  BY <1>2, <1>3
<1> QED BY <1>4

\* A set with 0 and the successor of each of its numbers has all of them.
LEMMA Induction ==
  ASSUME NEW S, 0 \in S, \A n \in Nat : n \in S => n + 1 \in S
  PROVE  \A n \in Nat : n \in S
<1> DEFINE T == {n \in Nat : n \notin S}
<1> SUFFICES ASSUME T # {} PROVE FALSE
  OBVIOUS
<1>1. PICK n \in T : \A y \in T : n <= y
  BY Least
<1>2. n # 0 /\ n \in Nat /\ n \notin S
  BY <1>1
<1>3. n - 1 \in Nat /\ ~(n <= n - 1) /\ (n - 1) + 1 = n
  BY <1>2
<1>4. n - 1 \in S
  BY <1>1, <1>3
<1> QED BY <1>2, <1>3, <1>4

-----------------------------------------------------------------------------
(* Sequences put together *)

\* What FlattenSeq computes, a piece at a time.
IsFlattening(f, s, n) ==
  f = [i \in 1..n |-> IF i = 1 THEN s[i] ELSE f[i - 1] \o s[i]]

\* There is such a function for any number of pieces.
LEMMA FlatteningExists ==
  ASSUME NEW s
  PROVE  \A n \in Nat : \E f : IsFlattening(f, s, n)
<1> DEFINE S == {n \in Nat : \E f : IsFlattening(f, s, n)}
<1>1. 0 \in S
  <2> DEFINE f == [i \in 1..0 |-> s[i]]
  <2>0. \A i \in 1..0 : FALSE
    OBVIOUS
  <2>1. f = [i \in 1..0 |-> IF i = 1 THEN s[i] ELSE f[i - 1] \o s[i]]
    BY <2>0
  <2> QED BY <2>1 DEF IsFlattening
<1>2. ASSUME NEW n \in Nat, n \in S PROVE n + 1 \in S
  <2>1. PICK f : f = [i \in 1..n |-> IF i = 1 THEN s[i] ELSE f[i - 1] \o s[i]]
    BY <1>2 DEF IsFlattening
  <2> DEFINE m == n + 1
             g == [i \in 1..m |-> IF i # m THEN f[i]
                                  ELSE IF i = 1 THEN s[i] ELSE f[i - 1] \o s[i]]
  <2>2. \A i \in 1..m : g[i] = IF i = 1 THEN s[i] ELSE g[i - 1] \o s[i]
    <3> TAKE i \in 1..m
    <3>1. CASE i = m
      <4>1. i = 1 \/ (i # 1 /\ i - 1 \in 1..m /\ i - 1 # m)
        BY <3>1
      <4> QED BY <3>1, <4>1
    <3>2. CASE i # m
      <4>1. i \in 1..n /\ (i = 1 \/ (i # 1 /\ i - 1 \in 1..m /\ i - 1 # m))
        BY <3>2
      <4>2. f[i] = IF i = 1 THEN s[i] ELSE f[i - 1] \o s[i]
        BY <2>1, <4>1
      <4> QED BY <3>2, <4>1, <4>2
    <3> QED BY <3>1, <3>2
  <2>3. g = [i \in 1..m |-> IF i = 1 THEN s[i] ELSE g[i - 1] \o s[i]]
    BY <2>2
  <2> HIDE DEF g
  <2>4. IsFlattening(g, s, m)
    BY <2>3 DEF IsFlattening
  <2> QED BY <2>4
<1> HIDE DEF S
<1>3. \A n \in Nat : n \in S
  BY <1>1, <1>2, Induction
<1> QED BY <1>3 DEF S

\* Two such functions agree on what both compute.
LEMMA FlatteningUnique ==
  ASSUME NEW s, NEW t, NEW f, NEW g, NEW m \in Nat, NEW n \in Nat, m <= n,
         IsFlattening(f, s, m), IsFlattening(g, t, n), \A i \in 1..m : s[i] = t[i]
  PROVE  \A i \in 1..m : f[i] = g[i]
<1> DEFINE S == {k \in Nat : k \in 1..m => f[k] = g[k]}
<1>1. \A i \in 1..m : f[i] = IF i = 1 THEN s[i] ELSE f[i - 1] \o s[i]
  BY DEF IsFlattening
<1>2. \A i \in 1..m : g[i] = IF i = 1 THEN s[i] ELSE g[i - 1] \o s[i]
  <2>1. \A i \in 1..n : g[i] = IF i = 1 THEN t[i] ELSE g[i - 1] \o t[i]
    BY DEF IsFlattening
  <2>2. \A i \in 1..m : i \in 1..n
    OBVIOUS
  <2> QED BY <2>1, <2>2
<1>3. 0 \in S
  OBVIOUS
<1>4. ASSUME NEW k \in Nat, k \in S PROVE k + 1 \in S
  <2> SUFFICES ASSUME k + 1 \in 1..m PROVE f[k + 1] = g[k + 1]
    OBVIOUS
  <2>1. CASE k = 0
    <3>1. k + 1 = 1 /\ k + 1 \in 1..m
      BY <2>1
    <3> QED BY <1>1, <1>2, <3>1
  <2>2. CASE k # 0
    <3>1. k \in 1..m /\ k + 1 # 1 /\ (k + 1) - 1 = k
      BY <2>2
    <3>2. f[k + 1] = f[k] \o s[k + 1]
      BY <1>1, <3>1
    <3>3. g[k + 1] = g[k] \o s[k + 1]
      BY <1>2, <3>1
    <3> QED BY <1>4, <3>1, <3>2, <3>3
  <2> QED BY <2>1, <2>2
<1> HIDE DEF S
<1>5. \A k \in Nat : k \in S
  BY <1>3, <1>4, Induction
<1> QED BY <1>5 DEF S

\* FlattenSeq is the last value of such a function.
LEMMA FlattenValue ==
  ASSUME NEW s, Len(s) \in Nat, Len(s) # 0, NEW f, IsFlattening(f, s, Len(s))
  PROVE  FlattenSeq(s) = f[Len(s)]
<1> DEFINE n == Len(s)
           c == CHOOSE g : g = [i \in 1..n |-> IF i = 1 THEN s[i] ELSE g[i - 1] \o s[i]]
<1>1. IsFlattening(c, s, n)
  BY DEF IsFlattening
<1>2. FlattenSeq(s) = c[n]
  BY DEF FlattenSeq
<1> HIDE DEF c
<1>3. \A i \in 1..n : c[i] = f[i]
  BY <1>1, FlatteningUnique
<1> QED BY <1>2, <1>3

\* The pieces of sequences over A make a sequence over A.
LEMMA FlattenType ==
  ASSUME NEW A, NEW s \in Seq(Seq(A))
  PROVE  FlattenSeq(s) \in Seq(A)
<1>1. CASE Len(s) = 0
  <2>1. s = <<>> /\ <<>> \in Seq(A)
    BY <1>1, EmptySeq
  <2> QED BY <1>1, <2>1 DEF FlattenSeq
<1>2. CASE Len(s) # 0
  <2> DEFINE n == Len(s)
  <2>1. n \in Nat /\ \A i \in 1..n : s[i] \in Seq(A)
    BY LenProperties, ElementOfSeq
  <2>2. PICK f : IsFlattening(f, s, n)
    BY <2>1, FlatteningExists
  <2> DEFINE S == {k \in Nat : k \in 1..n => f[k] \in Seq(A)}
  <2>3. \A i \in 1..n : f[i] = IF i = 1 THEN s[i] ELSE f[i - 1] \o s[i]
    BY <2>2 DEF IsFlattening
  <2>4. 0 \in S
    OBVIOUS
  <2>5. ASSUME NEW k \in Nat, k \in S PROVE k + 1 \in S
    <3> SUFFICES ASSUME k + 1 \in 1..n PROVE f[k + 1] \in Seq(A)
      OBVIOUS
    <3>1. CASE k = 0
      <4>1. f[k + 1] = s[k + 1]
        BY <2>3, <3>1
      <4> QED BY <2>1, <4>1
    <3>2. CASE k # 0
      <4>1. k \in 1..n /\ k + 1 # 1 /\ (k + 1) - 1 = k
        BY <3>2, <2>1
      <4>2. f[k + 1] = f[k] \o s[k + 1] /\ f[k] \in Seq(A)
        BY <2>3, <2>5, <4>1
      <4> QED BY <2>1, <4>2, ConcatProperties
    <3> QED BY <3>1, <3>2
  <2> HIDE DEF S
  <2>6. \A k \in Nat : k \in S
    BY <2>4, <2>5, Induction
  <2>7. FlattenSeq(s) = f[n] /\ n \in 1..n
    BY <1>2, <2>1, <2>2, FlattenValue
  <2> QED BY <2>1, <2>6, <2>7 DEF S
<1> QED BY <1>1, <1>2

\* One more piece comes after the others.
LEMMA FlattenAppend ==
  ASSUME NEW A, NEW s \in Seq(Seq(A)), NEW x \in Seq(A)
  PROVE  FlattenSeq(Append(s, x)) = FlattenSeq(s) \o x
<1> DEFINE n == Len(s)
           t == Append(s, x)
<1>1. /\ n \in Nat /\ t \in Seq(Seq(A)) /\ Len(t) = n + 1 /\ t[n + 1] = x
      /\ \A i \in 1..n : t[i] = s[i]
  BY LenProperties, AppendProperties
<1> HIDE DEF t
<1>2. PICK f : IsFlattening(f, t, n + 1)
  <2>1. n + 1 \in Nat
    BY <1>1
  <2> QED BY <2>1, FlatteningExists
<1>3. FlattenSeq(t) = f[n + 1]
  BY <1>1, <1>2, FlattenValue
<1>4. n + 1 \in 1..(n + 1)
  BY <1>1
<1>5. f[n + 1] = IF n + 1 = 1 THEN t[n + 1] ELSE f[n] \o t[n + 1]
  <2>1. (n + 1) - 1 = n
    BY <1>1
  <2> QED BY <1>2, <1>4, <2>1 DEF IsFlattening
<1>6. CASE n = 0
  <2>1. FlattenSeq(s) = <<>>
    BY <1>6, EmptySeq DEF FlattenSeq
  <2> QED BY <1>1, <1>3, <1>5, <1>6, <2>1, ConcatEmptySeq DEF t
<1>7. CASE n # 0
  <2>1. PICK g : IsFlattening(g, s, n)
    BY <1>1, FlatteningExists
  <2>2. FlattenSeq(s) = g[n]
    BY <1>1, <1>7, <2>1, FlattenValue
  <2>3. \A i \in 1..n : s[i] = t[i]
    BY <1>1
  <2> DEFINE m == n + 1
  <2>4. n \in Nat /\ m \in Nat /\ n <= m
    BY <1>1
  <2>5. IsFlattening(f, t, m)
    BY <1>2
  <2> HIDE DEF n, m
  <2>7. \A i \in 1..n : g[i] = f[i]
    BY <2>1, <2>3, <2>4, <2>5, FlatteningUnique
  <2> USE DEF n
  <2>6. n \in 1..n /\ n + 1 # 1
    BY <1>1, <1>7
  <2> QED BY <1>1, <1>3, <1>5, <2>2, <2>6, <2>7 DEF t
<1> QED BY <1>6, <1>7

-----------------------------------------------------------------------------
(* Counting *)

\* A count is a number, and 0 when nothing is counted.
LEMMA CountType ==
  ASSUME NEW A, NEW s \in Seq(A), NEW a
  PROVE  /\ IsFiniteSet({i \in DOMAIN s : s[i] = a})
         /\ Count(s, a) \in Nat
         /\ Count(s, a) = 0 <=> \A i \in 1..Len(s) : s[i] # a
<1> DEFINE P == {i \in DOMAIN s : s[i] = a}
<1>1. Len(s) \in Nat /\ DOMAIN s = 1..Len(s)
  BY LenProperties
<1>2. IsFiniteSet(1..Len(s)) /\ P \subseteq 1..Len(s)
  BY <1>1, FS_Interval
<1>3. IsFiniteSet(P) /\ Cardinality(P) \in Nat
  BY <1>2, FS_Subset, FS_CardinalityType
<1>4. Cardinality(P) = 0 <=> P = {}
  BY <1>3, FS_EmptySet
<1> QED BY <1>1, <1>3, <1>4 DEF Count

\* Nothing occurs in the empty sequence.
LEMMA CountEmpty ==
  ASSUME NEW a
  PROVE  Count(<<>>, a) = 0
<1> DEFINE e == <<>>
<1>1. e \in Seq({}) /\ Len(e) = 0
  BY EmptySeq
<1> HIDE DEF e
<1>2. \A i \in 1..Len(e) : e[i] # a
  BY <1>1
<1>3. Count(e, a) = 0
  BY <1>1, <1>2, CountType
<1> QED BY <1>3 DEF e

\* What occurs in two sequences that are joined.
LEMMA CountConcat ==
  ASSUME NEW A, NEW s \in Seq(A), NEW t \in Seq(A), NEW a
  PROVE  Count(s \o t, a) = Count(s, a) + Count(t, a)
<1> DEFINE u == s \o t
           m == Len(s)
           n == Len(t)
           P == {i \in 1..m : s[i] = a}
           Q == {i \in 1..n : t[i] = a}
           R == {i \in (m + 1)..(m + n) : u[i] = a}
<1>1. /\ m \in Nat /\ n \in Nat /\ DOMAIN s = 1..m /\ DOMAIN t = 1..n
      /\ u \in Seq(A) /\ Len(u) = m + n /\ DOMAIN u = 1..(m + n)
      /\ \A i \in 1..(m + n) : u[i] = IF i <= m THEN s[i] ELSE t[i - m]
  BY LenProperties, ConcatProperties
<1> HIDE DEF u, m, n
<1>2. {i \in DOMAIN u : u[i] = a} = P \cup R
  BY <1>1
<1>3. P \cap R = {}
  BY <1>1
<1>4. IsFiniteSet(P) /\ IsFiniteSet(Q) /\ Cardinality(P) \in Nat /\ Cardinality(Q) \in Nat
  <2>1. P = {i \in DOMAIN s : s[i] = a} /\ Q = {i \in DOMAIN t : t[i] = a}
    BY <1>1
  <2> HIDE DEF P, Q
  <2>2. IsFiniteSet(P) /\ IsFiniteSet(Q)
    BY <2>1, CountType
  <2> QED BY <2>2, FS_CardinalityType
<1>5. IsFiniteSet(R) /\ Cardinality(R) = Cardinality(Q)
  <2> DEFINE f == [j \in Q |-> j + m]
  <2>1. \A j \in Q : f[j] \in R
    BY <1>1
  <2>2. \A i, j \in Q : f[i] = f[j] => i = j
    BY <1>1
  <2>3. \A i \in R : i - m \in Q /\ f[i - m] = i
    BY <1>1
  <2> HIDE DEF f, Q, R
  <2>4. f \in [Q -> R]
    BY <2>1 DEF f
  <2>5. f \in Bijection(Q, R)
    BY <2>2, <2>3, <2>4 DEF Bijection, Injection, Surjection, IsInjective
  <2> QED BY <1>4, <2>5, FS_Bijection DEF ExistsBijection
<1>6. Cardinality(P \cup R) = Cardinality(P) + Cardinality(R) - Cardinality(P \cap R)
  BY <1>4, <1>5, FS_Union
<1>7. Cardinality(P \cap R) = 0
  BY <1>3, FS_EmptySet
<1>8. Count(s, a) = Cardinality(P) /\ Count(t, a) = Cardinality(Q)
  BY <1>1 DEF Count
<1>9. Count(u, a) = Cardinality(P \cup R)
  BY <1>2 DEF Count
<1> HIDE DEF P, Q, R
<1>10. Count(u, a) = Count(s, a) + Count(t, a)
  BY <1>4, <1>5, <1>6, <1>7, <1>8, <1>9
<1> QED BY <1>10 DEF u

\* The parts of a sequence around a position.
LEMMA SplitAt ==
  ASSUME NEW A, NEW s \in Seq(A), NEW a \in Nat, NEW b \in Nat, NEW c \in Nat,
         a <= b, b <= c, c <= Len(s)
  PROVE  /\ SubSeq(s, a + 1, b) \in Seq(A) /\ SubSeq(s, b + 1, c) \in Seq(A)
         /\ SubSeq(s, a + 1, c) = SubSeq(s, a + 1, b) \o SubSeq(s, b + 1, c)
         /\ Len(SubSeq(s, a + 1, b)) = b - a
         /\ \A i \in 1..(b - a) : SubSeq(s, a + 1, b)[i] = s[a + i]
<1> DEFINE u == SubSeq(s, a + 1, b)
           v == SubSeq(s, b + 1, c)
           w == SubSeq(s, a + 1, c)
<1>0. Len(s) \in Nat
  BY LenProperties
<1>1. u \in Seq(A) /\ Len(u) = b - a /\ \A i \in 1..(b - a) : u[i] = s[a + i]
  <2>1. \A i \in (a + 1)..b : s[i] \in A
    BY <1>0, ElementOfSeq
  <2> QED BY <1>0, <2>1
<1>2. v \in Seq(A) /\ Len(v) = c - b /\ \A i \in 1..(c - b) : v[i] = s[b + i]
  <2>1. \A i \in (b + 1)..c : s[i] \in A
    BY <1>0, ElementOfSeq
  <2> QED BY <1>0, <2>1
<1>3. w \in Seq(A) /\ Len(w) = c - a /\ \A i \in 1..(c - a) : w[i] = s[a + i]
  <2>1. \A i \in (a + 1)..c : s[i] \in A
    BY <1>0, ElementOfSeq
  <2> QED BY <1>0, <2>1
<1> HIDE DEF u, v, w
<1>4. /\ u \o v \in Seq(A) /\ Len(u \o v) = c - a
      /\ \A i \in 1..(c - a) : (u \o v)[i] = IF i <= b - a THEN u[i] ELSE v[i - (b - a)]
  <2>1. (b - a) + (c - b) = c - a
    OBVIOUS
  <2>2. /\ u \o v \in Seq(A) /\ Len(u \o v) = Len(u) + Len(v)
        /\ \A i \in 1..(Len(u) + Len(v)) :
             (u \o v)[i] = IF i <= Len(u) THEN u[i] ELSE v[i - Len(u)]
    BY <1>1, <1>2, ConcatProperties
  <2> QED BY <1>1, <1>2, <2>1, <2>2
<1>5. \A i \in 1..(c - a) : (u \o v)[i] = w[i]
  <2> TAKE i \in 1..(c - a)
  <2>1. CASE i <= b - a
    BY <1>1, <1>3, <1>4, <2>1
  <2>2. CASE ~(i <= b - a)
    <3>1. i - (b - a) \in 1..(c - b) /\ b + (i - (b - a)) = a + i
      BY <2>2
    <3> QED BY <1>2, <1>3, <1>4, <2>2, <3>1
  <2> QED BY <2>1, <2>2
<1>6. w = u \o v
  BY <1>3, <1>4, <1>5, SeqEqual
<1> QED BY <1>1, <1>2, <1>6 DEF u, v, w

-----------------------------------------------------------------------------
(* The stream and its lines *)

USE LineAssumption

\* Bytes of the first n lines; End is where line n ends, with its break.
First(n) == Bytes(SubSeq(lines, 1, n), brk, TRUE)
End(n) == Len(First(n))
IsText == lines \in Seq(Seq(Atoms)) /\ brk \in Seq(Atoms)

\* Before the first line there is nothing.
LEMMA FirstNone == First(0) = <<>>
<1> DEFINE u == SubSeq(lines, 1, 0)
           p == [i \in DOMAIN u |-> IF i < Len(u) \/ TRUE THEN u[i] \o brk ELSE u[i]]
<1>1. u = <<>>
  OBVIOUS
<1>2. First(0) = FlattenSeq(p)
  BY DEF First, Bytes
<1>3. DOMAIN u = {}
  BY <1>1
<1>4. p = <<>>
  BY <1>3
<1>5. FlattenSeq(<<>>) = <<>>
  BY DEF FlattenSeq
<1> HIDE DEF p
<1> QED BY <1>2, <1>4, <1>5

\* The lines with their breaks are a sequence of what lines and break consist of.
LEMMA BytesType ==
  ASSUME NEW A, NEW ls \in Seq(Seq(A)), NEW b \in Seq(A), NEW ended \in BOOLEAN
  PROVE  Bytes(ls, b, ended) \in Seq(A)
<1> DEFINE t(i) == IF i < Len(ls) \/ ended THEN ls[i] \o b ELSE ls[i]
           p == [i \in DOMAIN ls |-> t(i)]
<1>1. Len(ls) \in Nat /\ DOMAIN ls = 1..Len(ls) /\ \A i \in DOMAIN ls : ls[i] \in Seq(A)
  BY LenProperties, ElementOfSeq
<1>2. \A i \in DOMAIN ls : ls[i] \o b \in Seq(A)
  BY <1>1, ConcatProperties
<1>3. \A i \in DOMAIN ls : t(i) \in Seq(A)
  BY <1>1, <1>2
<1> HIDE DEF t
<1>4. p \in Seq(Seq(A))
  BY <1>1, <1>3, IsASeq
<1>5. FlattenSeq(p) \in Seq(A)
  BY <1>4, FlattenType
<1> QED BY <1>5 DEF Bytes, t

\* What comes after the first n lines, whatever it is.
LEMMA FirstThen ==
  ASSUME IsText, NEW n \in Nat, n < Len(lines),
         NEW x \in Seq(Atoms),
         NEW q, q = [i \in 1..(n + 1) |-> IF i <= n THEN lines[i] \o brk ELSE x]
  PROVE  FlattenSeq(q) = First(n) \o x
<1> DEFINE u == SubSeq(lines, 1, n)
           p == [i \in DOMAIN u |-> IF i < Len(u) \/ TRUE THEN u[i] \o brk ELSE u[i]]
<1>1. Len(lines) \in Nat /\ \A i \in 1..Len(lines) : lines[i] \in Seq(Atoms)
  BY LenProperties, ElementOfSeq DEF IsText
<1>2. Len(u) = n /\ DOMAIN u = 1..n /\ \A i \in 1..n : u[i] = lines[i]
  BY <1>1
<1>4. First(n) = FlattenSeq(p)
  BY DEF Bytes, First
<1> HIDE DEF u
<1>5. \A i \in 1..n : lines[i] \in Seq(Atoms) /\ lines[i] \o brk \in Seq(Atoms)
  <2>1. \A i \in 1..Len(lines) : lines[i] \o brk \in Seq(Atoms)
    BY <1>1, ConcatProperties DEF IsText
  <2> QED BY <1>1, <2>1
<1>7. p = [i \in 1..n |-> lines[i] \o brk]
  BY <1>2
<1>8. p \in Seq(Seq(Atoms)) /\ Len(p) = n /\ \A i \in 1..n : p[i] = lines[i] \o brk
  <2> DEFINE y(i) == lines[i] \o brk
             a == [i \in 1..n |-> y(i)]
  <2>1. \A i \in 1..n : y(i) \in Seq(Atoms)
    BY <1>5
  <2> HIDE DEF y
  <2>2. a \in Seq(Seq(Atoms)) /\ Len(a) = n /\ \A i \in 1..n : a[i] = y(i)
    BY <2>1, IsASeq
  <2> USE DEF y
  <2> HIDE DEF p
  <2> QED BY <1>7, <2>2
<1> HIDE DEF p
<1>10. q = Append(p, x)
  <2> DEFINE a == Append(p, x)
  <2>1. a \in Seq(Seq(Atoms)) /\ Len(a) = n + 1 /\ a[n + 1] = x /\ \A i \in 1..n : a[i] = p[i]
    BY <1>8, AppendProperties
  <2>2. DOMAIN a = 1..(n + 1)
    BY <2>1, LenProperties
  <2> HIDE DEF a
  <2>3. \A i \in 1..(n + 1) : a[i] = IF i <= n THEN lines[i] \o brk ELSE x
    <3> TAKE i \in 1..(n + 1)
    <3>1. (i \in 1..n /\ i <= n) \/ (i = n + 1 /\ ~(i <= n))
      OBVIOUS
    <3>2. CASE i \in 1..n /\ i <= n
      <4>1. a[i] = p[i] /\ p[i] = lines[i] \o brk
        BY <1>8, <2>1, <3>2
      <4> QED BY <3>2, <4>1
    <3>3. CASE i = n + 1 /\ ~(i <= n)
      BY <2>1, <3>3
    <3> QED BY <3>1, <3>2, <3>3
  <2>4. a = [i \in 1..(n + 1) |-> a[i]]
    BY <2>1, <2>2
  <2>5. a = [i \in 1..(n + 1) |-> IF i <= n THEN lines[i] \o brk ELSE x]
    BY <2>3, <2>4
  <2> QED BY <2>5 DEF a
<1>11. FlattenSeq(q) = FlattenSeq(p) \o x
  BY <1>8, <1>10, FlattenAppend
<1> QED BY <1>4, <1>11

\* One more line comes after the others, with its break or, at the end, without.
LEMMA BytesMore ==
  ASSUME IsText, NEW n \in Nat, n < Len(lines)
  PROVE  /\ First(n + 1) = First(n) \o (lines[n + 1] \o brk)
         /\ Bytes(SubSeq(lines, 1, n + 1), brk, FALSE) = First(n) \o lines[n + 1]
<1> DEFINE v == SubSeq(lines, 1, n + 1)
           x == lines[n + 1]
           q == [i \in DOMAIN v |-> IF i < Len(v) \/ TRUE THEN v[i] \o brk ELSE v[i]]
           r == [i \in DOMAIN v |-> IF i < Len(v) \/ FALSE THEN v[i] \o brk ELSE v[i]]
<1>1. Len(lines) \in Nat /\ \A i \in 1..Len(lines) : lines[i] \in Seq(Atoms)
  BY LenProperties, ElementOfSeq DEF IsText
<1>3. Len(v) = n + 1 /\ DOMAIN v = 1..(n + 1) /\ \A i \in 1..(n + 1) : v[i] = lines[i]
  BY <1>1
<1>4. First(n + 1) = FlattenSeq(q) /\ Bytes(v, brk, FALSE) = FlattenSeq(r)
  BY DEF Bytes, First
<1> HIDE DEF v
<1>5. x \in Seq(Atoms) /\ x \o brk \in Seq(Atoms)
  <2>1. x \in Seq(Atoms)
    BY <1>1
  <2> QED BY <2>1, ConcatProperties DEF IsText
<1>6. \A i \in 1..(n + 1) : (i <= n /\ i < n + 1) \/ (~(i <= n) /\ ~(i < n + 1) /\ i = n + 1)
  OBVIOUS
<1>7. \A i \in 1..(n + 1) : q[i] = IF i <= n THEN lines[i] \o brk ELSE x \o brk
  BY <1>3, <1>6
<1>8. \A i \in 1..(n + 1) : r[i] = IF i <= n THEN lines[i] \o brk ELSE x
  BY <1>3, <1>6
<1>9. q = [i \in 1..(n + 1) |-> q[i]] /\ r = [i \in 1..(n + 1) |-> r[i]]
  BY <1>3
<1> HIDE DEF q, r, x
<1>10. q = [i \in 1..(n + 1) |-> IF i <= n THEN lines[i] \o brk ELSE x \o brk]
  BY <1>7, <1>9
<1>11. r = [i \in 1..(n + 1) |-> IF i <= n THEN lines[i] \o brk ELSE x]
  BY <1>8, <1>9
<1>12. FlattenSeq(q) = First(n) \o (x \o brk)
  BY <1>5, <1>10, FirstThen
<1>13. FlattenSeq(r) = First(n) \o x
  BY <1>5, <1>11, FirstThen
<1> QED BY <1>4, <1>12, <1>13 DEF v, x

\* The places of the lines and the breaks among the first n lines.
Places(s, n) ==
  \A i \in 1..n :
    /\ Len(First(i)) <= Len(First(n))
    /\ \A j \in 1..Len(lines[i]) : s[Len(First(i - 1)) + j] = lines[i][j]
    /\ \A j \in 1..Len(brk) : s[Len(First(i - 1)) + Len(lines[i]) + j] = brk[j]

\* The length of the lines with their breaks, one line at a time.
LEMMA FirstLength ==
  ASSUME IsText, NEW n \in Nat, n < Len(lines)
  PROVE  /\ First(n) \in Seq(Atoms) /\ Len(First(n)) \in Nat
         /\ First(n + 1) \in Seq(Atoms) /\ Len(First(n + 1)) \in Nat
         /\ lines[n + 1] \in Seq(Atoms) /\ Len(lines[n + 1]) \in Nat /\ Len(brk) \in Nat
         /\ First(n + 1) = First(n) \o (lines[n + 1] \o brk)
         /\ Len(First(n + 1)) = Len(First(n)) + Len(lines[n + 1]) + Len(brk)
<1>1. Len(lines) \in Nat /\ \A i \in 1..Len(lines) : lines[i] \in Seq(Atoms)
  BY LenProperties, ElementOfSeq DEF IsText
<1>2. lines[n + 1] \in Seq(Atoms) /\ Len(lines[n + 1]) \in Nat /\ Len(brk) \in Nat
  BY <1>1, LenProperties
<1>3. SubSeq(lines, 1, n) \in Seq(Seq(Atoms)) /\ SubSeq(lines, 1, n + 1) \in Seq(Seq(Atoms))
  <2>1. /\ \A i \in 1..n : lines[i] \in Seq(Atoms)
        /\ \A i \in 1..(n + 1) : lines[i] \in Seq(Atoms)
    BY <1>1
  <2> QED BY <2>1
<1>4. First(n) \in Seq(Atoms) /\ First(n + 1) \in Seq(Atoms)
  BY <1>3, BytesType DEF First, IsText
<1>5. Len(First(n)) \in Nat /\ Len(First(n + 1)) \in Nat
  BY <1>4, LenProperties
<1>6. First(n + 1) = First(n) \o (lines[n + 1] \o brk)
  BY BytesMore
<1>7. lines[n + 1] \o brk \in Seq(Atoms) /\ Len(lines[n + 1] \o brk) = Len(lines[n + 1]) + Len(brk)
  BY <1>2, ConcatProperties DEF IsText
<1>8. Len(First(n) \o (lines[n + 1] \o brk)) = Len(First(n)) + Len(lines[n + 1] \o brk)
  BY <1>4, <1>7, ConcatProperties
<1>9. Len(First(n + 1)) = Len(First(n)) + Len(lines[n + 1]) + Len(brk)
  BY <1>2, <1>5, <1>6, <1>7, <1>8
<1> QED BY <1>2, <1>4, <1>5, <1>6, <1>9

\* A sequence that goes on with one more line: what was before stays, and the
\* line and its break are where they belong.
LEMMA PlacesMore ==
  ASSUME IsText, NEW n \in Nat, n < Len(lines),
         Places(First(n), n)
  PROVE  Places(First(n + 1), n + 1)
<1> DEFINE f(i) == First(i)
           e(i) == Len(f(i))
           l == lines[n + 1]
           s == f(n)
           t == f(n + 1)
<1>1. /\ s \in Seq(Atoms) /\ e(n) \in Nat /\ t \in Seq(Atoms) /\ e(n + 1) \in Nat
      /\ l \in Seq(Atoms) /\ Len(l) \in Nat /\ Len(brk) \in Nat
      /\ t = s \o (l \o brk) /\ e(n + 1) = e(n) + Len(l) + Len(brk)
  BY FirstLength
<1>2. /\ l \o brk \in Seq(Atoms) /\ Len(l \o brk) = Len(l) + Len(brk)
      /\ \A i \in 1..(Len(l) + Len(brk)) :
           (l \o brk)[i] = IF i <= Len(l) THEN l[i] ELSE brk[i - Len(l)]
  BY <1>1, ConcatProperties DEF IsText
<1> HIDE DEF l
<1>3. \A i \in 1..(e(n) + Len(l \o brk)) :
        (s \o (l \o brk))[i] = IF i <= e(n) THEN s[i] ELSE (l \o brk)[i - e(n)]
  BY <1>1, <1>2, ConcatProperties
<1>4. \A i \in 1..(e(n) + Len(l) + Len(brk)) :
        t[i] = IF i <= e(n) THEN s[i] ELSE (l \o brk)[i - e(n)]
  BY <1>1, <1>2, <1>3
<1>5. \A j \in 1..Len(l) : t[e(n) + j] = l[j]
  <2> TAKE j \in 1..Len(l)
  <2>1. /\ e(n) + j \in 1..(e(n) + Len(l) + Len(brk)) /\ ~(e(n) + j <= e(n))
        /\ (e(n) + j) - e(n) = j /\ j \in 1..(Len(l) + Len(brk)) /\ j <= Len(l)
    BY <1>1
  <2> QED BY <1>2, <1>4, <2>1
<1>6. \A j \in 1..Len(brk) : t[e(n) + Len(l) + j] = brk[j]
  <2> TAKE j \in 1..Len(brk)
  <2> DEFINE at == e(n) + Len(l) + j
  <2>1. /\ at \in 1..(e(n) + Len(l) + Len(brk)) /\ ~(at <= e(n))
        /\ at - e(n) = Len(l) + j /\ Len(l) + j \in 1..(Len(l) + Len(brk))
        /\ ~(Len(l) + j <= Len(l)) /\ (Len(l) + j) - Len(l) = j
    BY <1>1
  <2> HIDE DEF at
  <2>2. t[at] = (l \o brk)[at - e(n)]
    BY <1>4, <2>1
  <2>3. (l \o brk)[Len(l) + j] = brk[j]
    BY <1>2, <2>1
  <2> QED BY <2>1, <2>2, <2>3 DEF at
<1> SUFFICES ASSUME NEW i \in 1..(n + 1)
    PROVE /\ e(i) <= e(n + 1)
          /\ \A j \in 1..Len(lines[i]) : t[e(i - 1) + j] = lines[i][j]
          /\ \A j \in 1..Len(brk) : t[e(i - 1) + Len(lines[i]) + j] = brk[j]
  BY DEF Places
<1>7. CASE i = n + 1
  <2>1. i - 1 = n /\ lines[i] = l
    BY <1>7 DEF l
  <2>2. e(i - 1) = e(n) /\ e(i) = e(n + 1)
    BY <1>7, <2>1
  <2> QED BY <1>1, <1>5, <1>6, <2>1, <2>2
<1>8. CASE i # n + 1
  <2>1. i \in 1..n /\ i - 1 \in Nat /\ i - 1 < Len(lines) /\ (i - 1) + 1 = i
    BY <1>8, LenProperties
  <2>2. /\ e(i) <= e(n)
        /\ \A j \in 1..Len(lines[i]) : s[e(i - 1) + j] = lines[i][j]
        /\ \A j \in 1..Len(brk) : s[e(i - 1) + Len(lines[i]) + j] = brk[j]
    BY <2>1 DEF Places
  <2>3. e(i - 1) \in Nat /\ e(i) \in Nat /\ Len(lines[i]) \in Nat
        /\ e(i) = e(i - 1) + Len(lines[i]) + Len(brk)
    <3> DEFINE k == i - 1
    <3>1. k \in Nat /\ k < Len(lines) /\ k + 1 = i
      BY <2>1
    <3> HIDE DEF k
    <3>2. /\ e(k) \in Nat /\ e(k + 1) \in Nat /\ Len(lines[k + 1]) \in Nat
          /\ e(k + 1) = e(k) + Len(lines[k + 1]) + Len(brk)
      BY <3>1, FirstLength
    <3> QED BY <3>1, <3>2 DEF k
  <2> DEFINE en == e(n)  ep == e(i - 1)  ei == e(i)  em == e(n + 1)  li == Len(lines[i])
  <2>9. /\ en \in Nat /\ ep \in Nat /\ ei \in Nat /\ em \in Nat /\ li \in Nat
        /\ Len(brk) \in Nat /\ Len(l) \in Nat
        /\ ei <= en /\ ei = ep + li + Len(brk) /\ em = en + Len(l) + Len(brk)
    BY <1>1, <2>2, <2>3
  <2>4. \A k \in 1..en : t[k] = s[k]
    <3>1. \A k \in 1..(en + Len(l) + Len(brk)) :
            t[k] = IF k <= en THEN s[k] ELSE (l \o brk)[k - en]
      BY <1>4
    <3> HIDE DEF en, t, s
    <3> QED BY <2>9, <3>1
  <2> HIDE DEF en, ep, ei, em, li
  <2>5. \A j \in 1..li : ep + j \in 1..en
    BY <2>9
  <2>6. \A j \in 1..Len(brk) : ep + li + j \in 1..en
    BY <2>9
  <2>7. ei <= em
    BY <2>9
  <2>8. /\ \A j \in 1..li : s[ep + j] = lines[i][j]
        /\ \A j \in 1..Len(brk) : s[ep + li + j] = brk[j]
    BY <2>2 DEF ep, li
  <2> HIDE DEF s, t
  <2>10. /\ \A j \in 1..li : t[ep + j] = lines[i][j]
         /\ \A j \in 1..Len(brk) : t[ep + li + j] = brk[j]
    BY <2>4, <2>5, <2>6, <2>8
  <2> USE DEF s, t
  <2> QED BY <2>7, <2>10 DEF ep, ei, em, li
<1> QED BY <1>7, <1>8

\* All lines are where they belong, in the bytes of any number of them.
LEMMA PlacesHold ==
  ASSUME IsText
  PROVE  \A n \in Nat : n <= Len(lines) => Places(First(n), n)
<1> DEFINE S == {n \in Nat : n <= Len(lines) => Places(First(n), n)}
<1>0. Len(lines) \in Nat
  BY LenProperties
<1>1. 0 \in S
  <2>1. \A i \in 1..0 : FALSE
    OBVIOUS
  <2>2. Places(First(0), 0)
    BY <2>1 DEF Places
  <2> QED BY <2>2
<1>2. ASSUME NEW n \in Nat, n \in S PROVE n + 1 \in S
  <2> SUFFICES ASSUME n + 1 <= Len(lines) PROVE Places(First(n + 1), n + 1)
    OBVIOUS
  <2>1. n < Len(lines) /\ n <= Len(lines)
    BY <1>0
  <2> QED BY <1>2, <2>1, PlacesMore
<1> HIDE DEF S
<1>3. \A n \in Nat : n \in S
  BY <1>1, <1>2, Induction
<1> QED BY <1>3 DEF S

-----------------------------------------------------------------------------
(* What a line can be *)

AllLines == ChatLines \cup ResponsesLines

\* A document in one line, written out.
LEMMA WholeIs ==
  ASSUME NEW k
  PROVE  Whole(k) = <<Data, <<k, 1>>, <<k, 2>>>>
<1> DEFINE A == {Data, <<k, 1>>, <<k, 2>>}
           d == <<Data>>
           t == <<<<k, 1>>, <<k, 2>>>>
           w == <<Data, <<k, 1>>, <<k, 2>>>>
<1>1. d \in Seq(A) /\ Len(d) = 1 /\ d[1] = Data
  OBVIOUS
<1>2. t \in Seq(A) /\ Len(t) = 2 /\ t[1] = <<k, 1>> /\ t[2] = <<k, 2>>
  OBVIOUS
<1>3. w \in Seq(A) /\ Len(w) = 3 /\ w[1] = Data /\ w[2] = <<k, 1>> /\ w[3] = <<k, 2>>
  <2>1. w \in Seq(A)
    OBVIOUS
  <2>2. Len(w) = 3
    OBVIOUS
  <2>3. w[1] = Data /\ w[2] = <<k, 1>> /\ w[3] = <<k, 2>>
    OBVIOUS
  <2> QED BY <2>1, <2>2, <2>3
<1>4. Whole(k) = d \o t
  BY DEF Whole, Document
<1> HIDE DEF d, t, w, A
<1>5. /\ d \o t \in Seq(A) /\ Len(d \o t) = 3
      /\ \A i \in 1..3 : (d \o t)[i] = IF i <= 1 THEN d[i] ELSE t[i - 1]
  <2>1. /\ d \o t \in Seq(A)
        /\ Len(d \o t) = Len(d) + Len(t)
        /\ \A i \in 1..(Len(d) + Len(t)) :
             (d \o t)[i] = IF i <= Len(d) THEN d[i] ELSE t[i - Len(d)]
    BY <1>1, <1>2, ConcatProperties, Zenon
  <2> QED BY <1>1, <1>2, <2>1
<1>6. \A i \in 1..3 : (d \o t)[i] = w[i]
  <2>1. 1 \in 1..3 /\ 2 \in 1..3 /\ 3 \in 1..3
    OBVIOUS
  <2>2. (d \o t)[1] = d[1] /\ (d \o t)[2] = t[1] /\ (d \o t)[3] = t[2]
    BY <1>5, <2>1
  <2>3. \A i \in 1..3 : i = 1 \/ i = 2 \/ i = 3
    OBVIOUS
  <2> QED BY <1>1, <1>2, <1>3, <2>2, <2>3
<1> QED BY <1>3, <1>4, <1>5, <1>6, SeqEqual DEF w

\* The line that is too long is longer than MaxLine, and is a data line of text.
LEMMA LongIs ==
  /\ Long \in Seq({Data, Text}) /\ Len(Long) = MaxLine + 1
  /\ \A j \in 1..(MaxLine + 1) : Long[j] \in {Data, Text}
<1> DEFINE t == [i \in 1..MaxLine |-> Text]
           d == <<Data>>
<1>1. t \in Seq({Data, Text}) /\ Len(t) = MaxLine /\ \A i \in 1..MaxLine : t[i] = Text
  BY IsASeq DEF LineAssumption
<1>2. d \in Seq({Data, Text}) /\ Len(d) = 1 /\ d[1] = Data
  OBVIOUS
<1> HIDE DEF t, d
<1>3. /\ d \o t \in Seq({Data, Text}) /\ Len(d \o t) = MaxLine + 1
      /\ \A i \in 1..(1 + MaxLine) : (d \o t)[i] = IF i <= 1 THEN d[i] ELSE t[i - 1]
  BY <1>1, <1>2, ConcatProperties DEF LineAssumption
<1>4. \A j \in 1..(MaxLine + 1) : (d \o t)[j] \in {Data, Text}
  <2> TAKE j \in 1..(MaxLine + 1)
  <2>1. CASE j = 1
    BY <1>2, <1>3, <2>1 DEF LineAssumption
  <2>2. CASE j # 1
    <3>1. j - 1 \in 1..MaxLine /\ ~(j <= 1) /\ j \in 1..(1 + MaxLine)
      BY <2>2 DEF LineAssumption
    <3> QED BY <1>1, <1>3, <3>1
  <2> QED BY <2>1, <2>2
<1> QED BY <1>3, <1>4 DEF Long, t, d

\* Every kind of line but the last is short and known.
LEMMA LineKinds ==
  ASSUME NEW l \in AllLines
  PROVE  \/ \E k \in Kinds : l = Whole(k)
         \/ l = FirstHalf \/ l = SecondHalf \/ l = <<>> \/ l = <<Text>> \/ l = Long
BY DEF AllLines, ChatLines, ResponsesLines, Kinds

\* What a line consists of, and that there is no break in it.
LEMMA LineAtoms ==
  ASSUME NEW l \in AllLines
  PROVE  /\ l \in Seq(Atoms) /\ Len(l) \in Nat
         /\ \A j \in 1..Len(l) : l[j] # CR /\ l[j] # LF
<1>1. /\ Data \in Atoms /\ Text \in Atoms
      /\ \A k \in Kinds : <<k, 1>> \in Atoms /\ <<k, 2>> \in Atoms
      /\ Data # CR /\ Data # LF /\ Text # CR /\ Text # LF /\ "usage" \in Kinds
      /\ \A k : <<k, 1>> # CR /\ <<k, 1>> # LF /\ <<k, 2>> # CR /\ <<k, 2>> # LF
  BY DEF Atoms, Data, Text, CR, LF, Kinds
<1>2. CASE \E k \in Kinds : l = Whole(k)
  <2>1. PICK k \in Kinds : l = <<Data, <<k, 1>>, <<k, 2>>>>
    BY <1>2, WholeIs
  <2> DEFINE a == <<k, 1>>  b == <<k, 2>>
  <2>2. /\ Data \in Atoms /\ a \in Atoms /\ b \in Atoms
        /\ \A x \in {Data, a, b} : x # CR /\ x # LF
    BY <1>1
  <2>3. l = <<Data, a, b>>
    BY <2>1
  <2> HIDE DEF a, b
  <2>4. l \in Seq(Atoms) /\ Len(l) = 3 /\ l[1] = Data /\ l[2] = a /\ l[3] = b
    BY <2>2, <2>3
  <2>5. \A j \in 1..3 : j = 1 \/ j = 2 \/ j = 3
    OBVIOUS
  <2> QED BY <2>2, <2>4, <2>5
<1>3. CASE l = FirstHalf \/ l = SecondHalf
  <2>1. PICK x \in {<<"usage", 1>>, <<"usage", 2>>} : l = <<Data, x>>
    BY <1>3 DEF FirstHalf, SecondHalf
  <2>2. x \in Atoms /\ x # CR /\ x # LF
    BY <1>1
  <2>3. l \in Seq(Atoms) /\ Len(l) = 2 /\ l[1] = Data /\ l[2] = x
    BY <1>1, <2>1, <2>2
  <2>4. \A j \in 1..2 : j = 1 \/ j = 2
    OBVIOUS
  <2> QED BY <1>1, <2>2, <2>3, <2>4
<1>4. CASE l = <<>>
  BY <1>4
<1>5. CASE l = <<Text>>
  BY <1>1, <1>5
<1>6. CASE l = Long
  <2>1. {Data, Text} \subseteq Atoms
    BY <1>1
  <2>2. l \in Seq(Atoms)
    BY <1>6, <2>1, LongIs, SeqMonotonic
  <2> QED BY <1>1, <1>6, <2>2, LongIs DEF LineAssumption
<1> QED BY <1>2, <1>3, <1>4, <1>5, <1>6, LineKinds

\* A document in pieces is not in a responses stream, for neither are its atoms.
ResponsesAtoms == Atoms \ {<<"usage", 1>>, <<"usage", 2>>}
\* The lines of a responses stream have no atom of a chat chunk with usage.
LEMMA ResponsesLineAtoms ==
  ASSUME NEW l \in ResponsesLines
  PROVE  l \in Seq(ResponsesAtoms)
<1>1. PICK k \in ResponsesKinds : l = <<Data, <<k, 1>>, <<k, 2>>>>
  BY WholeIs DEF ResponsesLines
<1>2. k \in Kinds /\ k # "usage"
  BY <1>1 DEF ResponsesKinds, Kinds
<1>3. /\ Data \in ResponsesAtoms
      /\ <<k, 1>> \in ResponsesAtoms /\ <<k, 2>> \in ResponsesAtoms
  BY <1>2 DEF ResponsesAtoms, Atoms, Data
<1> QED BY <1>1, <1>3

\* The break consists of one or two bytes.
LEMMA BreakAtoms ==
  ASSUME NEW b \in Breaks
  PROVE  /\ b \in Seq(Atoms) /\ b \in Seq(ResponsesAtoms) /\ Len(b) \in {1, 2}
         /\ b[1] \in {CR, LF} /\ (Len(b) = 2 => b = <<CR, LF>>)
         /\ Len(b) = 2 \/ b = <<b[1]>>
<1>1. CR \in Atoms /\ LF \in Atoms /\ CR \in ResponsesAtoms /\ LF \in ResponsesAtoms
  BY DEF Atoms, CR, LF, ResponsesAtoms
<1>2. b = <<LF>> \/ b = <<CR>> \/ b = <<CR, LF>>
  BY DEF Breaks
<1>3. CASE b = <<LF>> \/ b = <<CR>>
  <2>1. PICK x \in {CR, LF} : b = <<x>>
    BY <1>3
  <2>2. Len(b) = 1 /\ b[1] = x /\ b \in Seq(Atoms) /\ b \in Seq(ResponsesAtoms)
    BY <1>1, <2>1
  <2> QED BY <2>1, <2>2
<1>4. CASE b = <<CR, LF>>
  <2>1. Len(b) = 2 /\ b[1] = CR /\ b \in Seq(Atoms) /\ b \in Seq(ResponsesAtoms)
    BY <1>1, <1>4
  <2> QED BY <1>4, <2>1
<1> QED BY <1>2, <1>3, <1>4

\* What the stream is, from its beginning on.
StaticInv ==
  /\ profile \in {"chat", "responses", "compressed"}
  /\ lines \in Seq(AllLines) /\ brk \in Breaks
  /\ profile = "responses" => lines \in Seq(ResponsesLines)
  /\ profile = "chat" => lines \in Seq(ChatLines)
  /\ stream \in Seq(Atoms)
  /\ profile = "responses" => stream \in Seq(ResponsesAtoms)
  /\ stream = Bytes(lines, brk, TRUE) \/ stream = Bytes(lines, brk, FALSE)

\* A bounded sequence is a sequence.
LEMMA UpToIsSeq ==
  ASSUME NEW S, NEW n \in Nat, NEW s \in SeqsUpTo(S, n)
  PROVE  s \in Seq(S)
<1>1. PICK m \in 0..n : s \in [1..m -> S]
  BY DEF SeqsUpTo
<1>2. s = [i \in 1..m |-> s[i]] /\ \A i \in 1..m : s[i] \in S
  BY <1>1
<1> QED BY <1>1, <1>2, IsASeq

\* The streams of Init.
LEMMA StaticInit == Init => StaticInv
<1> SUFFICES ASSUME Init PROVE StaticInv
  OBVIOUS
<1>1. /\ profile \in {"chat", "responses", "compressed"}
      /\ profile = "responses" => lines \in Seq(ResponsesLines)
      /\ profile = "chat" => lines \in Seq(ChatLines)
  BY UpToIsSeq DEF Init, LineAssumption
<1>2. lines \in Seq(AllLines)
  <2>1. CASE profile = "chat"
    BY <1>1, <2>1, SeqMonotonic DEF AllLines
  <2>2. CASE profile = "responses"
    BY <1>1, <2>2, SeqMonotonic DEF AllLines
  <2>3. CASE profile = "compressed"
    <3>1. lines = <<Whole("usage")>> /\ Whole("usage") \in AllLines
      BY <2>3 DEF Init, AllLines, ChatLines
    <3> QED BY <3>1
  <2> QED BY <1>1, <2>1, <2>2, <2>3
<1>3. brk \in Breaks /\ brk \in Seq(Atoms) /\ brk \in Seq(ResponsesAtoms)
  BY BreakAtoms DEF Init
<1>4. stream = Bytes(lines, brk, TRUE) \/ stream = Bytes(lines, brk, FALSE)
  BY DEF Init
<1>5. lines \in Seq(Seq(Atoms))
  BY <1>2, LineAtoms, SeqMonotonic
<1>6. stream \in Seq(Atoms)
  BY <1>3, <1>4, <1>5, BytesType
<1>7. ASSUME profile = "responses" PROVE stream \in Seq(ResponsesAtoms)
  <2>1. lines \in Seq(Seq(ResponsesAtoms))
    BY <1>1, <1>7, ResponsesLineAtoms, SeqMonotonic
  <2> QED BY <1>3, <1>4, <2>1, BytesType
<1> QED BY <1>1, <1>2, <1>3, <1>4, <1>6, <1>7 DEF StaticInv

\* Line n + 1 is in the stream after the first n, and so is its break, unless the
\* stream ends before it.
LaidLine(n) ==
  /\ lines[n + 1] \in AllLines
  /\ End(n + 1) = End(n) + Len(lines[n + 1]) + Len(brk)
  /\ End(n) + Len(lines[n + 1]) <= Len(stream)
  /\ \A j \in 1..Len(lines[n + 1]) : stream[End(n) + j] = lines[n + 1][j]
  /\ End(n + 1) <= Len(stream) =>
       \A j \in 1..Len(brk) : stream[End(n) + Len(lines[n + 1]) + j] = brk[j]
  /\ n + 1 < Len(lines) => End(n + 1) <= Len(stream)

Laid ==
  /\ Len(lines) \in Nat /\ Len(stream) \in Nat /\ End(0) = 0
  /\ \A n \in 0..Len(lines) : End(n) \in Nat
  /\ \A n \in 0..Len(lines) : n < Len(lines) => LaidLine(n)
  /\ \/ Len(stream) = End(Len(lines))
     \/ /\ Len(lines) > 0
        /\ Len(stream) = End(Len(lines) - 1) + Len(lines[Len(lines)])
        /\ stream = First(Len(lines) - 1) \o lines[Len(lines)]
  /\ \A m, n \in 0..Len(lines) : m <= n => End(m) <= End(n)

\* The lines as TypeOK knows them.
LEMMA TextFacts ==
  ASSUME StaticInv
  PROVE  /\ IsText /\ Len(lines) \in Nat /\ Len(stream) \in Nat /\ Len(brk) \in {1, 2}
         /\ \A i \in 1..Len(lines) : lines[i] \in AllLines /\ Len(lines[i]) \in Nat
<1>1. lines \in Seq(AllLines) /\ brk \in Breaks /\ stream \in Seq(Atoms)
  BY DEF StaticInv
<1>2. lines \in Seq(Seq(Atoms))
  BY <1>1, LineAtoms, SeqMonotonic
<1>3. brk \in Seq(Atoms) /\ Len(brk) \in {1, 2}
  BY <1>1, BreakAtoms
<1>4. \A i \in 1..Len(lines) : lines[i] \in AllLines
  BY <1>1, ElementOfSeq
<1>5. \A i \in 1..Len(lines) : Len(lines[i]) \in Nat
  BY <1>4, LineAtoms
<1> QED BY <1>1, <1>2, <1>3, <1>4, <1>5, LenProperties DEF IsText

\* The lengths of the lines, one line at a time.
LEMMA EndMore ==
  ASSUME IsText
  PROVE  /\ \A n \in Nat : n <= Len(lines) => End(n) \in Nat
         /\ \A n \in Nat : n < Len(lines) => End(n + 1) = End(n) + Len(lines[n + 1]) + Len(brk)
<1>0. End(0) = 0
  BY FirstNone DEF End
<1>1. ASSUME NEW n \in Nat, n < Len(lines)
      PROVE /\ End(n) \in Nat /\ End(n + 1) \in Nat
            /\ End(n + 1) = End(n) + Len(lines[n + 1]) + Len(brk)
  BY <1>1, FirstLength DEF End
<1>2. Len(lines) \in Nat
  BY LenProperties DEF IsText
<1>3. ASSUME NEW n \in Nat, n <= Len(lines) PROVE End(n) \in Nat
  <2>1. CASE n = 0
    BY <1>0, <2>1
  <2>2. CASE n # 0
    <3> DEFINE k == n - 1
    <3>1. k \in Nat /\ k < Len(lines) /\ k + 1 = n
      BY <1>2, <1>3, <2>2
    <3> HIDE DEF k
    <3>2. End(k + 1) \in Nat
      BY <1>1, <3>1
    <3> QED BY <3>1, <3>2
  <2> QED BY <2>1, <2>2
<1> QED BY <1>1, <1>3

\* The whole stream is its lines, the last one perhaps without its break.
LEMMA WholeStream ==
  ASSUME StaticInv
  PROVE  \/ stream = First(Len(lines))
         \/ Len(lines) > 0 /\ stream = First(Len(lines) - 1) \o lines[Len(lines)]
<1> DEFINE L == Len(lines)
<1>1. IsText /\ L \in Nat
  BY TextFacts
<1>2. SubSeq(lines, 1, L) = lines
  BY <1>1, SubSeqFull DEF IsText
<1>3. CASE stream = Bytes(lines, brk, TRUE)
  BY <1>2, <1>3 DEF First
<1>4. CASE stream = Bytes(lines, brk, FALSE) /\ L = 0
  <2> DEFINE p == [i \in DOMAIN lines |-> IF i < Len(lines) \/ FALSE THEN lines[i] \o brk
                                          ELSE lines[i]]
  <2>1. lines = <<>> /\ DOMAIN lines = {}
    BY <1>1, <1>4, EmptySeq DEF IsText
  <2>2. stream = FlattenSeq(p)
    BY <1>4 DEF Bytes
  <2>3. p = <<>>
    BY <2>1
  <2>4. FlattenSeq(<<>>) = <<>>
    BY DEF FlattenSeq
  <2> HIDE DEF p
  <2>5. stream = First(0)
    BY <2>2, <2>3, <2>4, FirstNone
  <2> QED BY <1>4, <2>5
<1>5. CASE stream = Bytes(lines, brk, FALSE) /\ L # 0
  <2> DEFINE k == L - 1
  <2>1. k \in Nat /\ k < L /\ k + 1 = L
    BY <1>1, <1>5
  <2> HIDE DEF k
  <2>2. Bytes(SubSeq(lines, 1, k + 1), brk, FALSE) = First(k) \o lines[k + 1]
    BY <1>1, <2>1, BytesMore
  <2>3. SubSeq(lines, 1, k + 1) = lines /\ lines[k + 1] = lines[Len(lines)]
    BY <1>2, <2>1
  <2>4. stream = First(k) \o lines[Len(lines)]
    BY <1>5, <2>2, <2>3
  <2>5. L > 0
    BY <1>1, <1>5
  <2> QED BY <2>4, <2>5 DEF k
<1> QED BY <1>3, <1>4, <1>5 DEF StaticInv

\* Lines further on end further on.
LEMMA EndGrows ==
  ASSUME IsText
  PROVE  \A m, n \in 0..Len(lines) : m <= n => End(m) <= End(n)
<1>0. Len(lines) \in Nat
  BY LenProperties DEF IsText
<1> SUFFICES ASSUME NEW m \in 0..Len(lines), NEW n \in 0..Len(lines), m <= n
    PROVE End(m) <= End(n)
  OBVIOUS
<1>1. m \in Nat /\ n \in Nat /\ n <= Len(lines) /\ End(n) \in Nat /\ End(m) \in Nat
  BY <1>0, EndMore
<1>2. CASE m = 0
  <2>1. End(0) = 0
    BY FirstNone DEF End
  <2> QED BY <1>1, <1>2, <2>1
<1>3. CASE m # 0
  <2>1. m \in 1..n
    BY <1>1, <1>3
  <2>2. Places(First(n), n)
    BY <1>1, PlacesHold
  <2> QED BY <2>1, <2>2 DEF Places, End
<1> QED BY <1>2, <1>3

\* How the lines lie in the stream.
LEMMA Layout ==
  ASSUME StaticInv
  PROVE  Laid
<1> DEFINE L == Len(lines)
<1>1. /\ IsText /\ L \in Nat /\ Len(stream) \in Nat /\ Len(brk) \in Nat /\ Len(brk) > 0
      /\ \A i \in 1..L : lines[i] \in AllLines /\ Len(lines[i]) \in Nat
  <2>1. /\ IsText /\ Len(lines) \in Nat /\ Len(stream) \in Nat /\ Len(brk) \in {1, 2}
        /\ \A i \in 1..Len(lines) : lines[i] \in AllLines /\ Len(lines[i]) \in Nat
    BY TextFacts
  <2>2. Len(brk) \in Nat /\ Len(brk) > 0
    <3>1. Len(brk) \in {1, 2}
      BY <2>1
    <3> QED BY <3>1
  <2> QED BY <2>1, <2>2
<1>2. End(0) = 0
  BY FirstNone DEF End
<1>3. \A n \in 0..L : End(n) \in Nat
  BY <1>1, EndMore
<1>4. \A m, n \in 0..L : m <= n => End(m) <= End(n)
  BY <1>1, EndGrows
<1>5. ASSUME NEW n \in 0..L, n < L
      PROVE /\ n \in Nat /\ n + 1 \in 0..L /\ n + 1 \in 1..L /\ (n + 1) - 1 = n
            /\ lines[n + 1] \in AllLines /\ Len(lines[n + 1]) \in Nat
            /\ End(n) \in Nat /\ End(n + 1) \in Nat /\ End(n + 1) <= End(L)
            /\ End(n + 1) = End(n) + Len(lines[n + 1]) + Len(brk)
  <2>1. n \in Nat /\ n + 1 \in 0..L /\ n + 1 \in 1..L /\ (n + 1) - 1 = n /\ L \in 0..L /\ n + 1 <= L
    BY <1>1, <1>5
  <2>2. End(n) \in Nat /\ End(n + 1) \in Nat /\ End(n + 1) <= End(L)
    BY <1>3, <1>4, <2>1
  <2>3. End(n + 1) = End(n) + Len(lines[n + 1]) + Len(brk)
    BY <1>1, <1>5, <2>1, EndMore
  <2> QED BY <1>1, <2>1, <2>2, <2>3
<1>6. CASE stream = First(L)
  <2>1. Len(stream) = End(L)
    BY <1>6 DEF End
  <2>2. Places(stream, L)
    BY <1>1, <1>6, PlacesHold
  <2>3. ASSUME NEW n \in 0..L, n < L PROVE LaidLine(n)
    <3>1. /\ \A j \in 1..Len(lines[n + 1]) : stream[End(n) + j] = lines[n + 1][j]
          /\ \A j \in 1..Len(brk) : stream[End(n) + Len(lines[n + 1]) + j] = brk[j]
      <4> DEFINE i == n + 1
      <4>1. i \in 1..L /\ i - 1 = n
        BY <1>5, <2>3
      <4> HIDE DEF i
      <4>2. /\ \A j \in 1..Len(lines[i]) : stream[End(i - 1) + j] = lines[i][j]
            /\ \A j \in 1..Len(brk) : stream[End(i - 1) + Len(lines[i]) + j] = brk[j]
        BY <2>2, <4>1 DEF Places, End
      <4> QED BY <4>1, <4>2 DEF i
    <3> DEFINE e == End(n)  f == End(n + 1)  k == Len(lines[n + 1])
    <3>2. e + k <= Len(stream) /\ f <= Len(stream)
      <4>1. e \in Nat /\ f \in Nat /\ k \in Nat /\ f <= Len(stream) /\ f = e + k + Len(brk)
        BY <1>5, <2>1, <2>3
      <4> HIDE DEF e, f, k
      <4> QED BY <1>1, <4>1
    <3> QED BY <1>5, <2>3, <3>1, <3>2 DEF LaidLine
  <2> QED BY <1>1, <1>2, <1>3, <1>4, <2>1, <2>3 DEF Laid
<1>7. CASE L > 0 /\ stream = First(L - 1) \o lines[L]
  <2> DEFINE k == L - 1
             s == First(k)
             l == lines[L]
  <2>1. k \in 0..L /\ k \in Nat /\ k + 1 = L /\ k <= L /\ k < L
    BY <1>1, <1>7
  <2> HIDE DEF k
  <2>2. /\ s \in Seq(Atoms) /\ Len(s) = End(k) /\ End(k) \in Nat
        /\ l \in Seq(Atoms) /\ Len(l) \in Nat
    <3>1. First(k) \in Seq(Atoms) /\ lines[k + 1] \in Seq(Atoms) /\ Len(lines[k + 1]) \in Nat
      BY <1>1, <2>1, FirstLength
    <3> QED BY <1>3, <2>1, <3>1 DEF End
  <2>3. stream = s \o l
    BY <1>7 DEF k
  <2> HIDE DEF s, l
  <2>4. /\ Len(stream) = End(k) + Len(l)
        /\ \A i \in 1..(End(k) + Len(l)) : stream[i] = IF i <= End(k) THEN s[i] ELSE l[i - End(k)]
    BY <2>2, <2>3, ConcatProperties
  <2>5. Places(s, k)
    BY <1>1, <2>1, PlacesHold DEF s
  <2>6. ASSUME NEW n \in 0..L, n < L PROVE LaidLine(n)
    <3> DEFINE e == End(n)  f == End(n + 1)  w == Len(lines[n + 1])
    <3>1. /\ e \in Nat /\ f \in Nat /\ w \in Nat /\ f = e + w + Len(brk)
          /\ n + 1 \in 0..L /\ n + 1 \in 1..L /\ lines[n + 1] \in AllLines
          /\ n \in Nat
      BY <1>5, <2>6
    <3>2. CASE n + 1 = L
      <4>1. n = k /\ e = End(k) /\ lines[n + 1] = l /\ w = Len(l)
        BY <2>1, <3>2, <3>1 DEF l
      <4>2. e + w = Len(stream) /\ ~(f <= Len(stream)) /\ ~(n + 1 < L)
        <5> HIDE DEF e, f, w
        <5> QED BY <1>1, <2>2, <2>4, <3>1, <3>2, <4>1
      <4>3. \A j \in 1..w : stream[e + j] = l[j]
        <5> HIDE DEF e, w
        <5> TAKE j \in 1..w
        <5>1. e + j \in 1..(End(k) + Len(l)) /\ ~(e + j <= End(k)) /\ (e + j) - End(k) = j
          BY <2>2, <3>1, <4>1
        <5> QED BY <2>4, <5>1
      <4> QED BY <1>1, <3>1, <4>1, <4>2, <4>3 DEF LaidLine
    <3>3. CASE n + 1 # L
      <4>1. n + 1 \in 1..k /\ n + 1 <= k /\ (n + 1) - 1 = n
        BY <2>1, <2>6, <3>1, <3>3
      <4>2. f <= End(k)
        BY <1>4, <2>1, <3>1, <4>1
      <4>3. /\ \A j \in 1..w : s[e + j] = lines[n + 1][j]
            /\ \A j \in 1..Len(brk) : s[e + w + j] = brk[j]
        <5> DEFINE i == n + 1
        <5>1. i \in 1..k /\ i - 1 = n
          BY <4>1
        <5> HIDE DEF i
        <5>2. /\ \A j \in 1..Len(lines[i]) : s[End(i - 1) + j] = lines[i][j]
              /\ \A j \in 1..Len(brk) : s[End(i - 1) + Len(lines[i]) + j] = brk[j]
          BY <2>5, <5>1 DEF Places, End
        <5> QED BY <5>1, <5>2 DEF i
      <4> HIDE DEF e, f, w
      <4>4. \A i \in 1..End(k) : stream[i] = s[i]
        BY <2>2, <2>4
      <4>5. \A j \in 1..w : e + j \in 1..End(k)
        BY <1>1, <2>2, <3>1, <4>2
      <4>6. \A j \in 1..Len(brk) : e + w + j \in 1..End(k)
        BY <1>1, <2>2, <3>1, <4>2
      <4>7. /\ \A j \in 1..w : stream[e + j] = lines[n + 1][j]
            /\ \A j \in 1..Len(brk) : stream[e + w + j] = brk[j]
        BY <4>3, <4>4, <4>5, <4>6
      <4>8. e + w <= Len(stream) /\ f <= Len(stream)
        BY <1>1, <2>2, <2>4, <3>1, <4>2
      <4> QED BY <3>1, <4>7, <4>8 DEF LaidLine, e, f, w
    <3> QED BY <3>2, <3>3
  <2>7. /\ Len(stream) = End(L - 1) + Len(lines[L])
        /\ stream = First(L - 1) \o lines[L]
    BY <1>7, <2>4 DEF k, l
  <2> QED BY <1>1, <1>2, <1>3, <1>4, <1>7, <2>6, <2>7 DEF Laid
<1> QED BY <1>6, <1>7, WholeStream

-----------------------------------------------------------------------------
(* The assembler *)

\* An assembler holds less than a line's worth of payloads.
AsmOK(a) ==
  /\ a = [data |-> a.data, size |-> a.size, overflow |-> a.overflow]
  /\ a.data \in Seq(Atoms) /\ a.size \in 0..MaxLine /\ a.overflow \in BOOLEAN

\* None or one payload.
Payloads(out) == out = <<>> \/ \E p \in Seq(Atoms) : out = <<p>>

\* A document is not empty, and what it is called is its kind.
LEMMA DocumentKind ==
  ASSUME NEW k \in Kinds
  PROVE  /\ Document(k) # <<>> /\ Document(k) \in Seq(Atoms) /\ Len(Document(k)) = 2
         /\ Document(k)[1] = <<k, 1>> /\ Document(k)[2] = <<k, 2>>
         /\ IsJSON(Document(k)) /\ Kind(Document(k)) = k
<1>1. <<k, 1>> \in Atoms /\ <<k, 2>> \in Atoms
  BY DEF Atoms
<1> DEFINE a == <<k, 1>>  b == <<k, 2>>  d == <<a, b>>
<1>2. a[1] = k
  OBVIOUS
<1>3. Document(k) = d
  BY DEF Document
<1>4. IsJSON(Document(k))
  BY DEF IsJSON
<1> HIDE DEF a, b
<1>5. d \in Seq(Atoms) /\ Len(d) = 2 /\ d[1] = a /\ d[2] = b /\ d # <<>>
  BY <1>1 DEF a, b
<1>6. Kind(Document(k)) = k
  BY <1>2, <1>3, <1>4, <1>5 DEF Kind
<1> QED BY <1>3, <1>4, <1>5, <1>6 DEF a, b

\* An empty assembler.
LEMMA EmptyOK == AsmOK(EmptyAssembler)
<1>1. <<>> \in Seq(Atoms) /\ 0 \in 0..MaxLine
  BY DEF LineAssumption
<1> QED BY <1>1 DEF AsmOK, EmptyAssembler

\* sseEventAssembler.flush.
LEMMA FlushOK ==
  ASSUME NEW a, AsmOK(a)
  PROVE  /\ Flush(a).asm = EmptyAssembler
         /\ Flush(a).out = IF a.overflow \/ a.data = <<>> THEN <<>> ELSE <<a.data>>
         /\ Payloads(Flush(a).out)
BY DEF Flush, AsmOK, Payloads

\* What addLine adds to what is kept, and what it passes on.
LEMMA KeepIs ==
  ASSUME NEW a, NEW p, NEW out
  PROVE  /\ Keep(a, p, out).out = out
         /\ Keep(a, p, out).asm =
              IF a.size + Len(p) + 1 > MaxLine
                THEN [data |-> <<>>, size |-> 0, overflow |-> TRUE]
                ELSE [data |-> a.data \o p, size |-> a.size + Len(p) + 1,
                      overflow |-> a.overflow]
BY DEF Keep

\* It stays within its bounds.
LEMMA KeepOK ==
  ASSUME NEW a, AsmOK(a), NEW p \in Seq(Atoms), NEW out
  PROVE  AsmOK(Keep(a, p, out).asm)
<1> DEFINE size == a.size + Len(p) + 1
           k == Keep(a, p, out).asm
<1>1. Len(p) \in Nat /\ a.size \in Nat /\ a.data \in Seq(Atoms) /\ a.overflow \in BOOLEAN
  BY LenProperties DEF AsmOK, LineAssumption
<1>2. a.data \o p \in Seq(Atoms)
  BY <1>1, ConcatProperties
<1>3. k = IF size > MaxLine
            THEN [data |-> <<>>, size |-> 0, overflow |-> TRUE]
            ELSE [data |-> a.data \o p, size |-> size, overflow |-> a.overflow]
  BY KeepIs
<1>4. size \in Nat
  BY <1>1
<1> SUFFICES AsmOK(k)
  OBVIOUS
<1> HIDE DEF size, k
<1>5. CASE size > MaxLine
  <2>1. <<>> \in Seq(Atoms) /\ 0 \in 0..MaxLine
    BY DEF LineAssumption
  <2> QED BY <1>3, <1>5, <2>1 DEF AsmOK
<1>6. CASE ~(size > MaxLine)
  <2>1. size \in 0..MaxLine
    BY <1>4, <1>6 DEF LineAssumption
  <2> QED BY <1>1, <1>2, <1>3, <1>6, <2>1 DEF AsmOK
<1> QED BY <1>5, <1>6

\* The ways of addLine.
AddLineWays(a, line, r) ==
  \/ line = <<>> /\ r = Flush(a)
  \/ /\ line # <<>> /\ (line[1] # Data \/ a.overflow)
     /\ r = [asm |-> a, out |-> <<>>]
  \/ /\ line # <<>> /\ line[1] = Data /\ ~a.overflow /\ IsJSON(a.data)
     /\ r = Keep(EmptyAssembler, Tail(line), <<a.data>>)
  \/ /\ line # <<>> /\ line[1] = Data /\ ~a.overflow /\ ~IsJSON(a.data) /\ IsJSON(Tail(line))
     /\ r = [asm |-> a, out |-> <<Tail(line)>>]
  \/ /\ line # <<>> /\ line[1] = Data /\ ~a.overflow /\ ~IsJSON(a.data) /\ ~IsJSON(Tail(line))
     /\ r = Keep(a, Tail(line), <<>>)

\* AddLine does one of these.
LEMMA AddLineIs ==
  ASSUME NEW a, AsmOK(a), NEW line \in Seq(Atoms)
  PROVE  AddLineWays(a, line, AddLine(a, line))
<1>1. CASE line = <<>>
  BY <1>1 DEF AddLine, AddLineWays
<1>2. CASE line # <<>> /\ (line[1] # Data \/ a.overflow)
  BY <1>2 DEF AddLine, AddLineWays
<1>3. CASE line # <<>> /\ line[1] = Data /\ ~a.overflow /\ IsJSON(a.data)
  <2>1. a.data # <<>>
    BY <1>3, DocumentKind DEF IsJSON
  <2>2. Flush(a).out = <<a.data>>
    BY <1>3, <2>1, FlushOK
  <2> QED BY <1>3, <2>2 DEF AddLine, AddLineWays
<1>4. CASE line # <<>> /\ line[1] = Data /\ ~a.overflow /\ ~IsJSON(a.data)
  BY <1>4 DEF AddLine, AddLineWays
<1> QED BY <1>1, <1>2, <1>3, <1>4

\* The rest of a line that is not empty.
LEMMA TailOK ==
  ASSUME NEW line \in Seq(Atoms), line # <<>>
  PROVE  /\ Tail(line) \in Seq(Atoms) /\ Len(Tail(line)) + 1 = Len(line)
         /\ \A x : Count(Tail(line), x) <= Count(line, x)
<1>1. Len(line) \in Nat /\ Len(line) > 0
  BY EmptySeq, LenProperties
<1>2. Tail(line) = SubSeq(line, 2, Len(line)) /\ Tail(line) \in Seq(Atoms) /\ Len(Tail(line)) + 1 = Len(line)
  BY <1>1, HeadTailProperties, TailIsSubSeq
<1>3. /\ line = SubSeq(line, 1, 1) \o Tail(line)
      /\ SubSeq(line, 1, 1) \in Seq(Atoms)
  <2> DEFINE n == Len(line)
  <2>1. 0 \in Nat /\ 1 \in Nat /\ n \in Nat /\ 0 <= 1 /\ 1 <= n /\ n <= Len(line)
    BY <1>1
  <2> HIDE DEF n
  <2>2. /\ SubSeq(line, 0 + 1, 1) \in Seq(Atoms)
        /\ SubSeq(line, 0 + 1, n) = SubSeq(line, 0 + 1, 1) \o SubSeq(line, 1 + 1, n)
    BY <2>1, SplitAt
  <2>3. SubSeq(line, 1, n) = line
    BY SubSeqFull DEF n
  <2> QED BY <1>2, <2>2, <2>3 DEF n
<1>4. ASSUME NEW x PROVE Count(Tail(line), x) <= Count(line, x)
  <2>1. Count(SubSeq(line, 1, 1) \o Tail(line), x) = Count(SubSeq(line, 1, 1), x) + Count(Tail(line), x)
    <3>1. Tail(line) \in Seq(Atoms) /\ SubSeq(line, 1, 1) \in Seq(Atoms)
      BY <1>2, <1>3
    <3> QED BY <3>1, CountConcat
  <2>2. Count(SubSeq(line, 1, 1), x) \in Nat /\ Count(Tail(line), x) \in Nat
    BY <1>2, <1>3, CountType
  <2>3. Count(line, x) = Count(SubSeq(line, 1, 1), x) + Count(Tail(line), x)
    BY <1>3, <2>1, Zenon
  <2> QED BY <2>2, <2>3
<1> QED BY <1>2, <1>4

\* addLine keeps the assembler within its bounds.
LEMMA AddLineOK ==
  ASSUME NEW a, AsmOK(a), NEW line \in Seq(Atoms)
  PROVE  AsmOK(AddLine(a, line).asm) /\ Payloads(AddLine(a, line).out)
<1> DEFINE r == AddLine(a, line)
<1>1. AddLineWays(a, line, r)
  BY AddLineIs
<1> SUFFICES AsmOK(r.asm) /\ Payloads(r.out)
  OBVIOUS
<1> HIDE DEF r
<1>2. CASE line = <<>> /\ r = Flush(a)
  BY <1>2, FlushOK, EmptyOK
<1>3. CASE line # <<>>
  <2>1. Tail(line) \in Seq(Atoms)
    BY <1>3, TailOK
  <2>2. CASE r = [asm |-> a, out |-> <<>>]
    BY <2>2 DEF Payloads
  <2>3. CASE r = Keep(EmptyAssembler, Tail(line), <<a.data>>)
    <3> DEFINE q == Keep(EmptyAssembler, Tail(line), <<a.data>>)
    <3>2. AsmOK(q.asm) /\ q.out = <<a.data>>
      <4>1. AsmOK(q.asm)
        BY <2>1, KeepOK, EmptyOK
      <4> QED BY <4>1 DEF Keep
    <3>1. AsmOK(r.asm) /\ r.out = <<a.data>>
      BY <2>3, <3>2
    <3> QED BY <3>1 DEF Payloads, AsmOK
  <2>4. CASE r = [asm |-> a, out |-> <<Tail(line)>>]
    BY <2>1, <2>4 DEF Payloads
  <2>5. CASE r = Keep(a, Tail(line), <<>>)
    <3> DEFINE q == Keep(a, Tail(line), <<>>)
    <3>2. AsmOK(q.asm) /\ q.out = <<>>
      <4>1. AsmOK(q.asm)
        BY <2>1, KeepOK
      <4> QED BY <4>1 DEF Keep
    <3>1. AsmOK(r.asm) /\ r.out = <<>>
      BY <2>5, <3>2
    <3> QED BY <3>1 DEF Payloads
  <2> QED BY <1>1, <1>3, <2>2, <2>3, <2>4, <2>5 DEF AddLineWays
<1> QED BY <1>1, <1>2, <1>3 DEF AddLineWays

\* A sequence of one.
LEMMA CountOne ==
  ASSUME NEW a, NEW x
  PROVE  Count(<<a>>, x) = IF a = x THEN 1 ELSE 0
<1> DEFINE S == {i \in DOMAIN <<a>> : <<a>>[i] = x}
<1>1. S = IF a = x THEN {1} ELSE {}
  OBVIOUS
<1>2. Cardinality({1}) = 1 /\ Cardinality({}) = 0
  BY FS_EmptySet, FS_Singleton
<1> QED BY <1>1, <1>2 DEF Count

-----------------------------------------------------------------------------
(* The events *)

KindsOrBad == Kinds \cup {"bad"}

\* An event is called after the end of its document.
LEMMA KindOf ==
  ASSUME NEW p \in Seq(Atoms)
  PROVE  /\ Kind(p) \in KindsOrBad
         /\ \A k \in Kinds : Count(<<Kind(p)>>, k) <= Count(p, <<k, 2>>)
<1>1. CASE IsJSON(p)
  <2>1. PICK j \in Kinds : p = Document(j)
    BY <1>1 DEF IsJSON
  <2>2. Kind(p) = j /\ p[2] = <<j, 2>> /\ 2 \in 1..Len(p)
    BY <2>1, DocumentKind
  <2>3. ASSUME NEW k \in Kinds PROVE Count(<<Kind(p)>>, k) <= Count(p, <<k, 2>>)
    <3>1. Count(p, <<k, 2>>) \in Nat
      BY CountType
    <3>2. CASE k = j
      <4>1. Count(p, <<k, 2>>) # 0
        BY <2>2, <3>2, CountType
      <4>2. Count(<<Kind(p)>>, k) = 1
        BY <2>2, <3>2, CountOne
      <4> QED BY <3>1, <4>1, <4>2
    <3>3. CASE k # j
      <4>1. Count(<<Kind(p)>>, k) = 0
        BY <2>2, <3>3, CountOne
      <4> QED BY <3>1, <4>1
    <3> QED BY <3>2, <3>3
  <2> QED BY <2>2, <2>3 DEF KindsOrBad
<1>2. CASE ~IsJSON(p)
  <2>1. Kind(p) = "bad"
    BY <1>2 DEF Kind
  <2>2. ASSUME NEW k \in Kinds PROVE Count(<<Kind(p)>>, k) <= Count(p, <<k, 2>>)
    <3>1. k # "bad"
      BY DEF Kinds, ResponsesKinds
    <3>2. Count(<<Kind(p)>>, k) = 0
      BY <2>1, <3>1, CountOne
    <3>3. Count(p, <<k, 2>>) \in Nat
      BY CountType
    <3> QED BY <3>2, <3>3
  <2> QED BY <2>1, <2>2 DEF KindsOrBad
<1> QED BY <1>1, <1>2

\* Processing none or one payload.
LEMMA ProcessIs ==
  /\ Process(<<>>) = <<>>
  /\ \A p : Process(<<p>>) = <<Kind(p)>>
BY DEF Process

\* Events have known names.
LEMMA ProcessType ==
  ASSUME NEW out, Payloads(out)
  PROVE  Process(out) \in Seq(KindsOrBad)
<1>1. CASE out = <<>>
  <2>1. Process(out) = <<>>
    BY <1>1, ProcessIs
  <2>2. <<>> \in Seq(KindsOrBad)
    OBVIOUS
  <2> QED BY <2>1, <2>2
<1>2. CASE \E p \in Seq(Atoms) : out = <<p>>
  <2>1. PICK p \in Seq(Atoms) : out = <<p>>
    BY <1>2
  <2>2. Kind(p) \in KindsOrBad
    BY KindOf
  <2>3. Process(out) = <<Kind(p)>>
    BY <2>1, ProcessIs
  <2> QED BY <2>2, <2>3
<1> QED BY <1>1, <1>2 DEF Payloads

\* flush makes an event of nothing but what is kept.
LEMMA FlushCounts ==
  ASSUME NEW a, AsmOK(a), NEW k \in Kinds
  PROVE  /\ Count(Process(Flush(a).out), k) <= Count(a.data, <<k, 2>>)
         /\ Count(Process(Flush(a).out), k) \in Nat /\ Count(a.data, <<k, 2>>) \in Nat
         /\ Flush(a).asm.data = <<>>
<1>1. a.data \in Seq(Atoms)
  BY DEF AsmOK
<1>2. Count(a.data, <<k, 2>>) \in Nat
  BY <1>1, CountType
<1>3. Flush(a).asm.data = <<>>
  BY DEF Flush, EmptyAssembler
<1>4. CASE a.overflow \/ a.data = <<>>
  <2>1. Process(Flush(a).out) = <<>>
    BY <1>4, FlushOK, ProcessIs
  <2>2. Count(Process(Flush(a).out), k) = 0
    BY <2>1, CountEmpty
  <2> QED BY <1>2, <1>3, <2>2
<1>5. CASE ~(a.overflow \/ a.data = <<>>)
  <2>1. Process(Flush(a).out) = <<Kind(a.data)>>
    BY <1>5, FlushOK, ProcessIs
  <2>2. Count(<<Kind(a.data)>>, k) <= Count(a.data, <<k, 2>>)
    BY <1>1, KindOf
  <2>3. Process(Flush(a).out) \in Seq(KindsOrBad)
    BY FlushOK, ProcessType
  <2>4. Count(Process(Flush(a).out), k) \in Nat
    BY <2>3, CountType
  <2> QED BY <1>2, <1>3, <2>1, <2>2, <2>4
<1> QED BY <1>4, <1>5

\* What keep holds is what it held and the payload, or nothing.
LEMMA KeepCounts ==
  ASSUME NEW a, AsmOK(a), NEW p \in Seq(Atoms), NEW out, NEW x
  PROVE  /\ Count(Keep(a, p, out).asm.data, x) <= Count(a.data, x) + Count(p, x)
         /\ Count(Keep(a, p, out).asm.data, x) \in Nat
<1>1. a.data \in Seq(Atoms)
  BY DEF AsmOK
<1>2. Count(a.data, x) \in Nat /\ Count(p, x) \in Nat
  BY <1>1, CountType
<1>3. \/ Keep(a, p, out).asm.data = <<>>
      \/ Keep(a, p, out).asm.data = a.data \o p
  BY DEF Keep
<1>4. Count(a.data \o p, x) = Count(a.data, x) + Count(p, x)
  BY <1>1, CountConcat
<1>5. Count(<<>>, x) = 0
  BY CountEmpty
<1>6. CASE Keep(a, p, out).asm.data = <<>>
  <2>1. Count(Keep(a, p, out).asm.data, x) = 0
    BY <1>5, <1>6
  <2> QED BY <1>2, <2>1
<1>7. CASE Keep(a, p, out).asm.data = a.data \o p
  <2>1. Count(Keep(a, p, out).asm.data, x) = Count(a.data, x) + Count(p, x)
    BY <1>4, <1>7
  <2> QED BY <1>2, <2>1
<1> QED BY <1>3, <1>6, <1>7

\* Neither does addLine: an event or what is kept after it was kept before or
\* lies in the line.
LEMMA AddLineCounts ==
  ASSUME NEW a, AsmOK(a), NEW line \in Seq(Atoms), NEW k \in Kinds
  PROVE  /\ Count(Process(AddLine(a, line).out), k) + Count(AddLine(a, line).asm.data, <<k, 2>>)
              <= Count(a.data, <<k, 2>>) + Count(line, <<k, 2>>)
         /\ Count(Process(AddLine(a, line).out), k) \in Nat
         /\ Count(AddLine(a, line).asm.data, <<k, 2>>) \in Nat
<1> DEFINE r == AddLine(a, line)
           x == <<k, 2>>
           E == Count(Process(r.out), k)
           D == Count(r.asm.data, x)
           d == Count(a.data, x)
           l == Count(line, x)
           t == Count(Tail(line), x)
<1>1. AddLineWays(a, line, r)
  BY AddLineIs
<1>2. AsmOK(r.asm) /\ Payloads(r.out)
  BY AddLineOK
<1>3. a.data \in Seq(Atoms) /\ r.asm.data \in Seq(Atoms) /\ Process(r.out) \in Seq(KindsOrBad)
  BY <1>2, ProcessType DEF AsmOK
<1>4. E \in Nat /\ D \in Nat /\ d \in Nat /\ l \in Nat
  BY <1>3, CountType
<1>5. Count(<<>>, x) = 0 /\ Count(<<>>, k) = 0
  BY CountEmpty
<1>6. line # <<>> => Tail(line) \in Seq(Atoms) /\ t \in Nat /\ t <= l
  BY TailOK, CountType
<1>7. Count(<<Kind(a.data)>>, k) <= d
  BY <1>3, KindOf
<1>8. line # <<>> => Count(<<Kind(Tail(line))>>, k) <= t
  BY <1>6, KindOf
<1> SUFFICES E + D <= d + l
  BY <1>4
<1> HIDE DEF r
<1>9. CASE line = <<>> /\ r = Flush(a)
  <2>1. E <= d
    BY <1>9, FlushCounts
  <2>2. D = 0
    BY <1>5, <1>9, FlushCounts
  <2> HIDE DEF E, D, d, l
  <2> QED BY <1>4, <2>1, <2>2
<1>10. CASE line # <<>> /\ r = [asm |-> a, out |-> <<>>]
  <2>1. D = d
    BY <1>10
  <2>2. E = 0
    BY <1>5, <1>10, ProcessIs
  <2> HIDE DEF E, D, d, l
  <2> QED BY <1>4, <2>1, <2>2
<1>11. CASE line # <<>> /\ r = Keep(EmptyAssembler, Tail(line), <<a.data>>)
  <2>1. r.out = <<a.data>>
    BY <1>11 DEF Keep
  <2>2. E <= d
    BY <1>7, <2>1, ProcessIs
  <2>3. Count(Keep(EmptyAssembler, Tail(line), <<a.data>>).asm.data, x) <= Count(EmptyAssembler.data, x) + t
    BY <1>6, <1>11, EmptyOK, KeepCounts
  <2>4. EmptyAssembler.data = <<>>
    BY DEF EmptyAssembler
  <2>5. D <= t
    <3>1. D <= Count(EmptyAssembler.data, x) + t
      BY <1>11, <2>3
    <3>2. Count(EmptyAssembler.data, x) = 0
      BY <1>5, <2>4
    <3> HIDE DEF D, t
    <3> QED BY <1>4, <1>6, <1>11, <3>1, <3>2
  <2> HIDE DEF E, D, d, l, t
  <2> QED BY <1>4, <1>6, <1>11, <2>2, <2>5
<1>12. CASE line # <<>> /\ r = [asm |-> a, out |-> <<Tail(line)>>]
  <2>1. D = d
    BY <1>12
  <2>2. E <= t
    BY <1>8, <1>12, ProcessIs
  <2> HIDE DEF E, D, d, l, t
  <2> QED BY <1>4, <1>6, <1>12, <2>1, <2>2
<1>13. CASE line # <<>> /\ r = Keep(a, Tail(line), <<>>)
  <2>1. r.out = <<>>
    BY <1>13 DEF Keep
  <2>2. E = 0
    BY <1>5, <2>1, ProcessIs
  <2>3. Count(Keep(a, Tail(line), <<>>).asm.data, x) <= d + t
    BY <1>6, <1>13, KeepCounts
  <2>4. D <= d + t
    BY <1>13, <2>3
  <2> HIDE DEF E, D, d, l, t
  <2> QED BY <1>4, <1>6, <1>13, <2>2, <2>4
<1> QED BY <1>1, <1>9, <1>10, <1>11, <1>12, <1>13 DEF AddLineWays

\* The first break of a chunk, and what is left of the chunk after it.
LEMMA NextBreak ==
  ASSUME NEW c \in Seq(Atoms), BreakIn(c) # {}
  PROVE  /\ NextLineBreak(c) \in 1..Len(c) /\ c[NextLineBreak(c)] \in {CR, LF}
         /\ \A j \in 1..Len(c) : c[j] \in {CR, LF} => NextLineBreak(c) <= j
         /\ BreakWidth(c, NextLineBreak(c)) \in {1, 2}
         /\ NextLineBreak(c) + BreakWidth(c, NextLineBreak(c)) <= Len(c) + 1
<1> DEFINE i == NextLineBreak(c)
           w == BreakWidth(c, i)
<1>1. DOMAIN c = 1..Len(c) /\ Len(c) \in Nat
  BY LenProperties
<1>2. BreakIn(c) \subseteq Nat
  BY <1>1 DEF BreakIn
<1>3. \E m \in BreakIn(c) : \A j \in BreakIn(c) : m <= j
  BY <1>2, Least
<1>4. i \in BreakIn(c) /\ \A j \in BreakIn(c) : i <= j
  BY <1>3 DEF NextLineBreak
<1> HIDE DEF i
<1>5. i \in 1..Len(c) /\ c[i] \in {CR, LF} /\ \A j \in 1..Len(c) : c[j] \in {CR, LF} => i <= j
  BY <1>1, <1>4 DEF BreakIn
<1>6. w \in {1, 2} /\ (w = 2 => i < Len(c))
  BY DEF BreakWidth
<1> HIDE DEF w
<1>7. i + w <= Len(c) + 1
  BY <1>1, <1>5, <1>6
<1> QED BY <1>5, <1>6, <1>7 DEF i, w

\* Nothing occurs more often in two parts of a sequence than in all of it.
LEMMA CountParts ==
  ASSUME NEW A, NEW s \in Seq(A), NEW b \in Nat, NEW c \in Nat, b <= c, c <= Len(s), NEW x
  PROVE  /\ SubSeq(s, 1, b) \in Seq(A) /\ SubSeq(s, c + 1, Len(s)) \in Seq(A)
         /\ Count(SubSeq(s, 1, b), x) \in Nat /\ Count(SubSeq(s, c + 1, Len(s)), x) \in Nat
         /\ Count(SubSeq(s, 1, b), x) + Count(SubSeq(s, c + 1, Len(s)), x) <= Count(s, x)
<1> DEFINE n == Len(s)
           u == SubSeq(s, 1, b)
           m == SubSeq(s, b + 1, c)
           v == SubSeq(s, c + 1, n)
           t == SubSeq(s, b + 1, n)
<1>1. n \in Nat /\ b <= n /\ 0 <= b
  BY LenProperties
<1>2. s = SubSeq(s, 1, n)
  BY SubSeqFull
<1>3. u \in Seq(A) /\ t \in Seq(A) /\ SubSeq(s, 1, n) = u \o t
  <2>1. 0 \in Nat /\ 0 <= b /\ b <= n /\ n <= Len(s) /\ 0 + 1 = 1
    BY <1>1
  <2>2. SubSeq(s, 0 + 1, b) \in Seq(A) /\ SubSeq(s, b + 1, n) \in Seq(A)
        /\ SubSeq(s, 0 + 1, n) = SubSeq(s, 0 + 1, b) \o SubSeq(s, b + 1, n)
    <3> HIDE DEF n
    <3> QED BY <1>1, <2>1, SplitAt
  <2> QED BY <2>1, <2>2
<1>4. m \in Seq(A) /\ v \in Seq(A) /\ t = m \o v
  <2>1. n <= Len(s) /\ c <= n
    BY <1>1
  <2> HIDE DEF n
  <2> QED BY <1>1, <2>1, SplitAt
<1>5. Count(u, x) \in Nat /\ Count(m, x) \in Nat /\ Count(v, x) \in Nat /\ Count(t, x) \in Nat
  BY <1>3, <1>4, CountType
<1>8. s = u \o t /\ t = m \o v
  BY <1>2, <1>3, <1>4
<1> SUFFICES Count(u, x) + Count(v, x) <= Count(s, x)
  BY <1>3, <1>4, <1>5
<1> HIDE DEF u, m, v, t
<1>6. Count(u \o t, x) = Count(u, x) + Count(t, x)
  BY <1>3, CountConcat
<1>7. Count(m \o v, x) = Count(m, x) + Count(v, x)
  BY <1>4, CountConcat
<1>9. Count(s, x) = Count(u, x) + Count(t, x) /\ Count(t, x) = Count(m, x) + Count(v, x)
  BY <1>6, <1>7, <1>8, Zenon
<1> QED BY <1>5, <1>9

-----------------------------------------------------------------------------
(* Type correctness, and that nothing is metered that was not forwarded *)

BasicInv ==
  /\ StaticInv /\ TypeOK /\ AsmOK(asm)
  /\ phase # "recorded" => forwarded = pos
  /\ phase = "read" => chunk = <<>> /\ readErr = "none"
  /\ readErr = "eof" => forwarded = Len(stream)
  /\ Recorded => row = FinalizeStreamUsage(events)

\* Events to come are in what is kept, in the line that is read and in what is
\* left of the chunk, and all of these were forwarded.
Waiting(x) == Count(asm.data, x) + Count(lineBuf, x) + Count(chunk, x)
ForwardInv ==
  \A k \in Kinds :
    Count(events, k) + Waiting(<<k, 2>>) <= Count(SubSeq(stream, 1, forwarded), <<k, 2>>)

\* What TypeOK says of the numbers.
LEMMA TypeFacts ==
  ASSUME TypeOK, StaticInv
  PROVE  /\ Len(stream) \in Nat /\ pos \in Nat /\ forwarded \in Nat
         /\ pos <= Len(stream) /\ forwarded <= pos /\ forwarded <= Len(stream)
         /\ stream \in Seq(Atoms)
         /\ Len(lineBuf) \in Nat /\ Len(chunk) \in Nat
         /\ events \in Seq(KindsOrBad)
<1>1. Len(stream) \in Nat /\ Len(lineBuf) \in Nat /\ Len(chunk) \in Nat
  BY LenProperties DEF TypeOK, StaticInv
<1> QED BY <1>1 DEF TypeOK, StaticInv, KindsOrBad

\* The counts of ForwardInv are numbers.
LEMMA CountFacts ==
  ASSUME BasicInv, NEW k \in Kinds
  PROVE  /\ Count(events, k) \in Nat
         /\ Count(asm.data, <<k, 2>>) \in Nat /\ Count(lineBuf, <<k, 2>>) \in Nat
         /\ Count(chunk, <<k, 2>>) \in Nat
         /\ Count(SubSeq(stream, 1, forwarded), <<k, 2>>) \in Nat
<1>1. /\ events \in Seq(KindsOrBad) /\ asm.data \in Seq(Atoms)
      /\ lineBuf \in Seq(Atoms) /\ chunk \in Seq(Atoms)
  BY DEF BasicInv, TypeOK, KindsOrBad
<1>2. SubSeq(stream, 1, forwarded) \in Seq(Atoms)
  <2>1. /\ stream \in Seq(Atoms) /\ forwarded \in Nat /\ forwarded <= Len(stream)
        /\ Len(stream) \in Nat /\ Len(stream) <= Len(stream)
    BY TypeFacts DEF BasicInv
  <2> QED BY <2>1, CountParts
<1> QED BY <1>1, <1>2, CountType

\* More events of none or one payload.
LEMMA EventsMore ==
  ASSUME BasicInv, NEW out, Payloads(out)
  PROVE  /\ events \o Process(out) \in Seq(KindsOrBad)
         /\ \A k : Count(events \o Process(out), k) = Count(events, k) + Count(Process(out), k)
<1>1. events \in Seq(KindsOrBad) /\ Process(out) \in Seq(KindsOrBad)
  BY TypeFacts, ProcessType DEF BasicInv
<1> QED BY <1>1, ConcatProperties, CountConcat

\* The stream stays as it is.
Frozen == UNCHANGED <<profile, lines, brk, stream>>
\* Its layout stays with it.
LEMMA StaticStep ==
  ASSUME StaticInv, Frozen
  PROVE  StaticInv'
<1>1. Bytes(lines, brk, TRUE)' = Bytes(lines, brk, TRUE) /\ Bytes(lines, brk, FALSE)' = Bytes(lines, brk, FALSE)
  BY DEF Frozen
<1> QED BY <1>1 DEF StaticInv, Frozen

\* The ways out.
Ends ==
  /\ phase # "recorded" /\ chunk = <<>> /\ Finish
  /\ Frozen /\ UNCHANGED <<forwarded, chunk, readErr, lineBuf, lineOverflow, cutBreak>>
  /\ pos' \in pos..Len(stream)

\* Whatever the way out, the row is that of all events.
LEMMA BasicEnds ==
  ASSUME BasicInv, Ends
  PROVE  BasicInv'
<1> DEFINE out == Flush(asm).out
<1>1. AsmOK(asm) /\ Payloads(out) /\ Flush(asm).asm = EmptyAssembler
  BY FlushOK DEF BasicInv
<1>2. events' = events \o Process(out) /\ asm' = EmptyAssembler
      /\ row' = FinalizeStreamUsage(events') /\ phase' = "recorded"
  BY <1>1 DEF Ends, Finish
<1>3. events' \in Seq(KindsOrBad)
  BY <1>1, <1>2, EventsMore
<1>4. AsmOK(asm)'
  <2>1. AsmOK(EmptyAssembler)
    BY EmptyOK
  <2>2. asm' = EmptyAssembler
    BY <1>2
  <2> QED BY <2>1, <2>2 DEF AsmOK
<1>5. StaticInv'
  BY StaticStep DEF BasicInv, Ends
<1>6. (Recorded => row = FinalizeStreamUsage(events))'
  BY <1>2 DEF FinalizeStreamUsage, Ends, Frozen
<1>7. pos' \in 0..Len(stream) /\ forwarded \in 0..(pos')
  <2>1. pos' \in pos..Len(stream)
    BY DEF Ends
  <2>2. pos \in Nat /\ Len(stream) \in Nat /\ forwarded \in 0..pos
    BY TypeFacts DEF BasicInv, TypeOK
  <2> QED BY <2>1, <2>2
<1>8. TypeOK'
  BY <1>2, <1>3, <1>4, <1>7 DEF BasicInv, TypeOK, AsmOK, Ends, Frozen, KindsOrBad
<1> QED BY <1>2, <1>4, <1>5, <1>6, <1>8 DEF BasicInv, Ends, Frozen

\* The last flush makes events of what was kept.
LEMMA ForwardEnds ==
  ASSUME BasicInv, ForwardInv, Ends
  PROVE  ForwardInv'
<1> DEFINE out == Flush(asm).out
<1>1. AsmOK(asm) /\ Payloads(out) /\ Flush(asm).asm = EmptyAssembler
  BY FlushOK DEF BasicInv
<1>2. events' = events \o Process(out) /\ asm' = EmptyAssembler
  BY <1>1 DEF Ends, Finish
<1>3. lineBuf' = lineBuf /\ chunk' = chunk /\ stream' = stream /\ forwarded' = forwarded
  BY DEF Ends, Frozen
<1> SUFFICES ASSUME NEW k \in Kinds
    PROVE (Count(events, k) + Waiting(<<k, 2>>) <= Count(SubSeq(stream, 1, forwarded), <<k, 2>>))'
  BY DEF ForwardInv
<1> DEFINE x == <<k, 2>>
           E == Count(events, k)  O == Count(Process(out), k)
           D == Count(asm.data, x)  L == Count(lineBuf, x)  C == Count(chunk, x)
           F == Count(SubSeq(stream, 1, forwarded), x)
<1>4. Count(events, k)' = E + O
  BY <1>1, <1>2, EventsMore
<1>5. Count(asm.data, x)' = 0
  <2>1. asm'.data = <<>>
    BY <1>2 DEF EmptyAssembler
  <2> QED BY <2>1, CountEmpty
<1>6. Count(lineBuf, x)' = L /\ Count(chunk, x)' = C /\ Count(SubSeq(stream, 1, forwarded), x)' = F
  BY <1>3
<1>7. O <= D /\ O \in Nat /\ D \in Nat /\ E \in Nat /\ L \in Nat /\ C \in Nat
  BY <1>1, FlushCounts, CountFacts
<1>8. E + (D + L + C) <= F
  BY DEF ForwardInv, Waiting
<1>9. F \in Nat
  BY CountFacts
<1> HIDE DEF x, E, O, D, L, C, F
<1>10. E + O + (0 + L + C) <= F
  BY <1>7, <1>8, <1>9
<1> QED BY <1>4, <1>5, <1>6, <1>10 DEF Waiting, x

\* One read, all of it forwarded.
LEMMA BasicRead ==
  ASSUME BasicInv, NEW n, NEW err, Read(n, err)
  PROVE  BasicInv'
<1>1. /\ n \in 0..(Len(stream) - pos) /\ err \in {"none", "eof", "fail"}
      /\ err = "eof" => pos + n = Len(stream)
      /\ pos' = pos + n /\ forwarded' = pos + n /\ readErr' = err /\ phase' = "lines"
      /\ chunk' = IF profile = "compressed" THEN <<>> ELSE SubSeq(stream, pos + 1, pos + n)
      /\ cutBreak' \in BOOLEAN
      /\ Frozen /\ UNCHANGED <<lineBuf, lineOverflow, asm, events, row>>
  BY DEF Read, Frozen, BasicInv, TypeOK
<1>2. stream \in Seq(Atoms) /\ Len(stream) \in Nat /\ pos \in Nat /\ pos <= Len(stream)
  BY TypeFacts DEF BasicInv
<1>3. n \in Nat /\ pos + n \in Nat /\ pos <= pos + n /\ pos + n <= Len(stream)
  BY <1>1, <1>2
<1>4. chunk' \in Seq(Atoms)
  <2>1. SubSeq(stream, pos + 1, pos + n) \in Seq(Atoms)
    <3> DEFINE c == pos + n
    <3>1. c \in Nat /\ pos <= c /\ c <= Len(stream)
      BY <1>3
    <3> HIDE DEF c
    <3>2. SubSeq(stream, pos + 1, c) \in Seq(Atoms)
      <4>1. 0 \in Nat /\ Len(stream) <= Len(stream)
        BY <1>2
      <4> QED BY <1>2, <3>1, <4>1, SplitAt
    <3> QED BY <3>2 DEF c
  <2> QED BY <1>1, <2>1
<1>5. StaticInv'
  BY <1>1, StaticStep DEF BasicInv
<1>6. TypeOK'
  <2>1. pos' \in 0..Len(stream) /\ forwarded' \in 0..(pos')
    BY <1>1, <1>2, <1>3
  <2> QED BY <1>1, <1>4, <2>1 DEF BasicInv, TypeOK, Frozen
<1>7. AsmOK(asm)'
  BY <1>1 DEF BasicInv, AsmOK
<1> QED BY <1>1, <1>5, <1>6, <1>7 DEF BasicInv, Frozen, Recorded

\* A read adds to what was forwarded what it adds to the chunk.
LEMMA ForwardRead ==
  ASSUME BasicInv, ForwardInv, NEW n, NEW err, Read(n, err)
  PROVE  ForwardInv'
<1>1. /\ n \in 0..(Len(stream) - pos)
      /\ pos' = pos + n /\ forwarded' = pos + n /\ forwarded = pos /\ chunk = <<>>
      /\ chunk' = IF profile = "compressed" THEN <<>> ELSE SubSeq(stream, pos + 1, pos + n)
      /\ stream' = stream /\ lineBuf' = lineBuf /\ asm' = asm /\ events' = events
  BY DEF Read, BasicInv
<1>2. stream \in Seq(Atoms) /\ Len(stream) \in Nat /\ pos \in Nat /\ pos <= Len(stream)
  BY TypeFacts DEF BasicInv
<1> SUFFICES ASSUME NEW k \in Kinds
    PROVE (Count(events, k) + Waiting(<<k, 2>>) <= Count(SubSeq(stream, 1, forwarded), <<k, 2>>))'
  BY DEF ForwardInv
<1> DEFINE x == <<k, 2>>
           c == pos + n
           u == SubSeq(stream, 1, pos)  v == SubSeq(stream, pos + 1, c)
           w == SubSeq(stream, 1, c)
           E == Count(events, k)  D == Count(asm.data, x)  L == Count(lineBuf, x)
<1>3. c \in Nat /\ pos <= c /\ c <= Len(stream)
  BY <1>1, <1>2
<1>4. u \in Seq(Atoms) /\ v \in Seq(Atoms) /\ w = u \o v
  <2> HIDE DEF c
  <2>1. 0 \in Nat /\ 0 <= pos /\ Len(stream) <= Len(stream) /\ 0 + 1 = 1
    BY <1>2
  <2>2. SubSeq(stream, pos + 1, c) \in Seq(Atoms)
    BY <1>2, <1>3, <2>1, SplitAt
  <2>3. /\ SubSeq(stream, 0 + 1, pos) \in Seq(Atoms)
        /\ SubSeq(stream, 0 + 1, c) = SubSeq(stream, 0 + 1, pos) \o SubSeq(stream, pos + 1, c)
    BY <1>2, <1>3, <2>1, SplitAt
  <2> QED BY <2>1, <2>2, <2>3
<1>5. Count(u \o v, x) = Count(u, x) + Count(v, x) /\ Count(u, x) \in Nat /\ Count(v, x) \in Nat
  <2> HIDE DEF u, v, x
  <2>1. u \in Seq(Atoms) /\ v \in Seq(Atoms)
    BY <1>4
  <2>2. Count(u \o v, x) = Count(u, x) + Count(v, x)
    BY <2>1, CountConcat
  <2>3. Count(u, x) \in Nat /\ Count(v, x) \in Nat
    BY <2>1, CountType
  <2> QED BY <2>2, <2>3
<1>6. Count(<<>>, x) = 0
  BY CountEmpty
<1>7. E + (D + L + 0) <= Count(u, x)
  <2>1. E + (D + L + Count(chunk, x)) <= Count(SubSeq(stream, 1, forwarded), x)
    BY DEF ForwardInv, Waiting
  <2> QED BY <1>1, <1>6, <2>1
<1>8. E \in Nat /\ D \in Nat /\ L \in Nat
  BY CountFacts
<1>9. Count(chunk, x)' <= Count(v, x) /\ Count(chunk, x)' \in Nat
  <2>1. CASE chunk' = <<>>
    <3>1. Count(chunk, x)' = 0
      BY <1>6, <2>1
    <3> HIDE DEF v
    <3> QED BY <1>5, <3>1
  <2>2. CASE chunk' = v
    <3>1. Count(chunk, x)' = Count(v, x)
      BY <2>2
    <3> HIDE DEF v
    <3> QED BY <1>5, <3>1
  <2> QED BY <1>1, <2>1, <2>2
<1>10. Count(SubSeq(stream, 1, forwarded), x)' = Count(u, x) + Count(v, x)
  <2>1. Count(SubSeq(stream, 1, forwarded), x)' = Count(w, x)
    BY <1>1
  <2> QED BY <1>4, <1>5, <2>1
<1>11. Count(events, k)' = E /\ Count(asm.data, x)' = D /\ Count(lineBuf, x)' = L
  BY <1>1
<1> DEFINE C == Count(chunk, x)'
<1> HIDE DEF x, u, v, w, E, D, L, C
<1>12. E + (D + L + C) <= Count(u, x) + Count(v, x)
  BY <1>5, <1>7, <1>8, <1>9 DEF C
<1> QED BY <1>10, <1>11, <1>12 DEF Waiting, x, C

\* One line of the chunk, the text before it included.
LineText == lineBuf \o SubSeq(chunk, 1, NextLineBreak(chunk) - 1)
LineRead == IF lineOverflow \/ Len(LineText) > MaxLine THEN <<>> ELSE LineText
RestOfChunk ==
  SubSeq(chunk, NextLineBreak(chunk) + BreakWidth(chunk, NextLineBreak(chunk)), Len(chunk))

\* Line, in these terms.
LEMMA LineIs ==
  ASSUME Line
  PROVE  /\ phase = "lines" /\ phase' = "lines" /\ BreakIn(chunk) # {}
         /\ asm' = AddLine(asm, LineRead).asm
         /\ events' = events \o Process(AddLine(asm, LineRead).out)
         /\ chunk' = RestOfChunk /\ lineBuf' = <<>> /\ lineOverflow' = FALSE
         /\ Frozen /\ UNCHANGED <<pos, forwarded, readErr, row, cutBreak>>
BY DEF Line, LineText, LineRead, RestOfChunk, Frozen

\* The line and what is left of the chunk.
LEMMA LineParts ==
  ASSUME TypeOK, BreakIn(chunk) # {}
  PROVE  /\ LineText \in Seq(Atoms) /\ LineRead \in Seq(Atoms) /\ RestOfChunk \in Seq(Atoms)
         /\ \A x : /\ Count(LineRead, x) + Count(RestOfChunk, x) <= Count(lineBuf, x) + Count(chunk, x)
                   /\ Count(LineRead, x) \in Nat /\ Count(RestOfChunk, x) \in Nat
<1> DEFINE i == NextLineBreak(chunk)
           w == BreakWidth(chunk, i)
           b == i - 1
           c == i + w - 1
           t == SubSeq(chunk, 1, b)
<1>1. chunk \in Seq(Atoms) /\ lineBuf \in Seq(Atoms) /\ Len(chunk) \in Nat
  BY LenProperties DEF TypeOK
<1>2. i \in 1..Len(chunk) /\ w \in {1, 2} /\ i + w <= Len(chunk) + 1
  BY <1>1, NextBreak
<1>3. b \in Nat /\ c \in Nat /\ b <= c /\ c <= Len(chunk) /\ c + 1 = i + w
  <2> HIDE DEF i, w
  <2> QED BY <1>1, <1>2
<1>4. RestOfChunk = SubSeq(chunk, c + 1, Len(chunk))
  BY <1>3 DEF RestOfChunk
<1>5. LineText = lineBuf \o t
  BY DEF LineText
<1> HIDE DEF i, w, b, c, t
<1>6. ASSUME NEW x
      PROVE /\ t \in Seq(Atoms) /\ RestOfChunk \in Seq(Atoms)
            /\ Count(t, x) \in Nat /\ Count(RestOfChunk, x) \in Nat
            /\ Count(t, x) + Count(RestOfChunk, x) <= Count(chunk, x)
  BY <1>1, <1>3, <1>4, CountParts DEF t
<1>7. LineText \in Seq(Atoms)
  BY <1>1, <1>5, <1>6, ConcatProperties
<1>8. LineRead \in Seq(Atoms)
  <2>1. <<>> \in Seq(Atoms)
    OBVIOUS
  <2> QED BY <1>7, <2>1 DEF LineRead
<1>9. ASSUME NEW x
      PROVE /\ Count(LineRead, x) + Count(RestOfChunk, x) <= Count(lineBuf, x) + Count(chunk, x)
            /\ Count(LineRead, x) \in Nat
  <2>1. Count(lineBuf \o t, x) = Count(lineBuf, x) + Count(t, x)
    BY <1>1, <1>6, CountConcat
  <2>2. Count(lineBuf, x) \in Nat /\ Count(chunk, x) \in Nat
    BY <1>1, CountType
  <2>3. Count(LineRead, x) \in Nat
    BY <1>8, CountType
  <2>4. Count(LineText, x) = Count(lineBuf, x) + Count(t, x)
    BY <1>5, <2>1
  <2>5. Count(LineRead, x) <= Count(lineBuf, x) + Count(t, x)
    <3>1. CASE LineRead = <<>>
      <4>1. Count(LineRead, x) = 0
        BY <3>1, CountEmpty
      <4> QED BY <1>6, <2>2, <4>1
    <3>2. CASE LineRead = LineText
      <4>1. Count(LineRead, x) = Count(lineBuf, x) + Count(t, x)
        BY <2>4, <3>2
      <4> QED BY <1>6, <2>2, <4>1
    <3> QED BY <3>1, <3>2 DEF LineRead
  <2> QED BY <1>6, <2>2, <2>3, <2>5
<1> QED BY <1>6, <1>7, <1>8, <1>9

\* A line of the chunk.
LEMMA BasicLine ==
  ASSUME BasicInv, Line
  PROVE  BasicInv'
<1> DEFINE r == AddLine(asm, LineRead)
<1>1. /\ phase = "lines" /\ phase' = "lines" /\ BreakIn(chunk) # {}
      /\ asm' = r.asm /\ events' = events \o Process(r.out)
      /\ chunk' = RestOfChunk /\ lineBuf' = <<>> /\ lineOverflow' = FALSE
      /\ Frozen /\ UNCHANGED <<pos, forwarded, readErr, row, cutBreak>>
  BY LineIs
<1>2. LineRead \in Seq(Atoms) /\ RestOfChunk \in Seq(Atoms)
  BY <1>1, LineParts DEF BasicInv
<1>3. AsmOK(r.asm) /\ Payloads(r.out)
  BY <1>2, AddLineOK DEF BasicInv
<1> HIDE DEF r
<1>4. events' \in Seq(KindsOrBad)
  BY <1>1, <1>3, EventsMore
<1>5. AsmOK(asm)'
  BY <1>1, <1>3 DEF AsmOK
<1>6. StaticInv'
  BY <1>1, StaticStep DEF BasicInv
<1>7. lineBuf' \in Seq(Atoms) /\ Len(lineBuf') <= MaxLine
  <2>1. <<>> \in Seq(Atoms) /\ Len(<<>>) = 0
    OBVIOUS
  <2> QED BY <1>1, <2>1 DEF LineAssumption
<1>8. TypeOK'
  BY <1>1, <1>2, <1>4, <1>5, <1>7 DEF BasicInv, TypeOK, AsmOK, Frozen, KindsOrBad
<1> QED BY <1>1, <1>5, <1>6, <1>8 DEF BasicInv, Frozen, Recorded

\* What a line holds moves to the assembler or to the events.
LEMMA ForwardLine ==
  ASSUME BasicInv, ForwardInv, Line
  PROVE  ForwardInv'
<1> DEFINE r == AddLine(asm, LineRead)
<1>1. /\ BreakIn(chunk) # {}
      /\ asm' = r.asm /\ events' = events \o Process(r.out)
      /\ chunk' = RestOfChunk /\ lineBuf' = <<>>
      /\ stream' = stream /\ forwarded' = forwarded
  BY LineIs DEF Frozen
<1>2. LineRead \in Seq(Atoms)
  BY <1>1, LineParts DEF BasicInv
<1>3. AsmOK(asm) /\ Payloads(r.out)
  BY <1>2, AddLineOK DEF BasicInv
<1> SUFFICES ASSUME NEW k \in Kinds
    PROVE (Count(events, k) + Waiting(<<k, 2>>) <= Count(SubSeq(stream, 1, forwarded), <<k, 2>>))'
  BY DEF ForwardInv
<1> DEFINE x == <<k, 2>>
           E == Count(events, k)  O == Count(Process(r.out), k)
           D == Count(asm.data, x)  L == Count(lineBuf, x)  C == Count(chunk, x)
           d == Count(r.asm.data, x)  l == Count(LineRead, x)  c == Count(RestOfChunk, x)
           F == Count(SubSeq(stream, 1, forwarded), x)
<1>4. Count(events, k)' = E + O
  BY <1>1, <1>3, EventsMore
<1>5. Count(lineBuf, x)' = 0
  BY <1>1, CountEmpty
<1>6. Count(asm.data, x)' = d /\ Count(chunk, x)' = c /\ Count(SubSeq(stream, 1, forwarded), x)' = F
  BY <1>1
<1>7. O + d <= D + l /\ O \in Nat /\ d \in Nat
  BY <1>2, <1>3, AddLineCounts
<1>8. l + c <= L + C /\ l \in Nat /\ c \in Nat
  BY <1>1, LineParts DEF BasicInv
<1>9. E \in Nat /\ D \in Nat /\ L \in Nat /\ C \in Nat /\ F \in Nat
  BY CountFacts
<1>10. E + (D + L + C) <= F
  BY DEF ForwardInv, Waiting
<1> HIDE DEF x, r, E, O, D, L, C, d, l, c, F
<1>11. E + O + (d + 0 + c) <= F
  BY <1>7, <1>8, <1>9, <1>10
<1> QED BY <1>4, <1>5, <1>6, <1>11 DEF Waiting, x

\* What is left of a chunk is kept for the next one.
LEMMA BasicRemainder ==
  ASSUME BasicInv, Remainder
  PROVE  BasicInv'
<1>1. /\ phase = "lines" /\ phase' = "lines" /\ chunk' = <<>>
      /\ \/ lineBuf' = <<>>
         \/ lineBuf' = lineBuf \o chunk /\ Len(lineBuf) + Len(chunk) <= MaxLine
      /\ lineOverflow' \in BOOLEAN
      /\ Frozen /\ UNCHANGED <<pos, forwarded, readErr, asm, events, row, cutBreak>>
  BY DEF Remainder, Frozen, BasicInv, TypeOK
<1>2. chunk \in Seq(Atoms) /\ lineBuf \in Seq(Atoms)
  BY DEF BasicInv, TypeOK
<1>3. lineBuf' \in Seq(Atoms) /\ Len(lineBuf') <= MaxLine
  <2>1. <<>> \in Seq(Atoms) /\ Len(<<>>) = 0
    OBVIOUS
  <2>2. lineBuf \o chunk \in Seq(Atoms) /\ Len(lineBuf \o chunk) = Len(lineBuf) + Len(chunk)
    BY <1>2, ConcatProperties
  <2>3. CASE lineBuf' = <<>>
    <3>1. Len(lineBuf') = 0
      BY <2>3
    <3> QED BY <2>1, <2>3, <3>1 DEF LineAssumption
  <2>4. CASE lineBuf' = lineBuf \o chunk /\ Len(lineBuf) + Len(chunk) <= MaxLine
    BY <2>2, <2>4
  <2> QED BY <1>1, <2>3, <2>4
<1>4. chunk' \in Seq(Atoms)
  BY <1>1
<1>5. StaticInv'
  BY <1>1, StaticStep DEF BasicInv
<1>6. AsmOK(asm)'
  BY <1>1 DEF BasicInv, AsmOK
<1>7. TypeOK'
  BY <1>1, <1>3, <1>4 DEF BasicInv, TypeOK, Frozen
<1> QED BY <1>1, <1>5, <1>6, <1>7 DEF BasicInv, Frozen, Recorded

\* The rest of the chunk moves to the line buffer.
LEMMA ForwardRemainder ==
  ASSUME BasicInv, ForwardInv, Remainder
  PROVE  ForwardInv'
<1>1. /\ chunk' = <<>>
      /\ lineBuf' = <<>> \/ lineBuf' = lineBuf \o chunk
      /\ stream' = stream /\ forwarded' = forwarded /\ asm' = asm /\ events' = events
  BY DEF Remainder
<1>2. chunk \in Seq(Atoms) /\ lineBuf \in Seq(Atoms)
  BY DEF BasicInv, TypeOK
<1> SUFFICES ASSUME NEW k \in Kinds
    PROVE (Count(events, k) + Waiting(<<k, 2>>) <= Count(SubSeq(stream, 1, forwarded), <<k, 2>>))'
  BY DEF ForwardInv
<1> DEFINE x == <<k, 2>>
           E == Count(events, k)  D == Count(asm.data, x)
           L == Count(lineBuf, x)  C == Count(chunk, x)
           F == Count(SubSeq(stream, 1, forwarded), x)
           l == Count(lineBuf, x)'
<1>3. Count(chunk, x)' = 0
  BY <1>1, CountEmpty
<1>4. /\ Count(events, k)' = E /\ Count(asm.data, x)' = D
      /\ Count(SubSeq(stream, 1, forwarded), x)' = F
  BY <1>1
<1>5. E \in Nat /\ D \in Nat /\ L \in Nat /\ C \in Nat /\ F \in Nat
  BY CountFacts
<1>6. E + (D + L + C) <= F
  BY DEF ForwardInv, Waiting
<1>7. l = 0 \/ l = L + C
  <2>1. Count(<<>>, x) = 0
    BY CountEmpty
  <2>2. Count(lineBuf \o chunk, x) = L + C
    BY <1>2, CountConcat
  <2> QED BY <1>1, <2>1, <2>2
<1> HIDE DEF x, E, D, L, C, F, l
<1>8. E + (D + l + 0) <= F
  BY <1>5, <1>6, <1>7
<1> QED BY <1>3, <1>4, <1>8 DEF Waiting, x, l

\* The loop goes on to the next read.
LEMMA BasicNextRead ==
  ASSUME BasicInv, NextRead
  PROVE  BasicInv'
<1>1. /\ phase = "lines" /\ phase' = "read" /\ chunk = <<>> /\ readErr = "none"
      /\ Frozen /\ UNCHANGED <<pos, forwarded, chunk, readErr, lineBuf, lineOverflow, asm, events,
                               row, cutBreak>>
  BY DEF NextRead, Frozen
<1>2. StaticInv'
  BY <1>1, StaticStep DEF BasicInv
<1>3. AsmOK(asm)' /\ TypeOK'
  BY <1>1 DEF BasicInv, AsmOK, TypeOK, Frozen
<1> QED BY <1>1, <1>2, <1>3 DEF BasicInv, Frozen, Recorded

\* Every step.
LEMMA NextWays ==
  ASSUME BasicInv, Next
  PROVE  \/ Ends
         \/ \E n \in 0..Len(stream), err \in {"none", "eof", "fail"} : Read(n, err)
         \/ Line \/ Remainder \/ NextRead
<1>0. pos \in pos..Len(stream)
  BY TypeFacts DEF BasicInv
<1>1. CASE Cancel
  BY <1>0, <1>1 DEF Cancel, Ends, Frozen, BasicInv
<1>2. ASSUME NEW n \in 0..Len(stream), WriteFails(n) PROVE Ends
  <2>1. pos + n \in pos..Len(stream)
    BY <1>2, TypeFacts DEF BasicInv, WriteFails
  <2> QED BY <1>2, <2>1 DEF WriteFails, Ends, Frozen, BasicInv
<1>3. CASE StreamEnds
  BY <1>0, <1>3 DEF StreamEnds, Ends, Frozen
<1> QED BY <1>1, <1>2, <1>3 DEF Next

\* Each step keeps the types and what goes with them.
LEMMA BasicNext ==
  ASSUME BasicInv, [Next]_vars
  PROVE  BasicInv'
<1>1. CASE UNCHANGED vars
  <2>1. Frozen /\ UNCHANGED <<pos, forwarded, phase, chunk, readErr, lineBuf, lineOverflow, asm,
                              events, row, cutBreak>>
    BY <1>1 DEF vars, Frozen
  <2>2. StaticInv'
    BY <2>1, StaticStep DEF BasicInv
  <2>3. AsmOK(asm)' /\ TypeOK'
    BY <2>1 DEF BasicInv, AsmOK, TypeOK, Frozen
  <2>4. (Recorded => row = FinalizeStreamUsage(events))'
    BY <2>1 DEF BasicInv, Recorded, FinalizeStreamUsage, Frozen
  <2> QED BY <2>1, <2>2, <2>3, <2>4 DEF BasicInv, Frozen
<1>2. CASE Next
  BY <1>2, NextWays, BasicEnds, BasicRead, BasicLine, BasicRemainder, BasicNextRead
<1> QED BY <1>1, <1>2

\* No step makes an event of what was not forwarded.
LEMMA ForwardNext ==
  ASSUME BasicInv, ForwardInv, [Next]_vars
  PROVE  ForwardInv'
<1>1. CASE UNCHANGED vars \/ NextRead
  <2>1. UNCHANGED <<stream, forwarded, chunk, lineBuf, asm, events>>
    BY <1>1 DEF vars, NextRead
  <2> QED BY <2>1 DEF ForwardInv, Waiting
<1>2. CASE Next
  BY <1>1, <1>2, NextWays, ForwardEnds, ForwardRead, ForwardLine, ForwardRemainder
<1> QED BY <1>1, <1>2

\* Nothing was read yet.
LEMMA BasicInit == Init => BasicInv /\ ForwardInv
<1> SUFFICES ASSUME Init PROVE BasicInv /\ ForwardInv
  OBVIOUS
<1>1. StaticInv
  BY StaticInit
<1>2. Len(stream) \in Nat
  BY <1>1, TextFacts
<1>3. <<>> \in Seq(Atoms) /\ <<>> \in Seq(Kinds \cup {"bad"}) /\ Len(<<>>) = 0
  OBVIOUS
<1>4. AsmOK(asm)
  BY EmptyOK DEF Init, AsmOK
<1>5. TypeOK
  <2>1. /\ pos = 0 /\ forwarded = 0 /\ phase = "read" /\ chunk = <<>> /\ readErr = "none"
        /\ lineBuf = <<>> /\ lineOverflow = FALSE /\ events = <<>> /\ cutBreak = FALSE
    BY DEF Init
  <2>2. pos \in 0..Len(stream) /\ forwarded \in 0..pos
    BY <1>2, <2>1
  <2>3. Len(lineBuf) <= MaxLine
    BY <1>3, <2>1 DEF LineAssumption
  <2> QED BY <1>3, <1>4, <2>1, <2>2, <2>3 DEF TypeOK, AsmOK
<1>6. BasicInv
  BY <1>1, <1>4, <1>5 DEF Init, BasicInv, Recorded
<1>7. ForwardInv
  <2> SUFFICES ASSUME NEW k \in Kinds
      PROVE Count(events, k) + Waiting(<<k, 2>>) <= Count(SubSeq(stream, 1, forwarded), <<k, 2>>)
    BY DEF ForwardInv
  <2>1. Count(<<>>, k) = 0 /\ Count(<<>>, <<k, 2>>) = 0
    BY CountEmpty
  <2>2. Count(events, k) + Waiting(<<k, 2>>) = 0
    <3>1. events = <<>> /\ asm.data = <<>> /\ lineBuf = <<>> /\ chunk = <<>>
      BY DEF Init, EmptyAssembler
    <3> QED BY <2>1, <3>1 DEF Waiting
  <2>3. Count(SubSeq(stream, 1, forwarded), <<k, 2>>) \in Nat
    BY <1>6, CountFacts
  <2> QED BY <2>2, <2>3
<1> QED BY <1>6, <1>7

\* The buffers of a stream, whatever it sends, keep a line and an event of
\* maxLine at most, and what is forwarded is never more than what was read.
THEOREM StreamTypeCorrect == Spec => []TypeOK
<1>1. Init => BasicInv
  BY BasicInit
<1>2. BasicInv /\ [Next]_vars => BasicInv'
  BY BasicNext
<1>3. BasicInv => TypeOK
  BY DEF BasicInv
<1> QED BY <1>1, <1>2, <1>3, PTL DEF Spec

\* Both always hold.
LEMMA ForwardSafe == Spec => [](BasicInv /\ ForwardInv)
<1>1. Init => BasicInv /\ ForwardInv
  BY BasicInit
<1>2. BasicInv /\ ForwardInv /\ [Next]_vars => (BasicInv /\ ForwardInv)'
  BY BasicNext, ForwardNext
<1> QED BY <1>1, <1>2, PTL DEF Spec

\* The ends of documents among the bytes forwarded, counted in two ways.
LEMMA ForwardedCount ==
  ASSUME BasicInv, NEW x
  PROVE  /\ Count(SubSeq(stream, 1, forwarded), x) = Cardinality({i \in 1..forwarded : stream[i] = x})
         /\ SubSeq(stream, 1, forwarded) \in Seq(Atoms)
         /\ profile = "responses" => SubSeq(stream, 1, forwarded) \in Seq(ResponsesAtoms)
<1> DEFINE u == SubSeq(stream, 1, forwarded)
<1>1. /\ stream \in Seq(Atoms) /\ forwarded \in Nat /\ forwarded <= Len(stream)
      /\ Len(stream) \in Nat /\ Len(stream) <= Len(stream)
  BY TypeFacts DEF BasicInv
<1>2. u \in Seq(Atoms)
  BY <1>1, CountParts
<1>3. DOMAIN u = 1..forwarded /\ \A i \in 1..forwarded : u[i] = stream[i]
  BY <1>1
<1>4. {i \in DOMAIN u : u[i] = x} = {i \in 1..forwarded : stream[i] = x}
  <2> HIDE DEF u
  <2> QED BY <1>3
<1>5. ASSUME profile = "responses" PROVE u \in Seq(ResponsesAtoms)
  <2>1. stream \in Seq(ResponsesAtoms)
    BY <1>5 DEF BasicInv, StaticInv
  <2> QED BY <1>1, <2>1, CountParts
<1> QED BY <1>2, <1>4, <1>5 DEF Count

\* What is metered has reached the client.
THEOREM OnlyForwardedIsMetered == Spec => []EventsWereForwarded
<1>1. BasicInv /\ ForwardInv => EventsWereForwarded
  <2> SUFFICES ASSUME BasicInv, ForwardInv, NEW k \in Kinds
      PROVE Count(events, k) <= Cardinality({i \in 1..forwarded : stream[i] = <<k, 2>>})
    BY DEF EventsWereForwarded
  <2> DEFINE x == <<k, 2>>
             E == Count(events, k)  D == Count(asm.data, x)
             L == Count(lineBuf, x)  C == Count(chunk, x)
             F == Count(SubSeq(stream, 1, forwarded), x)
  <2>1. E \in Nat /\ D \in Nat /\ L \in Nat /\ C \in Nat /\ F \in Nat
    BY CountFacts
  <2>2. E + (D + L + C) <= F
    BY DEF ForwardInv, Waiting
  <2>3. F = Cardinality({i \in 1..forwarded : stream[i] = x})
    BY ForwardedCount
  <2> HIDE DEF x, E, D, L, C, F
  <2>4. E <= F
    BY <2>1, <2>2
  <2> QED BY <2>3, <2>4 DEF E, x
<1> QED BY <1>1, ForwardSafe, PTL

-----------------------------------------------------------------------------
(* The outcome of the row *)

Consistent(r) ==
  /\ r.tokens > 0 => r.outcome = "captured" /\ r.reason = ""
  /\ r.outcome = "captured" => r.tokens + r.partials > 0

\* A sum of two numbers is positive unless both are 0.
LEMMA Sums ==
  \A t, p \in Nat : (t > 0 <=> t # 0) /\ (t + p > 0 <=> ~(t = 0 /\ p = 0))
OBVIOUS

\* TokensMeanCaptured without an order on the fields.
LEMMA ConsistentIf ==
  ASSUME NEW r, r.tokens \in Nat, r.partials \in Nat,
         r.tokens # 0 => r.outcome = "captured" /\ r.reason = "",
         r.outcome = "captured" => ~(r.tokens = 0 /\ r.partials = 0)
  PROVE  Consistent(r)
BY Sums, Zenon DEF Consistent

\* A row without tokens that is not captured agrees.
LEMMA NotCaptured ==
  ASSUME NEW r, r.tokens = 0, r.partials \in Nat, r.outcome # "captured"
  PROVE  Consistent(r)
<1>1. 0 \in Nat
  OBVIOUS
<1>2. r.tokens \in Nat
  BY <1>1, Zenon
<1> QED BY <1>2, ConsistentIf, Zenon

\* What is counted was seen.
LEMMA CountSeen ==
  ASSUME NEW es \in Seq(KindsOrBad)
  PROVE  \A k : /\ Count(es, k) \in Nat
                /\ Count(es, k) > 0 <=> Seen(es, k)
<1> SUFFICES ASSUME NEW k
    PROVE Count(es, k) \in Nat /\ (Count(es, k) > 0 <=> Seen(es, k))
  OBVIOUS
<1>1. Count(es, k) \in Nat /\ (Count(es, k) = 0 <=> \A i \in 1..Len(es) : es[i] # k)
  BY CountType
<1>2. DOMAIN es = 1..Len(es)
  OBVIOUS
<1>3. Seen(es, k) <=> ~(Count(es, k) = 0)
  BY <1>1, <1>2 DEF Seen
<1> QED BY <1>1, <1>3

\* The usage of the events.
LEMMA LastUsageIs ==
  ASSUME NEW es \in Seq(KindsOrBad)
  PROVE  /\ LastUsage(es).tokens \in {0, 1} /\ LastUsage(es).partials \in Nat
         /\ LastUsage(es).tokens \in Nat
         /\ LastUsage(es).tokens = 1 <=> Seen(es, "usage") \/ Seen(es, "completed")
         /\ LastUsage(es).partials > 0 <=> Seen(es, "partial")
         /\ HasLastUsage(es) <=> ~(LastUsage(es).tokens = 0 /\ LastUsage(es).partials = 0)
<1>1. Count(es, "partial") \in Nat /\ (Count(es, "partial") > 0 <=> Seen(es, "partial"))
  BY CountSeen
<1>2. HasLastUsage(es) <=> Seen(es, "usage") \/ Seen(es, "completed") \/ Seen(es, "partial")
  BY DEF HasLastUsage
<1>3. /\ LastUsage(es).tokens = IF Seen(es, "usage") \/ Seen(es, "completed") THEN 1 ELSE 0
      /\ LastUsage(es).partials = Count(es, "partial")
  BY DEF LastUsage, Usage
<1> QED BY <1>1, <1>2, <1>3

\* finalizeStreamUsage for every profile but responses.
LEMMA OtherConsistent ==
  ASSUME NEW es \in Seq(KindsOrBad)
  PROVE  Consistent(FinalizeOther(es))
<1> DEFINE fin == FinalizeOther(es)
<1>1. /\ LastUsage(es).tokens \in {0, 1} /\ LastUsage(es).partials \in Nat
      /\ HasLastUsage(es) <=> ~(LastUsage(es).tokens = 0 /\ LastUsage(es).partials = 0)
  BY LastUsageIs
<1>2. CASE HasLastUsage(es)
  <2>1. /\ fin.outcome = "captured" /\ fin.reason = ""
        /\ fin.tokens = LastUsage(es).tokens /\ fin.partials = LastUsage(es).partials
    BY <1>2 DEF FinalizeOther, Row
  <2> HIDE DEF fin
  <2>2. fin.tokens \in Nat /\ fin.partials \in Nat
    <3>1. LastUsage(es).tokens \in Nat /\ LastUsage(es).partials \in Nat
      BY LastUsageIs
    <3> QED BY <2>1, <3>1, Zenon
  <2>3. Consistent(fin)
    BY <1>1, <1>2, <2>1, <2>2, ConsistentIf, Zenon
  <2> QED BY <2>3 DEF fin
<1>3. CASE ~HasLastUsage(es)
  <2>1. /\ fin.outcome # "captured" /\ fin.tokens = 0 /\ fin.partials = 0
    BY <1>3 DEF FinalizeOther, Row, NoUsage
  <2> HIDE DEF fin
  <2>2. 0 \in Nat
    OBVIOUS
  <2>3. fin.partials \in Nat
    BY <2>1, <2>2, Zenon
  <2>4. Consistent(fin)
    BY <2>1, <2>3, NotCaptured, Zenon
  <2> QED BY <2>4 DEF fin
<1> QED BY <1>2, <1>3

\* The result of the state machine of the response.* events: captured with a
\* count, or something else without one.
ResultOK(res, es) ==
  \/ /\ res.outcome = "captured" /\ res.reason = ""
     /\ res.tokens \in Nat /\ res.partials \in Nat
     /\ ~(res.tokens = 0 /\ res.partials = 0)
  \/ /\ res.outcome \in {"skipped", "failed"} /\ res.tokens = 0 /\ res.partials = 0
     /\ ~Seen(es, "completed")

\* finish gives one of these.
LEMMA ResultIs ==
  ASSUME NEW es \in Seq(KindsOrBad)
  PROVE  ResultOK(Result(es), es)
<1> DEFINE n == Count(es, "partial")
           res == Result(es)
<1>1. n \in Nat
  BY CountSeen
<1>2. CASE Seen(es, "completed")
  <2>1. res.outcome = "captured" /\ res.reason = "" /\ res.tokens = 1 /\ res.partials = n
    BY <1>2 DEF Result, Row, Usage
  <2> HIDE DEF res, n
  <2>2. 1 \in Nat /\ 1 # 0
    OBVIOUS
  <2>3. ResultOK(res, es)
    BY <1>1, <2>1, <2>2, Zenon DEF ResultOK
  <2> QED BY <2>3 DEF res
<1>3. CASE ~Seen(es, "completed") /\ Seen(es, "bad")
  <2>1. res.outcome = "failed" /\ res.tokens = 0 /\ res.partials = 0
    BY <1>3 DEF Result, Row, NoUsage
  <2> HIDE DEF res
  <2>2. ResultOK(res, es)
    BY <1>3, <2>1 DEF ResultOK
  <2> QED BY <2>2 DEF res
<1>4. CASE /\ ~Seen(es, "completed") /\ ~Seen(es, "bad") /\ Seen(es, "bare")
  <2>1. res = IF n # 0
              THEN [outcome |-> "captured", reason |-> "", terminal |-> "response.completed",
                    tokens |-> 0, partials |-> n]
              ELSE [outcome |-> "skipped", reason |-> "response_completed_without_usage",
                    terminal |-> "response.completed", tokens |-> 0, partials |-> 0]
    <3>1. n > 0 <=> n # 0
      <4> HIDE DEF n
      <4> QED BY <1>1
    <3>2. res = CASE n > 0 -> [outcome |-> "captured", reason |-> "",
                              terminal |-> "response.completed", tokens |-> 0, partials |-> n]
                  [] n = 0 -> [outcome |-> "skipped",
                              reason |-> "response_completed_without_usage",
                              terminal |-> "response.completed", tokens |-> 0, partials |-> 0]
                  [] OTHER -> res
      BY <1>4, <3>1 DEF Result, Row, Usage, NoUsage
    <3> QED BY <3>1, <3>2
  <2> HIDE DEF res, n
  <2>2. \/ res.outcome = "captured" /\ res.reason = "" /\ res.tokens = 0 /\ res.partials = n /\ n # 0
        \/ res.outcome = "skipped" /\ res.tokens = 0 /\ res.partials = 0
    BY <1>1, <2>1
  <2>3. 0 \in Nat
    OBVIOUS
  <2>4. ResultOK(res, es)
    BY <1>1, <1>4, <2>2, <2>3, Zenon DEF ResultOK
  <2> QED BY <2>4 DEF res
<1>5. CASE /\ ~Seen(es, "completed") /\ ~Seen(es, "bad") /\ ~Seen(es, "bare")
  <2>1. res.outcome \in {"skipped", "failed"} /\ res.tokens = 0 /\ res.partials = 0
    BY <1>5 DEF Result, Row, NoUsage
  <2> HIDE DEF res
  <2>2. ResultOK(res, es)
    BY <1>5, <2>1 DEF ResultOK
  <2> QED BY <2>2 DEF res
<1> QED BY <1>2, <1>3, <1>4, <1>5

\* finalizeStreamUsage for the responses profile, whose events have no chat
\* usage among them.
LEMMA ResponsesConsistent ==
  ASSUME NEW es \in Seq(KindsOrBad), ~Seen(es, "usage")
  PROVE  Consistent(FinalizeResponses(es))
<1> DEFINE res == Result(es)
           usage == Usage(res.tokens, res.partials)
           last == LastUsage(es)
           fin == FinalizeResponses(es)
<1>1. ResultOK(res, es)
  BY ResultIs
<1>2. /\ last.tokens \in {0, 1} /\ last.tokens \in Nat /\ last.partials \in Nat
      /\ last.tokens = 1 => Seen(es, "completed")
  BY LastUsageIs
<1>3. fin = IF ~HasLastUsage(es) THEN res
            ELSE IF usage # NoUsage
              THEN Row(res.outcome, res.reason, res.terminal, Merge(last, usage))
            ELSE IF res.outcome = "skipped" /\ last.tokens > 0
              THEN Row("captured", "", res.terminal, last)
            ELSE Row(res.outcome, res.reason, res.terminal, last)
  BY DEF FinalizeResponses
<1>4. usage # NoUsage <=> ~(res.tokens = 0 /\ res.partials = 0)
  BY DEF Usage, NoUsage
<1>5. usage.tokens = res.tokens /\ usage.partials = res.partials
  BY DEF Usage
<1> SUFFICES Consistent(fin)
  OBVIOUS
<1> HIDE DEF fin, res, usage, last
<1>6. CASE ~HasLastUsage(es)
  <2>1. fin = res
    BY <1>3, <1>6
  <2>2. /\ fin.tokens \in Nat /\ fin.partials \in Nat
        /\ fin.tokens # 0 => fin.outcome = "captured" /\ fin.reason = ""
        /\ fin.outcome = "captured" => ~(fin.tokens = 0 /\ fin.partials = 0)
    <3>1. 0 \in Nat /\ "captured" \notin {"skipped", "failed"}
      OBVIOUS
    <3> QED BY <1>1, <2>1, <3>1, Zenon DEF ResultOK
  <2> QED BY <2>2, ConsistentIf, Zenon
<1>7. CASE HasLastUsage(es) /\ usage # NoUsage
  <2>1. fin = Row(res.outcome, res.reason, res.terminal, Merge(last, usage))
    BY <1>3, <1>7
  <2>2. /\ res.outcome = "captured" /\ res.reason = "" /\ res.tokens \in Nat
        /\ res.partials \in Nat /\ ~(res.tokens = 0 /\ res.partials = 0)
    BY <1>1, <1>4, <1>7 DEF ResultOK
  <2>3. /\ fin.outcome = "captured" /\ fin.reason = ""
        /\ fin.tokens = IF res.tokens # 0 THEN res.tokens ELSE last.tokens
        /\ fin.partials = last.partials + res.partials
    BY <1>5, <2>1, <2>2 DEF Row, Merge, Usage
  <2> DEFINE t == res.tokens  p == res.partials  lt == last.tokens  lp == last.partials
  <2>4. t \in Nat /\ p \in Nat /\ ~(t = 0 /\ p = 0) /\ lt \in Nat /\ lp \in Nat
    BY <1>2, <2>2
  <2>5. /\ fin.tokens = IF t # 0 THEN t ELSE lt
        /\ fin.partials = lp + p
    BY <2>3
  <2> HIDE DEF t, p, lt, lp
  <2>6. /\ fin.tokens \in Nat /\ fin.partials \in Nat
        /\ ~(fin.tokens = 0 /\ fin.partials = 0)
    BY <2>4, <2>5
  <2> QED BY <2>3, <2>6, ConsistentIf, Zenon
<1>8. CASE HasLastUsage(es) /\ usage = NoUsage
  <2>1. res.outcome \in {"skipped", "failed"} /\ ~Seen(es, "completed")
    <3>1. res.tokens = 0 /\ res.partials = 0
      BY <1>4, <1>8
    <3> QED BY <1>1, <3>1 DEF ResultOK
  <2>2. last.tokens = 0
    BY <1>2, <2>1
  <2>3. fin = Row(res.outcome, res.reason, res.terminal, last)
    BY <1>3, <1>8, <2>2
  <2>4. fin.outcome # "captured" /\ fin.tokens = 0 /\ fin.partials \in Nat
    BY <1>2, <2>1, <2>2, <2>3 DEF Row
  <2> QED BY <2>4, NotCaptured, Zenon
<1> QED BY <1>6, <1>7, <1>8

\* A responses stream has no end of a chat chunk in it, so no such event.
LEMMA NoChatUsage ==
  ASSUME BasicInv, ForwardInv, profile = "responses"
  PROVE  ~Seen(events, "usage")
<1> DEFINE x == <<"usage", 2>>
           u == SubSeq(stream, 1, forwarded)
           E == Count(events, "usage")  D == Count(asm.data, x)
           L == Count(lineBuf, x)  C == Count(chunk, x)
           F == Count(u, x)
<1>1. "usage" \in Kinds
  BY DEF Kinds
<1>2. E \in Nat /\ D \in Nat /\ L \in Nat /\ C \in Nat /\ F \in Nat
  BY <1>1, CountFacts
<1>3. E + (D + L + C) <= F
  BY <1>1 DEF ForwardInv, Waiting
<1>4. F = 0
  <2>1. u \in Seq(ResponsesAtoms)
    BY ForwardedCount
  <2> HIDE DEF u
  <2>2. \A i \in 1..Len(u) : u[i] # x
    <3>1. x \notin ResponsesAtoms
      BY DEF ResponsesAtoms
    <3> HIDE DEF x
    <3> QED BY <2>1, <3>1
  <2> QED BY <2>1, <2>2, CountType
<1> HIDE DEF E, D, L, C, F
<1>5. E = 0
  BY <1>2, <1>3, <1>4
<1>6. events \in Seq(KindsOrBad)
  BY TypeFacts DEF BasicInv
<1> QED BY <1>5, <1>6, CountSeen DEF E

\* The outcome of the row agrees with its numbers, whatever the stream held.
THEOREM RowAgrees == Spec => []TokensMeanCaptured
<1>1. BasicInv /\ ForwardInv => TokensMeanCaptured
  <2> SUFFICES ASSUME BasicInv, ForwardInv, Recorded PROVE Consistent(row)
    BY DEF TokensMeanCaptured, Consistent
  <2>1. row = FinalizeStreamUsage(events) /\ events \in Seq(KindsOrBad)
    BY TypeFacts DEF BasicInv
  <2>2. CASE profile = "responses"
    <3>1. Consistent(FinalizeResponses(events))
      BY <2>1, <2>2, NoChatUsage, ResponsesConsistent
    <3> QED BY <2>1, <2>2, <3>1 DEF FinalizeStreamUsage
  <2>3. CASE profile = "chat"
    <3>1. Consistent(FinalizeOther(events))
      BY <2>1, OtherConsistent
    <3> QED BY <2>1, <2>3, <3>1 DEF FinalizeStreamUsage
  <2>4. CASE profile = "compressed"
    <3>1. row = Row("skipped", "compressed_stream_not_metered", "", NoUsage)
      BY <2>1, <2>4 DEF FinalizeStreamUsage
    <3>2. row.outcome # "captured" /\ row.tokens = 0 /\ row.partials = 0
      BY <3>1 DEF Row, NoUsage
    <3>3. 0 \in Nat
      OBVIOUS
    <3>4. row.partials \in Nat
      BY <3>2, <3>3, Zenon
    <3> QED BY <3>2, <3>4, NotCaptured, Zenon
  <2> QED BY <2>2, <2>3, <2>4 DEF BasicInv, StaticInv
<1> QED BY <1>1, ForwardSafe, PTL

-----------------------------------------------------------------------------
(* Where the parser is *)

\* The stream around a line that is not past its last one.
LEMMA LinePlace ==
  ASSUME StaticInv, NEW m \in 0..Len(lines), m < Len(lines)
  PROVE  /\ m \in Nat /\ m + 1 \in 0..Len(lines) /\ m + 1 \in 1..Len(lines)
         /\ lines[m + 1] \in AllLines /\ Len(lines[m + 1]) \in Nat /\ Len(brk) \in {1, 2}
         /\ End(m) \in Nat /\ End(m + 1) \in Nat
         /\ End(m + 1) = End(m) + Len(lines[m + 1]) + Len(brk)
         /\ End(m) + Len(lines[m + 1]) <= Len(stream)
         /\ \A j \in 1..Len(lines[m + 1]) :
              /\ stream[End(m) + j] = lines[m + 1][j]
              /\ stream[End(m) + j] # CR /\ stream[End(m) + j] # LF
         /\ End(m) + Len(lines[m + 1]) < Len(stream) =>
              /\ End(m + 1) <= Len(stream)
              /\ \A j \in 1..Len(brk) : stream[End(m) + Len(lines[m + 1]) + j] = brk[j]
<1> DEFINE e == End(m)  f == End(m + 1)  w == Len(lines[m + 1])  L == Len(lines)  n == Len(stream)
           b == Len(brk)
<1>1. Laid
  BY Layout
<1>2. LaidLine(m) /\ e \in Nat /\ L \in Nat /\ n \in Nat
  BY <1>1 DEF Laid
<1>3. m \in Nat /\ m + 1 \in 0..L /\ m + 1 \in 1..L
  BY <1>2
<1>4. lines[m + 1] \in AllLines /\ w \in Nat /\ f \in Nat /\ b \in {1, 2}
  BY <1>1, <1>2, <1>3, TextFacts DEF Laid
<1>5. f = e + w + b /\ e + w <= n
  BY <1>2 DEF LaidLine
<1>6. ASSUME NEW j \in 1..w
      PROVE  stream[e + j] = lines[m + 1][j] /\ stream[e + j] # CR /\ stream[e + j] # LF
  <2>1. stream[e + j] = lines[m + 1][j]
    BY <1>2 DEF LaidLine
  <2>2. lines[m + 1][j] # CR /\ lines[m + 1][j] # LF
    BY <1>4, LineAtoms
  <2> QED BY <2>1, <2>2
<1>7. ASSUME e + w < n PROVE f <= n
  <2>1. CASE m + 1 < L
    BY <1>2, <2>1 DEF LaidLine
  <2>2. CASE ~(m + 1 < L)
    <3>1. m + 1 = L /\ L - 1 = m
      BY <1>2, <1>3, <2>2
    <3>2. n = End(L) \/ n = End(L - 1) + Len(lines[L])
      BY <1>1 DEF Laid
    <3>3. n = f \/ n = e + w
      BY <3>1, <3>2
    <3> HIDE DEF e, f, w, n
    <3> QED BY <1>2, <1>4, <1>7, <3>3
  <2> QED BY <2>1, <2>2
<1>8. ASSUME f <= n PROVE \A j \in 1..b : stream[e + w + j] = brk[j]
  BY <1>2, <1>8 DEF LaidLine
<1> QED BY <1>2, <1>3, <1>4, <1>5, <1>6, <1>7, <1>8

\* Whoever is past the last line is past the stream.
LEMMA PastTheEnd ==
  ASSUME StaticInv
  PROVE  Len(stream) <= End(Len(lines))
<1> DEFINE L == Len(lines)  n == Len(stream)
<1>1. Laid /\ L \in Nat /\ n \in Nat
  BY Layout, TextFacts
<1>2. L \in 0..L /\ End(L) \in Nat
  BY <1>1 DEF Laid
<1>3. CASE n = End(L)
  BY <1>2, <1>3
<1>4. CASE L > 0 /\ n = End(L - 1) + Len(lines[L])
  <2> DEFINE m == L - 1
  <2>1. m \in 0..L /\ m < L /\ m + 1 = L
    BY <1>1, <1>4
  <2> HIDE DEF m
  <2>2. /\ End(m + 1) = End(m) + Len(lines[m + 1]) + Len(brk) /\ Len(brk) \in {1, 2}
        /\ End(m) \in Nat /\ Len(lines[m + 1]) \in Nat
    BY <2>1, LinePlace
  <2>3. n = End(m) + Len(lines[m + 1])
    BY <1>4, <2>1 DEF m
  <2> DEFINE e == End(m)  w == Len(lines[m + 1])  f == End(m + 1)  b == Len(brk)
  <2> HIDE DEF e, w, f, b
  <2>4. n = e + w /\ f = e + w + b /\ b \in {1, 2} /\ e \in Nat /\ w \in Nat
    BY <2>2, <2>3 DEF e, w, f, b
  <2> HIDE DEF n
  <2>5. n <= f
    BY <2>4
  <2> QED BY <2>1, <2>5 DEF n, f
<1> QED BY <1>1, <1>3, <1>4 DEF Laid

\* What follows a line and its break is no LF, unless that is the break.
LEMMA AfterBreak ==
  ASSUME StaticInv, NEW m \in 0..Len(lines), End(m) < Len(stream), brk[1] = CR
  PROVE  stream[End(m) + 1] # LF
<1> DEFINE e == End(m)  n == Len(stream)  L == Len(lines)
<1>1. Laid /\ L \in Nat /\ n \in Nat /\ e \in Nat
  BY Layout, TextFacts DEF Laid
<1>2. n <= End(L)
  BY PastTheEnd
<1>3. m < L
  <2>1. m # L
    <3> SUFFICES ASSUME m = L PROVE FALSE
      OBVIOUS
    <3>1. e < n /\ n <= e
      BY <1>2
    <3> HIDE DEF e, n
    <3> QED BY <1>1, <3>1
  <2> QED BY <1>1, <2>1
<1> DEFINE w == Len(lines[m + 1])
<1>4. /\ w \in Nat /\ Len(brk) \in {1, 2}
      /\ \A j \in 1..w : stream[e + j] # LF
      /\ e + w < n => \A j \in 1..Len(brk) : stream[e + w + j] = brk[j]
  BY <1>3, LinePlace
<1>5. CASE w > 0
  <2>1. 1 \in 1..w
    BY <1>4, <1>5
  <2> QED BY <1>4, <2>1
<1>6. CASE w = 0
  <2>1. e + w < n /\ 1 \in 1..Len(brk) /\ e + w + 1 = e + 1
    <3> HIDE DEF e, n, w
    <3>1. e < n
      BY DEF e, n
    <3> QED BY <1>1, <1>4, <1>6, <3>1
  <2>2. stream[e + 1] = CR
    BY <1>4, <2>1
  <2>3. CR # LF
    BY DEF CR, LF
  <2> QED BY <2>2, <2>3
<1> QED BY <1>4, <1>5, <1>6

Parsed == forwarded - Len(chunk)
InLine(m, p) ==
  /\ p \in Nat /\ Parsed = End(m) + p
  /\ IF m = Len(lines) THEN p = 0 ELSE p <= Len(lines[m + 1])
  /\ IF lineOverflow THEN p > MaxLine /\ lineBuf = <<>>
     ELSE /\ p <= MaxLine /\ Len(lineBuf) = p
          /\ \A j \in 1..p : lineBuf[j] = lines[m + 1][j]
InBreak(m) ==
  /\ m > 0 /\ brk = <<CR, LF>> /\ Parsed = End(m) - 1 /\ End(m) <= Len(stream)
  /\ lineBuf = <<>> /\ ~lineOverflow /\ cutBreak
At(m) == m \in 0..Len(lines) /\ ((\E p \in Nat : InLine(m, p)) \/ InBreak(m))

\* The chunk is what follows; a break that a read cut is known.
ChunkInv == Len(chunk) <= forwarded /\ \A j \in 1..Len(chunk) : chunk[j] = stream[Parsed + j]
CutInv ==
  forwarded > 0 /\ forwarded < Len(stream) /\ stream[forwarded] = CR
    /\ stream[forwarded + 1] = LF => cutBreak

\* What the assembler is given for a line.
Effective(l) == IF Len(l) > MaxLine THEN <<>> ELSE l

\* The numbers.
LEMMA ChunkFacts ==
  ASSUME BasicInv, ChunkInv
  PROVE  /\ chunk \in Seq(Atoms) /\ Len(chunk) \in Nat /\ lineBuf \in Seq(Atoms)
         /\ Parsed \in Nat /\ Parsed + Len(chunk) = forwarded /\ forwarded <= Len(stream)
         /\ forwarded \in Nat /\ Len(stream) \in Nat
         /\ \A j \in 1..Len(chunk) : chunk[j] = stream[Parsed + j]
<1>1. /\ chunk \in Seq(Atoms) /\ Len(chunk) \in Nat /\ lineBuf \in Seq(Atoms)
      /\ forwarded <= Len(stream) /\ forwarded \in Nat /\ Len(stream) \in Nat
  BY TypeFacts DEF BasicInv, TypeOK
<1>2. Len(chunk) <= forwarded /\ \A j \in 1..Len(chunk) : chunk[j] = stream[Parsed + j]
  BY DEF ChunkInv
<1>3. Parsed \in Nat /\ Parsed + Len(chunk) = forwarded
  BY <1>1, <1>2 DEF Parsed
<1> QED BY <1>1, <1>2, <1>3

\* The break.
LEMMA BreakSize ==
  ASSUME StaticInv
  PROVE  /\ Len(brk) \in {1, 2} /\ Len(brk) \in Nat /\ 1 \in 1..Len(brk)
         /\ brk[1] \in {CR, LF}
         /\ Len(brk) = 2 <=> brk = <<CR, LF>>
         /\ Len(brk) = 2 => 2 \in 1..Len(brk) /\ brk[1] = CR /\ brk[2] = LF
<1> DEFINE b == Len(brk)
<1>1. b \in {1, 2} /\ brk[1] \in {CR, LF} /\ (b = 2 => brk = <<CR, LF>>)
  BY BreakAtoms DEF StaticInv
<1>2. brk = <<CR, LF>> => b = 2 /\ brk[1] = CR /\ brk[2] = LF
  OBVIOUS
<1> HIDE DEF b
<1>3. b \in Nat /\ 1 \in 1..b /\ (b = 2 => 2 \in 1..b)
  BY <1>1
<1> QED BY <1>1, <1>2, <1>3 DEF b

\* A line of the chunk, as long as the parser is in a line: its break is the
\* first of the chunk, and the text before it is the rest of the line.
LEMMA BreakOfLine ==
  ASSUME BasicInv, ChunkInv, NEW m \in 0..Len(lines), NEW p \in Nat, InLine(m, p),
         chunk # <<>>
  PROVE  /\ m < Len(lines)
         /\ \A j \in 1..Len(chunk) : j <= Len(lines[m + 1]) - p =>
              chunk[j] = lines[m + 1][p + j] /\ chunk[j] \notin {CR, LF}
         /\ Len(chunk) > Len(lines[m + 1]) - p =>
              /\ chunk[Len(lines[m + 1]) - p + 1] = brk[1]
              /\ End(m + 1) <= Len(stream)
<1> DEFINE L == Len(lines)  n == Len(stream)  e == End(m)  c == Len(chunk)
           w == Len(lines[m + 1])  P == Parsed
<1>1. /\ c \in Nat /\ P \in Nat /\ P + c = forwarded /\ forwarded <= n /\ n \in Nat
      /\ forwarded \in Nat /\ chunk \in Seq(Atoms)
      /\ \A j \in 1..c : chunk[j] = stream[P + j]
  BY ChunkFacts
<1>2. P = e + p /\ StaticInv /\ L \in Nat
  BY TextFacts DEF InLine, BasicInv
<1>3. c > 0
  BY <1>1, EmptySeq
<1>4. e \in Nat
  BY <1>2, Layout DEF Laid
<1>5. m < L
  <2> SUFFICES ASSUME m = L PROVE FALSE
    BY <1>2
  <2>1. p = 0
    BY DEF InLine
  <2>2. n <= e
    BY <1>2, PastTheEnd
  <2> HIDE DEF e, n, c, P
  <2> QED BY <1>1, <1>2, <1>3, <1>4, <2>1, <2>2
<1>6. /\ w \in Nat /\ Len(brk) \in {1, 2}
      /\ \A j \in 1..w : stream[e + j] = lines[m + 1][j] /\ stream[e + j] # CR /\ stream[e + j] # LF
      /\ e + w < n => End(m + 1) <= n /\ \A j \in 1..Len(brk) : stream[e + w + j] = brk[j]
  BY <1>2, <1>5, LinePlace
<1>7. p <= w
  BY <1>2, <1>5 DEF InLine
<1>8. ASSUME NEW j \in 1..c, j <= w - p
      PROVE  chunk[j] = lines[m + 1][p + j] /\ chunk[j] \notin {CR, LF}
  <2>1. p + j \in 1..w /\ e + (p + j) = P + j
    <3> HIDE DEF e, w, c, P
    <3> QED BY <1>1, <1>2, <1>4, <1>6, <1>7, <1>8
  <2>2. chunk[j] = stream[P + j]
    BY <1>1
  <2>3. stream[e + (p + j)] = lines[m + 1][p + j] /\ stream[e + (p + j)] # CR /\ stream[e + (p + j)] # LF
    <3> DEFINE i == p + j
    <3>1. i \in 1..w
      BY <2>1
    <3> HIDE DEF i, w, e
    <3>2. stream[e + i] = lines[m + 1][i] /\ stream[e + i] # CR /\ stream[e + i] # LF
      BY <1>6, <3>1
    <3> QED BY <3>2 DEF i
  <2> QED BY <2>1, <2>2, <2>3
<1>9. ASSUME c > w - p
      PROVE  chunk[w - p + 1] = brk[1] /\ End(m + 1) <= n
  <2>1. /\ w - p + 1 \in 1..c /\ e + w < n /\ P + (w - p + 1) = e + w + 1 /\ 1 \in 1..Len(brk)
    <3>1. w \in Nat /\ P + c <= n /\ P = e + p
      BY <1>1, <1>2, <1>6
    <3>2. 1 \in 1..Len(brk)
      BY <1>2, BreakSize
    <3> HIDE DEF e, w, c, P, n
    <3> QED BY <1>1, <1>4, <1>7, <1>9, <3>1, <3>2
  <2>2. chunk[w - p + 1] = stream[P + (w - p + 1)]
    BY <1>1, <2>1
  <2>3. stream[e + w + 1] = brk[1] /\ End(m + 1) <= n
    BY <1>6, <2>1
  <2> QED BY <2>1, <2>2, <2>3
<1> QED BY <1>5, <1>8, <1>9

\* Where the first break of the chunk is, and how much of it the chunk holds.
LEMMA FirstBreakIs ==
  ASSUME BasicInv, ChunkInv, NEW m \in 0..Len(lines), NEW p \in Nat, InLine(m, p),
         BreakIn(chunk) # {}
  PROVE  /\ m < Len(lines) /\ p <= Len(lines[m + 1])
         /\ Len(chunk) > Len(lines[m + 1]) - p
         /\ NextLineBreak(chunk) = Len(lines[m + 1]) - p + 1
         /\ End(m + 1) <= Len(stream)
         /\ \/ BreakWidth(chunk, NextLineBreak(chunk)) = Len(brk)
            \/ /\ BreakWidth(chunk, NextLineBreak(chunk)) = 1 /\ brk = <<CR, LF>>
               /\ NextLineBreak(chunk) = Len(chunk)
               /\ forwarded < Len(stream) /\ forwarded > 0
               /\ stream[forwarded] = CR /\ stream[forwarded + 1] = LF
<1> DEFINE L == Len(lines)  n == Len(stream)  e == End(m)  c == Len(chunk)
           w == Len(lines[m + 1])  P == Parsed  i == NextLineBreak(chunk)  f == End(m + 1)
           b == Len(brk)
<1>1. /\ c \in Nat /\ P \in Nat /\ P + c = forwarded /\ forwarded <= n /\ n \in Nat
      /\ forwarded \in Nat /\ chunk \in Seq(Atoms)
      /\ \A j \in 1..c : chunk[j] = stream[P + j]
  BY ChunkFacts
<1>2. StaticInv /\ P = e + p
  BY DEF BasicInv, InLine
<1>3. chunk # <<>>
  BY DEF BreakIn
<1>4. /\ m < L
      /\ \A j \in 1..c : j <= w - p => chunk[j] \notin {CR, LF}
      /\ c > w - p => chunk[w - p + 1] = brk[1] /\ f <= n
  BY <1>3, BreakOfLine
<1>5. i \in 1..c /\ chunk[i] \in {CR, LF} /\ \A j \in 1..c : chunk[j] \in {CR, LF} => i <= j
  BY <1>1, NextBreak
<1>6. /\ w \in Nat /\ e \in Nat /\ f \in Nat /\ f = e + w + b
      /\ \A j \in 1..w : stream[e + j] # LF
      /\ e + w < n => \A j \in 1..b : stream[e + w + j] = brk[j]
  BY <1>2, <1>4, LinePlace
<1>7. p <= w
  BY <1>4 DEF InLine
<1>8. /\ b \in {1, 2} /\ b \in Nat /\ 1 \in 1..b /\ brk[1] \in {CR, LF}
      /\ b = 2 <=> brk = <<CR, LF>>
      /\ b = 2 => 2 \in 1..b /\ brk[1] = CR /\ brk[2] = LF
  BY <1>2, BreakSize
<1>9. ~(i <= w - p)
  BY <1>4, <1>5
<1>10. c > w - p
  <2> HIDE DEF c, w, i
  <2> QED BY <1>1, <1>5, <1>6, <1>7, <1>9
<1>11. i <= w - p + 1
  <2>1. w - p + 1 \in 1..c
    <3> HIDE DEF c, w
    <3> QED BY <1>1, <1>6, <1>7, <1>10
  <2>2. chunk[w - p + 1] \in {CR, LF}
    BY <1>4, <1>8, <1>10
  <2> QED BY <1>5, <2>1, <2>2
<1>12. i = w - p + 1 /\ e + w < n /\ P + i = e + w + 1 /\ f <= n
  <2>1. i = w - p + 1 /\ e + w < n /\ P + i = e + w + 1
    <3>1. w \in Nat /\ e \in Nat /\ i \in 1..c
      BY <1>5, <1>6
    <3>2. c \in Nat /\ P \in Nat /\ P + c <= n /\ n \in Nat
      BY <1>1
    <3> HIDE DEF c, w, i, e, n, P
    <3> QED BY <1>2, <1>7, <1>9, <1>10, <1>11, <3>1, <3>2
  <2> QED BY <1>4, <1>10, <2>1
<1>13. chunk[i] = brk[1]
  BY <1>4, <1>10, <1>12
<1>14. ASSUME i < c PROVE i + 1 \in 1..c /\ chunk[i + 1] = stream[e + w + 2]
  <2>1. i + 1 \in 1..c /\ P + (i + 1) = e + w + 2
    <3>1. w \in Nat /\ e \in Nat /\ i \in 1..c /\ c \in Nat /\ P \in Nat
      BY <1>1, <1>5, <1>6
    <3> HIDE DEF c, w, i, e, P
    <3> QED BY <1>12, <1>14, <3>1
  <2> QED BY <1>1, <2>1
<1>15. CR # LF
  BY DEF CR, LF
<1>16. \/ BreakWidth(chunk, i) = b
       \/ /\ BreakWidth(chunk, i) = 1 /\ brk = <<CR, LF>> /\ i = c
          /\ forwarded < n /\ forwarded > 0
          /\ stream[forwarded] = CR /\ stream[forwarded + 1] = LF
  <2>1. CASE b = 2 /\ i < c
    <3>1. chunk[i] = CR /\ chunk[i + 1] = LF
      BY <1>6, <1>8, <1>12, <1>13, <1>14, <2>1
    <3> QED BY <2>1, <3>1 DEF BreakWidth
  <2>2. CASE b = 2 /\ ~(i < c)
    <3>1. i = c /\ forwarded = e + w + 1 /\ f = e + w + 2
      <4>1. w \in Nat /\ e \in Nat /\ i \in 1..c /\ c \in Nat /\ P \in Nat /\ f = e + w + b
            /\ P + c = forwarded
        BY <1>1, <1>5, <1>6
      <4> HIDE DEF c, w, i, e, P, f, b
      <4> QED BY <1>12, <2>2, <4>1
    <3>2. forwarded < n /\ forwarded > 0 /\ forwarded + 1 = e + w + 2
      <4>1. w \in Nat /\ e \in Nat /\ n \in Nat
        BY <1>1, <1>6
      <4> HIDE DEF w, e, f, n
      <4> QED BY <1>12, <3>1, <4>1
    <3>3. stream[e + w + 1] = CR /\ stream[e + w + 2] = LF
      BY <1>6, <1>8, <1>12, <2>2
    <3>4. BreakWidth(chunk, i) = 1
      BY <2>2 DEF BreakWidth
    <3> QED BY <1>8, <2>2, <3>1, <3>2, <3>3, <3>4
  <2>3. CASE b = 1
    <3>1. ASSUME i < c, chunk[i] = CR PROVE chunk[i + 1] # LF
      <4>1. m + 1 \in 0..L
        BY <1>2, <1>4, LinePlace
      <4>2. f < n /\ f + 1 = e + w + 2
        <5>1. w \in Nat /\ e \in Nat /\ i \in 1..c /\ c \in Nat /\ P \in Nat /\ f = e + w + b
              /\ P + c <= n /\ n \in Nat
          BY <1>1, <1>5, <1>6
        <5> HIDE DEF c, w, i, e, P, f, b, n
        <5> QED BY <1>12, <2>3, <3>1, <5>1
      <4>3. stream[f + 1] # LF
        <5> DEFINE k == m + 1
        <5>1. k \in 0..L /\ End(k) < n /\ brk[1] = CR
          BY <1>13, <3>1, <4>1, <4>2
        <5> HIDE DEF k
        <5>2. stream[End(k) + 1] # LF
          BY <1>2, <5>1, AfterBreak
        <5> QED BY <5>2 DEF k
      <4> QED BY <1>14, <3>1, <4>2, <4>3
    <3>2. BreakWidth(chunk, i) = 1
      BY <3>1 DEF BreakWidth
    <3> QED BY <2>3, <3>2
  <2> QED BY <1>8, <2>1, <2>2, <2>3
<1> QED BY <1>4, <1>7, <1>10, <1>12, <1>16

\* What the parser takes for the line is the line, however many reads it took.
LEMMA TextIs ==
  ASSUME BasicInv, ChunkInv, NEW m \in 0..Len(lines), NEW p \in Nat, InLine(m, p),
         BreakIn(chunk) # {}
  PROVE  LineRead = Effective(lines[m + 1])
<1> DEFINE l == lines[m + 1]  w == Len(l)  i == NextLineBreak(chunk)  c == Len(chunk)
           k == i - 1  t == SubSeq(chunk, 1, k)
<1>1. chunk \in Seq(Atoms) /\ c \in Nat /\ lineBuf \in Seq(Atoms) /\ StaticInv
  BY ChunkFacts DEF BasicInv
<1>2. m < Len(lines) /\ p <= w /\ c > w - p /\ i = w - p + 1
  BY FirstBreakIs
<1>3. l \in Seq(Atoms) /\ w \in Nat
  BY <1>1, <1>2, LinePlace, LineAtoms
<1>4. k = w - p /\ k \in Nat /\ k <= c
  <2> HIDE DEF w, i, c
  <2> QED BY <1>1, <1>2, <1>3
<1>5. CASE lineOverflow
  <2>1. p > MaxLine
    BY <1>2, <1>5 DEF InLine
  <2>2. w > MaxLine
    <3> HIDE DEF w
    <3> QED BY <1>2, <1>3, <2>1 DEF LineAssumption
  <2> QED BY <1>5, <2>2 DEF LineRead, Effective
<1>6. CASE ~lineOverflow
  <2>1. Len(lineBuf) = p /\ \A j \in 1..p : lineBuf[j] = l[j]
    BY <1>6 DEF InLine
  <2>2. t \in Seq(Atoms) /\ Len(t) = k /\ \A j \in 1..k : t[j] = chunk[j]
    <3> HIDE DEF k, c
    <3> QED BY <1>1, <1>4 DEF c
  <2>3. \A j \in 1..k : t[j] = l[p + j]
    <3> SUFFICES ASSUME NEW j \in 1..k PROVE t[j] = l[p + j]
      OBVIOUS
    <3>1. chunk # <<>>
      BY DEF BreakIn
    <3>2. j \in 1..c /\ j <= w - p
      <4> HIDE DEF k, c, w
      <4> QED BY <1>1, <1>4
    <3>3. chunk[j] = l[p + j]
      BY <3>1, <3>2, BreakOfLine
    <3> QED BY <2>2, <3>3
  <2>4. LineText = lineBuf \o t
    BY DEF LineText
  <2> HIDE DEF t, k
  <2>5. /\ lineBuf \o t \in Seq(Atoms) /\ Len(lineBuf \o t) = p + k
        /\ \A j \in 1..(p + k) : (lineBuf \o t)[j] = IF j <= p THEN lineBuf[j] ELSE t[j - p]
    BY <1>1, <2>1, <2>2, ConcatProperties
  <2>6. p + k = w
    <3> HIDE DEF w
    <3> QED BY <1>3, <1>4
  <2>7. \A j \in 1..w : (lineBuf \o t)[j] = l[j]
    <3> SUFFICES ASSUME NEW j \in 1..w PROVE (lineBuf \o t)[j] = l[j]
      OBVIOUS
    <3>1. j \in 1..(p + k)
      BY <2>6
    <3>2. CASE j <= p
      <4>1. j \in 1..p
        <5> HIDE DEF w
        <5> QED BY <1>3, <3>2
      <4> QED BY <2>1, <2>5, <3>1, <3>2, <4>1
    <3>3. CASE ~(j <= p)
      <4>1. j - p \in 1..k /\ p + (j - p) = j
        <5> HIDE DEF w
        <5> QED BY <1>3, <1>4, <3>3
      <4> QED BY <2>3, <2>5, <3>1, <3>3, <4>1
    <3> QED BY <3>2, <3>3
  <2>8. LineText = l
    <3> HIDE DEF l, w
    <3>1. Len(lineBuf \o t) = Len(l)
      BY <2>5, <2>6 DEF w
    <3>2. \A j \in 1..Len(l) : (lineBuf \o t)[j] = l[j]
      BY <2>7 DEF w
    <3>3. lineBuf \o t = l
      BY <1>3, <2>5, <3>1, <3>2, SeqEqual
    <3> QED BY <2>4, <3>3
  <2> QED BY <1>6, <2>8 DEF LineRead, Effective
<1> QED BY <1>5, <1>6

\* What is left of the chunk after a line.
LEMMA RestIs ==
  ASSUME BasicInv, ChunkInv, Line
  PROVE  /\ ChunkInv' /\ Parsed' \in Nat
         /\ Parsed' = Parsed + NextLineBreak(chunk) + BreakWidth(chunk, NextLineBreak(chunk)) - 1
<1> DEFINE i == NextLineBreak(chunk)  bw == BreakWidth(chunk, i)  c == Len(chunk)  P == Parsed
           a == i + bw
<1>1. /\ chunk' = SubSeq(chunk, a, c) /\ forwarded' = forwarded /\ stream' = stream
      /\ BreakIn(chunk) # {}
  BY LineIs DEF RestOfChunk, Frozen
<1>2. /\ c \in Nat /\ P \in Nat /\ P + c = forwarded /\ forwarded \in Nat /\ chunk \in Seq(Atoms)
      /\ \A j \in 1..c : chunk[j] = stream[P + j]
  BY ChunkFacts
<1>3. i \in 1..c /\ bw \in {1, 2} /\ a <= c + 1
  BY <1>1, <1>2, NextBreak
<1>4. a \in 1..(c + 1)
  <2> HIDE DEF i, bw, c
  <2> QED BY <1>2, <1>3
<1> HIDE DEF a
<1>5. Len(chunk') = c - a + 1 /\ \A j \in 1..(c - a + 1) : chunk'[j] = chunk[a + j - 1]
  <2>1. Len(SubSeq(chunk, a, c)) = c - a + 1
    BY <1>2, <1>4
  <2>2. \A j \in 1..(c - a + 1) : SubSeq(chunk, a, c)[j] = chunk[a + j - 1]
    BY <1>2, <1>4
  <2> QED BY <1>1, <2>1, <2>2
<1> DEFINE d == Len(chunk')
<1>6. Parsed' = P + a - 1 /\ d <= forwarded /\ d \in Nat
  <2>1. Parsed' = forwarded - d
    BY <1>1 DEF Parsed
  <2>2. d = c - a + 1
    BY <1>5
  <2> HIDE DEF P, c, d
  <2> QED BY <1>2, <1>4, <2>1, <2>2
<1>7. \A j \in 1..d : chunk'[j] = stream[Parsed' + j]
  <2> SUFFICES ASSUME NEW j \in 1..d PROVE chunk'[j] = stream[Parsed' + j]
    OBVIOUS
  <2>0. d = c - a + 1
    BY <1>5
  <2>1. j \in 1..(c - a + 1) /\ a + j - 1 \in 1..c /\ Parsed' + j = P + (a + j - 1)
    <3> DEFINE PP == Parsed'
    <3>0. PP = P + a - 1
      BY <1>6
    <3> HIDE DEF PP, P, c, d
    <3>1. j \in 1..(c - a + 1) /\ a + j - 1 \in 1..c
      BY <1>2, <1>4, <2>0
    <3>2. PP + j = P + (a + j - 1)
      BY <1>2, <1>4, <2>0, <3>0, <3>1
    <3> QED BY <3>1, <3>2 DEF PP
  <2>2. chunk'[j] = chunk[a + j - 1]
    BY <1>5, <2>1
  <2>3. chunk[a + j - 1] = stream[P + (a + j - 1)]
    BY <1>2, <2>1
  <2> QED BY <2>1, <2>2, <2>3
<1>8. ChunkInv'
  BY <1>1, <1>6, <1>7 DEF ChunkInv
<1>9. Parsed' \in Nat
  <2> HIDE DEF P
  <2> QED BY <1>2, <1>4, <1>6
<1>10. P + a - 1 = P + i + bw - 1
  <2>1. a = i + bw
    BY DEF a
  <2>2. P \in Nat /\ i \in Nat /\ bw \in Nat
    BY <1>2, <1>3
  <2> HIDE DEF P, i, bw
  <2> QED BY <2>1, <2>2
<1> QED BY <1>6, <1>8, <1>9, <1>10

\* Between the CR and the LF of a break there is an LF to come.
LEMMA InTheBreak ==
  ASSUME BasicInv, ChunkInv, NEW m \in 0..Len(lines), InBreak(m)
  PROVE  /\ Parsed + 1 = End(m)
         /\ chunk # <<>> => 1 \in 1..Len(chunk) /\ chunk[1] = LF
<1> DEFINE L == Len(lines)  n == Len(stream)  P == Parsed  c == Len(chunk)
<1>1. StaticInv /\ P \in Nat /\ L \in Nat /\ n \in Nat
  BY ChunkFacts, TextFacts DEF BasicInv
<1>2. /\ m > 0 /\ brk = <<CR, LF>> /\ P = End(m) - 1 /\ End(m) <= n
  BY DEF InBreak
<1>3. End(m) \in Nat
  BY <1>1, Layout DEF Laid
<1>4. stream[End(m)] = LF
  <2> DEFINE k == m - 1
  <2>1. k \in 0..L /\ k < L /\ k + 1 = m
    BY <1>1, <1>2
  <2> HIDE DEF k
  <2> DEFINE e == End(k)  f == End(k + 1)  w == Len(lines[k + 1])
  <2>2. /\ e \in Nat /\ w \in Nat /\ f = e + w + Len(brk)
        /\ e + w < n => \A j \in 1..Len(brk) : stream[e + w + j] = brk[j]
    BY <1>1, <2>1, LinePlace
  <2>3. Len(brk) = 2 /\ 2 \in 1..Len(brk) /\ brk[2] = LF
    BY <1>1, <1>2, BreakSize
  <2>4. f = e + w + 2 /\ e + w < n
    <3>1. f <= n /\ f = e + w + 2
      BY <1>2, <2>1, <2>2, <2>3
    <3> HIDE DEF e, f, w, n
    <3> QED BY <1>1, <2>2, <3>1
  <2>5. stream[e + w + 2] = LF
    BY <2>2, <2>3, <2>4
  <2> QED BY <2>1, <2>4, <2>5
<1>5. P + 1 = End(m)
  <2> HIDE DEF P
  <2> QED BY <1>1, <1>2, <1>3
<1>6. ASSUME chunk # <<>> PROVE 1 \in 1..c /\ chunk[1] = LF
  <2>1. chunk \in Seq(Atoms) /\ c \in Nat /\ \A j \in 1..c : chunk[j] = stream[P + j]
    BY ChunkFacts
  <2>2. 1 \in 1..c
    <3>1. c > 0
      BY <1>6, <2>1, EmptySeq
    <3> HIDE DEF c
    <3> QED BY <2>1, <3>1
  <2> QED BY <1>4, <1>5, <2>1, <2>2
<1> QED BY <1>5, <1>6

\* A line takes the parser to the next one, or into its break.
LEMMA LineMoves ==
  ASSUME BasicInv, ChunkInv, CutInv, NEW m \in 0..Len(lines), At(m), Line
  PROVE  \/ /\ m < Len(lines) /\ LineRead = Effective(lines[m + 1])
            /\ m + 1 \in 0..Len(lines) /\ At(m + 1)'
         \/ cutBreak /\ LineRead = <<>> /\ At(m)'
<1> DEFINE L == Len(lines)  n == Len(stream)  P == Parsed  i == NextLineBreak(chunk)
           bw == BreakWidth(chunk, i)  c == Len(chunk)
<1>1. /\ BreakIn(chunk) # {} /\ chunk # <<>>
      /\ lineBuf' = <<>> /\ lineOverflow' = FALSE
      /\ lines' = lines /\ brk' = brk /\ stream' = stream /\ cutBreak' = cutBreak
  BY LineIs DEF Frozen, BreakIn
<1>2. Parsed' \in Nat /\ Parsed' = P + i + bw - 1
  BY RestIs
<1>3. \A k : End(k)' = End(k)
  BY <1>1 DEF End, First
<1>4. StaticInv /\ P \in Nat /\ L \in Nat /\ n \in Nat
  BY ChunkFacts, TextFacts DEF BasicInv
<1>5. ASSUME NEW k \in 0..L, Parsed' = End(k)
      PROVE  At(k)'
  <2>1. Len(<<>>) = 0 /\ 0 \in Nat /\ \A j \in 1..0 : FALSE
    OBVIOUS
  <2>2. k # L => 0 <= Len(lines[k + 1])
    <3> SUFFICES ASSUME k # L PROVE 0 <= Len(lines[k + 1])
      OBVIOUS
    <3>1. k < L
      BY <1>4
    <3>2. Len(lines[k + 1]) \in Nat
      BY <1>4, <3>1, LinePlace
    <3> QED BY <3>2
  <2>3. End(k) = End(k) + 0
    <3>1. End(k) \in Nat
      BY <1>4, Layout DEF Laid
    <3> QED BY <3>1
  <2>4. 0 <= MaxLine
    BY DEF LineAssumption
  <2>5. InLine(k, 0)'
    BY <1>1, <1>3, <1>5, <2>1, <2>2, <2>3, <2>4 DEF InLine
  <2> QED BY <1>1, <2>1, <2>5 DEF At
<1>6. CASE \E p \in Nat : InLine(m, p)
  <2>1. PICK p \in Nat : InLine(m, p)
    BY <1>6
  <2> DEFINE w == Len(lines[m + 1])  e == End(m)  f == End(m + 1)
  <2>2. LineRead = Effective(lines[m + 1])
    BY <1>1, <2>1, TextIs
  <2>3. /\ m < L /\ p <= w /\ c > w - p /\ i = w - p + 1 /\ f <= n
        /\ \/ bw = Len(brk)
           \/ /\ bw = 1 /\ brk = <<CR, LF>>
              /\ i = c /\ forwarded < n /\ forwarded > 0
              /\ stream[forwarded] = CR /\ stream[forwarded + 1] = LF
    BY <1>1, <2>1, FirstBreakIs
  <2>4. /\ m + 1 \in 0..L /\ f \in Nat /\ e \in Nat /\ w \in Nat /\ f = e + w + Len(brk)
        /\ m \in Nat /\ Len(brk) \in {1, 2}
    BY <1>4, <2>3, LinePlace
  <2>5. P = e + p
    BY <2>1 DEF InLine
  <2>6. CASE bw = Len(brk)
    <3>1. Parsed' = f
      <4> DEFINE PP == Parsed'  b == Len(brk)
      <4>1. PP = P + i + b - 1 /\ f = e + w + b /\ b \in Nat
        BY <1>2, <2>4, <2>6
      <4> HIDE DEF PP, P, i, b, f, e, w
      <4>2. PP = f
        BY <2>3, <2>4, <2>5, <4>1
      <4> QED BY <4>2 DEF PP
    <3> QED BY <1>5, <2>2, <2>3, <2>4, <3>1
  <2>7. CASE /\ bw = 1 /\ brk = <<CR, LF>>
             /\ i = c /\ forwarded < n /\ forwarded > 0
             /\ stream[forwarded] = CR /\ stream[forwarded + 1] = LF
    <3>1. cutBreak
      BY <2>7 DEF CutInv
    <3>2. Len(brk) = 2
      BY <1>4, <2>7, BreakSize
    <3>3. Parsed' = f - 1 /\ m + 1 > 0
      <4> DEFINE PP == Parsed'
      <4>1. PP = P + i + 1 - 1 /\ f = e + w + 2
        BY <1>2, <2>4, <2>7, <3>2
      <4> HIDE DEF PP, P, i, f, e, w
      <4>2. PP = f - 1 /\ m + 1 > 0
        BY <2>3, <2>4, <2>5, <4>1
      <4> QED BY <4>2 DEF PP
    <3>4. InBreak(m + 1)'
      BY <1>1, <1>3, <2>3, <2>7, <3>1, <3>3 DEF InBreak
    <3> QED BY <1>1, <2>2, <2>3, <2>4, <3>4 DEF At
  <2> QED BY <2>3, <2>6, <2>7
<1>7. CASE InBreak(m)
  <2>1. /\ P + 1 = End(m) /\ lineBuf = <<>> /\ cutBreak /\ ~lineOverflow
    BY <1>7, InTheBreak DEF InBreak
  <2>4. chunk \in Seq(Atoms) /\ c \in Nat
    BY ChunkFacts
  <2>5. 1 \in 1..c /\ chunk[1] = LF
    BY <1>1, <1>7, InTheBreak
  <2>8. i = 1
    <3>1. i \in 1..c /\ \A j \in 1..c : chunk[j] \in {CR, LF} => i <= j
      BY <1>1, <2>4, NextBreak
    <3>2. i <= 1
      BY <2>5, <3>1
    <3> HIDE DEF i, c
    <3> QED BY <2>4, <3>1, <3>2
  <2>9. bw = 1
    <3>1. LF # CR
      BY DEF CR, LF
    <3> QED BY <2>5, <2>8, <3>1 DEF BreakWidth
  <2>10. Parsed' = End(m)
    <3> DEFINE PP == Parsed'
    <3>1. PP = P + 1 + 1 - 1
      BY <1>2, <2>8, <2>9
    <3> HIDE DEF PP, P
    <3>2. PP = End(m)
      BY <1>4, <2>1, <3>1 DEF P
    <3> QED BY <3>2 DEF PP
  <2>11. LineRead = <<>>
    <3>1. SubSeq(chunk, 1, i - 1) = <<>>
      <4>1. i - 1 = 0
        BY <2>8
      <4> QED BY <2>4, <4>1
    <3>2. <<>> \o <<>> = <<>>
      OBVIOUS
    <3>3. LineText = <<>>
      BY <2>1, <3>1, <3>2 DEF LineText
    <3> QED BY <3>3 DEF LineRead
  <2> QED BY <1>5, <2>1, <2>10, <2>11
<1> QED BY <1>6, <1>7 DEF At

\* The parser stays where it is when nothing is parsed.
LEMMA AtKept ==
  ASSUME NEW m, At(m), Parsed' = Parsed, cutBreak => cutBreak',
         UNCHANGED <<lines, brk, stream, lineBuf, lineOverflow>>
  PROVE  At(m)'
<1>1. \A k : End(k)' = End(k)
  BY DEF End, First
<1>2. CASE \E p \in Nat : InLine(m, p)
  <2>1. PICK p \in Nat : InLine(m, p)
    BY <1>2
  <2>2. InLine(m, p)'
    BY <1>1, <2>1 DEF InLine
  <2> QED BY <2>2 DEF At
<1>3. CASE InBreak(m)
  <2>1. InBreak(m)'
    BY <1>1, <1>3 DEF InBreak
  <2> QED BY <2>1 DEF At
<1> QED BY <1>2, <1>3 DEF At

\* A remainder without a break takes it on in the same line.
LEMMA RemainderMoves ==
  ASSUME BasicInv, ChunkInv, NEW m \in 0..Len(lines), At(m), Remainder
  PROVE  At(m)' /\ ChunkInv'
<1> DEFINE L == Len(lines)  n == Len(stream)  P == Parsed  c == Len(chunk)
<1>1. /\ chunk # <<>> /\ BreakIn(chunk) = {} /\ chunk' = <<>>
      /\ LET fits == Len(lineBuf) + Len(chunk) <= MaxLine
         IN  /\ lineBuf' = IF lineOverflow \/ ~fits THEN <<>> ELSE lineBuf \o chunk
             /\ lineOverflow' = (lineOverflow \/ ~fits)
      /\ UNCHANGED <<lines, brk, stream, forwarded, cutBreak>>
  BY DEF Remainder
<1>2. /\ chunk \in Seq(Atoms) /\ c \in Nat /\ P \in Nat /\ P + c = forwarded /\ lineBuf \in Seq(Atoms)
      /\ forwarded \in Nat
  BY ChunkFacts
<1>3. DOMAIN chunk = 1..c /\ \A j \in 1..c : chunk[j] \notin {CR, LF}
  BY <1>1, <1>2 DEF BreakIn
<1>4. Len(chunk') = 0
  BY <1>1
<1>5. ChunkInv'
  <2>1. forwarded' \in Nat /\ \A j \in 1..0 : FALSE
    BY <1>1, <1>2
  <2> QED BY <1>4, <2>1 DEF ChunkInv
<1>6. Parsed' = P + c
  <2>1. Parsed' = forwarded - 0
    BY <1>1, <1>4 DEF Parsed
  <2> HIDE DEF P, c
  <2> QED BY <1>2, <2>1
<1>7. \A k : End(k)' = End(k)
  BY <1>1 DEF End, First
<1>8. ~InBreak(m)
  <2> SUFFICES ASSUME InBreak(m) PROVE FALSE
    OBVIOUS
  <2> QED BY <1>1, <1>3, InTheBreak
<1>9. PICK p \in Nat : InLine(m, p)
  BY <1>8 DEF At
<1> DEFINE l == lines[m + 1]  w == Len(l)
<1>10. /\ m < L
       /\ \A j \in 1..c : j <= w - p => chunk[j] = l[p + j]
       /\ c > w - p => chunk[w - p + 1] = brk[1]
  BY <1>1, <1>9, BreakOfLine
<1>11. w \in Nat /\ p <= w /\ StaticInv /\ m # L
  BY <1>9, <1>10, LinePlace DEF InLine, BasicInv
<1>12. c <= w - p
  <2> SUFFICES ASSUME ~(c <= w - p) PROVE FALSE
    OBVIOUS
  <2>1. c > w - p /\ w - p + 1 \in 1..c
    <3> HIDE DEF c, w
    <3> QED BY <1>2, <1>11
  <2>2. chunk[w - p + 1] \in {CR, LF}
    BY <1>10, <1>11, <2>1, BreakSize
  <2> QED BY <1>3, <2>1, <2>2
<1>0. p + c \in Nat
  <2> HIDE DEF c
  <2> QED BY <1>2
<1>00. PICK q \in Nat : q = p + c
  BY <1>0
<1>13. q \in Nat /\ q <= w /\ P + c = End(m) + q
  <2>1. P = End(m) + p /\ End(m) \in Nat
    BY <1>9, <1>11, Layout DEF InLine, Laid
  <2> HIDE DEF P, c, w
  <2> QED BY <1>00, <1>2, <1>11, <1>12, <2>1
<1>14. CASE lineOverflow
  <2>1. p > MaxLine /\ lineBuf' = <<>> /\ lineOverflow'
    BY <1>1, <1>9, <1>14 DEF InLine
  <2>2. q > MaxLine
    <3> HIDE DEF c
    <3> QED BY <1>00, <1>2, <2>1 DEF LineAssumption
  <2>3. InLine(m, q)'
    <3> QED BY <1>1, <1>6, <1>7, <1>11, <1>13, <2>1, <2>2 DEF InLine
  <2> QED BY <1>1, <1>5, <1>13, <2>3 DEF At
<1>15. CASE ~lineOverflow
  <2>1. Len(lineBuf) = p /\ \A j \in 1..p : lineBuf[j] = l[j]
    BY <1>9, <1>15 DEF InLine
  <2>2. CASE q <= MaxLine
    <3>1. lineBuf' = lineBuf \o chunk /\ lineOverflow' = FALSE
      BY <1>00, <1>1, <1>15, <2>1, <2>2
    <3>2. /\ Len(lineBuf \o chunk) = q
          /\ \A j \in 1..q : (lineBuf \o chunk)[j] = IF j <= p THEN lineBuf[j] ELSE chunk[j - p]
      BY <1>00, <1>2, <2>1, ConcatProperties
    <3>3. \A j \in 1..q : lineBuf'[j] = l[j]
      <4> SUFFICES ASSUME NEW j \in 1..q PROVE lineBuf'[j] = l[j]
        OBVIOUS
      <4>1. CASE j <= p
        <5>1. j \in 1..p
          <6> QED BY <4>1
        <5> QED BY <2>1, <3>1, <3>2, <4>1, <5>1
      <4>2. CASE ~(j <= p)
        <5>1. j - p \in 1..c /\ j - p <= w - p /\ p + (j - p) = j
          <6> HIDE DEF c, w
          <6> QED BY <1>00, <1>2, <1>11, <1>12, <4>2
        <5> QED BY <1>10, <3>1, <3>2, <4>2, <5>1
      <4> QED BY <4>1, <4>2
    <3>4. InLine(m, q)'
      <4>1. Len(lineBuf') = q
        BY <3>1, <3>2
      <4> QED BY <1>1, <1>6, <1>7, <1>11, <1>13, <2>2, <3>1, <3>3, <4>1 DEF InLine
    <3> QED BY <1>1, <1>5, <1>13, <3>4 DEF At
  <2>3. CASE ~(q <= MaxLine)
    <3>1. lineBuf' = <<>> /\ lineOverflow'
      BY <1>00, <1>1, <2>1, <2>3
    <3>2. q > MaxLine
      <4> QED BY <1>13, <2>3 DEF LineAssumption
    <3>3. InLine(m, q)'
      <4> QED BY <1>1, <1>6, <1>7, <1>11, <1>13, <3>1, <3>2 DEF InLine
    <3> QED BY <1>1, <1>5, <1>13, <3>3 DEF At
  <2> QED BY <2>2, <2>3
<1> QED BY <1>5, <1>14, <1>15

-----------------------------------------------------------------------------
(* What the assembler makes of a line *)

Half(h) == <<"usage", h>>

\* What addLine does with a line as it was sent, the one that is too long
\* included: r is the assembler and the payloads after it.
LineTaken(l, r) ==
  \/ /\ l = <<>> \/ l = Long
     /\ r.asm = EmptyAssembler
     /\ r.out = IF asm.overflow \/ asm.data = <<>> THEN <<>> ELSE <<asm.data>>
  \/ /\ l = <<Text>> \/ (asm.overflow /\ l # <<>> /\ l # Long)
     /\ r.asm = asm /\ r.out = <<>>
  \/ /\ ~asm.overflow /\ IsJSON(asm.data) /\ r.out = <<asm.data>>
     /\ \/ \E k \in Kinds : /\ l = Whole(k)
                            /\ r.asm = [data |-> Document(k), size |-> 3, overflow |-> FALSE]
        \/ \E h \in {1, 2} : /\ l = <<Data, Half(h)>>
                             /\ r.asm = [data |-> <<Half(h)>>, size |-> 2, overflow |-> FALSE]
  \/ /\ ~asm.overflow /\ ~IsJSON(asm.data)
     /\ \E k \in Kinds : l = Whole(k) /\ r.asm = asm /\ r.out = <<Document(k)>>
  \/ /\ ~asm.overflow /\ ~IsJSON(asm.data) /\ r.out = <<>>
     /\ \E h \in {1, 2} :
          /\ l = <<Data, Half(h)>>
          /\ r.asm = IF asm.size + 2 > MaxLine
                       THEN [data |-> <<>>, size |-> 0, overflow |-> TRUE]
                       ELSE [data |-> asm.data \o <<Half(h)>>, size |-> asm.size + 2,
                             overflow |-> FALSE]

\* Half a document is none.
LEMMA HalfIsNone ==
  ASSUME NEW h
  PROVE  ~IsJSON(<<Half(h)>>)
<1> SUFFICES ASSUME IsJSON(<<Half(h)>>) PROVE FALSE
  OBVIOUS
<1>1. PICK k \in Kinds : <<Half(h)>> = Document(k)
  BY DEF IsJSON
<1>2. Len(Document(k)) = 2
  BY DocumentKind
<1> DEFINE x == Half(h)
<1>3. Len(<<x>>) = 1
  OBVIOUS
<1>4. Len(<<x>>) = 2
  BY <1>1, <1>2
<1> QED BY <1>3, <1>4

\* The lines differ in their lengths.
LEMMA LineLengths ==
  /\ Len(Long) = MaxLine + 1
  /\ \A k \in Kinds : Len(Whole(k)) = 3
  /\ \A h \in {1, 2} : Len(<<Data, Half(h)>>) = 2
  /\ FirstHalf = <<Data, Half(1)>> /\ SecondHalf = <<Data, Half(2)>>
<1>1. Len(Long) = MaxLine + 1
  BY LongIs
<1>2. \A k \in Kinds : Len(Whole(k)) = 3
  <2> TAKE k \in Kinds
  <2> DEFINE a == <<k, 1>>  b == <<k, 2>>
  <2>1. Whole(k) = <<Data, a, b>>
    BY WholeIs
  <2> HIDE DEF a, b
  <2>2. Len(<<Data, a, b>>) = 3
    OBVIOUS
  <2> QED BY <2>1, <2>2
<1>3. \A h \in {1, 2} : Len(<<Data, Half(h)>>) = 2
  <2> TAKE h \in {1, 2}
  <2> DEFINE a == Half(h)
  <2> HIDE DEF a
  <2>2. Len(<<Data, a>>) = 2
    OBVIOUS
  <2> QED BY <2>2 DEF a
<1>4. FirstHalf = <<Data, Half(1)>> /\ SecondHalf = <<Data, Half(2)>>
  BY DEF FirstHalf, SecondHalf, Half
<1> QED BY <1>1, <1>2, <1>3, <1>4

\* Only an empty line and one that is too long end an event.
LEMMA EffectiveIs ==
  ASSUME NEW l \in AllLines
  PROVE  /\ Effective(l) = IF l = Long THEN <<>> ELSE l
         /\ Long # <<>>
         /\ \A k \in Kinds : Whole(k) # Long /\ Whole(k) # <<>>
         /\ \A h \in {1, 2} : <<Data, Half(h)>> # Long /\ <<Data, Half(h)>> # <<>>
         /\ <<Text>> # Long /\ <<Text>> # <<>>
<1>1. Len(Long) = MaxLine + 1 /\ MaxLine \in Nat /\ MaxLine >= 4
  BY LineLengths, LineAssumption, EventAssumption
<1>2. \A k \in Kinds : Len(Whole(k)) = 3
  BY LineLengths
<1>3. \A h \in {1, 2} : Len(<<Data, Half(h)>>) = 2
  BY LineLengths
<1>4. Len(<<Text>>) = 1 /\ Len(<<>>) = 0
  OBVIOUS
<1>5. FirstHalf = <<Data, Half(1)>> /\ SecondHalf = <<Data, Half(2)>>
  BY LineLengths
<1>6. /\ Long # <<>>
      /\ \A k \in Kinds : Whole(k) # Long /\ Whole(k) # <<>>
      /\ \A h \in {1, 2} : <<Data, Half(h)>> # Long /\ <<Data, Half(h)>> # <<>>
      /\ <<Text>> # Long /\ <<Text>> # <<>>
  <2>1. Len(Long) # 0 /\ Len(Long) # 1 /\ Len(Long) # 2 /\ Len(Long) # 3
    BY <1>1
  <2>2. Long # <<>> /\ <<Text>> # Long /\ <<Text>> # <<>>
    BY <1>4, <2>1, Zenon
  <2>3. ASSUME NEW k \in Kinds PROVE Whole(k) # Long /\ Whole(k) # <<>>
    <3>1. Len(Whole(k)) = 3 /\ 3 # 0
      BY <1>2
    <3> QED BY <1>4, <2>1, <3>1, Zenon
  <2>4. ASSUME NEW h \in {1, 2} PROVE <<Data, Half(h)>> # Long /\ <<Data, Half(h)>> # <<>>
    <3>1. Len(<<Data, Half(h)>>) = 2 /\ 2 # 0
      BY <1>3
    <3> QED BY <1>4, <2>1, <3>1, Zenon
  <2> QED BY <2>2, <2>3, <2>4
<1>7. l # Long => Len(l) <= MaxLine
  <2>1. l # Long => Len(l) = 3 \/ Len(l) = 2 \/ Len(l) = 1 \/ Len(l) = 0
    BY <1>2, <1>3, <1>4, <1>5, LineKinds
  <2> DEFINE n == Len(l)
  <2>2. l # Long => n \in {0, 1, 2, 3}
    BY <2>1
  <2> HIDE DEF n
  <2>3. l # Long => n <= MaxLine
    BY <1>1, <2>2
  <2> QED BY <2>3 DEF n
<1>8. ~(Len(Long) <= MaxLine)
  BY <1>1
<1>9. Effective(l) = IF l = Long THEN <<>> ELSE l
  <2>1. CASE l = Long
    <3>1. Len(l) > MaxLine
      BY <1>1, <2>1
    <3> QED BY <2>1, <3>1 DEF Effective
  <2>2. CASE l # Long
    <3>1. ~(Len(l) > MaxLine)
      <4>1. Len(l) \in Nat /\ Len(l) <= MaxLine
        BY <1>7, <2>2, LineAtoms
      <4> QED BY <1>1, <4>1
    <3> QED BY <2>2, <3>1 DEF Effective
  <2> QED BY <2>1, <2>2
<1> QED BY <1>6, <1>9

\* The payload of a data line.
LEMMA PayloadIs ==
  /\ \A k \in Kinds : /\ Whole(k)[1] = Data /\ Tail(Whole(k)) = Document(k)
                      /\ IsJSON(Tail(Whole(k))) /\ Len(Tail(Whole(k))) = 2
  /\ \A h \in {1, 2} : /\ <<Data, Half(h)>>[1] = Data /\ Tail(<<Data, Half(h)>>) = <<Half(h)>>
                       /\ ~IsJSON(Tail(<<Data, Half(h)>>))
                       /\ Len(Tail(<<Data, Half(h)>>)) = 1
  /\ <<Text>>[1] # Data
<1>1. ASSUME NEW k \in Kinds
      PROVE /\ Whole(k)[1] = Data /\ Tail(Whole(k)) = Document(k)
            /\ IsJSON(Tail(Whole(k))) /\ Len(Tail(Whole(k))) = 2
  <2> DEFINE a == <<k, 1>>  b == <<k, 2>>
  <2>1. Whole(k) = <<Data, a, b>> /\ Document(k) = <<a, b>>
    BY WholeIs DEF Document
  <2> HIDE DEF a, b
  <2>2. <<Data, a, b>>[1] = Data /\ Tail(<<Data, a, b>>) = <<a, b>>
    OBVIOUS
  <2>3. Tail(Whole(k)) = Document(k)
    BY <2>1, <2>2
  <2> QED BY <2>1, <2>2, <2>3, DocumentKind
<1>2. ASSUME NEW h \in {1, 2}
      PROVE /\ <<Data, Half(h)>>[1] = Data /\ Tail(<<Data, Half(h)>>) = <<Half(h)>>
            /\ ~IsJSON(Tail(<<Data, Half(h)>>)) /\ Len(Tail(<<Data, Half(h)>>)) = 1
  <2> DEFINE a == Half(h)
  <2>1. ~IsJSON(<<a>>)
    BY HalfIsNone
  <2> HIDE DEF a
  <2>2. <<Data, a>>[1] = Data /\ Tail(<<Data, a>>) = <<a>> /\ Len(<<a>>) = 1
    OBVIOUS
  <2> QED BY <2>1, <2>2 DEF a
<1>3. <<Text>>[1] # Data
  BY DEF Text, Data
<1> QED BY <1>1, <1>2, <1>3

\* The long line is a data line too.
LEMMA LineWays ==
  ASSUME BasicInv, NEW l \in AllLines
  PROVE  LineTaken(l, AddLine(asm, Effective(l)))
<1> DEFINE e == Effective(l)  r == AddLine(asm, e)
<1>1. AsmOK(asm) /\ l \in Seq(Atoms) /\ <<>> \in Seq(Atoms)
  BY LineAtoms DEF BasicInv
<1>2. e = IF l = Long THEN <<>> ELSE l
  BY EffectiveIs
<1>3. AddLineWays(asm, e, r)
  BY <1>1, <1>2, AddLineIs
<1>4. 4 <= MaxLine /\ MaxLine \in Nat /\ asm.size \in Nat
  BY <1>1, LineAssumption, EventAssumption DEF AsmOK
<1> HIDE DEF r
<1>5. CASE l = <<>> \/ l = Long
  <2>1. e = <<>>
    BY <1>2, <1>5
  <2>2. r = Flush(asm)
    BY <1>3, <2>1 DEF AddLineWays
  <2> QED BY <1>5, <2>2 DEF LineTaken, Flush, r
<1>6. CASE l = <<Text>>
  <2>1. e = <<Text>> /\ e # <<>> /\ e[1] # Data
    BY <1>2, <1>6, EffectiveIs, PayloadIs
  <2>2. r = [asm |-> asm, out |-> <<>>]
    BY <1>3, <2>1 DEF AddLineWays
  <2> QED BY <1>6, <2>2 DEF LineTaken, r
<1>7. CASE asm.overflow /\ l # <<>> /\ l # Long
  <2>1. r = [asm |-> asm, out |-> <<>>]
    BY <1>2, <1>3, <1>7 DEF AddLineWays
  <2> QED BY <1>7, <2>1 DEF LineTaken, r
<1>8. ASSUME ~asm.overflow, NEW k \in Kinds, l = Whole(k) PROVE LineTaken(l, r)
  <2>1. e = l /\ e # <<>> /\ e[1] = Data /\ Tail(e) = Document(k) /\ IsJSON(Tail(e)) /\ Len(Tail(e)) = 2
    BY <1>2, <1>8, EffectiveIs, PayloadIs
  <2>2. CASE IsJSON(asm.data)
    <3>1. r = Keep(EmptyAssembler, Document(k), <<asm.data>>)
      BY <1>3, <1>8, <2>1, <2>2 DEF AddLineWays
    <3>2. /\ EmptyAssembler.size = 0 /\ EmptyAssembler.data = <<>> /\ EmptyAssembler.overflow = FALSE
          /\ <<>> \o Document(k) = Document(k) /\ Len(Document(k)) = 2
      <4>1. Document(k) \in Seq(Atoms)
        BY DocumentKind
      <4>2. Len(Document(k)) = 2
        BY DocumentKind
      <4>3. <<>> \o Document(k) = Document(k)
        BY <4>1
      <4>4. EmptyAssembler.size = 0 /\ EmptyAssembler.data = <<>> /\ EmptyAssembler.overflow = FALSE
        BY DEF EmptyAssembler
      <4> QED BY <4>2, <4>3, <4>4
    <3>3. 0 + 2 + 1 = 3 /\ ~(3 > MaxLine)
      BY <1>4
    <3>4. /\ r.out = <<asm.data>>
          /\ r.asm = [data |-> Document(k), size |-> 3, overflow |-> FALSE]
      BY <3>1, <3>2, <3>3 DEF Keep
    <3> QED BY <1>8, <2>2, <3>4 DEF LineTaken
  <2>3. CASE ~IsJSON(asm.data)
    <3>1. r = [asm |-> asm, out |-> <<Document(k)>>]
      BY <1>3, <1>8, <2>1, <2>3 DEF AddLineWays
    <3>2. r.asm = asm /\ r.out = <<Document(k)>>
      BY <3>1
    <3> QED BY <1>8, <2>3, <3>2 DEF LineTaken
  <2> QED BY <2>2, <2>3
<1>9. ASSUME ~asm.overflow, NEW h \in {1, 2}, l = <<Data, Half(h)>> PROVE LineTaken(l, r)
  <2> DEFINE p == <<Half(h)>>
  <2>1. /\ e = l /\ e # <<>> /\ e[1] = Data /\ Tail(e) = p /\ ~IsJSON(Tail(e))
        /\ Len(p) = 1
    BY <1>2, <1>9, EffectiveIs, PayloadIs
  <2>2. p \in Seq(Atoms)
    BY <1>1, <2>1, TailOK
  <2> HIDE DEF p
  <2>3. CASE IsJSON(asm.data)
    <3>1. r = Keep(EmptyAssembler, p, <<asm.data>>)
      BY <1>3, <1>9, <2>1, <2>3 DEF AddLineWays
    <3>2. /\ EmptyAssembler.size = 0 /\ EmptyAssembler.data = <<>> /\ EmptyAssembler.overflow = FALSE
          /\ <<>> \o p = p
      BY <2>2 DEF EmptyAssembler
    <3>3. 0 + 1 + 1 = 2 /\ ~(2 > MaxLine)
      BY <1>4
    <3>4. r.out = <<asm.data>> /\ r.asm = [data |-> p, size |-> 2, overflow |-> FALSE]
      BY <2>1, <3>1, <3>2, <3>3 DEF Keep
    <3> QED BY <1>9, <2>3, <3>4 DEF LineTaken, p
  <2>4. CASE ~IsJSON(asm.data)
    <3>1. r = Keep(asm, p, <<>>)
      BY <1>3, <1>9, <2>1, <2>4 DEF AddLineWays
    <3>2. asm.size + 1 + 1 = asm.size + 2 /\ asm.overflow = FALSE
      BY <1>1, <1>4, <1>9 DEF AsmOK
    <3>3. /\ r.out = <<>>
          /\ r.asm = IF asm.size + 2 > MaxLine
                       THEN [data |-> <<>>, size |-> 0, overflow |-> TRUE]
                       ELSE [data |-> asm.data \o p, size |-> asm.size + 2, overflow |-> FALSE]
      <4>1. r.out = <<>>
        BY <3>1 DEF Keep
      <4>2. Keep(asm, p, <<>>).asm = IF asm.size + 1 + 1 > MaxLine
                       THEN [data |-> <<>>, size |-> 0, overflow |-> TRUE]
                       ELSE [data |-> asm.data \o p, size |-> asm.size + 1 + 1,
                             overflow |-> asm.overflow]
        BY <2>1 DEF Keep
      <4> QED BY <3>1, <3>2, <4>1, <4>2
    <3> QED BY <1>9, <2>4, <3>3 DEF LineTaken, p
  <2> QED BY <2>3, <2>4
<1>10. FirstHalf = <<Data, Half(1)>> /\ SecondHalf = <<Data, Half(2)>>
  BY DEF FirstHalf, SecondHalf, Half
<1>11. CASE ~asm.overflow /\ (l = FirstHalf \/ l = SecondHalf)
  <2>1. PICK h \in {1, 2} : l = <<Data, Half(h)>>
    BY <1>10, <1>11
  <2>2. LineTaken(l, r)
    BY <1>9, <1>11, <2>1
  <2> QED BY <2>2 DEF r
<1> QED BY <1>5, <1>6, <1>7, <1>8, <1>11, LineKinds DEF r

Carry == {Document("usage"), Document("completed")}

\* Usage was processed, or is kept and will be.
UsageSeen ==
  Seen(events, "usage") \/ Seen(events, "completed") \/ (~asm.overflow /\ asm.data \in Carry)

\* What was seen stays, and what is processed is seen.
LEMMA SeenMore ==
  ASSUME BasicInv, NEW out, Payloads(out)
  PROVE  /\ \A k : Seen(events, k) => Seen(events \o Process(out), k)
         /\ \A k \in Kinds : out = <<Document(k)>> => Seen(events \o Process(out), k)
<1> DEFINE es == events \o Process(out)
<1>1. /\ events \in Seq(KindsOrBad) /\ Process(out) \in Seq(KindsOrBad) /\ es \in Seq(KindsOrBad)
      /\ \A k : Count(es, k) = Count(events, k) + Count(Process(out), k)
  BY EventsMore, ProcessType, TypeFacts DEF BasicInv
<1>2. ASSUME NEW k, Seen(events, k) PROVE Seen(es, k)
  <2>1. Count(events, k) \in Nat /\ Count(events, k) > 0 /\ Count(Process(out), k) \in Nat
    BY <1>1, <1>2, CountSeen
  <2>2. Count(es, k) > 0
    BY <1>1, <2>1
  <2> HIDE DEF es
  <2> QED BY <1>1, <2>2, CountSeen
<1>3. ASSUME NEW k \in Kinds, out = <<Document(k)>> PROVE Seen(es, k)
  <2>1. Process(out) = <<k>>
    BY <1>3, ProcessIs, DocumentKind
  <2>2. Count(Process(out), k) = 1 /\ Count(events, k) \in Nat
    BY <1>1, <2>1, CountOne, CountSeen
  <2>3. Count(es, k) > 0
    BY <1>1, <2>2
  <2> HIDE DEF es
  <2> QED BY <1>1, <2>3, CountSeen
<1> QED BY <1>2, <1>3

\* A line, or a line end that takes none, does not lose it.
LEMMA UsageStays ==
  ASSUME BasicInv, UsageSeen, NEW l \in AllLines, NEW r, LineTaken(l, r), Payloads(r.out),
         asm' = r.asm, events' = events \o Process(r.out)
  PROVE  UsageSeen'
<1>1. "usage" \in Kinds /\ "completed" \in Kinds
  BY DEF Kinds, ResponsesKinds
<1>2. CASE Seen(events, "usage") \/ Seen(events, "completed")
  <2>1. Seen(events, "usage")' \/ Seen(events, "completed")'
    <3>1. \A k : Seen(events, k) => Seen(events \o Process(r.out), k)
      BY SeenMore
    <3> QED BY <1>2, <3>1
  <2> QED BY <2>1 DEF UsageSeen
<1>3. CASE ~asm.overflow /\ asm.data \in Carry
  <2>1. IsJSON(asm.data) /\ asm.data # <<>>
    BY <1>1, <1>3, DocumentKind DEF Carry
  <2>2. CASE r.out = <<asm.data>>
    <3>1. Seen(events \o Process(r.out), "usage") \/ Seen(events \o Process(r.out), "completed")
      BY <1>1, <1>3, <2>2, SeenMore DEF Carry
    <3> QED BY <3>1 DEF UsageSeen
  <2>3. CASE r.asm = asm
    BY <1>3, <2>3 DEF UsageSeen
  <2> QED BY <1>3, <2>1, <2>2, <2>3 DEF LineTaken
<1> QED BY <1>2, <1>3 DEF UsageSeen

\* The pieces of documents that no empty line has ended yet.
LEMMA PiecesMore ==
  ASSUME StaticInv, NEW m \in 0..Len(lines), m < Len(lines)
  PROVE  /\ Cardinality(Pieces(m)) \in Nat /\ Cardinality(Pieces(m + 1)) \in Nat
         /\ IF lines[m + 1] \in {FirstHalf, SecondHalf}
              THEN Cardinality(Pieces(m + 1)) = Cardinality(Pieces(m)) + 1
              ELSE lines[m + 1] # <<>> => Pieces(m + 1) = Pieces(m)
<1> DEFINE l == lines[m + 1]  k == m + 1  Halves == {FirstHalf, SecondHalf}
           P == {j \in 1..m : lines[j] \in Halves /\ \A i \in j..m : lines[i] # <<>>}
           Q == {j \in 1..k : lines[j] \in Halves /\ \A i \in j..k : lines[i] # <<>>}
<1>1. m \in Nat /\ k \in Nat /\ k \notin 1..m /\ 1..k = 1..m \cup {k}
  BY TextFacts
<1>2. Pieces(m) = P /\ Pieces(m + 1) = Q
  BY DEF Pieces
<1>3. IsFiniteSet(P) /\ IsFiniteSet(Q) /\ Cardinality(P) \in Nat /\ Cardinality(Q) \in Nat
  <2>1. IsFiniteSet(1..m) /\ IsFiniteSet(1..k)
    BY <1>1, FS_Interval
  <2>2. P \subseteq 1..m /\ Q \subseteq 1..k
    OBVIOUS
  <2> QED BY <2>1, <2>2, FS_Subset, FS_CardinalityType
<1>4. \A j \in 1..m : j..k = j..m \cup {k}
  BY <1>1
<1>5. k \in 1..k /\ k..k = {k}
  BY <1>1
<1>6. CASE l \in Halves
  <2>1. FirstHalf # <<>> /\ SecondHalf # <<>>
    BY DEF FirstHalf, SecondHalf
  <2>2. l # <<>>
    BY <1>6, <2>1
  <2>3. Q = P \cup {k}
    <3> HIDE DEF Halves, k
    <3>1. ASSUME NEW j \in P PROVE j \in Q
      BY <1>1, <1>4, <2>2 DEF k
    <3>2. k \in Q
      BY <1>5, <1>6, <2>2 DEF k
    <3>3. ASSUME NEW j \in Q, j # k PROVE j \in P
      BY <1>1, <1>4, <3>3
    <3> HIDE DEF P, Q
    <3> QED BY <3>1, <3>2, <3>3
  <2>4. k \notin P
    BY <1>1
  <2> HIDE DEF P, Q
  <2>5. Cardinality(Q) = Cardinality(P) + 1
    BY <1>3, <2>3, <2>4, FS_AddElement
  <2> QED BY <1>2, <1>3, <1>6, <2>5
<1>7. CASE l \notin Halves
  <2>1. l # <<>> => Q = P
    <3> SUFFICES ASSUME l # <<>> PROVE Q = P
      OBVIOUS
    <3>0. lines[k] # <<>> /\ lines[k] \notin Halves
      BY <1>7
    <3> HIDE DEF Halves, k
    <3>1. ASSUME NEW j \in P PROVE j \in Q
      BY <1>1, <1>4, <3>0
    <3>3. ASSUME NEW j \in Q PROVE j \in P
      BY <1>1, <1>4, <3>0
    <3> HIDE DEF P, Q
    <3> QED BY <3>1, <3>3
  <2> QED BY <1>2, <1>3, <1>7, <2>1
<1> QED BY <1>6, <1>7

\* An event that is over its limit has pieces enough for that.
Fits(n) ==
  /\ asm.overflow => asm.data = <<>> /\ n > MaxLine
  /\ IsJSON(asm.data) \/ asm.size <= n

\* Another line keeps that so: a piece counts two, all else resets or adds nothing.
LEMMA FitsMore ==
  ASSUME BasicInv, NEW n \in Nat, Fits(n), NEW l \in AllLines, NEW r, LineTaken(l, r),
         asm' = r.asm, NEW q \in Nat,
         l \in {<<>>, Long} \/ q = n \/ q = n + 2,
         l \in {FirstHalf, SecondHalf} => q = n + 2
  PROVE  Fits(q)'
<1>1. asm.size \in Nat /\ asm.overflow \in BOOLEAN /\ MaxLine \in Nat
  BY LineAssumption DEF BasicInv, AsmOK
<1>2. CASE r.asm = EmptyAssembler
  <2>1. asm'.data = <<>> /\ asm'.size = 0 /\ ~asm'.overflow
    BY <1>2 DEF EmptyAssembler
  <2> QED BY <2>1 DEF Fits
<1>3. CASE r.asm = asm /\ ~(l = <<>> \/ l = Long)
  <2>1. q >= n
    BY <1>3
  <2>2. asm.overflow => q > MaxLine
    BY <1>1, <2>1 DEF Fits
  <2>3. IsJSON(asm.data) \/ asm.size <= q
    BY <1>1, <2>1 DEF Fits
  <2> QED BY <1>3, <2>2, <2>3 DEF Fits
<1>4. ASSUME NEW k \in Kinds, r.asm = [data |-> Document(k), size |-> 3, overflow |-> FALSE]
      PROVE Fits(q)'
  <2>1. asm'.data = Document(k) /\ ~asm'.overflow
    BY <1>4
  <2> QED BY <2>1, DocumentKind DEF Fits
<1>5. ASSUME NEW h \in {1, 2}, l = <<Data, Half(h)>> PROVE q = n + 2
  <2>1. FirstHalf = <<Data, Half(1)>> /\ SecondHalf = <<Data, Half(2)>>
    BY DEF FirstHalf, SecondHalf, Half
  <2>2. l \in {FirstHalf, SecondHalf}
    BY <1>5, <2>1
  <2> QED BY <2>2
<1>6. ASSUME NEW h \in {1, 2}, l = <<Data, Half(h)>>,
             r.asm = [data |-> <<Half(h)>>, size |-> 2, overflow |-> FALSE]
      PROVE Fits(q)'
  <2>1. q = n + 2
    BY <1>5, <1>6
  <2>2. asm'.size = 2 /\ ~asm'.overflow
    BY <1>6
  <2>3. 2 <= q
    BY <2>1
  <2> QED BY <2>2, <2>3 DEF Fits
<1>7. ASSUME NEW h \in {1, 2}, l = <<Data, Half(h)>>, ~IsJSON(asm.data),
             r.asm = IF asm.size + 2 > MaxLine
                       THEN [data |-> <<>>, size |-> 0, overflow |-> TRUE]
                       ELSE [data |-> asm.data \o <<Half(h)>>, size |-> asm.size + 2,
                             overflow |-> FALSE]
      PROVE Fits(q)'
  <2>1. q = n + 2
    BY <1>5, <1>7
  <2>2. asm.size <= n
    BY <1>7 DEF Fits
  <2>3. CASE asm.size + 2 > MaxLine
    <3>1. asm'.data = <<>> /\ asm'.size = 0
      BY <1>7, <2>3
    <3>2. q > MaxLine /\ 0 <= q
      BY <1>1, <2>1, <2>2, <2>3
    <3> QED BY <3>1, <3>2 DEF Fits
  <2>4. CASE ~(asm.size + 2 > MaxLine)
    <3>1. asm'.size = asm.size + 2 /\ ~asm'.overflow
      BY <1>7, <2>4
    <3>2. asm.size + 2 <= q
      BY <1>1, <2>1, <2>2
    <3> QED BY <3>1, <3>2 DEF Fits
  <2> QED BY <2>3, <2>4
<1>8. CASE ~(l = <<>> \/ l = Long)
  BY <1>3, <1>4, <1>6, <1>7, <1>8 DEF LineTaken
<1>9. CASE l = <<>> \/ l = Long
  <2>1. /\ Long # <<>>
        /\ \A k \in Kinds : Whole(k) # Long /\ Whole(k) # <<>>
        /\ \A h \in {1, 2} : <<Data, Half(h)>> # Long /\ <<Data, Half(h)>> # <<>>
        /\ <<Text>> # Long /\ <<Text>> # <<>>
    BY EffectiveIs
  <2>2. r.asm = EmptyAssembler
    BY <1>9, <2>1 DEF LineTaken
  <2> QED BY <1>2, <2>2
<1> QED BY <1>8, <1>9

\* The documents that lines end.
LEMMA DocumentsIs ==
  /\ \A k \in Kinds : Documents(Whole(k)) = <<k>> /\ Whole(k) # FirstHalf /\ Whole(k) # SecondHalf
  /\ Documents(SecondHalf) = <<"usage">> /\ FirstHalf # SecondHalf
  /\ \A l \in {<<>>, <<Text>>, Long} : Documents(l) = <<>> /\ l # FirstHalf /\ l # SecondHalf
  /\ Documents(FirstHalf) = <<>>
<1> DEFINE W == {Whole(k) : k \in Kinds}
<1>1. /\ FirstHalf = <<Data, Half(1)>> /\ SecondHalf = <<Data, Half(2)>>
      /\ Len(FirstHalf) = 2 /\ Len(SecondHalf) = 2
  BY LineLengths
<1>2. FirstHalf # SecondHalf
  BY <1>1 DEF Half
<1>3. \A k \in Kinds : Len(Whole(k)) = 3
  BY LineLengths
<1>4. ASSUME NEW k \in Kinds
      PROVE Documents(Whole(k)) = <<k>> /\ Whole(k) # FirstHalf /\ Whole(k) # SecondHalf
  <2> DEFINE a == <<k, 1>>  b == <<k, 2>>
  <2>1. Whole(k) = <<Data, a, b>> /\ a[1] = k
    BY WholeIs
  <2> HIDE DEF a, b
  <2>2. <<Data, a, b>>[2] = a
    OBVIOUS
  <2>3. Whole(k)[2][1] = k
    BY <2>1, <2>2
  <2>4. 3 # 2
    OBVIOUS
  <2>5. Whole(k) # FirstHalf /\ Whole(k) # SecondHalf
    BY <1>1, <1>3, <2>4, Zenon
  <2>6. Whole(k) \in W
    OBVIOUS
  <2> QED BY <2>3, <2>5, <2>6 DEF Documents
<1>5. ASSUME NEW l, l # SecondHalf, Len(l) # 3 PROVE Documents(l) = <<>>
  <2>1. l \notin W
    BY <1>3, <1>5
  <2> QED BY <1>5, <2>1 DEF Documents
<1>6. Len(<<>>) = 0 /\ Len(<<Text>>) = 1 /\ Len(Long) = MaxLine + 1 /\ MaxLine \in Nat /\ MaxLine >= 4
  BY LineLengths, LineAssumption, EventAssumption
<1>7. ASSUME NEW l \in {<<>>, <<Text>>, Long} PROVE Len(l) # 2 /\ Len(l) # 3
  <2>1. MaxLine + 1 # 2 /\ MaxLine + 1 # 3 /\ 0 # 2 /\ 0 # 3 /\ 1 # 2 /\ 1 # 3
    BY <1>6
  <2>2. CASE l = <<>>
    BY <1>6, <2>1, <2>2, Zenon
  <2>3. CASE l = <<Text>>
    BY <1>6, <2>1, <2>3, Zenon
  <2>4. CASE l = Long
    BY <1>6, <2>1, <2>4, Zenon
  <2> QED BY <2>2, <2>3, <2>4
<1>8. ASSUME NEW l \in {<<>>, <<Text>>, Long}
      PROVE Documents(l) = <<>> /\ l # FirstHalf /\ l # SecondHalf
  <2>1. Len(l) # 2 /\ Len(l) # 3
    BY <1>7
  <2>2. l # FirstHalf /\ l # SecondHalf
    BY <1>1, <2>1, Zenon
  <2> QED BY <1>5, <2>1, <2>2
<1>9. Documents(SecondHalf) = <<"usage">>
  BY DEF Documents
<1>10. Documents(FirstHalf) = <<>>
  <2>1. 2 # 3
    OBVIOUS
  <2>2. Len(FirstHalf) # 3
    BY <1>1, <2>1, Zenon
  <2> QED BY <1>2, <1>5, <2>2
<1> QED BY <1>2, <1>4, <1>8, <1>9, <1>10

\* What flush would make an event of, if it is one.
Pending == IF IsJSON(asm.data) THEN <<asm.data>> ELSE <<>>

\* The assembler of a stream whose documents are whole so far: after the first
\* half of one it keeps that, else at most a document; and with it the events
\* are the expected ones.
Clean(after, exp) ==
  /\ ~asm.overflow
  /\ IF after THEN asm.data = <<Half(1)>> /\ asm.size = 2
     ELSE (asm.data = <<>> /\ asm.size = 0) \/ IsJSON(asm.data)
  /\ events \o Process(Pending) = exp

\* Two sequences of one.
LEMMA JoinTwo ==
  ASSUME NEW a, NEW b
  PROVE  <<a>> \o <<b>> = <<a, b>>
<1> DEFINE A == {a, b}  s == <<a>>  t == <<b>>  u == <<a, b>>
<1>1. s \in Seq(A) /\ Len(s) = 1 /\ s[1] = a /\ t \in Seq(A) /\ Len(t) = 1 /\ t[1] = b
  OBVIOUS
<1>2. u \in Seq(A) /\ Len(u) = 2 /\ u[1] = a /\ u[2] = b
  OBVIOUS
<1> HIDE DEF s, t, u, A
<1>3. /\ s \o t \in Seq(A) /\ Len(s \o t) = Len(s) + Len(t)
      /\ \A i \in 1..(Len(s) + Len(t)) :
           (s \o t)[i] = IF i <= Len(s) THEN s[i] ELSE t[i - Len(s)]
  BY <1>1, ConcatProperties
<1>4. Len(s \o t) = 2 /\ \A i \in 1..2 : (s \o t)[i] = u[i]
  <2>1. 1 \in 1..2 /\ 2 \in 1..2 /\ \A i \in 1..2 : i = 1 \/ i = 2
    OBVIOUS
  <2>2. Len(s \o t) = 2 /\ (s \o t)[1] = s[1] /\ (s \o t)[2] = t[1]
    BY <1>1, <1>3, <2>1
  <2> QED BY <1>1, <1>2, <2>1, <2>2
<1>5. s \o t = u
  BY <1>2, <1>3, <1>4, SeqEqual
<1> QED BY <1>5 DEF s, t, u

\* Nothing is no document.
LEMMA NothingIsNone == ~IsJSON(<<>>)
<1> SUFFICES ASSUME IsJSON(<<>>) PROVE FALSE
  OBVIOUS
<1>1. PICK k \in Kinds : <<>> = Document(k)
  BY DEF IsJSON
<1>2. Len(Document(k)) = 2
  BY DocumentKind
<1>3. Len(<<>>) = 0 /\ 0 # 2
  OBVIOUS
<1> QED BY <1>1, <1>2, <1>3, Zenon

\* It stays one with every line that goes on with the document.
LEMMA CleanMore ==
  ASSUME BasicInv, NEW after \in BOOLEAN, NEW exp, Clean(after, exp),
         NEW l \in AllLines, NEW r, LineTaken(l, r), after <=> l = SecondHalf,
         asm' = r.asm, events' = events \o Process(r.out)
  PROVE  Clean(l = FirstHalf, exp \o Documents(l))'
<1> DEFINE e == events
<1>1. e \in Seq(KindsOrBad) /\ e \o <<>> = e /\ MaxLine \in Nat /\ MaxLine >= 4
  <2>1. e \in Seq(KindsOrBad)
    BY TypeFacts DEF BasicInv
  <2> QED BY <2>1, LineAssumption, EventAssumption
<1>2. /\ \A k \in Kinds : Documents(Whole(k)) = <<k>> /\ Whole(k) # FirstHalf /\ Whole(k) # SecondHalf
      /\ Documents(SecondHalf) = <<"usage">> /\ FirstHalf # SecondHalf
      /\ \A x \in {<<>>, <<Text>>, Long} : Documents(x) = <<>> /\ x # FirstHalf /\ x # SecondHalf
      /\ Documents(FirstHalf) = <<>>
  BY DocumentsIs
<1>3. ~IsJSON(<<>>) /\ \A h : ~IsJSON(<<Half(h)>>)
  BY NothingIsNone, HalfIsNone
<1>4. /\ Process(<<>>) = <<>>
      /\ \A k \in Kinds : Process(<<Document(k)>>) = <<k>> /\ IsJSON(Document(k))
  BY ProcessIs, DocumentKind
<1>5. ~IsJSON(asm.data) => exp = e
  BY <1>1, <1>4 DEF Clean, Pending
<1>6. IsJSON(asm.data) => exp = e \o Process(<<asm.data>>) /\ ~after
  BY <1>3 DEF Clean, Pending
<1>7. exp \in Seq(KindsOrBad) /\ exp \o <<>> = exp
  <2>1. CASE ~IsJSON(asm.data)
    BY <1>1, <1>5, <2>1
  <2>2. CASE IsJSON(asm.data)
    <3>1. Payloads(<<asm.data>>)
      BY DEF BasicInv, AsmOK, Payloads
    <3>2. exp \in Seq(KindsOrBad)
      BY <1>6, <2>2, <3>1, EventsMore
    <3> QED BY <3>2
  <2> QED BY <2>1, <2>2
<1>8. ~asm.overflow
  BY DEF Clean
<1>9. (Pending = IF IsJSON(asm.data) THEN <<asm.data>> ELSE <<>>)'
  BY DEF Pending
<1>10. CASE l = <<>> \/ l = Long
  <2>1. /\ asm' = EmptyAssembler
        /\ r.out = IF asm.overflow \/ asm.data = <<>> THEN <<>> ELSE <<asm.data>>
    <3>1. /\ Long # <<>>
          /\ \A k \in Kinds : Whole(k) # Long /\ Whole(k) # <<>>
          /\ \A h \in {1, 2} : <<Data, Half(h)>> # Long /\ <<Data, Half(h)>> # <<>>
          /\ <<Text>> # Long /\ <<Text>> # <<>>
      BY EffectiveIs
    <3> QED BY <1>10, <3>1 DEF LineTaken
  <2>2. ~after /\ l # FirstHalf /\ Documents(l) = <<>>
    BY <1>2, <1>10
  <2>3. events' = exp
    <3>1. CASE IsJSON(asm.data)
      <4>1. r.out = <<asm.data>>
        BY <1>3, <1>8, <2>1, <3>1
      <4> QED BY <1>6, <3>1, <4>1
    <3>2. CASE ~IsJSON(asm.data)
      <4>1. asm.data = <<>>
        BY <2>2, <3>2 DEF Clean
      <4>2. r.out = <<>>
        BY <2>1, <4>1
      <4> QED BY <1>1, <1>4, <1>5, <3>2, <4>2
    <3> QED BY <3>1, <3>2
  <2>4. asm'.data = <<>> /\ asm'.size = 0 /\ ~asm'.overflow
    BY <2>1 DEF EmptyAssembler
  <2>5. Pending' = <<>>
    BY <1>3, <1>9, <2>4
  <2>6. (events \o Process(Pending))' = exp \o Documents(l)
    <3>1. (events \o Process(Pending))' = exp \o Process(<<>>)
      BY <2>3, <2>5 DEF Process
    <3> QED BY <1>4, <2>2, <3>1
  <2> QED BY <2>2, <2>4, <2>6 DEF Clean
<1>11. CASE l = <<Text>>
  <2>1. /\ <<Text>> # Long /\ <<Text>> # <<>>
        /\ \A k \in Kinds : Whole(k) # l
        /\ \A h \in {1, 2} : <<Data, Half(h)>> # l
    <3>1. \A k \in Kinds : Whole(k)[1] = Data
      BY PayloadIs
    <3>2. \A h \in {1, 2} : <<Data, Half(h)>>[1] = Data
      BY PayloadIs
    <3>3. l[1] # Data
      BY <1>11, PayloadIs
    <3>4. <<Text>> # Long /\ <<Text>> # <<>>
      BY EffectiveIs
    <3>5. \A k \in Kinds : Whole(k) # l
      BY <3>1, <3>3, Zenon
    <3>6. \A h \in {1, 2} : <<Data, Half(h)>> # l
      <4> TAKE h \in {1, 2}
      <4> DEFINE t == <<Data, Half(h)>>
      <4>1. t[1] = Data
        BY <3>2
      <4> HIDE DEF t
      <4>2. t # l
        BY <3>3, <4>1, Zenon
      <4> QED BY <4>2 DEF t
    <3> QED BY <3>4, <3>5, <3>6
  <2>2. asm' = asm /\ r.out = <<>>
    BY <1>8, <1>11, <2>1 DEF LineTaken
  <2>3. ~after /\ l # FirstHalf /\ Documents(l) = <<>>
    BY <1>2, <1>11
  <2>4. events' = events
    BY <1>1, <1>4, <2>2
  <2>5. (events \o Process(Pending))' = exp
    BY <2>2, <2>4 DEF Clean, Pending, Process
  <2> QED BY <1>7, <2>2, <2>3, <2>5 DEF Clean
<1>12. ASSUME IsJSON(asm.data), r.out = <<asm.data>>, NEW k \in Kinds, l = Whole(k),
              r.asm = [data |-> Document(k), size |-> 3, overflow |-> FALSE]
       PROVE Clean(l = FirstHalf, exp \o Documents(l))'
  <2>1. asm'.data = Document(k) /\ ~asm'.overflow /\ events' = exp
    <3>1. events' = exp
      BY <1>6, <1>12, Zenon
    <3>2. asm' = [data |-> Document(k), size |-> 3, overflow |-> FALSE]
      BY <1>12, Zenon
    <3>3. asm'.data = Document(k) /\ ~asm'.overflow
      BY <3>2
    <3> QED BY <3>1, <3>3
  <2>2. l # FirstHalf /\ Documents(l) = <<k>>
    BY <1>2, <1>12
  <2>3. Pending' = <<Document(k)>>
    BY <1>4, <1>9, <2>1
  <2>4. (events \o Process(Pending))' = exp \o <<k>>
    <3>1. (events \o Process(Pending))' = exp \o Process(<<Document(k)>>)
      BY <2>1, <2>3 DEF Process
    <3> QED BY <1>4, <3>1
  <2> QED BY <1>4, <2>1, <2>2, <2>4 DEF Clean
<1>13. ASSUME IsJSON(asm.data), r.out = <<asm.data>>, NEW h \in {1, 2}, l = <<Data, Half(h)>>,
              r.asm = [data |-> <<Half(h)>>, size |-> 2, overflow |-> FALSE]
       PROVE Clean(l = FirstHalf, exp \o Documents(l))'
  <2>1. FirstHalf = <<Data, Half(1)>> /\ SecondHalf = <<Data, Half(2)>>
    BY LineLengths
  <2>2. h = 1
    BY <1>6, <1>13, <2>1
  <2>3. asm'.data = <<Half(1)>> /\ ~asm'.overflow /\ asm'.size = 2 /\ events' = exp
    <3>1. events' = exp
      BY <1>6, <1>13, Zenon
    <3>2. asm' = [data |-> <<Half(h)>>, size |-> 2, overflow |-> FALSE]
      BY <1>13, Zenon
    <3>3. asm'.data = <<Half(h)>> /\ ~asm'.overflow /\ asm'.size = 2
      BY <3>2
    <3> QED BY <2>2, <3>1, <3>3
  <2>4. l = FirstHalf /\ Documents(l) = <<>>
    BY <1>2, <1>13, <2>1, <2>2
  <2>5. Pending' = <<>>
    BY <1>3, <1>9, <2>3
  <2>6. (events \o Process(Pending))' = exp \o <<>>
    <3>1. (events \o Process(Pending))' = exp \o Process(<<>>)
      BY <2>3, <2>5 DEF Process
    <3> QED BY <1>4, <3>1
  <2> QED BY <2>3, <2>4, <2>6 DEF Clean
<1>14. ASSUME ~IsJSON(asm.data), NEW k \in Kinds, l = Whole(k), r.asm = asm, r.out = <<Document(k)>>
       PROVE Clean(l = FirstHalf, exp \o Documents(l))'
  <2>1. l # FirstHalf /\ Documents(l) = <<k>> /\ ~after
    BY <1>2, <1>14
  <2>2. asm' = asm /\ asm.data = <<>> /\ asm.size = 0
    BY <1>14, <2>1 DEF Clean
  <2>3. events' = exp \o <<k>> /\ Pending' = <<>>
    BY <1>3, <1>4, <1>5, <1>9, <1>14, <2>2
  <2>4. exp \o <<k>> \in Seq(KindsOrBad)
    <3>1. <<k>> \in Seq(KindsOrBad)
      BY DEF KindsOrBad
    <3> QED BY <1>7, <3>1
  <2>5. (events \o Process(Pending))' = exp \o <<k>>
    <3>1. (events \o Process(Pending))' = (exp \o <<k>>) \o Process(<<>>)
      BY <2>3 DEF Process
    <3>2. (exp \o <<k>>) \o <<>> = exp \o <<k>>
      BY <2>4
    <3> QED BY <1>4, <3>1, <3>2
  <2> QED BY <1>8, <2>1, <2>2, <2>5 DEF Clean
<1>15. ASSUME ~IsJSON(asm.data), NEW h \in {1, 2}, l = <<Data, Half(h)>>, r.out = <<>>,
              r.asm = IF asm.size + 2 > MaxLine
                        THEN [data |-> <<>>, size |-> 0, overflow |-> TRUE]
                        ELSE [data |-> asm.data \o <<Half(h)>>, size |-> asm.size + 2,
                              overflow |-> FALSE]
       PROVE Clean(l = FirstHalf, exp \o Documents(l))'
  <2>1. FirstHalf = <<Data, Half(1)>> /\ SecondHalf = <<Data, Half(2)>>
    BY LineLengths
  <2>2. events' = exp
    BY <1>1, <1>4, <1>5, <1>15
  <2>3. CASE h = 1
    <3>1. l = FirstHalf /\ ~after /\ Documents(l) = <<>>
      BY <1>2, <1>15, <2>1, <2>3
    <3>2. asm.data = <<>> /\ asm.size = 0
      BY <1>15, <3>1 DEF Clean
    <3>3. ~(0 + 2 > MaxLine) /\ 0 + 2 = 2
      BY <1>1
    <3>4. <<>> \o <<Half(1)>> = <<Half(1)>>
      OBVIOUS
    <3>5. asm'.data = <<Half(1)>> /\ ~asm'.overflow /\ asm'.size = 2
      BY <1>15, <2>3, <3>2, <3>3, <3>4
    <3>6. Pending' = <<>>
      BY <1>3, <1>9, <3>5
    <3>7. (events \o Process(Pending))' = exp \o <<>>
      <4>1. (events \o Process(Pending))' = exp \o Process(<<>>)
        BY <2>2, <3>6 DEF Process
      <4> QED BY <1>4, <4>1
    <3> QED BY <3>1, <3>5, <3>7 DEF Clean
  <2>4. CASE h = 2
    <3>1. l = SecondHalf /\ after /\ Documents(l) = <<"usage">> /\ l # FirstHalf
      BY <1>2, <1>15, <2>1, <2>4
    <3>2. asm.data = <<Half(1)>> /\ asm.size = 2
      BY <3>1 DEF Clean
    <3>3. ~(2 + 2 > MaxLine)
      BY <1>1
    <3>4. <<Half(1)>> \o <<Half(2)>> = Document("usage") /\ "usage" \in Kinds
      <4> DEFINE a == Half(1)  b == Half(2)
      <4>1. Document("usage") = <<a, b>> /\ "usage" \in Kinds
        BY DEF Half, Document, Kinds
      <4> HIDE DEF a, b
      <4>2. <<a>> \o <<b>> = <<a, b>>
        BY JoinTwo
      <4> QED BY <4>1, <4>2 DEF a, b
    <3>5. asm'.data = Document("usage") /\ ~asm'.overflow
      BY <1>15, <2>4, <3>2, <3>3, <3>4
    <3>6. Pending' = <<Document("usage")>>
      BY <1>4, <1>9, <3>4, <3>5
    <3>7. (events \o Process(Pending))' = exp \o <<"usage">>
      <4>1. (events \o Process(Pending))' = exp \o Process(<<Document("usage")>>)
        BY <2>2, <3>6 DEF Process
      <4> QED BY <1>4, <3>4, <4>1
    <3> QED BY <1>4, <3>1, <3>4, <3>5, <3>7 DEF Clean
  <2> QED BY <2>3, <2>4
<1>16. CASE ~(l = <<>> \/ l = Long \/ l = <<Text>>)
  BY <1>8, <1>12, <1>13, <1>14, <1>15, <1>16 DEF LineTaken
<1> QED BY <1>10, <1>11, <1>16

-----------------------------------------------------------------------------
(* What has become of the lines so far *)

\* One more line ends its documents after those of the others.
LEMMA ExpectedMore ==
  ASSUME StaticInv
  PROVE  /\ \A m \in 0..Len(lines) : Expected(SubSeq(lines, 1, m)) \in Seq(Kinds)
         /\ \A m \in 0..Len(lines) : m < Len(lines) =>
              Expected(SubSeq(lines, 1, m + 1)) =
                Expected(SubSeq(lines, 1, m)) \o Documents(lines[m + 1])
<1> DEFINE P(m) == [i \in 1..m |-> Documents(lines[i])]
<1>1. Len(lines) \in Nat /\ \A i \in 1..Len(lines) : lines[i] \in AllLines
  BY TextFacts
<1>2. ASSUME NEW l \in AllLines PROVE Documents(l) \in Seq(Kinds)
  <2>1. "usage" \in Kinds /\ <<>> \in Seq(Kinds)
    BY DEF Kinds
  <2>2. ASSUME NEW k \in Kinds PROVE <<k>> \in Seq(Kinds)
    OBVIOUS
  <2> QED BY <2>1, <2>2, DocumentsIs, LineKinds
<1>3. ASSUME NEW m \in 0..Len(lines)
      PROVE Expected(SubSeq(lines, 1, m)) = FlattenSeq(P(m)) /\ P(m) \in Seq(Seq(Kinds))
  <2> DEFINE u == SubSeq(lines, 1, m)
             q == [i \in DOMAIN u |-> Documents(u[i])]
  <2>1. DOMAIN u = 1..m /\ \A i \in 1..m : u[i] = lines[i]
    BY <1>1
  <2> HIDE DEF u
  <2>2. q = P(m)
    BY <2>1
  <2>3. Expected(u) = FlattenSeq(q)
    BY DEF Expected
  <2>4. m \in Nat /\ \A i \in 1..m : Documents(lines[i]) \in Seq(Kinds)
    BY <1>1, <1>2
  <2>5. P(m) \in Seq(Seq(Kinds))
    BY <2>4, IsASeq
  <2> QED BY <2>2, <2>3, <2>5 DEF u
<1>4. ASSUME NEW m \in 0..Len(lines), m < Len(lines)
      PROVE Expected(SubSeq(lines, 1, m + 1)) =
              Expected(SubSeq(lines, 1, m)) \o Documents(lines[m + 1])
  <2>1. m \in Nat /\ m + 1 \in 0..Len(lines) /\ m + 1 \in 1..Len(lines)
    BY <1>1, <1>4
  <2> DEFINE d == Documents(lines[m + 1])
  <2>2. d \in Seq(Kinds)
    BY <1>1, <1>2, <2>1
  <2>3. P(m + 1) = Append(P(m), d)
    <3>1. P(m + 1) = [i \in 1..(m + 1) |-> IF i <= m THEN P(m)[i] ELSE d]
      <4>1. \A i \in 1..(m + 1) : i <= m \/ i = m + 1
        BY <2>1
      <4>2. \A i \in 1..(m + 1) : i <= m => i \in 1..m
        BY <2>1
      <4> QED BY <4>1, <4>2
    <3>2. Len(P(m)) = m /\ DOMAIN P(m) = 1..m
      BY <2>1
    <3> DEFINE p == P(m)  v == P(m + 1)
    <3>3. p \in Seq(Seq(Kinds))
      BY <1>3
    <3> HIDE DEF P, p, d
    <3>4. /\ Append(p, d) \in Seq(Seq(Kinds)) /\ Len(Append(p, d)) = m + 1
          /\ \A i \in 1..m : Append(p, d)[i] = p[i]
          /\ Append(p, d)[m + 1] = d
      BY <2>2, <3>2, <3>3, AppendProperties DEF p
    <3>5. v \in Seq(Seq(Kinds)) /\ Len(v) = m + 1
      <4>1. v \in Seq(Seq(Kinds))
        BY <1>3, <2>1
      <4>2. DOMAIN v = 1..(m + 1)
        BY <3>1
      <4> HIDE DEF v
      <4>3. Len(v) = m + 1
        BY <2>1, <4>1, <4>2
      <4> QED BY <4>1, <4>3
    <3>6. \A i \in 1..(m + 1) : v[i] = IF i <= m THEN p[i] ELSE d
      BY <3>1 DEF p
    <3>7. \A i \in 1..(m + 1) : v[i] = Append(p, d)[i]
      <4> TAKE i \in 1..(m + 1)
      <4>1. CASE i <= m
        <5>1. i \in 1..m
          BY <2>1, <4>1
        <5> QED BY <3>4, <3>6, <4>1, <5>1
      <4>2. CASE ~(i <= m)
        <5>1. i = m + 1
          BY <2>1, <4>2
        <5>2. v[i] = d
          BY <3>6, <4>2
        <5> QED BY <3>4, <5>1, <5>2
      <4> QED BY <4>1, <4>2
    <3> HIDE DEF v
    <3>8. v = Append(p, d)
      BY <3>4, <3>5, <3>7, SeqEqual
    <3> QED BY <3>8 DEF v, p
  <2>4. FlattenSeq(Append(P(m), d)) = FlattenSeq(P(m)) \o d
    <3>1. P(m) \in Seq(Seq(Kinds))
      BY <1>3
    <3> HIDE DEF P, d
    <3> QED BY <2>2, <3>1, FlattenAppend
  <2> HIDE DEF P
  <2> QED BY <1>3, <2>1, <2>3, <2>4
<1>5. ASSUME NEW m \in 0..Len(lines) PROVE Expected(SubSeq(lines, 1, m)) \in Seq(Kinds)
  <2> HIDE DEF P
  <2> QED BY <1>3, FlattenType
<1> QED BY <1>4, <1>5

\* The documents spread over two lines, among the first m lines.
OrderedUpTo(m) ==
  \A i \in 1..m :
    /\ lines[i] = FirstHalf => i = m \/ lines[i + 1] = SecondHalf
    /\ lines[i] = SecondHalf => i > 1 /\ lines[i - 1] = FirstHalf
AfterFirst(m) == m > 0 /\ lines[m] = FirstHalf

\* Whole documents, whatever cut the lines, have become the expected events, or
\* are kept for one.
WholeInv(m) ==
  OrderedUpTo(m) /\ (cutBreak => OneLineDocuments)
  => Clean(AfterFirst(m), Expected(SubSeq(lines, 1, m)))

\* Usage among the lines so far was seen.
Counted(i) ==
  \/ /\ lines[i] \in {Whole("usage"), Whole("completed")}
     /\ 2 * Cardinality(Pieces(i)) <= MaxLine
  \/ lines[i] = SecondHalf /\ WellFormed(SubSeq(lines, 1, i)) /\ ~cutBreak
LostInv(m) ==
  /\ Fits(2 * Cardinality(Pieces(m)))
  /\ \A i \in 1..m : Counted(i) => UsageSeen

\* Of documents in order, a second half comes where a first one waits for it.
LEMMA OrderedMore ==
  ASSUME NEW m \in Nat, OrderedUpTo(m + 1)
  PROVE  OrderedUpTo(m) /\ (AfterFirst(m) <=> lines[m + 1] = SecondHalf)
<1>1. /\ m + 1 \in 1..(m + 1) /\ (m + 1) - 1 = m /\ (m + 1 > 1 <=> m > 0)
      /\ \A i \in 1..m : i \in 1..(m + 1) /\ i # m + 1
  OBVIOUS
<1>2. OrderedUpTo(m)
  BY <1>1 DEF OrderedUpTo
<1>3. ASSUME AfterFirst(m) PROVE lines[m + 1] = SecondHalf
  <2>1. m \in 1..m
    BY <1>3 DEF AfterFirst
  <2> QED BY <1>1, <1>3, <2>1 DEF OrderedUpTo, AfterFirst
<1>4. ASSUME lines[m + 1] = SecondHalf PROVE AfterFirst(m)
  <2>1. m + 1 > 1 /\ lines[(m + 1) - 1] = FirstHalf
    BY <1>1, <1>4 DEF OrderedUpTo
  <2> QED BY <1>1, <2>1 DEF AfterFirst
<1> QED BY <1>2, <1>3, <1>4

\* A line that was sent.
LEMMA WholeMore ==
  ASSUME BasicInv, NEW m \in 0..Len(lines), m < Len(lines), WholeInv(m),
         NEW r, LineTaken(lines[m + 1], r), asm' = r.asm, events' = events \o Process(r.out),
         UNCHANGED <<lines, cutBreak>>
  PROVE  WholeInv(m + 1)'
<1> SUFFICES ASSUME OrderedUpTo(m + 1), cutBreak => OneLineDocuments
    PROVE Clean(AfterFirst(m + 1), Expected(SubSeq(lines, 1, m + 1)))'
  BY DEF WholeInv, OrderedUpTo, OneLineDocuments
<1>1. /\ m \in Nat /\ m + 1 > 0 /\ lines[m + 1] \in AllLines
      /\ Expected(SubSeq(lines, 1, m + 1)) =
           Expected(SubSeq(lines, 1, m)) \o Documents(lines[m + 1])
  <2>1. StaticInv
    BY DEF BasicInv
  <2>2. m \in Nat /\ m + 1 > 0
    BY <2>1, TextFacts
  <2> QED BY <2>1, <2>2, ExpectedMore, LinePlace
<1>2. OrderedUpTo(m) /\ (AfterFirst(m) <=> lines[m + 1] = SecondHalf)
  BY <1>1, OrderedMore
<1>3. PICK l \in AllLines : l = lines[m + 1]
  BY <1>1
<1>4. PICK exp : exp = Expected(SubSeq(lines, 1, m))
  OBVIOUS
<1>5. PICK after \in BOOLEAN : after <=> AfterFirst(m)
  OBVIOUS
<1>6. Clean(after, exp)
  BY <1>2, <1>4, <1>5 DEF WholeInv, Clean
<1>7. Clean(l = FirstHalf, exp \o Documents(l))'
  BY <1>2, <1>3, <1>5, <1>6, CleanMore
<1>8. AfterFirst(m + 1)' <=> l = FirstHalf
  BY <1>1, <1>3 DEF AfterFirst
<1>9. Expected(SubSeq(lines, 1, m + 1))' = exp \o Documents(l)
  <2>1. Expected(SubSeq(lines, 1, m + 1))' = Expected(SubSeq(lines, 1, m + 1))
    BY DEF Expected, Documents
  <2> QED BY <1>1, <1>3, <1>4, <2>1
<1> QED BY <1>7, <1>8, <1>9 DEF Clean

\* An empty line that a cut break makes.
LEMMA WholeSkip ==
  ASSUME BasicInv, NEW m \in 0..Len(lines), WholeInv(m), cutBreak,
         NEW r, LineTaken(<<>>, r), asm' = r.asm, events' = events \o Process(r.out),
         UNCHANGED <<lines, cutBreak>>
  PROVE  WholeInv(m)'
<1> SUFFICES ASSUME OrderedUpTo(m), OneLineDocuments
    PROVE Clean(AfterFirst(m), Expected(SubSeq(lines, 1, m)))'
  BY DEF WholeInv, OrderedUpTo, OneLineDocuments
<1>1. Expected(SubSeq(lines, 1, m)) \in Seq(Kinds) /\ Len(lines) \in Nat /\ StaticInv
  BY ExpectedMore, TextFacts DEF BasicInv
<1>2. ~AfterFirst(m)
  <2> SUFFICES ASSUME AfterFirst(m) PROVE FALSE
    OBVIOUS
  <2>1. m \in 1..Len(lines) /\ DOMAIN lines = 1..Len(lines)
    BY <1>1 DEF AfterFirst, StaticInv
  <2> QED BY <2>1 DEF AfterFirst, OneLineDocuments
<1>3. PICK exp : exp = Expected(SubSeq(lines, 1, m))
  OBVIOUS
<1>4. Clean(FALSE, exp)
  BY <1>2, <1>3 DEF WholeInv, Clean
<1>5. <<>> \in AllLines /\ <<>> # SecondHalf /\ <<>> # FirstHalf /\ Documents(<<>>) = <<>>
  BY DocumentsIs DEF AllLines, ChatLines
<1>6. PICK l \in AllLines : l = <<>>
  BY <1>5
<1>7. Clean(l = FirstHalf, exp \o Documents(l))'
  <2>1. FALSE <=> l = SecondHalf
    BY <1>5, <1>6
  <2> QED BY <1>4, <1>6, <2>1, CleanMore
<1>8. exp \o Documents(l) = exp /\ l # FirstHalf
  BY <1>1, <1>3, <1>5, <1>6
<1>9. ~AfterFirst(m)'
  BY <1>2 DEF AfterFirst
<1>10. Expected(SubSeq(lines, 1, m))' = exp
  <2>1. Expected(SubSeq(lines, 1, m))' = Expected(SubSeq(lines, 1, m))
    BY DEF Expected, Documents
  <2> QED BY <1>3, <2>1
<1> QED BY <1>7, <1>8, <1>9, <1>10 DEF Clean

\* A line that carries usage, whole or the second half of a document.
LEMMA UsageTaken ==
  ASSUME BasicInv, NEW m \in 0..Len(lines), m < Len(lines), LostInv(m), WholeInv(m),
         NEW r, LineTaken(lines[m + 1], r), asm' = r.asm, events' = events \o Process(r.out),
         Payloads(r.out), Counted(m + 1)
  PROVE  UsageSeen'
<1>1. StaticInv /\ m \in Nat /\ lines[m + 1] \in AllLines /\ Len(lines) \in Nat
  BY LinePlace, TextFacts DEF BasicInv
<1>2. "usage" \in Kinds /\ "completed" \in Kinds
  BY DEF Kinds, ResponsesKinds
<1>3. /\ \A k \in Kinds : Documents(Whole(k)) = <<k>> /\ Whole(k) # FirstHalf /\ Whole(k) # SecondHalf
      /\ FirstHalf = <<Data, Half(1)>> /\ SecondHalf = <<Data, Half(2)>> /\ FirstHalf # SecondHalf
  BY DocumentsIs, LineLengths
<1>4. ASSUME NEW k \in {"usage", "completed"}, lines[m + 1] = Whole(k),
             2 * Cardinality(Pieces(m + 1)) <= MaxLine
      PROVE UsageSeen'
  <2>0. k \in Kinds
    BY <1>2
  <2>1. /\ Whole(k) # Long /\ Whole(k) # <<>> /\ Whole(k) # <<Text>>
        /\ \A j \in Kinds : Whole(k) = Whole(j) => j = k
        /\ \A h \in {1, 2} : Whole(k) # <<Data, Half(h)>>
    <3>1. Whole(k) # Long /\ Whole(k) # <<>>
      BY <1>1, <2>0, EffectiveIs
    <3>2. Whole(k) # <<Text>>
      BY <2>0, PayloadIs
    <3>3. ASSUME NEW j \in Kinds, Whole(k) = Whole(j) PROVE j = k
      <4>1. <<k>> = <<j>>
        BY <1>3, <2>0, <3>3
      <4> QED BY <4>1
    <3>4. ASSUME NEW h \in {1, 2} PROVE Whole(k) # <<Data, Half(h)>>
      BY <1>3, <2>0
    <3> QED BY <3>1, <3>2, <3>3, <3>4
  <2>2. ~asm.overflow
    <3>1. Pieces(m + 1) = Pieces(m)
      BY <1>1, <1>3, <1>4, <2>0, <2>1, PiecesMore
    <3>2. Cardinality(Pieces(m)) \in Nat
      BY <1>1, PiecesMore
    <3> DEFINE n == 2 * Cardinality(Pieces(m))
    <3>3. n <= MaxLine /\ n \in Nat /\ MaxLine \in Nat
      BY <1>4, <3>1, <3>2, LineAssumption
    <3>4. asm.overflow => n > MaxLine
      BY DEF LostInv, Fits
    <3> HIDE DEF n
    <3> QED BY <3>3, <3>4
  <2>3. CASE IsJSON(asm.data)
    <3>1. r.asm = [data |-> Document(k), size |-> 3, overflow |-> FALSE]
      BY <1>4, <2>1, <2>2, <2>3 DEF LineTaken
    <3>2. asm'.data = Document(k) /\ ~asm'.overflow
      BY <3>1
    <3> QED BY <3>2 DEF UsageSeen, Carry
  <2>4. CASE ~IsJSON(asm.data)
    <3>1. r.out = <<Document(k)>>
      BY <1>4, <2>1, <2>2, <2>4 DEF LineTaken
    <3>2. Seen(events \o Process(r.out), k)
      BY <2>0, <3>1, SeenMore
    <3> QED BY <3>2 DEF UsageSeen
  <2> QED BY <2>3, <2>4
<1>5. ASSUME lines[m + 1] = SecondHalf, WellFormed(SubSeq(lines, 1, m + 1)), ~cutBreak
      PROVE UsageSeen'
  <2> DEFINE u == SubSeq(lines, 1, m + 1)
  <2>1. Len(u) = m + 1 /\ DOMAIN u = 1..(m + 1) /\ \A i \in 1..(m + 1) : u[i] = lines[i]
    BY <1>1
  <2>2. OrderedUpTo(m + 1)
    <3> HIDE DEF u
    <3> SUFFICES ASSUME NEW i \in 1..(m + 1)
        PROVE /\ lines[i] = FirstHalf => i = m + 1 \/ lines[i + 1] = SecondHalf
              /\ lines[i] = SecondHalf => i > 1 /\ lines[i - 1] = FirstHalf
      BY DEF OrderedUpTo
    <3>0. WellFormed(u)
      BY <1>5 DEF u
    <3>1. /\ u[i] = FirstHalf => i < m + 1 /\ u[i + 1] = SecondHalf
          /\ u[i] = SecondHalf => i > 1 /\ u[i - 1] = FirstHalf
      BY <2>1, <3>0 DEF WellFormed
    <3>2. i < m + 1 => i + 1 \in 1..(m + 1)
      BY <1>1
    <3>3. i > 1 => i - 1 \in 1..(m + 1)
      BY <1>1
    <3> QED BY <2>1, <3>1, <3>2, <3>3
  <2>3. OrderedUpTo(m) /\ AfterFirst(m)
    BY <1>1, <1>5, <2>2, OrderedMore
  <2>4. ~asm.overflow /\ asm.data = <<Half(1)>> /\ asm.size = 2
    BY <1>5, <2>3 DEF WholeInv, Clean
  <2>5. ~IsJSON(asm.data) /\ 4 <= MaxLine /\ MaxLine \in Nat
    BY <2>4, HalfIsNone, LineAssumption, EventAssumption
  <2>6. /\ SecondHalf # Long /\ SecondHalf # <<>> /\ SecondHalf # <<Text>>
        /\ \A j \in Kinds : SecondHalf # Whole(j)
        /\ \A h \in {1, 2} : SecondHalf = <<Data, Half(h)>> => h = 2
    <3>1. SecondHalf # Long /\ SecondHalf # <<>> /\ SecondHalf # <<Text>>
      BY DocumentsIs
    <3>2. ASSUME NEW h \in {1, 2}, SecondHalf = <<Data, Half(h)>> PROVE h = 2
      BY <1>3, <3>2
    <3> QED BY <1>3, <3>1, <3>2
  <2>7. r.asm = [data |-> asm.data \o <<Half(2)>>, size |-> asm.size + 2, overflow |-> FALSE]
    <3>1. ~(asm.size + 2 > MaxLine)
      BY <2>4, <2>5
    <3> QED BY <1>5, <2>4, <2>5, <2>6, <3>1 DEF LineTaken
  <2>8. asm.data \o <<Half(2)>> = Document("usage")
    <3> DEFINE a == Half(1)  b == Half(2)
    <3>1. Document("usage") = <<a, b>>
      BY DEF Half, Document
    <3> HIDE DEF a, b
    <3>2. <<a>> \o <<b>> = <<a, b>>
      BY JoinTwo
    <3> QED BY <2>4, <3>1, <3>2 DEF a, b
  <2>9. asm'.data = Document("usage") /\ ~asm'.overflow
    BY <2>7, <2>8
  <2> QED BY <2>9 DEF UsageSeen, Carry
<1> QED BY <1>4, <1>5 DEF Counted

\* A line that was sent does not lose usage.
LEMMA LostMore ==
  ASSUME BasicInv, NEW m \in 0..Len(lines), m < Len(lines), LostInv(m), WholeInv(m),
         NEW r, LineTaken(lines[m + 1], r), asm' = r.asm, events' = events \o Process(r.out),
         Payloads(r.out), UNCHANGED <<lines, cutBreak>>
  PROVE  LostInv(m + 1)'
<1>1. StaticInv /\ m \in Nat /\ lines[m + 1] \in AllLines
  BY LinePlace, TextFacts DEF BasicInv
<1>2. \A i : Pieces(i)' = Pieces(i) /\ (Counted(i)' <=> Counted(i))
  BY DEF Pieces, Counted, WellFormed
<1>3. ASSUME NEW i \in 1..(m + 1), Counted(i) PROVE UsageSeen'
  <2>1. CASE i = m + 1
    BY <1>3, <2>1, UsageTaken
  <2>2. CASE i # m + 1
    <3>1. i \in 1..m
      BY <1>1, <2>2
    <3>2. UsageSeen
      BY <1>3, <3>1 DEF LostInv
    <3> QED BY <1>1, <3>2, UsageStays
  <2> QED BY <2>1, <2>2
<1>4. PICK c \in Nat, d \in Nat : c = Cardinality(Pieces(m)) /\ d = Cardinality(Pieces(m + 1))
  BY <1>1, PiecesMore
<1>5. PICK n \in Nat, q \in Nat : n = 2 * c /\ q = 2 * d
  OBVIOUS
<1>6. IF lines[m + 1] \in {FirstHalf, SecondHalf} THEN q = n + 2
      ELSE lines[m + 1] # <<>> => q = n
  <2>1. IF lines[m + 1] \in {FirstHalf, SecondHalf} THEN d = c + 1
        ELSE lines[m + 1] # <<>> => d = c
    BY <1>1, <1>4, PiecesMore
  <2> QED BY <1>5, <2>1
<1>7. Fits(q)'
  <2>1. Fits(n)
    BY <1>4, <1>5 DEF LostInv
  <2> DEFINE l == lines[m + 1]
  <2>2. l \in {<<>>, Long} \/ q = n \/ q = n + 2
    BY <1>6
  <2>3. l \in {FirstHalf, SecondHalf} => q = n + 2
    BY <1>6
  <2>4. l \in AllLines /\ LineTaken(l, r)
    BY <1>1
  <2> HIDE DEF l
  <2> QED BY <2>1, <2>2, <2>3, <2>4, FitsMore
<1>8. (2 * Cardinality(Pieces(m + 1)))' = q
  BY <1>2, <1>4, <1>5
<1> QED BY <1>2, <1>3, <1>7, <1>8 DEF LostInv, Fits

\* Neither does an empty line that a cut break makes.
LEMMA LostSkip ==
  ASSUME BasicInv, NEW m \in 0..Len(lines), LostInv(m),
         NEW r, LineTaken(<<>>, r), asm' = r.asm, events' = events \o Process(r.out),
         Payloads(r.out), UNCHANGED <<lines, cutBreak>>
  PROVE  LostInv(m)'
<1>1. <<>> \in AllLines /\ <<>> # SecondHalf /\ <<>> # FirstHalf
  BY DocumentsIs DEF AllLines, ChatLines
<1>2. \A i : Pieces(i)' = Pieces(i) /\ (Counted(i)' <=> Counted(i))
  BY DEF Pieces, Counted, WellFormed
<1>3. ASSUME NEW i \in 1..m, Counted(i) PROVE UsageSeen'
  <2>1. UsageSeen
    BY <1>3 DEF LostInv
  <2> QED BY <1>1, <2>1, UsageStays
<1>4. Cardinality(Pieces(m)) \in Nat
  <2>1. IsFiniteSet(1..m) /\ Pieces(m) \subseteq 1..m
    <3>1. m \in Nat
      BY TextFacts DEF BasicInv
    <3> QED BY <3>1, FS_Interval DEF Pieces
  <2> QED BY <2>1, FS_Subset, FS_CardinalityType
<1>5. PICK n \in Nat : n = 2 * Cardinality(Pieces(m))
  BY <1>4
<1>6. Fits(n)'
  <2>1. Fits(n)
    BY <1>5 DEF LostInv
  <2> DEFINE l == <<>>
  <2>2. l \in AllLines /\ l \in {<<>>, Long} /\ LineTaken(l, r) /\ l \notin {FirstHalf, SecondHalf}
    BY <1>1
  <2> HIDE DEF l
  <2> QED BY <2>1, <2>2, FitsMore
<1> QED BY <1>2, <1>3, <1>5, <1>6 DEF LostInv, Fits

-----------------------------------------------------------------------------
(* The parser's place is kept *)

Place(m) == At(m) /\ LostInv(m) /\ WholeInv(m)
ParseInv ==
  phase # "recorded" /\ profile # "compressed" => \E m \in 0..Len(lines) : Place(m)

\* Nothing but the cut of a break is learnt when nothing is parsed.
LEMMA HistoryKept ==
  ASSUME NEW m, LostInv(m), WholeInv(m), cutBreak => cutBreak',
         UNCHANGED <<lines, asm, events>>
  PROVE  LostInv(m)' /\ WholeInv(m)'
<1>1. \A i : Pieces(i)' = Pieces(i) /\ (Counted(i)' => Counted(i))
  BY DEF Pieces, Counted, WellFormed
<1>2. LostInv(m)'
  BY <1>1 DEF LostInv, Fits, UsageSeen
<1>3. Expected(SubSeq(lines, 1, m))' = Expected(SubSeq(lines, 1, m))
  BY DEF Expected, Documents
<1>4. WholeInv(m)'
  BY <1>3 DEF WholeInv, Clean, Pending, Process, OrderedUpTo, AfterFirst, OneLineDocuments
<1> QED BY <1>2, <1>4

\* One read brings the chunk, and may cut a break.
LEMMA PlaceRead ==
  ASSUME BasicInv, ChunkInv, CutInv, ParseInv, NEW n, NEW err, Read(n, err)
  PROVE  (ChunkInv /\ CutInv /\ ParseInv)'
<1>1. /\ phase = "read" /\ n \in 0..(Len(stream) - pos)
      /\ pos' = pos + n /\ forwarded' = pos + n
      /\ chunk' = IF profile = "compressed" THEN <<>> ELSE SubSeq(stream, pos + 1, pos + n)
      /\ cutBreak' = (cutBreak \/ (n > 0 /\ pos + n < Len(stream)
                               /\ stream[pos + n] = CR /\ stream[pos + n + 1] = LF))
      /\ UNCHANGED <<profile, lines, brk, stream, lineBuf, lineOverflow, asm, events>>
  BY DEF Read
<1>2. /\ Len(stream) \in Nat /\ pos \in Nat /\ pos <= Len(stream) /\ n \in Nat
      /\ pos + n \in Nat /\ pos + n <= Len(stream) /\ pos <= pos + n
      /\ forwarded = pos /\ chunk = <<>> /\ stream \in Seq(Atoms)
  <2>1. /\ Len(stream) \in Nat /\ pos \in Nat /\ pos <= Len(stream)
        /\ forwarded = pos /\ chunk = <<>> /\ stream \in Seq(Atoms)
    BY <1>1, TypeFacts DEF BasicInv
  <2> QED BY <1>1, <2>1
<1>3. Parsed = pos
  <2>1. Len(chunk) = 0
    BY <1>2
  <2> QED BY <1>2, <2>1 DEF Parsed
<1>6. CutInv'
  <2>1. CASE n = 0
    <3>1. forwarded' = forwarded
      BY <1>1, <1>2, <2>1
    <3> QED BY <1>1, <3>1 DEF CutInv
  <2>2. CASE n > 0
    BY <1>1, <2>2 DEF CutInv
  <2> QED BY <1>2, <2>1, <2>2
<1>4. CASE profile = "compressed"
  <2>1. Len(chunk') = 0 /\ forwarded' \in Nat /\ \A j \in 1..0 : FALSE
    BY <1>1, <1>2, <1>4
  <2>2. ChunkInv'
    BY <2>1 DEF ChunkInv
  <2>3. ParseInv'
    BY <1>1, <1>4 DEF ParseInv
  <2> QED BY <1>6, <2>2, <2>3
<1>5. CASE profile # "compressed"
  <2>1. PICK c \in Nat : c = pos + n
    BY <1>2
  <2>2. Len(chunk') = n /\ \A j \in 1..n : chunk'[j] = stream[pos + j]
    <3>1. chunk' = SubSeq(stream, pos + 1, c) /\ pos <= c /\ c <= Len(stream) /\ c - pos = n
      BY <1>1, <1>2, <1>5, <2>1
    <3>2. 0 \in Nat /\ Len(stream) <= Len(stream)
      BY <1>2
    <3>3. /\ Len(SubSeq(stream, pos + 1, c)) = c - pos
          /\ \A i \in 1..(c - pos) : SubSeq(stream, pos + 1, c)[i] = stream[pos + i]
      BY <1>2, <3>1, <3>2, SplitAt
    <3> QED BY <3>1, <3>3
  <2>3. Parsed' = pos
    <3>1. Parsed' = (pos + n) - n
      BY <1>1, <2>2 DEF Parsed
    <3> QED BY <1>2, <3>1
  <2>4. ChunkInv'
    <3>1. Len(chunk') <= forwarded'
      BY <1>1, <1>2, <2>2
    <3>2. \A j \in 1..Len(chunk') : chunk'[j] = stream'[Parsed' + j]
      BY <1>1, <2>2, <2>3
    <3> QED BY <3>1, <3>2 DEF ChunkInv
  <2>5. ParseInv'
    <3>1. PICK m \in 0..Len(lines) : Place(m)
      BY <1>1, <1>5 DEF ParseInv
    <3>2. At(m)'
      BY <1>1, <1>3, <2>3, <3>1, AtKept DEF Place
    <3>3. LostInv(m)' /\ WholeInv(m)'
      BY <1>1, <3>1, HistoryKept DEF Place
    <3>4. Place(m)'
      BY <3>2, <3>3 DEF Place
    <3> QED BY <1>1, <3>4 DEF ParseInv
  <2> QED BY <1>6, <2>4, <2>5
<1> QED BY <1>4, <1>5

\* One line of it goes to the assembler.
LEMMA PlaceLine ==
  ASSUME BasicInv, ChunkInv, CutInv, ParseInv, Line
  PROVE  (ChunkInv /\ CutInv /\ ParseInv)'
<1>1. /\ phase = "lines" /\ BreakIn(chunk) # {}
      /\ asm' = AddLine(asm, LineRead).asm
      /\ events' = events \o Process(AddLine(asm, LineRead).out)
      /\ UNCHANGED <<profile, lines, brk, stream, forwarded, cutBreak>>
  BY LineIs DEF Frozen
<1>2. ChunkInv'
  BY RestIs
<1>3. CutInv'
  BY <1>1 DEF CutInv
<1>4. ASSUME profile # "compressed" PROVE \E m \in 0..Len(lines) : Place(m)'
  <2>1. PICK m \in 0..Len(lines) : Place(m)
    BY <1>1, <1>4 DEF ParseInv
  <2>2. PICK r : r = AddLine(asm, LineRead)
    OBVIOUS
  <2>3. Payloads(r.out)
    <3>1. LineRead \in Seq(Atoms) /\ AsmOK(asm)
      BY <1>1, LineParts DEF BasicInv
    <3> QED BY <2>2, <3>1, AddLineOK
  <2>4. CASE /\ m < Len(lines) /\ LineRead = Effective(lines[m + 1])
             /\ m + 1 \in 0..Len(lines) /\ At(m + 1)'
    <3>1. lines[m + 1] \in AllLines
      BY <2>4, LinePlace DEF BasicInv
    <3>2. LineTaken(lines[m + 1], r)
      BY <2>2, <2>4, <3>1, LineWays
    <3>3. LostInv(m + 1)'
      BY <1>1, <2>1, <2>2, <2>3, <2>4, <3>2, LostMore DEF Place
    <3>4. WholeInv(m + 1)'
      BY <1>1, <2>1, <2>2, <2>4, <3>2, WholeMore DEF Place
    <3> QED BY <2>4, <3>3, <3>4 DEF Place
  <2>5. CASE cutBreak /\ LineRead = <<>> /\ At(m)'
    <3>1. <<>> \in AllLines /\ <<>> # Long
      <4>1. <<>> \in AllLines
        BY DEF AllLines, ChatLines
      <4> QED BY <4>1, EffectiveIs
    <3>2. LineTaken(<<>>, r)
      <4>1. Effective(<<>>) = <<>>
        BY <3>1, EffectiveIs
      <4> QED BY <2>2, <2>5, <3>1, <4>1, LineWays
    <3>3. LostInv(m)'
      BY <1>1, <2>1, <2>2, <2>3, <3>2, LostSkip DEF Place
    <3>4. WholeInv(m)'
      BY <1>1, <2>1, <2>2, <2>5, <3>2, WholeSkip DEF Place
    <3> QED BY <2>5, <3>3, <3>4 DEF Place
  <2>6. At(m)
    BY <2>1 DEF Place
  <2> QED BY <2>4, <2>5, <2>6, LineMoves
<1>5. ParseInv'
  BY <1>1, <1>4 DEF ParseInv
<1> QED BY <1>2, <1>3, <1>5

\* What is left of it without a break waits for the next read.
LEMMA PlaceRemainder ==
  ASSUME BasicInv, ChunkInv, CutInv, ParseInv, Remainder
  PROVE  (ChunkInv /\ CutInv /\ ParseInv)'
<1>1. /\ phase = "lines" /\ chunk' = <<>>
      /\ UNCHANGED <<profile, lines, brk, stream, forwarded, cutBreak, asm, events>>
  BY DEF Remainder
<1>2. CutInv'
  BY <1>1 DEF CutInv
<1>3. ChunkInv'
  <2>1. Len(chunk') = 0 /\ forwarded' \in Nat /\ \A j \in 1..0 : FALSE
    BY <1>1, TypeFacts DEF BasicInv
  <2> QED BY <2>1 DEF ChunkInv
<1>4. ASSUME profile # "compressed" PROVE \E m \in 0..Len(lines) : Place(m)'
  <2>1. PICK m \in 0..Len(lines) : Place(m)
    BY <1>1, <1>4 DEF ParseInv
  <2>2. At(m)'
    BY <2>1, RemainderMoves DEF Place
  <2>3. LostInv(m)' /\ WholeInv(m)'
    BY <1>1, <2>1, HistoryKept DEF Place
  <2> QED BY <2>2, <2>3 DEF Place
<1>5. ParseInv'
  BY <1>1, <1>4 DEF ParseInv
<1> QED BY <1>2, <1>3, <1>5

\* Before the next read, and when nothing happens, all stays.
LEMMA PlaceKept ==
  ASSUME BasicInv, ChunkInv, CutInv, ParseInv, phase' # "recorded" => phase # "recorded",
         UNCHANGED <<profile, lines, brk, stream, forwarded, chunk, lineBuf, lineOverflow, asm,
                     events, cutBreak>>
  PROVE  (ChunkInv /\ CutInv /\ ParseInv)'
<1>1. ChunkInv' /\ CutInv' /\ Parsed' = Parsed
  BY DEF ChunkInv, CutInv, Parsed
<1>2. ASSUME profile # "compressed", phase # "recorded" PROVE \E m \in 0..Len(lines) : Place(m)'
  <2>1. PICK m \in 0..Len(lines) : Place(m)
    BY <1>2 DEF ParseInv
  <2>2. At(m)'
    BY <1>1, <2>1, AtKept DEF Place
  <2>3. LostInv(m)' /\ WholeInv(m)'
    BY <2>1, HistoryKept DEF Place
  <2> QED BY <2>2, <2>3 DEF Place
<1>3. ParseInv'
  BY <1>2 DEF ParseInv
<1> QED BY <1>1, <1>3

\* Every step.
LEMMA PlaceNext ==
  ASSUME BasicInv, ChunkInv, CutInv, ParseInv, [Next]_vars
  PROVE  (ChunkInv /\ CutInv /\ ParseInv)'
<1>1. CASE UNCHANGED vars
  BY <1>1, PlaceKept DEF vars
<1>2. CASE NextRead
  BY <1>2, PlaceKept DEF NextRead
<1>3. CASE Ends
  <2>1. /\ UNCHANGED <<profile, lines, brk, stream, forwarded, chunk, cutBreak>>
        /\ phase' = "recorded"
    BY <1>3 DEF Ends, Frozen, Finish
  <2> QED BY <2>1 DEF ChunkInv, CutInv, ParseInv, Parsed
<1> QED BY <1>1, <1>2, <1>3, NextWays, PlaceRead, PlaceLine, PlaceRemainder

\* At the beginning the parser is before the first line.
LEMMA PlaceInit ==
  ASSUME Init
  PROVE  ChunkInv /\ CutInv /\ ParseInv
<1>1. /\ forwarded = 0 /\ chunk = <<>> /\ Len(chunk) = 0 /\ lineBuf = <<>> /\ lineOverflow = FALSE
      /\ asm = EmptyAssembler /\ events = <<>> /\ Len(lineBuf) = 0
  BY DEF Init
<1>2. StaticInv
  BY StaticInit
<1>3. /\ Len(lines) \in Nat /\ End(0) = 0 /\ 0 \in 0..Len(lines) /\ 0 \in Nat /\ 0 <= MaxLine
  BY <1>2, TextFacts, FirstNone, LineAssumption DEF End
<1>4. ChunkInv /\ CutInv
  <2>1. \A j \in 1..0 : FALSE
    OBVIOUS
  <2> QED BY <1>1, <2>1 DEF ChunkInv, CutInv
<1>5. At(0)
  <2>1. Parsed = 0 /\ 0 = End(0) + 0
    <3>1. Parsed = 0 - 0 /\ End(0) + 0 = 0 + 0
      BY <1>1, <1>3, Zenon DEF Parsed
    <3> QED BY <3>1
  <2>2. 0 # Len(lines) => 0 <= Len(lines[0 + 1])
    <3> SUFFICES ASSUME 0 # Len(lines) PROVE 0 <= Len(lines[0 + 1])
      OBVIOUS
    <3>1. Len(lines[1]) \in Nat
      BY <1>2, <1>3, TextFacts
    <3> QED BY <3>1
  <2>3. \A j \in 1..0 : FALSE
    OBVIOUS
  <2>4. InLine(0, 0)
    BY <1>1, <1>3, <2>1, <2>2, <2>3 DEF InLine
  <2> QED BY <1>3, <2>4 DEF At
<1>6. asm.data = <<>> /\ asm.size = 0 /\ asm.overflow = FALSE
  BY <1>1 DEF EmptyAssembler
<1>7. LostInv(0)
  <2>1. Cardinality(Pieces(0)) = 0
    <3>1. Pieces(0) = {}
      BY DEF Pieces
    <3> QED BY <3>1, FS_EmptySet
  <2>2. 0 <= 2 * 0
    OBVIOUS
  <2>3. Fits(2 * Cardinality(Pieces(0)))
    BY <1>6, <2>1, <2>2 DEF Fits
  <2>4. \A i \in 1..0 : FALSE
    OBVIOUS
  <2> QED BY <2>3, <2>4 DEF LostInv
<1>8. WholeInv(0)
  <2>1. ~AfterFirst(0)
    BY DEF AfterFirst
  <2>2. Expected(SubSeq(lines, 1, 0)) = <<>>
    <3> DEFINE u == SubSeq(lines, 1, 0)
    <3>1. u = <<>>
      OBVIOUS
    <3>2. [i \in DOMAIN u |-> Documents(u[i])] = <<>>
      BY <3>1
    <3>3. FlattenSeq(<<>>) = <<>>
      BY DEF FlattenSeq
    <3> QED BY <3>2, <3>3 DEF Expected
  <2>3. Pending = <<>>
    BY <1>6, NothingIsNone DEF Pending
  <2>4. events \o Process(Pending) = <<>>
    <3>1. Process(Pending) = <<>>
      BY <2>3, ProcessIs
    <3> QED BY <1>1, <3>1
  <2> QED BY <1>6, <2>1, <2>2, <2>4 DEF WholeInv, Clean
<1>9. ParseInv
  BY <1>3, <1>5, <1>7, <1>8 DEF ParseInv, Place
<1> QED BY <1>4, <1>9

-----------------------------------------------------------------------------
(* What the row and the events are in the end *)

\* A stream has brought the parser past every line whose break was begun.
LEMMA ForwardedIsParsed ==
  ASSUME BasicInv, ChunkInv, chunk = <<>>, NEW m \in 0..Len(lines), At(m),
         NEW i \in 1..Len(lines), LineForwarded(i)
  PROVE  i \in 1..m
<1>1. /\ StaticInv /\ IsText /\ Len(lines) \in Nat
      /\ \A k \in 0..Len(lines) : End(k) \in Nat
      /\ \A k, n \in 0..Len(lines) : k <= n => End(k) <= End(n)
  BY TextFacts, Layout DEF BasicInv, Laid
<1>2. PICK n \in Nat : n = i - 1
  BY <1>1
<1>3. n + 1 = i /\ n < Len(lines) /\ n \in 0..Len(lines) /\ m \in Nat
  BY <1>1, <1>2
<1>4. lines[n + 1] \in Seq(Atoms) /\ Len(lines[n + 1]) \in Nat /\ First(n) \in Seq(Atoms)
  BY <1>1, <1>3, FirstLength
<1>5. forwarded > End(n) + Len(lines[n + 1])
  <2>1. Bytes(SubSeq(lines, 1, n + 1), brk, FALSE) = First(n) \o lines[n + 1]
    BY <1>1, <1>3, BytesMore
  <2>2. Len(First(n) \o lines[n + 1]) = End(n) + Len(lines[n + 1])
    BY <1>4, ConcatProperties DEF End
  <2>3. Len(Bytes(SubSeq(lines, 1, n + 1), brk, FALSE)) < forwarded
    BY <1>3 DEF LineForwarded
  <2>4. End(n) + Len(lines[n + 1]) < forwarded
    BY <2>1, <2>2, <2>3
  <2>5. forwarded \in Nat /\ End(n) \in Nat /\ Len(lines[n + 1]) \in Nat
    BY <1>1, <1>3, <1>4, ChunkFacts
  <2> DEFINE x == End(n)  y == Len(lines[n + 1])
  <2>6. x + y < forwarded /\ x \in Nat /\ y \in Nat
    BY <2>4, <2>5
  <2> HIDE DEF x, y
  <2>7. forwarded > x + y
    BY <2>5, <2>6
  <2> QED BY <2>7 DEF x, y
<1>6. Parsed = forwarded /\ forwarded \in Nat
  <2>1. Len(chunk) = 0 /\ forwarded \in Nat
    BY ChunkFacts
  <2> QED BY <2>1 DEF Parsed
<1> SUFFICES ASSUME ~(i <= m) PROVE FALSE
  BY <1>1
<1>7. m <= n /\ m < Len(lines)
  BY <1>1, <1>3
<1>8. /\ End(m) \in Nat /\ End(m + 1) \in Nat /\ Len(lines[m + 1]) \in Nat /\ Len(brk) \in {1, 2}
      /\ End(m + 1) = End(m) + Len(lines[m + 1]) + Len(brk) /\ m + 1 \in 0..Len(lines)
  BY <1>1, <1>7, LinePlace
<1>9. forwarded <= End(m) + Len(lines[m + 1])
  <2>1. CASE \E p \in Nat : InLine(m, p)
    <3>1. PICK p \in Nat : InLine(m, p)
      BY <2>1
    <3>2. forwarded = End(m) + p /\ p <= Len(lines[m + 1])
      BY <1>1, <1>6, <1>7, <3>1 DEF InLine
    <3> DEFINE e == End(m)  w == Len(lines[m + 1])
    <3>3. e \in Nat /\ w \in Nat /\ forwarded = e + p /\ p <= w
      BY <1>8, <3>2
    <3> HIDE DEF e, w
    <3>4. forwarded <= e + w
      BY <3>3
    <3> QED BY <3>4 DEF e, w
  <2>2. CASE InBreak(m)
    <3>1. forwarded = End(m) - 1
      BY <1>6, <2>2 DEF InBreak
    <3> DEFINE e == End(m)  w == Len(lines[m + 1])
    <3>3. e \in Nat /\ w \in Nat /\ forwarded = e - 1
      BY <1>8, <3>1
    <3> HIDE DEF e, w
    <3>4. forwarded <= e + w
      BY <3>3
    <3> QED BY <3>4 DEF e, w
  <2> QED BY <2>1, <2>2 DEF At
<1>10. CASE n = m
  <2> DEFINE x == End(m) + Len(lines[m + 1])
  <2>1. x \in Nat /\ forwarded > x /\ forwarded <= x
    BY <1>5, <1>8, <1>9, <1>10
  <2> HIDE DEF x
  <2> QED BY <1>6, <2>1
<1>11. CASE n # m
  <2>1. m + 1 <= n
    BY <1>3, <1>7, <1>11
  <2>2. End(m + 1) <= End(n) /\ End(n) \in Nat
    BY <1>1, <1>3, <1>8, <2>1
  <2> DEFINE e == End(m)  w == Len(lines[m + 1])  f == End(m + 1)  g == End(n)
             v == Len(lines[n + 1])  b == Len(brk)
  <2>3. /\ e \in Nat /\ w \in Nat /\ f \in Nat /\ g \in Nat /\ v \in Nat /\ b \in {1, 2}
        /\ f = e + w + b /\ f <= g /\ forwarded <= e + w /\ forwarded > g + v
    BY <1>4, <1>5, <1>8, <1>9, <2>2
  <2> HIDE DEF e, w, f, g, v, b
  <2> QED BY <1>6, <2>3
<1> QED BY <1>10, <1>11

\* Usage that was seen is in the row.
LEMMA SeenIsInRow ==
  ASSUME NEW es \in Seq(KindsOrBad), Seen(es, "usage") \/ Seen(es, "completed"),
         profile \in {"chat", "responses"}
  PROVE  FinalizeStreamUsage(es).tokens > 0
<1> DEFINE last == LastUsage(es)
<1>1. last.tokens = 1 /\ HasLastUsage(es)
  BY LastUsageIs DEF HasLastUsage
<1>2. CASE profile = "chat"
  <2>1. FinalizeStreamUsage(es).tokens = 1
    BY <1>1, <1>2 DEF FinalizeStreamUsage, FinalizeOther, Row
  <2> QED BY <2>1
<1>3. CASE profile = "responses"
  <2> DEFINE res == Result(es)  usage == Usage(res.tokens, res.partials)
             fin == FinalizeResponses(es)
  <2>1. ResultOK(res, es)
    BY ResultIs
  <2>2. fin = IF usage # NoUsage
                THEN Row(res.outcome, res.reason, res.terminal, Merge(last, usage))
              ELSE IF res.outcome = "skipped" /\ last.tokens > 0
                THEN Row("captured", "", res.terminal, last)
              ELSE Row(res.outcome, res.reason, res.terminal, last)
    BY <1>1 DEF FinalizeResponses
  <2>3. usage.tokens = res.tokens /\ res.tokens \in Nat
    <3>1. 0 \in Nat
      OBVIOUS
    <3> QED BY <2>1, <3>1, Zenon DEF Usage, ResultOK
  <2> HIDE DEF fin, res, usage, last
  <2>4. CASE usage # NoUsage
    <3>1. fin.tokens = IF res.tokens # 0 THEN res.tokens ELSE last.tokens
      BY <2>2, <2>3, <2>4 DEF Row, Merge, Usage
    <3> DEFINE t == res.tokens
    <3>2. t \in Nat /\ fin.tokens = IF t # 0 THEN t ELSE 1
      BY <1>1, <2>3, <3>1 DEF last
    <3> HIDE DEF t
    <3>3. fin.tokens > 0
      BY <3>2
    <3> QED BY <1>3, <3>3 DEF FinalizeStreamUsage, fin
  <2>5. CASE usage = NoUsage
    <3>1. fin.tokens = last.tokens
      BY <2>2, <2>5 DEF Row
    <3>2. fin.tokens = 1
      BY <1>1, <3>1 DEF last
    <3>3. fin.tokens > 0
      BY <3>2
    <3> QED BY <1>3, <3>3 DEF FinalizeStreamUsage, fin
  <2> QED BY <2>4, <2>5
<1> QED BY <1>2, <1>3

\* The last flush loses nothing of the lines that were forwarded.
LEMMA LostEnds ==
  ASSUME BasicInv, ChunkInv, ParseInv, Ends
  PROVE  UsageIsNotLost'
<1> DEFINE out == Flush(asm).out
           es == events \o Process(out)
<1>1. /\ events' = es /\ row' = FinalizeStreamUsage(es)
      /\ phase # "recorded" /\ chunk = <<>>
      /\ UNCHANGED <<profile, lines, brk, forwarded, cutBreak>>
  BY DEF Ends, Finish, Frozen
<1>2. /\ StaticInv /\ AsmOK(asm) /\ Payloads(out)
      /\ out = IF asm.overflow \/ asm.data = <<>> THEN <<>> ELSE <<asm.data>>
      /\ DOMAIN lines = 1..Len(lines)
  <2>1. StaticInv /\ AsmOK(asm)
    BY DEF BasicInv
  <2>2. DOMAIN lines = 1..Len(lines)
    BY <2>1 DEF StaticInv
  <2> QED BY <2>1, <2>2, FlushOK
<1> SUFFICES ASSUME profile # "compressed", NEW i \in DOMAIN lines, LineForwarded(i), Counted(i)
    PROVE row'.tokens > 0
  BY <1>1 DEF UsageIsNotLost, LineForwarded, Counted, WellFormed, Pieces
<1>3. PICK m \in 0..Len(lines) : Place(m)
  BY <1>1 DEF ParseInv
<1>4. i \in 1..m
  BY <1>1, <1>2, <1>3, ForwardedIsParsed DEF Place
<1>5. UsageSeen
  BY <1>3, <1>4 DEF Place, LostInv
<1>6. es \in Seq(KindsOrBad)
  BY <1>2, EventsMore
<1>7. Seen(es, "usage") \/ Seen(es, "completed")
  <2>1. CASE Seen(events, "usage") \/ Seen(events, "completed")
    BY <1>2, <2>1, SeenMore
  <2>2. CASE ~asm.overflow /\ asm.data \in Carry
    <3>1. "usage" \in Kinds /\ "completed" \in Kinds
      BY DEF Kinds, ResponsesKinds
    <3>2. asm.data # <<>>
      BY <2>2, <3>1, DocumentKind DEF Carry
    <3>3. out = <<asm.data>>
      BY <1>2, <2>2, <3>2
    <3> QED BY <1>2, <2>2, <3>1, <3>3, SeenMore DEF Carry
  <2> QED BY <1>5, <2>1, <2>2 DEF UsageSeen
<1>8. profile \in {"chat", "responses"}
  BY <1>2 DEF StaticInv
<1> HIDE DEF es
<1>9. FinalizeStreamUsage(es).tokens > 0
  BY <1>6, <1>7, <1>8, SeenIsInRow
<1> QED BY <1>1, <1>9

\* Where the parser is when all of the stream was forwarded and parsed: after
\* its last line, or in it, with nothing but its break missing.
LEMMA PlaceAtEnd ==
  ASSUME BasicInv, ChunkInv, chunk = <<>>, forwarded = Len(stream),
         NEW m \in 0..Len(lines), At(m)
  PROVE  \/ m = Len(lines) /\ Len(stream) = End(Len(lines))
         \/ /\ Len(lines) > 0 /\ m = Len(lines) - 1
            /\ stream = First(m) \o lines[Len(lines)]
<1> DEFINE L == Len(lines)  n == Len(stream)
<1>1. StaticInv /\ Laid /\ L \in Nat /\ n \in Nat
  BY TextFacts, Layout DEF BasicInv
<1>2. Parsed = n
  <2>1. Len(chunk) = 0
    BY ChunkFacts
  <2> QED BY <1>1, <2>1 DEF Parsed
<1>3. PICK p \in Nat : InLine(m, p)
  <2>1. ~InBreak(m)
    <3> SUFFICES ASSUME InBreak(m) PROVE FALSE
      OBVIOUS
    <3>1. n = End(m) - 1 /\ End(m) <= n /\ End(m) \in Nat
      BY <1>1, <1>2 DEF InBreak, Laid
    <3> HIDE DEF n
    <3> QED BY <1>1, <3>1
  <2> QED BY <2>1 DEF At
<1>4. n = End(m) + p
  BY <1>2, <1>3 DEF InLine
<1>5. CASE m = L
  <2>1. p = 0 /\ End(m) \in Nat
    BY <1>1, <1>3, <1>5 DEF InLine, Laid
  <2>2. n = End(m)
    BY <1>4, <2>1
  <2> QED BY <1>5, <2>2
<1>6. CASE m # L
  <2>1. m < L /\ m \in Nat
    BY <1>1, <1>6
  <2>2. /\ End(m) \in Nat /\ End(m + 1) \in Nat /\ Len(lines[m + 1]) \in Nat /\ Len(brk) \in {1, 2}
        /\ End(m + 1) = End(m) + Len(lines[m + 1]) + Len(brk) /\ m + 1 \in 0..L
    BY <1>1, <2>1, LinePlace
  <2>3. p <= Len(lines[m + 1])
    BY <1>3, <1>6 DEF InLine
  <2>4. n < End(m + 1)
    <3> DEFINE e == End(m)  w == Len(lines[m + 1])  f == End(m + 1)  b == Len(brk)
    <3>1. /\ e \in Nat /\ w \in Nat /\ f = e + w + b /\ b \in {1, 2} /\ p <= w /\ n = e + p
      BY <1>4, <2>2, <2>3
    <3> HIDE DEF e, w, f, b, n
    <3>2. n < f
      BY <3>1
    <3> QED BY <3>2 DEF f
  <2>5. \A k \in 0..L : m + 1 <= k => ~(End(k) <= n)
    <3> TAKE k \in 0..L
    <3> SUFFICES ASSUME m + 1 <= k, End(k) <= n PROVE FALSE
      OBVIOUS
    <3>1. End(m + 1) <= End(k) /\ End(k) \in Nat /\ End(m + 1) \in Nat
      BY <1>1, <2>2 DEF Laid
    <3> DEFINE f == End(m + 1)  g == End(k)
    <3>2. f \in Nat /\ g \in Nat /\ f <= g /\ g <= n /\ n < f
      BY <2>4, <3>1
    <3> HIDE DEF f, g, n
    <3> QED BY <1>1, <3>2
  <2>6. n # End(L)
    <3> SUFFICES ASSUME n = End(L) PROVE FALSE
      OBVIOUS
    <3>1. L \in 0..L /\ m + 1 <= L /\ End(L) <= n
      BY <1>1, <2>1
    <3> QED BY <2>5, <3>1
  <2>7. /\ L > 0 /\ n = End(L - 1) + Len(lines[L])
        /\ stream = First(L - 1) \o lines[L]
    BY <1>1, <2>6 DEF Laid
  <2>8. m = L - 1
    <3> SUFFICES ASSUME m # L - 1 PROVE FALSE
      OBVIOUS
    <3> DEFINE k == L - 1
    <3>1. k \in 0..L /\ m + 1 <= k /\ L \in 1..L
      BY <1>1, <2>1, <2>7
    <3>2. Len(lines[L]) \in Nat /\ End(k) \in Nat /\ n = End(k) + Len(lines[L])
      <4>1. Len(lines[L]) \in Nat
        BY <1>1, <3>1, TextFacts
      <4>2. End(k) \in Nat
        BY <1>1, <3>1 DEF Laid
      <4> QED BY <2>7, <4>1, <4>2
    <3> HIDE DEF k
    <3>3. End(k) <= n
      <4> DEFINE e == End(k)  w == Len(lines[L])
      <4>1. e \in Nat /\ w \in Nat /\ n = e + w
        BY <3>2
      <4> HIDE DEF e, w, n
      <4>2. e <= n
        BY <4>1
      <4> QED BY <4>2 DEF e
    <3> QED BY <2>5, <3>1, <3>3
  <2> QED BY <2>7, <2>8
<1> QED BY <1>5, <1>6

\* Which lines have their break then.
LEMMA TerminatedIs ==
  ASSUME StaticInv, NEW m \in 0..Len(lines),
         \/ m = Len(lines) /\ Len(stream) = End(Len(lines))
         \/ /\ Len(lines) > 0 /\ m = Len(lines) - 1
            /\ stream = First(m) \o lines[Len(lines)]
  PROVE  \/ Terminated = SubSeq(lines, 1, m)
         \/ m + 1 = Len(lines) /\ Terminated = lines /\ lines[m + 1] = <<>>
<1> DEFINE L == Len(lines)  n == Len(stream)
<1>1. /\ Laid /\ IsText /\ L \in Nat /\ n \in Nat /\ lines \in Seq(AllLines)
      /\ stream \in Seq(Atoms) /\ SubSeq(lines, 1, L) = lines
  <2>1. lines \in Seq(AllLines) /\ stream \in Seq(Atoms)
    BY DEF StaticInv
  <2>2. SubSeq(lines, 1, L) = lines
    BY <2>1, SubSeqFull
  <2> QED BY <2>1, <2>2, TextFacts, Layout
<1>0. L \in Nat
  BY <1>1
<1>2. Terminated = lines \/ Terminated = SubSeq(lines, 1, L - 1)
  BY DEF Terminated, Front
<1>3. CASE m = L /\ n = End(L)
  <2>1. CASE L = 0
    <3>1. lines = <<>>
      BY <1>1, <2>1, EmptySeq
    <3>2. Terminated = lines
      BY <3>1 DEF Terminated
    <3> QED BY <1>1, <1>3, <3>2
  <2>2. CASE L # 0
    <3> DEFINE k == L - 1
    <3>1. k \in 0..L /\ k < L /\ k + 1 = L
      <4> HIDE DEF L
      <4> QED BY <1>0, <2>2
    <3> HIDE DEF k
    <3> DEFINE e == End(k)  w == Len(lines[k + 1])  b == Len(brk)
    <3>2. /\ e \in Nat /\ w \in Nat /\ End(k + 1) = e + w + b /\ b \in {1, 2}
          /\ e + w < n => \A j \in 1..b : stream[e + w + j] = brk[j]
      BY <3>1, LinePlace
    <3>3. n = e + w + b
      BY <1>3, <3>1, <3>2
    <3>4. brk[b] \in {CR, LF} /\ b \in 1..b
      <4>1. brk[1] \in {CR, LF} /\ (b = 2 => brk[2] = LF)
        BY BreakSize
      <4> HIDE DEF b
      <4> QED BY <3>2, <4>1
    <3>5. e + w < n /\ n > 0
      <4> HIDE DEF e, w, b, n
      <4> QED BY <3>2, <3>3
    <3>6. stream[n] \in {CR, LF}
      BY <3>2, <3>3, <3>4, <3>5
    <3>7. stream # <<>> /\ Last(stream) = stream[n]
      <4>1. Len(<<>>) = 0
        OBVIOUS
      <4>2. stream # <<>>
        <5> SUFFICES ASSUME stream = <<>> PROVE FALSE
          OBVIOUS
        <5>1. n = 0
          BY <4>1
        <5> HIDE DEF n
        <5> QED BY <3>5, <5>1
      <4> QED BY <4>2 DEF Last
    <3>8. Terminated = lines
      BY <3>6, <3>7 DEF Terminated
    <3> QED BY <1>1, <1>3, <3>8
  <2> QED BY <2>1, <2>2
<1>4. CASE L > 0 /\ m = L - 1 /\ stream = First(m) \o lines[L]
  <2>0. L > 0 /\ m = L - 1
    BY <1>4
  <2>1. m \in Nat /\ m < L /\ m + 1 = L
    <3> HIDE DEF L
    <3> QED BY <1>0, <2>0
  <2>2. lines[L] \in AllLines /\ First(m) \in Seq(Atoms) /\ Len(First(m)) \in Nat
    <3>1. L \in 1..L
      <4> HIDE DEF L
      <4> QED BY <1>0, <2>0
    <3> QED BY <1>1, <2>1, <3>1, FirstLength, TextFacts
  <2>3. CASE lines[L] = <<>>
    BY <1>2, <1>4, <2>1, <2>3
  <2>4. CASE lines[L] # <<>>
    <3> DEFINE l == lines[L]  w == Len(l)  s == First(m)
    <3>1. /\ l \in Seq(Atoms) /\ w \in Nat /\ w > 0
          /\ \A j \in 1..w : l[j] # CR /\ l[j] # LF
      BY <2>2, <2>4, LineAtoms, EmptySeq
    <3>2. s \in Seq(Atoms) /\ Len(s) \in Nat
      BY <2>2
    <3> HIDE DEF s, l
    <3>3. /\ Len(s \o l) = Len(s) + w
          /\ \A j \in 1..(Len(s) + w) : (s \o l)[j] = IF j <= Len(s) THEN s[j] ELSE l[j - Len(s)]
      BY <3>1, <3>2, ConcatProperties
    <3>4. w \in 1..w /\ Len(s) + w \in 1..(Len(s) + w) /\ ~(Len(s) + w <= Len(s))
          /\ (Len(s) + w) - Len(s) = w
      <4> HIDE DEF w
      <4> QED BY <3>1, <3>2
    <3>5. (s \o l)[Len(s \o l)] = l[w]
      BY <3>3, <3>4
    <3>6. stream = s \o l
      BY <1>4 DEF s, l
    <3>7. Last(stream) = l[w]
      BY <3>5, <3>6 DEF Last
    <3>8. Last(stream) \notin {CR, LF}
      BY <3>1, <3>4, <3>7
    <3>9. lines # <<>>
      <4>1. Len(<<>>) = 0
        OBVIOUS
      <4> SUFFICES ASSUME lines = <<>> PROVE FALSE
        OBVIOUS
      <4>2. L = 0
        BY <4>1
      <4> QED BY <1>4, <4>2
    <3>10. Terminated = SubSeq(lines, 1, L - 1)
      BY <3>8, <3>9 DEF Terminated, Front
    <3> QED BY <1>4, <3>10
  <2> QED BY <2>3, <2>4
<1> QED BY <1>3, <1>4

\* Their documents are those of the lines the parser has passed.
LEMMA TerminatedDocuments ==
  ASSUME StaticInv, NEW m \in 0..Len(lines), WellFormed(Terminated),
         \/ Terminated = SubSeq(lines, 1, m)
         \/ m + 1 = Len(lines) /\ Terminated = lines /\ lines[m + 1] = <<>>
  PROVE  /\ OrderedUpTo(m) /\ ~AfterFirst(m)
         /\ Expected(Terminated) = Expected(SubSeq(lines, 1, m))
<1>1. Len(lines) \in Nat /\ m \in Nat /\ m <= Len(lines) /\ lines \in Seq(AllLines)
  BY TextFacts DEF StaticInv
<1>2. PICK ls : ls = Terminated
  OBVIOUS
<1>3. PICK n \in {m, m + 1} :
        /\ Len(ls) = n /\ DOMAIN ls = 1..n /\ \A i \in 1..n : ls[i] = lines[i]
        /\ n = m + 1 => lines[m + 1] = <<>>
  <2>1. CASE Terminated = SubSeq(lines, 1, m)
    <3>1. /\ Len(ls) = m /\ DOMAIN ls = 1..m /\ \A i \in 1..m : ls[i] = lines[i]
      BY <1>1, <1>2, <2>1
    <3>2. m # m + 1
      BY <1>1
    <3> QED BY <3>1, <3>2
  <2>2. CASE m + 1 = Len(lines) /\ Terminated = lines /\ lines[m + 1] = <<>>
    BY <1>1, <1>2, <2>2
  <2> QED BY <2>1, <2>2
<1>4. \A i \in 1..n : /\ ls[i] = FirstHalf => i < n /\ ls[i + 1] = SecondHalf
                      /\ ls[i] = SecondHalf => i > 1 /\ ls[i - 1] = FirstHalf
  BY <1>2, <1>3 DEF WellFormed
<1>5. OrderedUpTo(m)
  <2> SUFFICES ASSUME NEW i \in 1..m
      PROVE /\ lines[i] = FirstHalf => i = m \/ lines[i + 1] = SecondHalf
            /\ lines[i] = SecondHalf => i > 1 /\ lines[i - 1] = FirstHalf
    BY DEF OrderedUpTo
  <2>1. i \in 1..n /\ (i # m => i + 1 \in 1..n) /\ (i > 1 => i - 1 \in 1..n)
    BY <1>1
  <2> QED BY <1>3, <1>4, <2>1
<1>6. ~AfterFirst(m)
  <2> SUFFICES ASSUME m > 0, lines[m] = FirstHalf PROVE FALSE
    BY DEF AfterFirst
  <2>1. m \in 1..n
    BY <1>1
  <2>2. m < n /\ ls[m + 1] = SecondHalf
    BY <1>3, <1>4, <2>1
  <2>3. n = m + 1 /\ m + 1 \in 1..n
    BY <1>1, <2>2
  <2>4. SecondHalf # <<>>
    BY DocumentsIs
  <2> QED BY <1>3, <2>2, <2>3, <2>4
<1>7. Expected(Terminated) = Expected(SubSeq(lines, 1, m))
  <2>1. CASE Terminated = SubSeq(lines, 1, m)
    BY <2>1
  <2>2. CASE m + 1 = Len(lines) /\ Terminated = lines /\ lines[m + 1] = <<>>
    <3>1. m < Len(lines) /\ SubSeq(lines, 1, m + 1) = lines
      BY <1>1, <2>2, SubSeqFull
    <3>2. Expected(SubSeq(lines, 1, m + 1)) = Expected(SubSeq(lines, 1, m)) \o Documents(lines[m + 1])
      BY <3>1, ExpectedMore
    <3>3. Documents(lines[m + 1]) = <<>> /\ Expected(SubSeq(lines, 1, m)) \in Seq(Kinds)
      BY <2>2, DocumentsIs, ExpectedMore
    <3>4. Expected(SubSeq(lines, 1, m)) \o <<>> = Expected(SubSeq(lines, 1, m))
      BY <3>3
    <3> QED BY <2>2, <3>1, <3>2, <3>3, <3>4
  <2> QED BY <2>1, <2>2
<1> QED BY <1>5, <1>6, <1>7

\* The last flush completes the events of a stream read to its end.
LEMMA WholeEnds ==
  ASSUME BasicInv, ChunkInv, ParseInv, Ends
  PROVE  EventsAreWhole'
<1> DEFINE out == Flush(asm).out
<1>1. /\ events' = events \o Process(out) /\ phase # "recorded" /\ chunk = <<>>
      /\ UNCHANGED <<profile, lines, brk, stream, readErr, cutBreak>>
  BY DEF Ends, Finish, Frozen
<1>2. AsmOK(asm) /\ out = IF asm.overflow \/ asm.data = <<>> THEN <<>> ELSE <<asm.data>>
  <2>1. AsmOK(asm)
    BY DEF BasicInv
  <2> QED BY <2>1, FlushOK
<1>3. Terminated' = Terminated /\ \A ls : Expected(ls)' = Expected(ls)
  BY <1>1 DEF Terminated, Expected, Documents
<1> SUFFICES ASSUME readErr = "eof", profile # "compressed", WellFormed(Terminated),
                    cutBreak => OneLineDocuments
    PROVE events' = Expected(Terminated)
  <2>1. WellFormed(Terminated)' => WellFormed(Terminated)
    BY <1>3 DEF WellFormed
  <2>2. (cutBreak => OneLineDocuments)' => (cutBreak => OneLineDocuments)
    BY <1>1 DEF OneLineDocuments
  <2>3. Expected(Terminated)' = Expected(Terminated)
    BY <1>3 DEF Expected, Documents
  <2> QED BY <1>1, <2>1, <2>2, <2>3 DEF EventsAreWhole
<1>4. PICK m \in 0..Len(lines) : Place(m)
  BY <1>1 DEF ParseInv
<1>5. \/ m = Len(lines) /\ Len(stream) = End(Len(lines))
      \/ /\ Len(lines) > 0 /\ m = Len(lines) - 1
         /\ stream = First(m) \o lines[Len(lines)]
  <2>1. forwarded = Len(stream) /\ At(m)
    BY <1>4 DEF BasicInv, Place
  <2> QED BY <1>1, <2>1, PlaceAtEnd
<1>6. StaticInv
  BY DEF BasicInv
<1>7. \/ Terminated = SubSeq(lines, 1, m)
      \/ m + 1 = Len(lines) /\ Terminated = lines /\ lines[m + 1] = <<>>
  BY <1>5, <1>6, TerminatedIs
<1>8. OrderedUpTo(m) /\ ~AfterFirst(m) /\ Expected(Terminated) = Expected(SubSeq(lines, 1, m))
  BY <1>6, <1>7, TerminatedDocuments
<1>9. Clean(AfterFirst(m), Expected(Terminated))
  BY <1>4, <1>8 DEF Place, WholeInv
<1>10. /\ asm.data = <<>> \/ IsJSON(asm.data)
       /\ events \o Process(Pending) = Expected(Terminated)
  BY <1>8, <1>9 DEF Clean
<1>11. ~asm.overflow
  BY <1>9 DEF Clean
<1>12. out = Pending
  <2>1. CASE asm.data = <<>>
    BY <1>2, <2>1, NothingIsNone DEF Pending
  <2>2. CASE asm.data # <<>>
    BY <1>2, <1>10, <1>11, <2>2 DEF Pending
  <2> QED BY <2>1, <2>2
<1> QED BY <1>1, <1>10, <1>12

-----------------------------------------------------------------------------
(* The properties of what is lost and what is whole *)

StreamInv ==
  BasicInv /\ ChunkInv /\ CutInv /\ ParseInv /\ UsageIsNotLost /\ EventsAreWhole

\* Each step keeps all of it.
LEMMA StreamNext ==
  ASSUME StreamInv, [Next]_vars
  PROVE  StreamInv'
<1>1. BasicInv /\ ChunkInv /\ CutInv /\ ParseInv /\ UsageIsNotLost /\ EventsAreWhole
  BY DEF StreamInv
<1>2. BasicInv'
  BY <1>1, BasicNext
<1>3. (ChunkInv /\ CutInv /\ ParseInv)'
  BY <1>1, PlaceNext
<1>4. (UsageIsNotLost /\ EventsAreWhole)'
  <2>1. CASE Ends
    BY <1>1, <2>1, LostEnds, WholeEnds
  <2>2. CASE UNCHANGED vars
    <3>1. UsageIsNotLost'
      BY <1>1, <2>2 DEF vars, UsageIsNotLost, Recorded, LineForwarded, Pieces, WellFormed
    <3>2. EventsAreWhole'
      BY <1>1, <2>2 DEF vars, EventsAreWhole, Recorded, WellFormed, OneLineDocuments, Expected,
                        Terminated, Documents
    <3> QED BY <3>1, <3>2
  <2>3. ASSUME phase' # "recorded" PROVE (UsageIsNotLost /\ EventsAreWhole)'
    BY <2>3 DEF UsageIsNotLost, EventsAreWhole, Recorded
  <2>4. CASE \/ \E n \in 0..Len(stream), err \in {"none", "eof", "fail"} : Read(n, err)
             \/ Line \/ Remainder \/ NextRead
    <3>1. phase' # "recorded"
      BY <2>4 DEF Read, Line, Remainder, NextRead
    <3> QED BY <2>3, <3>1
  <2> QED BY <1>1, <2>1, <2>2, <2>4, NextWays
<1> QED BY <1>2, <1>3, <1>4 DEF StreamInv

\* It holds from the start on.
LEMMA StreamSafe == Spec => []StreamInv
<1>1. Init => StreamInv
  <2> SUFFICES ASSUME Init PROVE StreamInv
    OBVIOUS
  <2>1. BasicInv /\ ChunkInv /\ CutInv /\ ParseInv
    BY BasicInit, PlaceInit
  <2>2. ~Recorded
    BY DEF Init, Recorded
  <2> QED BY <2>1, <2>2 DEF StreamInv, UsageIsNotLost, EventsAreWhole
<1>2. StreamInv /\ [Next]_vars => StreamInv'
  BY StreamNext
<1> QED BY <1>1, <1>2, PTL DEF Spec

\* However the stream ends, usage whose line was forwarded with its break is in
\* the row.
THEOREM NoUsageIsLost == Spec => []UsageIsNotLost
<1>1. StreamInv => UsageIsNotLost
  BY DEF StreamInv
<1> QED BY <1>1, StreamSafe, PTL

\* A stream read to its end is understood as if it had come in one piece.
THEOREM CutsDoNotMatter == Spec => []EventsAreWhole
<1>1. StreamInv => EventsAreWhole
  BY DEF StreamInv
<1> QED BY <1>1, StreamSafe, PTL
=============================================================================
