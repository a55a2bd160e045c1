-------------------------- MODULE BatchWriterProofs --------------------------
(***************************************************************************)
(* Safety of BatchWriter for every set of events, queue capacity and batch  *)
(* size.  TypeInv adds to TypeOK what bounds the batch and keeps loop from  *)
(* running before Start; the other invariants are inductive beside it, and  *)
(* StopDrains needs DrainInv, which says how far a stop has come; and the   *)
(* writer implements UsageLedger.                                           *)
(*                                                                          *)
(* What is proved of the writer holds inside the process: whatever main,    *)
(* the signal goroutine and the handlers of GatewayShutdown do, the writer's *)
(* variables change as BatchWriter says.  The last part draws the           *)
(* conclusions, and says what the process owes when it ends.                *)
(***************************************************************************)
EXTENDS GatewayShutdown, FiniteSetTheorems, SequenceTheorems, TLAPS

-----------------------------------------------------------------------------
(* How the operations that the writer applies to its channel, its batch and *)
(* the rows change the set of elements of a sequence, and when they keep    *)
(* the elements distinct.                                                   *)

\* Nothing is in the empty sequence, and no element occurs in it twice.
LEMMA EmptyRange == Range(<<>>) = {} /\ IsInjective(<<>>)
  BY DEF Range, IsInjective

\* Append (Enqueue's send, loop's append) adds one element at the end.
LEMMA AppendRange ==
  ASSUME NEW S, NEW s \in Seq(S), NEW x \in S
  PROVE  /\ Range(Append(s, x)) = Range(s) \cup {x}
         /\ IsInjective(s) /\ x \notin Range(s) => IsInjective(Append(s, x))
<1> DEFINE t == Append(s, x)
<1>1. /\ t \in Seq(S)
      /\ Len(s) \in Nat
      /\ Len(t) = Len(s) + 1
      /\ \A i \in 1..Len(s) : t[i] = s[i]
      /\ t[Len(s) + 1] = x
  BY AppendProperties, LenProperties
<1>2. Range(s) = {s[i] : i \in 1..Len(s)} /\ DOMAIN s = 1..Len(s)
  BY RangeEquality, LenProperties
<1>3. Range(t) = {t[i] : i \in 1..Len(t)} /\ DOMAIN t = 1..Len(t)
  BY <1>1, RangeEquality, LenProperties
<1> HIDE DEF t
<1>4. Range(t) = Range(s) \cup {x}
  BY <1>1, <1>2, <1>3
<1>5. IsInjective(s) /\ x \notin Range(s) => IsInjective(t)
  BY <1>1, <1>2, <1>3 DEF IsInjective
<1> QED
  BY <1>4, <1>5 DEF t

\* Receiving from a channel takes its first element away, and only that.
LEMMA HeadTailRange ==
  ASSUME NEW S, NEW s \in Seq(S), s # <<>>
  PROVE  /\ Range(s) = {Head(s)} \cup Range(Tail(s))
         /\ IsInjective(s) => /\ IsInjective(Tail(s))
                              /\ Head(s) \notin Range(Tail(s))
<1> DEFINE t == Tail(s)
<1>1. /\ t \in Seq(S)
      /\ Len(s) \in Nat \ {0}
      /\ Len(t) = Len(s) - 1
      /\ \A i \in 1..Len(t) : t[i] = s[i + 1]
      /\ Head(s) = s[1]
  BY HeadTailProperties, EmptySeq
<1>2. Range(s) = {s[i] : i \in 1..Len(s)} /\ DOMAIN s = 1..Len(s)
  BY RangeEquality, LenProperties
<1>3. Range(t) = {t[i] : i \in 1..Len(t)} /\ DOMAIN t = 1..Len(t)
  BY <1>1, RangeEquality, LenProperties, ZenonT(40)
<1> HIDE DEF t
<1>4. ASSUME NEW y \in Range(s)
      PROVE  y \in {Head(s)} \cup Range(t)
  <2>1. PICK i \in 1..Len(s) : y = s[i]
    BY <1>2, <1>4
  <2>2. CASE i = 1
    BY <2>1, <2>2, <1>1
  <2>3. CASE i # 1
    <3>1. i - 1 \in 1..Len(t) /\ t[i - 1] = s[i]
      BY <2>1, <2>3, <1>1
    <3> QED
      BY <3>1, <2>1, <1>3
  <2> QED
    BY <2>2, <2>3
<1>5. {Head(s)} \cup Range(t) \subseteq Range(s)
  BY <1>1, <1>2, <1>3
<1>6. ASSUME IsInjective(s)
      PROVE  IsInjective(t) /\ Head(s) \notin Range(t)
  <2>1. ASSUME NEW i \in DOMAIN t, NEW j \in DOMAIN t, t[i] = t[j]
        PROVE  i = j
    <3>1. i \in 1..Len(t) /\ j \in 1..Len(t) /\ i \in Int /\ j \in Int
      BY <1>3, <2>1
    <3>2. /\ i + 1 \in DOMAIN s /\ t[i] = s[i + 1]
          /\ j + 1 \in DOMAIN s /\ t[j] = s[j + 1]
      BY <3>1, <1>1, <1>2
    <3>3. i + 1 = j + 1
      BY <3>2, <2>1, <1>6 DEF IsInjective
    <3> QED
      BY <3>1, <3>3
  <2>2. ASSUME Head(s) \in Range(t)
        PROVE  FALSE
    <3>1. PICK i \in 1..Len(t) : t[i] = Head(s)
      BY <1>3, <2>2
    <3>2. i + 1 \in DOMAIN s /\ 1 \in DOMAIN s /\ s[i + 1] = s[1]
      BY <3>1, <1>1, <1>2
    <3>3. i + 1 = 1
      BY <3>2, <1>6 DEF IsInjective
    <3> QED
      BY <3>1, <3>3
  <2> QED
    BY <2>1, <2>2 DEF IsInjective
<1> QED
  BY <1>4, <1>5, <1>6 DEF t

\* Appending a batch to the rows keeps the elements distinct when the two had
\* none in common.
LEMMA ConcatInjective ==
  ASSUME NEW S, NEW s \in Seq(S), NEW t \in Seq(S),
         IsInjective(s), IsInjective(t), Range(s) \cap Range(t) = {}
  PROVE  IsInjective(s \o t)
<1> DEFINE u == s \o t
<1>1. /\ u \in Seq(S)
      /\ Len(s) \in Nat /\ Len(t) \in Nat
      /\ Len(u) = Len(s) + Len(t)
      /\ \A i \in 1..(Len(s) + Len(t)) :
           u[i] = IF i <= Len(s) THEN s[i] ELSE t[i - Len(s)]
  BY ConcatProperties, LenProperties
<1>2. /\ Range(s) = {s[i] : i \in 1..Len(s)} /\ DOMAIN s = 1..Len(s)
      /\ Range(t) = {t[i] : i \in 1..Len(t)} /\ DOMAIN t = 1..Len(t)
  BY RangeEquality, LenProperties
<1>3. DOMAIN u = 1..Len(u)
  BY <1>1, LenProperties
<1> HIDE DEF u
<1>4. ASSUME NEW i \in DOMAIN u, NEW j \in DOMAIN u, u[i] = u[j], i <= Len(s)
      PROVE  i = j
  <2>1. CASE j <= Len(s)
    BY <1>1, <1>2, <1>3, <1>4, <2>1 DEF IsInjective
  <2>2. CASE j > Len(s)
    <3>1. u[i] \in Range(s)
      BY <1>1, <1>2, <1>3, <1>4
    <3>2. j - Len(s) \in 1..Len(t) /\ u[j] = t[j - Len(s)]
      BY <1>1, <1>3, <2>2
    <3>3. u[j] \in Range(t)
      BY <3>2, <1>2
    <3> QED
      BY <3>1, <3>3, <1>4
  <2> QED
    BY <2>1, <2>2, <1>1, <1>3
<1>5. ASSUME NEW i \in DOMAIN u, NEW j \in DOMAIN u, u[i] = u[j],
             i > Len(s), j > Len(s)
      PROVE  i = j
  <2>1. /\ i - Len(s) \in 1..Len(t) /\ u[i] = t[i - Len(s)]
        /\ j - Len(s) \in 1..Len(t) /\ u[j] = t[j - Len(s)]
    BY <1>1, <1>3, <1>5
  <2>2. i - Len(s) = j - Len(s)
    BY <2>1, <1>2, <1>5 DEF IsInjective
  <2> QED
    BY <2>2, <1>1, <1>3
<1>6. IsInjective(u)
  <2> SUFFICES ASSUME NEW i \in DOMAIN u, NEW j \in DOMAIN u, u[i] = u[j]
               PROVE  i = j
    BY DEF IsInjective
  <2>1. CASE i <= Len(s)
    BY <2>1, <1>4
  <2>2. CASE j <= Len(s)
    BY <2>2, <1>4
  <2>3. CASE i > Len(s) /\ j > Len(s)
    BY <2>3, <1>5
  <2> QED
    BY <2>1, <2>2, <2>3, <1>1, <1>3
<1> QED
  BY <1>6 DEF u
-----------------------------------------------------------------------------
(* Two sequences that follow each other, as the batch that loop holds and   *)
(* the channel it reads from.                                               *)

\* Appending to the second appends to the two.
LEMMA AppendToSecond ==
  ASSUME NEW S, NEW s \in Seq(S), NEW t \in Seq(S), NEW x \in S
  PROVE  s \o Append(t, x) = Append(s \o t, x)
<1>1. <<x>> \in Seq(S) /\ s \o t \in Seq(S)
  BY ConcatProperties
<1>2. Append(t, x) = t \o <<x>> /\ Append(s \o t, x) = (s \o t) \o <<x>>
  BY <1>1, AppendIsConcat
<1> QED
  BY <1>1, <1>2, ConcatAssociative

\* Moving the head of the second to the end of the first changes nothing.
LEMMA MoveHead ==
  ASSUME NEW S, NEW s \in Seq(S), NEW t \in Seq(S), t # <<>>
  PROVE  Append(s, Head(t)) \o Tail(t) = s \o t
<1>1. /\ Head(t) \in S /\ Tail(t) \in Seq(S)
      /\ Len(t) \in Nat \ {0} /\ Len(Tail(t)) = Len(t) - 1
      /\ Head(t) = t[1] /\ \A i \in 1..Len(Tail(t)) : Tail(t)[i] = t[i + 1]
  BY HeadTailProperties, EmptySeq
<1>2. <<Head(t)>> \in Seq(S) /\ Append(s, Head(t)) = s \o <<Head(t)>>
  BY <1>1, AppendIsConcat
<1>3. <<Head(t)>> \o Tail(t) = t
  <2> DEFINE h == <<Head(t)>>
             u == Tail(t)
  <2>1. h \in Seq(S) /\ Len(h) = 1 /\ h[1] = t[1]
    BY <1>1
  <2>2. /\ h \o u \in Seq(S)
        /\ Len(h \o u) = Len(h) + Len(u)
        /\ \A i \in 1..(Len(h) + Len(u)) :
             (h \o u)[i] = IF i <= Len(h) THEN h[i] ELSE u[i - Len(h)]
    BY <1>1, <2>1, ConcatProperties
  <2>3. Len(u) = Len(t) - 1 /\ \A i \in 1..Len(u) : u[i] = t[i + 1]
    BY <1>1
  <2> HIDE DEF h, u
  <2>4. Len(h \o u) = Len(t)
    BY <1>1, <2>1, <2>2, <2>3
  <2>5. ASSUME NEW i \in 1..Len(t) PROVE (h \o u)[i] = t[i]
    <3>1. CASE i = 1
      BY <3>1, <1>1, <2>1, <2>2, <2>3
    <3>2. CASE i # 1
      <4>1. i - 1 \in 1..Len(u) /\ (i - 1) + 1 = i
        BY <3>2, <1>1, <2>3
      <4>2. (h \o u)[i] = u[i - 1]
        BY <3>2, <1>1, <2>1, <2>2, <2>3
      <4> QED
        BY <4>1, <4>2, <2>3
    <3> QED
      BY <3>1, <3>2
  <2>6. h \o u = t
    BY <2>2, <2>4, <2>5, SeqEqual
  <2> QED
    BY <2>6 DEF h, u
<1> QED
  BY <1>1, <1>2, <1>3, ConcatAssociative

\* Cutting the two where the first ends gives them back.
LEMMA CutBetween ==
  ASSUME NEW S, NEW s \in Seq(S), NEW t \in Seq(S)
  PROVE  /\ SubSeq(s \o t, 1, Len(s)) = s
         /\ SubSeq(s \o t, Len(s) + 1, Len(s \o t)) = t
<1> DEFINE u == s \o t
<1>1. /\ u \in Seq(S)
      /\ Len(s) \in Nat /\ Len(t) \in Nat
      /\ Len(u) = Len(s) + Len(t)
      /\ \A i \in 1..(Len(s) + Len(t)) :
           u[i] = IF i <= Len(s) THEN s[i] ELSE t[i - Len(s)]
  BY ConcatProperties, LenProperties
<1>2. \A i \in 1..Len(u) : u[i] \in S
  BY <1>1, ElementOfSeq
<1> HIDE DEF u
<1>3. SubSeq(u, 1, Len(s)) = s
  <2> DEFINE v == SubSeq(u, 1, Len(s))
  <2>1. \A i \in 1..Len(s) : u[i] \in S
    BY <1>1, <1>2
  <2>2. /\ v \in Seq(S) /\ Len(v) = IF 1 <= Len(s) THEN Len(s) - 1 + 1 ELSE 0
        /\ \A i \in 1..(Len(s) - 1 + 1) : v[i] = u[1 + i - 1]
    BY <1>1, <2>1, SubSeqProperties
  <2> HIDE DEF v
  <2>3. Len(v) = Len(s) /\ \A i \in 1..Len(s) : v[i] = s[i]
    BY <1>1, <2>2
  <2>4. v = s
    BY <2>2, <2>3, SeqEqual
  <2> QED
    BY <2>4 DEF v
<1>4. SubSeq(u, Len(s) + 1, Len(u)) = t
  <2> DEFINE m == Len(s) + 1
             v == SubSeq(u, m, Len(u))
  <2>1. m \in Int /\ Len(u) \in Int /\ \A i \in m..Len(u) : u[i] \in S
    BY <1>1, <1>2
  <2> HIDE DEF m
  <2>2. /\ v \in Seq(S) /\ Len(v) = IF m <= Len(u) THEN Len(u) - m + 1 ELSE 0
        /\ \A i \in 1..(Len(u) - m + 1) : v[i] = u[m + i - 1]
    BY <2>1, SubSeqProperties
  <2> HIDE DEF v
  <2>3. m = Len(s) + 1 /\ Len(u) - m + 1 = Len(t) /\ m <= Len(u) + 1
    BY <1>1 DEF m
  <2>4. Len(v) = Len(t)
    BY <1>1, <2>2, <2>3
  <2>5. ASSUME NEW i \in 1..Len(t) PROVE v[i] = t[i]
    <3>1. v[i] = u[m + i - 1]
      BY <2>2, <2>3
    <3>2. /\ m + i - 1 = Len(s) + i /\ Len(s) + i \in 1..(Len(s) + Len(t))
          /\ ~(Len(s) + i <= Len(s)) /\ Len(s) + i - Len(s) = i
      BY <1>1, <2>3
    <3> QED
      BY <1>1, <3>1, <3>2
  <2>6. v = t
    BY <2>2, <2>4, <2>5, SeqEqual
  <2> QED
    BY <2>6 DEF v, m
<1> QED
  BY <1>3, <1>4 DEF u

-----------------------------------------------------------------------------
(* Type correctness *)

\* Between flushes loop holds less than a full batch, and no batch before
\* Start.
BatchInv ==
  /\ loop \in {"off", "select", "done"} => Len(batch) < BatchSize
  /\ ~started => loop = "off"

TypeInv == TypeOK /\ BatchInv

USE CapacityAssumption DEF InChannelStates, CallerStates, LoopStates

LEMMA TypeInit == Init => TypeInv
<1> SUFFICES ASSUME Init PROVE TypeInv
  OBVIOUS
<1> USE DEF Init
<1>1. /\ queue \in Seq(Events) /\ Len(queue) = 0
      /\ batch \in Seq(Events) /\ Len(batch) = 0
      /\ rows \in Seq(Events)
  BY EmptySeq
<1>2. /\ 0 <= QueueCapacity /\ 0 <= BatchSize /\ 0 < BatchSize
  OBVIOUS
<1>3. caller \in [Events -> CallerStates]
  OBVIOUS
<1>4. /\ lost \subseteq Events /\ owed \subseteq Events
      /\ queueDepth \in Int /\ droppedEvents \in Nat /\ dbWriteErrors \in Nat
  OBVIOUS
<1>5. /\ started \in BOOLEAN /\ stopped \in BOOLEAN /\ stopClosed \in BOOLEAN
      /\ stopper \in {"idle", "close", "wait", "returned"}
      /\ loop \in LoopStates /\ mode \in {"run", "drain", "leave"}
  OBVIOUS
<1>6. BatchInv
  BY <1>1, <1>2 DEF BatchInv
<1> QED
  BY <1>1, <1>2, <1>3, <1>4, <1>5, <1>6 DEF TypeInv, TypeOK

LEMMA TypeStep == TypeInv /\ [Next]_vars => TypeInv'
<1> SUFFICES ASSUME TypeInv, [Next]_vars PROVE TypeInv'
  OBVIOUS
<1> USE DEF TypeInv, TypeOK, BatchInv
<1>0. Len(queue) \in Nat /\ Len(batch) \in Nat /\ Len(rows) \in Nat
  BY LenProperties
<1>1. ASSUME NEW e \in Events, EnqueueCheck(e) PROVE TypeInv'
  BY <1>1 DEF EnqueueCheck, loopVars, stopVars, dbVars
<1>2. ASSUME NEW e \in Events, EnqueueSend(e) PROVE TypeInv'
  <2>1. Append(queue, e) \in Seq(Events) /\ Len(Append(queue, e)) = Len(queue) + 1
    BY AppendProperties
  <2>2. caller' \in [Events -> CallerStates]
    BY <1>2 DEF EnqueueSend
  <2>3. queue' \in Seq(Events) /\ Len(queue') <= QueueCapacity
    <3>1. CASE Len(queue) < QueueCapacity
      <4>1. queue' = Append(queue, e)
        BY <1>2, <3>1 DEF EnqueueSend
      <4> QED
        BY <1>0, <2>1, <3>1, <4>1
    <3>2. CASE ~(Len(queue) < QueueCapacity)
      BY <1>2, <3>2 DEF EnqueueSend
    <3> QED
      BY <3>1, <3>2
  <2> QED
    BY <1>2, <2>2, <2>3 DEF EnqueueSend, loopVars, stopVars, dbVars
<1>3. ASSUME NEW e \in Events, EnqueueCount(e) PROVE TypeInv'
  BY <1>3 DEF EnqueueCount, loopVars, stopVars, dbVars
<1>4. CASE Start
  BY <1>4 DEF Start, dbVars
<1>5. CASE StopMark
  BY <1>5 DEF StopMark, loopVars, dbVars
<1>6. CASE StopClose
  BY <1>6 DEF StopClose, loopVars, dbVars, Sent
<1>7. CASE StopReturn
  BY <1>7 DEF StopReturn, loopVars, dbVars
<1>8. CASE Receive
  <2>1. /\ Tail(queue) \in Seq(Events) /\ Len(Tail(queue)) = Len(queue) - 1
        /\ Head(queue) \in Events
    BY <1>8, HeadTailProperties DEF Receive
  <2>2. /\ Append(batch, Head(queue)) \in Seq(Events)
        /\ Len(Append(batch, Head(queue))) = Len(batch) + 1
    BY <2>1, AppendProperties
  <2> QED
    BY <1>0, <1>8, <2>1, <2>2 DEF Receive, stopVars, dbVars
<1>9. CASE Tick
  BY <1>9 DEF Tick, stopVars, dbVars
<1>10. CASE SeeStop
  BY <1>10 DEF SeeStop, stopVars, dbVars
<1>11. CASE Drained
  BY <1>11 DEF Drained, stopVars, dbVars
<1>12. CASE InsertSucceeds
  <2>1. rows \o batch \in Seq(Events)
    BY ConcatProperties
  <2> QED
    BY <1>12, <2>1 DEF InsertSucceeds, stopVars
<1>13. CASE InsertFails
  BY <1>13 DEF InsertFails, stopVars, dbVars
<1>14. CASE RetryFails
  <2>1. Range(batch) \subseteq Events
    BY RangeOfSeq
  <2> QED
    BY <1>14, <2>1 DEF RetryFails, stopVars
<1>15. CASE FlushSettle
  <2>1. <<>> \in Seq(Events) /\ Len(<<>>) = 0
    BY EmptySeq
  <2> QED
    BY <1>0, <1>15, <2>1 DEF FlushSettle, stopVars, dbVars
<1>16. CASE UNCHANGED vars
  BY <1>16 DEF vars, loopVars, stopVars, dbVars
<1> QED
  BY <1>1, <1>2, <1>3, <1>4, <1>5, <1>6, <1>7, <1>8, <1>9, <1>10, <1>11, <1>12,
     <1>13, <1>14, <1>15, <1>16 DEF Next, Enqueue, Loop, Flush

\* Every reachable state of the writer is well typed, its channel within the
\* capacity New gave it and its batch within batchSize.
THEOREM TypeCorrect == Spec => []TypeOK
<1>1. TypeInv => TypeOK
  BY DEF TypeInv
<1> QED
  BY TypeInit, TypeStep, <1>1, PTL DEF Spec

\* The strengthened type invariant, for the proofs below.
LEMMA TypeInvariant == Spec => []TypeInv
  BY TypeInit, TypeStep, PTL DEF Spec
-----------------------------------------------------------------------------
(* No event twice, none vanishing *)

\* The steps that move no event between the channel, the batch, the rows and
\* the lost.
LEMMA PlacesUnchanged ==
  ASSUME ExactlyOnePlace, Sent' = Sent, UNCHANGED <<queue, rows, lost>>,
         Unsettled' = Unsettled
  PROVE  ExactlyOnePlace'
  BY DEF ExactlyOnePlace

LEMMA PlaceInit == Init => ExactlyOnePlace
  BY EmptyRange DEF Init, ExactlyOnePlace, Unsettled, Sent

LEMMA PlaceStep == TypeInv /\ ExactlyOnePlace /\ [Next]_vars => ExactlyOnePlace'
<1> SUFFICES ASSUME TypeInv, ExactlyOnePlace, [Next]_vars
             PROVE  ExactlyOnePlace'
  OBVIOUS
<1>0. /\ queue \in Seq(Events) /\ batch \in Seq(Events) /\ rows \in Seq(Events)
      /\ caller \in [Events -> CallerStates]
      /\ Unsettled \in Seq(Events)
  BY EmptySeq DEF TypeInv, TypeOK, Unsettled
<1>1. ASSUME NEW e \in Events, EnqueueCheck(e) PROVE ExactlyOnePlace'
  <2>1. Sent' = Sent
    BY <1>0, <1>1 DEF EnqueueCheck, Sent
  <2> QED
    BY <1>1, <2>1, PlacesUnchanged DEF EnqueueCheck, Unsettled, loopVars, dbVars
<1>2. ASSUME NEW e \in Events, EnqueueSend(e) PROVE ExactlyOnePlace'
  <2>1. /\ e \notin Sent
        /\ Unsettled' = Unsettled /\ rows' = rows /\ lost' = lost
    BY <1>2 DEF EnqueueSend, Sent, Unsettled, loopVars, dbVars
  <2>2. CASE Len(queue) < QueueCapacity
    <3>1. queue' = Append(queue, e) /\ caller' = [caller EXCEPT ![e] = "count"]
      BY <1>2, <2>2 DEF EnqueueSend
    <3>2. Sent' = Sent \cup {e}
      BY <1>0, <3>1 DEF Sent
    <3>3. e \notin Range(queue)
      BY <2>1 DEF ExactlyOnePlace
    <3>4. Range(queue') = Range(queue) \cup {e} /\ IsInjective(queue')
      BY <1>0, <3>1, <3>3, AppendRange DEF ExactlyOnePlace
    <3> QED
      BY <2>1, <3>2, <3>4 DEF ExactlyOnePlace
  <2>3. CASE ~(Len(queue) < QueueCapacity)
    <3>1. queue' = queue /\ caller' = [caller EXCEPT ![e] = "rejected"]
      BY <1>2, <2>3 DEF EnqueueSend
    <3>2. Sent' = Sent
      BY <1>0, <2>1, <3>1 DEF Sent
    <3> QED
      BY <2>1, <3>1, <3>2, PlacesUnchanged
  <2> QED
    BY <2>2, <2>3
<1>3. ASSUME NEW e \in Events, EnqueueCount(e) PROVE ExactlyOnePlace'
  <2>1. Sent' = Sent
    BY <1>0, <1>3 DEF EnqueueCount, Sent
  <2> QED
    BY <1>3, <2>1, PlacesUnchanged DEF EnqueueCount, Unsettled, loopVars, dbVars
<1>4. CASE Start \/ StopMark \/ StopClose \/ StopReturn
  <2>1. Sent' = Sent /\ UNCHANGED <<queue, batch, rows, lost>>
    BY <1>4 DEF Start, StopMark, StopClose, StopReturn, Sent, loopVars, dbVars
  <2>2. Unsettled' = Unsettled
    BY <1>4 DEF Start, StopMark, StopClose, StopReturn, Unsettled, loopVars,
                TypeInv, BatchInv
  <2> QED
    BY <2>1, <2>2, PlacesUnchanged
<1>5. CASE Receive
  <2>1. /\ queue' = Tail(queue) /\ batch' = Append(batch, Head(queue))
        /\ Sent' = Sent /\ rows' = rows /\ lost' = lost
        /\ Unsettled = batch /\ Unsettled' = batch'
    BY <1>5 DEF Receive, Sent, Unsettled, dbVars
  <2>2. /\ Head(queue) \in Events
        /\ Range(queue) = {Head(queue)} \cup Range(queue')
        /\ IsInjective(queue') /\ Head(queue) \notin Range(queue')
    BY <1>0, <1>5, <2>1, HeadTailRange, HeadTailProperties
       DEF Receive, ExactlyOnePlace
  <2>3. Head(queue) \notin Range(batch)
    BY <2>1, <2>2 DEF ExactlyOnePlace
  <2>4. /\ Range(batch') = Range(batch) \cup {Head(queue)}
        /\ IsInjective(batch')
    BY <1>0, <2>1, <2>2, <2>3, AppendRange DEF ExactlyOnePlace
  <2> QED
    BY <2>1, <2>2, <2>3, <2>4 DEF ExactlyOnePlace
<1>6. CASE Tick \/ SeeStop \/ Drained \/ InsertFails
  BY <1>6, PlacesUnchanged
     DEF Tick, SeeStop, Drained, InsertFails, Sent, Unsettled, dbVars
<1>7. CASE InsertSucceeds
  <2>1. /\ rows' = rows \o batch
        /\ Sent' = Sent /\ queue' = queue /\ lost' = lost
        /\ Unsettled = batch /\ Unsettled' = <<>>
    BY <1>7 DEF InsertSucceeds, Sent, Unsettled
  <2>2. Range(rows') = Range(rows) \cup Range(batch)
    BY <1>0, <2>1, RangeConcatenation
  <2>3. IsInjective(rows')
    BY <1>0, <2>1, ConcatInjective DEF ExactlyOnePlace
  <2> QED
    BY <2>1, <2>2, <2>3, EmptyRange DEF ExactlyOnePlace
<1>8. CASE RetryFails
  <2>1. /\ lost' = lost \cup Range(batch)
        /\ Sent' = Sent /\ queue' = queue /\ rows' = rows
        /\ Unsettled = batch /\ Unsettled' = <<>>
    BY <1>8 DEF RetryFails, Sent, Unsettled
  <2> QED
    BY <2>1, EmptyRange DEF ExactlyOnePlace
<1>9. CASE FlushSettle
  BY <1>9, PlacesUnchanged DEF FlushSettle, Sent, Unsettled, dbVars
<1>10. CASE UNCHANGED vars
  BY <1>10, PlacesUnchanged DEF vars, Sent, Unsettled, loopVars, dbVars
<1> QED
  BY <1>1, <1>2, <1>3, <1>4, <1>5, <1>6, <1>7, <1>8, <1>9, <1>10
     DEF Next, Enqueue, Loop, Flush

\* Whatever the interleaving of handlers, loop and Stop, and whichever batches
\* the database refuses: an event the channel took is in one place, once.
THEOREM NoDuplicateNoLoss == Spec => []ExactlyOnePlace
  BY TypeInvariant, PlaceInit, PlaceStep, PTL DEF Spec
-----------------------------------------------------------------------------
(* queueDepth *)

LEMMA UncountedFinite == IsFiniteSet(Uncounted) /\ Cardinality(Uncounted) \in Nat
<1>1. Uncounted \in SUBSET Events
  BY DEF Uncounted
<1>2. IsFiniteSet(Uncounted)
  BY <1>1, EventsAssumption, FS_Subset
<1> QED
  BY <1>2, FS_CardinalityType

LEMMA DepthInit == Init => DepthAccounting
<1> SUFFICES ASSUME Init PROVE DepthAccounting
  OBVIOUS
<1>1. Uncounted = {} /\ Len(queue) = 0 /\ Len(batch) = 0 /\ queueDepth = 0
  BY EmptySeq DEF Init, Uncounted
<1> QED
  BY <1>1, FS_EmptySet DEF DepthAccounting

LEMMA DepthStep == TypeInv /\ DepthAccounting /\ [Next]_vars => DepthAccounting'
<1> SUFFICES ASSUME TypeInv, DepthAccounting, [Next]_vars
             PROVE  DepthAccounting'
  OBVIOUS
<1>0. /\ queue \in Seq(Events) /\ batch \in Seq(Events)
      /\ caller \in [Events -> CallerStates] /\ queueDepth \in Int
      /\ Len(queue) \in Nat /\ Len(batch) \in Nat
      /\ IsFiniteSet(Uncounted) /\ Cardinality(Uncounted) \in Nat
  BY LenProperties, UncountedFinite DEF TypeInv, TypeOK
<1>1. ASSUME NEW e \in Events, EnqueueCheck(e) PROVE DepthAccounting'
  <2>1. Uncounted' = Uncounted
    BY <1>0, <1>1 DEF EnqueueCheck, Uncounted
  <2> QED
    BY <1>1, <2>1 DEF EnqueueCheck, DepthAccounting, loopVars
<1>2. ASSUME NEW e \in Events, EnqueueSend(e) PROVE DepthAccounting'
  <2>1. e \notin Uncounted /\ queueDepth' = queueDepth /\ batch' = batch
    BY <1>2 DEF EnqueueSend, Uncounted, loopVars
  <2>2. CASE Len(queue) < QueueCapacity
    <3>1. queue' = Append(queue, e) /\ caller' = [caller EXCEPT ![e] = "count"]
      BY <1>2, <2>2 DEF EnqueueSend
    <3>2. Uncounted' = Uncounted \cup {e}
      BY <1>0, <3>1 DEF Uncounted
    <3>3. Cardinality(Uncounted') = Cardinality(Uncounted) + 1
      BY <1>0, <2>1, <3>2, FS_AddElement
    <3>4. Len(queue') = Len(queue) + 1
      BY <1>0, <3>1, AppendProperties
    <3>5. Len(batch') = Len(batch)
      BY <2>1
    <3>6. queueDepth' = Len(queue) + Len(batch) - Cardinality(Uncounted)
      BY <2>1 DEF DepthAccounting
    <3>7. queueDepth' = Len(queue') + Len(batch') - Cardinality(Uncounted')
      BY <1>0, <3>3, <3>4, <3>5, <3>6
    <3> QED
      BY <3>7 DEF DepthAccounting
  <2>3. CASE ~(Len(queue) < QueueCapacity)
    <3>1. queue' = queue /\ caller' = [caller EXCEPT ![e] = "rejected"]
      BY <1>2, <2>3 DEF EnqueueSend
    <3>2. Uncounted' = Uncounted
      BY <1>0, <2>1, <3>1 DEF Uncounted
    <3> QED
      BY <2>1, <3>1, <3>2 DEF DepthAccounting
  <2> QED
    BY <2>2, <2>3
<1>3. ASSUME NEW e \in Events, EnqueueCount(e) PROVE DepthAccounting'
  <2>1. /\ e \in Uncounted /\ queueDepth' = queueDepth + 1
        /\ queue' = queue /\ batch' = batch
        /\ caller' = [caller EXCEPT ![e] = "accepted"]
    BY <1>3 DEF EnqueueCount, Uncounted, loopVars
  <2>2. Uncounted' = Uncounted \ {e}
    BY <1>0, <2>1 DEF Uncounted
  <2>3. Cardinality(Uncounted') = Cardinality(Uncounted) - 1
    BY <1>0, <2>1, <2>2, FS_RemoveElement
  <2> QED
    BY <1>0, <2>1, <2>3 DEF DepthAccounting
<1>4. CASE Start \/ StopMark \/ StopClose \/ StopReturn
  BY <1>4 DEF Start, StopMark, StopClose, StopReturn, DepthAccounting,
              Uncounted, loopVars
<1>5. CASE Receive
  <2>1. /\ Uncounted' = Uncounted /\ queueDepth' = queueDepth
        /\ queue' = Tail(queue) /\ batch' = Append(batch, Head(queue))
    BY <1>5 DEF Receive, Uncounted
  <2>2. Len(queue') = Len(queue) - 1 /\ Head(queue) \in Events
    BY <1>0, <1>5, <2>1, HeadTailProperties DEF Receive
  <2>3. Len(batch') = Len(batch) + 1
    BY <1>0, <2>1, <2>2, AppendProperties
  <2> QED
    BY <1>0, <2>1, <2>2, <2>3 DEF DepthAccounting
<1>6. CASE Tick \/ SeeStop \/ Drained \/ InsertSucceeds \/ InsertFails \/ RetryFails
  BY <1>6 DEF Tick, SeeStop, Drained, InsertSucceeds, InsertFails, RetryFails,
              DepthAccounting, Uncounted
<1>7. CASE FlushSettle
  <2>1. /\ Uncounted' = Uncounted /\ queueDepth' = queueDepth - Len(batch)
        /\ queue' = queue /\ Len(batch') = 0
    BY <1>7, EmptySeq DEF FlushSettle, Uncounted
  <2> QED
    BY <1>0, <2>1 DEF DepthAccounting
<1>8. CASE UNCHANGED vars
  BY <1>8 DEF vars, loopVars, DepthAccounting, Uncounted
<1> QED
  BY <1>1, <1>2, <1>3, <1>4, <1>5, <1>6, <1>7, <1>8
     DEF Next, Enqueue, Loop, Flush

\* The atomic counter never drifts: it is the number of unflushed events minus
\* the senders that have not added theirs yet.
THEOREM DepthNeverDrifts == Spec => []DepthAccounting
  BY TypeInvariant, DepthInit, DepthStep, PTL DEF Spec
-----------------------------------------------------------------------------
(* Stop *)

\* How far a stop has come: stopCh is closed by the one caller that marked the
\* writer stopped; loop leaves its normal mode after that, and returns after
\* it found the channel without anything owed.
DrainInv ==
  /\ stopper = "close" => ~stopClosed
  /\ stopped <=> stopper # "idle"
  /\ stopClosed => stopped
  /\ ~stopClosed => owed = {}
  /\ owed \subseteq Sent
  /\ mode \in {"drain", "leave"} => stopClosed
  /\ mode = "leave" => owed \cap Range(queue) = {}
  /\ loop = "done" => mode = "leave" /\ batch = <<>>

LEMMA DrainInit == Init => DrainInv
  BY DEF Init, DrainInv

LEMMA DrainStep == TypeInv /\ ExactlyOnePlace /\ DrainInv /\ [Next]_vars => DrainInv'
<1> SUFFICES ASSUME TypeInv, ExactlyOnePlace, DrainInv, [Next]_vars
             PROVE  DrainInv'
  OBVIOUS
<1>0. /\ queue \in Seq(Events) /\ batch \in Seq(Events)
      /\ caller \in [Events -> CallerStates]
      /\ Range(queue) \subseteq Sent
  BY DEF TypeInv, TypeOK, ExactlyOnePlace
<1>1. ASSUME NEW e \in Events, EnqueueCheck(e) PROVE DrainInv'
  <2>1. Sent' = Sent
    BY <1>0, <1>1 DEF EnqueueCheck, Sent
  <2> QED
    BY <1>1, <2>1 DEF EnqueueCheck, DrainInv, loopVars, stopVars
<1>2. ASSUME NEW e \in Events, EnqueueSend(e) PROVE DrainInv'
  <2>1. e \notin Sent
    BY <1>2 DEF EnqueueSend, Sent
  <2>2. CASE Len(queue) < QueueCapacity
    <3>1. queue' = Append(queue, e) /\ caller' = [caller EXCEPT ![e] = "count"]
      BY <1>2, <2>2 DEF EnqueueSend
    <3>2. Sent' = Sent \cup {e}
      BY <1>0, <3>1 DEF Sent
    <3>3. Range(queue') = Range(queue) \cup {e}
      BY <1>0, <3>1, AppendRange
    <3> QED
      BY <1>2, <2>1, <3>2, <3>3 DEF EnqueueSend, DrainInv, loopVars, stopVars
  <2>3. CASE ~(Len(queue) < QueueCapacity)
    <3>1. queue' = queue /\ caller' = [caller EXCEPT ![e] = "rejected"]
      BY <1>2, <2>3 DEF EnqueueSend
    <3>2. Sent' = Sent
      BY <1>0, <2>1, <3>1 DEF Sent
    <3> QED
      BY <1>2, <3>1, <3>2 DEF EnqueueSend, DrainInv, loopVars, stopVars
  <2> QED
    BY <2>2, <2>3
<1>3. ASSUME NEW e \in Events, EnqueueCount(e) PROVE DrainInv'
  <2>1. Sent' = Sent
    BY <1>0, <1>3 DEF EnqueueCount, Sent
  <2> QED
    BY <1>3, <2>1 DEF EnqueueCount, DrainInv, loopVars, stopVars
<1>4. CASE Start
  BY <1>4 DEF Start, DrainInv, Sent
<1>5. CASE StopMark
  BY <1>5 DEF StopMark, DrainInv, Sent, loopVars
<1>6. CASE StopClose
  BY <1>6 DEF StopClose, DrainInv, Sent, loopVars
<1>7. CASE StopReturn
  BY <1>7 DEF StopReturn, DrainInv, Sent, loopVars
<1>8. CASE Receive
  <2>1. Sent' = Sent /\ Range(queue') \subseteq Range(queue)
    BY <1>0, <1>8, HeadTailRange DEF Receive, Sent
  <2> QED
    BY <1>8, <2>1 DEF Receive, DrainInv, stopVars
<1>9. CASE Tick \/ SeeStop \/ InsertSucceeds \/ InsertFails \/ RetryFails
  BY <1>9 DEF Tick, SeeStop, InsertSucceeds, InsertFails, RetryFails, DrainInv,
              Sent, stopVars
<1>10. CASE Drained
  <2>1. Range(queue') = {} /\ Sent' = Sent
    BY <1>10, EmptyRange DEF Drained, Sent
  <2> QED
    BY <1>10, <2>1 DEF Drained, DrainInv, stopVars
<1>11. CASE FlushSettle
  BY <1>11 DEF FlushSettle, DrainInv, Sent, stopVars
<1>12. CASE UNCHANGED vars
  BY <1>12 DEF vars, loopVars, stopVars, DrainInv, Sent
<1> QED
  BY <1>1, <1>2, <1>3, <1>4, <1>5, <1>6, <1>7, <1>8, <1>9, <1>10, <1>11, <1>12
     DEF Next, Enqueue, Loop, Flush

LEMMA DrainInvariant == Spec => []DrainInv
  BY TypeInvariant, NoDuplicateNoLoss, DrainInit, DrainStep, PTL DEF Spec

\* When loop returns, the events the channel held at the close of stopCh are in
\* the database or were given up after a retry.
THEOREM StopDrainsQueue == Spec => []StopDrains
<1>1. DrainInv /\ ExactlyOnePlace => StopDrains
  <2> SUFFICES ASSUME DrainInv, ExactlyOnePlace, loop = "done"
               PROVE  owed \subseteq Range(rows) \cup lost
    BY DEF StopDrains
  <2>1. Unsettled = <<>> /\ owed \subseteq Sent /\ owed \cap Range(queue) = {}
    BY DEF DrainInv, Unsettled
  <2> QED
    BY <2>1, EmptyRange DEF ExactlyOnePlace
<1> QED
  BY <1>1, DrainInvariant, NoDuplicateNoLoss, PTL
-----------------------------------------------------------------------------
(* The writer implements the ledger *)

\* A flush has something to insert: loop goes there with a full batch, on a
\* tick that found one begun, or for the last one.
FlushInv == loop \in {"insert", "retry"} => batch # <<>>

LEMMA FlushStep == TypeInv /\ FlushInv /\ [Next]_vars => FlushInv'
<1> SUFFICES ASSUME TypeInv, FlushInv, [Next]_vars PROVE FlushInv'
  OBVIOUS
<1> USE DEF FlushInv
<1>1. ASSUME NEW e \in Events, Enqueue(e) PROVE FlushInv'
  BY <1>1 DEF Enqueue, EnqueueCheck, EnqueueSend, EnqueueCount, loopVars
<1>2. CASE Start \/ StopMark \/ StopClose \/ StopReturn
  BY <1>2 DEF Start, StopMark, StopClose, StopReturn, loopVars
<1>3. CASE Receive
  <2>1. Head(queue) \in Events /\ batch \in Seq(Events)
    BY <1>3, HeadTailProperties DEF Receive, TypeInv, TypeOK
  <2> QED
    BY <1>3, <2>1, AppendProperties DEF Receive
<1>4. CASE Tick \/ SeeStop \/ Drained
  BY <1>4 DEF Tick, SeeStop, Drained
<1>5. CASE Flush
  BY <1>5 DEF Flush, InsertSucceeds, InsertFails, RetryFails, FlushSettle
<1>6. CASE UNCHANGED vars
  BY <1>6 DEF vars, loopVars
<1> QED
  BY <1>1, <1>2, <1>3, <1>4, <1>5, <1>6 DEF Next, Loop

\* The ledger's elements are the range.
LEMMA ElementsAreRange == \A s : Ledger!Elements(s) = Range(s)
  BY DEF Ledger!Elements, Range

\* What the ledger knows of is what the callers have been told or will be: the
\* events in the channel or past it, and the rejected ones.
LEMMA KnownEvents ==
  ASSUME TypeInv, ExactlyOnePlace
  PROVE  Ledger!Known = Sent \cup Rejected
<1>1. Unsettled \in Seq(Events) /\ queue \in Seq(Events)
  BY EmptySeq DEF TypeInv, TypeOK, Unsettled
<1>2. Range(Unsettled \o queue) = Range(Unsettled) \cup Range(queue)
  BY <1>1, RangeConcatenation
<1> QED
  BY <1>2, ElementsAreRange DEF Ledger!Known, ExactlyOnePlace

LEMMA LedgerInit == Init => Ledger!Init
<1> SUFFICES ASSUME Init PROVE Ledger!Init
  OBVIOUS
<1>1. Unsettled = <<>> /\ queue = <<>> /\ rows = <<>> /\ lost = {} /\ Rejected = {}
  BY DEF Init, Unsettled, Rejected
<1>2. Unsettled \o queue = <<>>
  BY <1>1, ConcatEmptySeq, EmptySeq
<1> QED
  BY <1>1, <1>2 DEF Ledger!Init

\* Every step of the writer is one of the ledger or invisible to it.  A caller
\* is told of an acceptance only after it happened; a receive moves an event
\* inside the pending ones; a flush settles the whole batch, which is not empty
\* and at most BatchSize long.
LEMMA LedgerStep ==
  TypeInv /\ ExactlyOnePlace /\ FlushInv /\ [Next]_vars
    => [Ledger!Next]_(Ledger!ledgerVars)
<1> SUFFICES ASSUME TypeInv, ExactlyOnePlace, FlushInv, [Next]_vars
             PROVE  [Ledger!Next]_(Ledger!ledgerVars)
  OBVIOUS
<1>0. /\ queue \in Seq(Events) /\ batch \in Seq(Events) /\ rows \in Seq(Events)
      /\ caller \in [Events -> CallerStates]
      /\ Unsettled \in Seq(Events)
  BY EmptySeq DEF TypeInv, TypeOK, Unsettled
<1> DEFINE pending == Unsettled \o queue
<1>a. ASSUME pending' = pending, UNCHANGED <<rows, lost, Rejected>>
      PROVE  [Ledger!Next]_(Ledger!ledgerVars)
  BY <1>a DEF Ledger!ledgerVars
<1>b. ASSUME NEW e \in Events, caller[e] \in {"idle", "send"},
             caller' = [caller EXCEPT ![e] = "rejected"],
             pending' = pending, UNCHANGED <<rows, lost>>
      PROVE  Ledger!Next
  <2>1. e \notin Sent \cup Rejected
    BY <1>b DEF Sent, Rejected
  <2>2. Rejected' = Rejected \cup {e}
    BY <1>0, <1>b DEF Rejected
  <2>3. Ledger!Reject(e)
    BY <1>b, <2>1, <2>2, KnownEvents DEF Ledger!Reject
  <2> QED
    BY <2>3 DEF Ledger!Next
<1>1. ASSUME NEW e \in Events, EnqueueCheck(e)
      PROVE  [Ledger!Next]_(Ledger!ledgerVars)
  <2>1. pending' = pending /\ UNCHANGED <<rows, lost>>
    BY <1>1 DEF EnqueueCheck, Unsettled, loopVars, dbVars
  <2>2. CASE stopped
    BY <1>1, <1>b, <2>1, <2>2 DEF EnqueueCheck
  <2>3. CASE ~stopped
    <3>1. Rejected' = Rejected
      BY <1>0, <1>1, <2>3 DEF EnqueueCheck, Rejected
    <3> QED
      BY <1>a, <2>1, <3>1
  <2> QED
    BY <2>2, <2>3
<1>2. ASSUME NEW e \in Events, EnqueueSend(e) PROVE Ledger!Next
  <2>1. Unsettled' = Unsettled /\ UNCHANGED <<rows, lost>> /\ caller[e] = "send"
    BY <1>2 DEF EnqueueSend, Unsettled, loopVars, dbVars
  <2>2. CASE Len(queue) < QueueCapacity
    <3>1. queue' = Append(queue, e) /\ caller' = [caller EXCEPT ![e] = "count"]
      BY <1>2, <2>2 DEF EnqueueSend
    <3>2. pending' = Append(pending, e)
      BY <1>0, <2>1, <3>1, AppendToSecond
    <3>3. e \notin Sent \cup Rejected
      BY <2>1 DEF Sent, Rejected
    <3>4. Rejected' = Rejected
      BY <1>0, <2>1, <3>1 DEF Rejected
    <3>5. Ledger!Accept(e)
      BY <2>1, <3>2, <3>3, <3>4, KnownEvents DEF Ledger!Accept
    <3> QED
      BY <3>5 DEF Ledger!Next
  <2>3. CASE ~(Len(queue) < QueueCapacity)
    BY <1>2, <1>b, <2>1, <2>3 DEF EnqueueSend
  <2> QED
    BY <2>2, <2>3
<1>3. ASSUME NEW e \in Events, EnqueueCount(e)
      PROVE  [Ledger!Next]_(Ledger!ledgerVars)
  <2>1. Rejected' = Rejected
    BY <1>0, <1>3 DEF EnqueueCount, Rejected
  <2> QED
    BY <1>3, <1>a, <2>1 DEF EnqueueCount, Unsettled, loopVars, dbVars
<1>4. CASE Start \/ StopMark \/ StopClose \/ StopReturn
  <2>1. UNCHANGED <<queue, batch, caller, rows, lost>>
    BY <1>4 DEF Start, StopMark, StopClose, StopReturn, loopVars, dbVars
  <2>2. Unsettled' = Unsettled
    BY <1>4 DEF Start, StopMark, StopClose, StopReturn, Unsettled, loopVars,
                TypeInv, BatchInv
  <2>3. Rejected' = Rejected
    BY <2>1 DEF Rejected
  <2> QED
    BY <1>a, <2>1, <2>2, <2>3
<1>5. CASE Receive
  <2>1. /\ queue # <<>> /\ queue' = Tail(queue) /\ batch' = Append(batch, Head(queue))
        /\ Unsettled = batch /\ Unsettled' = batch' /\ UNCHANGED <<caller, rows, lost>>
    BY <1>5 DEF Receive, Unsettled, dbVars
  <2>2. pending' = pending
    BY <1>0, <2>1, MoveHead
  <2>3. Rejected' = Rejected
    BY <2>1 DEF Rejected
  <2> QED
    BY <1>a, <2>1, <2>2, <2>3
<1>6. CASE Tick \/ SeeStop \/ Drained \/ InsertFails
  BY <1>6, <1>a DEF Tick, SeeStop, Drained, InsertFails, Unsettled, Rejected, dbVars
<1>7. CASE InsertSucceeds \/ RetryFails
  <2>1. /\ Unsettled = batch /\ Unsettled' = <<>> /\ batch # <<>>
        /\ UNCHANGED <<queue, caller>>
    BY <1>7 DEF InsertSucceeds, RetryFails, Unsettled, FlushInv
  <2>2. /\ Len(batch) \in 1..BatchSize
        /\ Len(queue) \in Nat /\ Len(pending) = Len(batch) + Len(queue)
    BY <1>0, <2>1, ConcatProperties, EmptySeq, LenProperties DEF TypeInv, TypeOK
  <2>3. /\ SubSeq(pending, 1, Len(batch)) = batch
        /\ SubSeq(pending, Len(batch) + 1, Len(pending)) = queue
    BY <1>0, <2>1, CutBetween
  <2>4. pending' = queue
    BY <1>0, <2>1, ConcatEmptySeq
  <2>5. Rejected' = Rejected
    BY <2>1 DEF Rejected
  <2>6. Ledger!Leave(Len(batch))
    BY <2>3, <2>4 DEF Ledger!Leave
  <2>7. Len(batch) <= Len(pending)
    BY <2>2
  <2>8. Ledger!Persist(Len(batch)) \/ Ledger!Lose(Len(batch))
    BY <1>7, <2>3, <2>5, <2>6, ElementsAreRange
       DEF InsertSucceeds, RetryFails, Ledger!Persist, Ledger!Lose
  <2> QED
    BY <2>2, <2>7, <2>8 DEF Ledger!Next
<1>8. CASE FlushSettle
  <2>1. Unsettled = <<>> /\ Unsettled' = <<>> /\ UNCHANGED <<queue, caller, rows, lost>>
    BY <1>8 DEF FlushSettle, Unsettled, dbVars
  <2>2. Rejected' = Rejected
    BY <2>1 DEF Rejected
  <2> QED
    BY <1>a, <2>1, <2>2
<1>9. CASE UNCHANGED vars
  BY <1>9, <1>a DEF vars, loopVars, dbVars, Unsettled, Rejected
<1> QED
  BY <1>1, <1>2, <1>3, <1>4, <1>5, <1>6, <1>7, <1>8, <1>9
     DEF Next, Enqueue, Loop, Flush

\* The writer keeps the promise of UsageLedger: events settle in the order of
\* acceptance, whole batches at a time, and none returns after it left or was
\* rejected (Enqueue, loop and flush of writer.go).
THEOREM WriterImplementsLedger == Spec => LedgerSpec
<1>1. Init => FlushInv
  BY DEF Init, FlushInv
<1>2. Spec => []FlushInv
  BY <1>1, FlushStep, TypeInvariant, PTL DEF Spec
<1> QED
  BY <1>2, LedgerInit, LedgerStep, TypeInvariant, NoDuplicateNoLoss, PTL
     DEF Spec, LedgerSpec, Ledger!Spec
-----------------------------------------------------------------------------
(* The process around the writer *)

\* Every step of the process is a step of the writer or leaves it alone: the
\* handlers only call Enqueue, main only Start and Stop (serve.go).
LEMMA ProcessStep == [GatewayNext]_allVars => [Next]_vars
<1> SUFFICES ASSUME [GatewayNext]_allVars PROVE [Next]_vars
  OBVIOUS
<1>1. CASE Main
  <2>1. ASSUME StartWriter PROVE Start
    BY <2>1 DEF StartWriter
  <2>2. ASSUME StopWriter PROVE StopMark \/ StopClose \/ StopReturn
    BY <2>2 DEF StopWriter
  <2>3. ASSUME SetupFails \/ StartPoller \/ StartSignalGoroutine \/ Listen \/ ListenFails
        PROVE  UNCHANGED vars
    BY <2>3 DEF SetupFails, StartPoller, StartSignalGoroutine, Listen, ListenFails
  <2>4. ASSUME ServeReturns \/ StopPoller \/ StopHealth \/ CloseDB \/ Exit
        PROVE  UNCHANGED vars
    BY <2>4 DEF ServeReturns, StopPoller, StopHealth, CloseDB, Exit
  <2> QED BY <1>1, <2>1, <2>2, <2>3, <2>4 DEF Main, Next
<1>2. CASE Signal \/ ShutdownReturns \/ ShutdownTimesOut
  BY <1>2 DEF Signal, ShutdownReturns, ShutdownTimesOut
<1>3. ASSUME NEW e \in Events, BeginRequest(e) \/ ForwardingEnds(e) \/ Record(e)
      PROVE  [Next]_vars
  BY <1>3 DEF BeginRequest, ForwardingEnds, Record, Next
<1>4. CASE WriterLoop
  BY <1>4 DEF WriterLoop, Next
<1>5. CASE Turn \/ Done \/ Answered
  BY <1>5 DEF Turn, Done, Answered
<1>6. CASE UNCHANGED allVars
  BY <1>6 DEF allVars
<1> QED BY <1>1, <1>2, <1>3, <1>4, <1>5, <1>6 DEF GatewayNext

\* The process implements the specification of the writer, for any number of
\* requests, any capacity and any batch size.
THEOREM ProcessRunsTheWriter == GatewaySpec => Spec
<1>1. GatewayInit => Init
  BY DEF GatewayInit
<1> QED BY <1>1, ProcessStep, PTL DEF GatewaySpec, Spec

\* No event is duplicated or vanishes while requests, failed setups and
\* shutdowns go on around the writer.
THEOREM NoDuplicateInProcess == GatewaySpec => []ExactlyOnePlace
BY ProcessRunsTheWriter, NoDuplicateNoLoss, PTL

\* The depth counter does not drift over the life of a process.
THEOREM DepthInProcess == GatewaySpec => []DepthAccounting
BY ProcessRunsTheWriter, DepthNeverDrifts, PTL

\* The metering path of the process keeps the ledger's promise to the readers of
\* request_usage, failed setups and shutdowns included.
THEOREM ProcessImplementsLedger == GatewaySpec => LedgerSpec
BY ProcessRunsTheWriter, WriterImplementsLedger, PTL
-----------------------------------------------------------------------------
(* The end of the process.  Once Stop has returned to main, loop has, and    *)
(* not for want of a start (main starts the writer before it can stop it);   *)
(* when it did, it had flushed its batch.                                    *)

ExitInv ==
  /\ IF main = "setup" THEN stopper # "returned" ELSE loop # "off"
  /\ main \in {"closeDB", "exit", "gone"} => stopper = "returned"
  /\ stopper = "returned" => loop \in {"off", "done"}
  /\ loop = "done" => batch = <<>>

LEMMA ExitInit == GatewayInit => ExitInv
BY DEF GatewayInit, Init, ExitInv

LEMMA ExitStep == ExitInv /\ [GatewayNext]_allVars => ExitInv'
<1> SUFFICES ASSUME ExitInv, [GatewayNext]_allVars PROVE ExitInv'
  OBVIOUS
<1> USE DEF ExitInv
<1>1. CASE StartWriter
  BY <1>1 DEF StartWriter, Start, dbVars
<1>2. CASE StopWriter
  <2>1. main = "stopWriter" /\ UNCHANGED <<loop, batch>>
    BY <1>2 DEF StopWriter, StopMark, StopClose, StopReturn, loopVars
  <2>2. main' \in {"stopWriter", "closeDB"} /\ (main' = "closeDB" => stopper' = "returned")
    BY <1>2, <2>1 DEF StopWriter
  <2>3. stopper' = "returned" => loop \in {"off", "done"}
    BY <1>2 DEF StopWriter, StopMark, StopClose, StopReturn
  <2> QED BY <2>1, <2>2, <2>3
<1>3. CASE SetupFails \/ StartPoller \/ StartSignalGoroutine \/ Listen \/ ListenFails
  BY <1>3 DEF SetupFails, StartPoller, StartSignalGoroutine, Listen, ListenFails,
              vars, loopVars, stopVars
<1>4. CASE CloseDB \/ Exit
  BY <1>4 DEF CloseDB, Exit, vars, loopVars, stopVars
<1>5. CASE Signal \/ ShutdownReturns \/ ShutdownTimesOut \/ Turn \/ Done \/ Answered
  BY <1>5 DEF Signal, ShutdownReturns, ShutdownTimesOut, Turn, Done, Answered,
              vars, loopVars, stopVars
<1>6. ASSUME NEW e \in Events, BeginRequest(e) \/ ForwardingEnds(e) PROVE ExitInv'
  BY <1>6 DEF BeginRequest, ForwardingEnds, vars, loopVars, stopVars
<1>7. ASSUME NEW e \in Events, Record(e) PROVE ExitInv'
  BY <1>7 DEF Record, Enqueue, EnqueueCheck, EnqueueSend, EnqueueCount, loopVars, stopVars
<1>8. CASE WriterLoop
  <2>1. UNCHANGED <<main, stopper>>
    BY <1>8 DEF WriterLoop, gatewayVars, Loop, Flush, Receive, Tick, SeeStop, Drained,
                InsertSucceeds, InsertFails, RetryFails, FlushSettle, stopVars
  <2>2. loop \notin {"off", "done"} /\ loop' # "off"
    BY <1>8 DEF WriterLoop, Loop, Flush, Receive, Tick, SeeStop, Drained,
                InsertSucceeds, InsertFails, RetryFails, FlushSettle
  <2>3. loop' = "done" => batch' = <<>>
    BY <1>8 DEF WriterLoop, Loop, Flush, Receive, Tick, SeeStop, Drained,
                InsertSucceeds, InsertFails, RetryFails, FlushSettle
  <2> QED BY <2>1, <2>2, <2>3
<1>9. CASE ServeReturns \/ StopPoller \/ StopHealth
  BY <1>9 DEF ServeReturns, StopPoller, StopHealth, vars, loopVars, stopVars
<1>10. CASE UNCHANGED allVars
  BY <1>10 DEF allVars, vars, loopVars, stopVars, gatewayVars
<1> QED BY <1>1, <1>2, <1>3, <1>4, <1>5, <1>6, <1>7, <1>8, <1>9, <1>10 DEF GatewayNext, Main

\* The process does not close the database, nor end, before everything the
\* channel held when the stop began is stored or was given up after a retry
\* (the order of the deferred calls of runServe).
THEOREM NothingOwedAtExit == GatewaySpec => []ExitOwesNothing
<1>1. ExitInv /\ StopDrains => ExitOwesNothing
  BY DEF ExitInv, StopDrains, ExitOwesNothing
<1>2. GatewaySpec => []StopDrains
  BY ProcessRunsTheWriter, StopDrainsQueue, PTL
<1> QED BY <1>1, <1>2, ExitInit, ExitStep, PTL DEF GatewaySpec
=============================================================================
