--------------------------- MODULE SideUsageProofs ---------------------------
(***************************************************************************)
(* The side-channel merge for every set of request ids and usages, every    *)
(* match timeout, retention and number of rows and events: what a stored    *)
(* event and a row say of each other.  MergeInv adds what keeps the event   *)
(* that is about to be applied, and the references of the rows, apart from  *)
(* the ids that the events to come will get.                                *)
(***************************************************************************)
EXTENDS SideUsage, SequenceTheorems, WellFoundedInduction, TLAPS

Row == [rid : RequestIDs, created : Nat, tokens : Tokens, side : Nat,
        source : {"", "http_response", "cliproxy_side_channel"}]

Event == [rid : RequestIDs \cup {NoRequestID}, tokens : Tokens,
          status : Statuses, received : Nat, matched : Nat]

\* A row refers to an id given out before; a matched event names a row that
\* exists; an event is applied at most once, by the poller that stored it.
MergeInv ==
  /\ \A r \in DOMAIN rows : rows[r].side <= lastId
  /\ \A id \in DOMAIN events :
       events[id].status = "matched" => events[id].matched \in DOMAIN rows
  /\ current # 0 => events[current].status = "stored_only" /\ poller = "process"

-----------------------------------------------------------------------------
(* What the operations do to the two tables *)

LEMMA RowsAreRows ==
  ASSUME TypeOK
  PROVE  /\ rows \in Seq(Row)
         /\ Len(rows) \in Nat /\ DOMAIN rows = 1..Len(rows)
         /\ \A r \in DOMAIN rows : rows[r] \in Row
<1>1. rows \in Seq(Row)
  BY DEF TypeOK, Row
<1> QED
  BY <1>1, ElementOfSeq, LenProperties

LEMMA EventsAreEvents ==
  ASSUME TypeOK
  PROVE  /\ lastId \in Nat
         /\ \A id \in DOMAIN events :
              events[id] \in Event /\ id \in 1..lastId /\ id \in Nat
<1>1. lastId \in Nat /\ DOMAIN events \subseteq 1..lastId
  BY DEF TypeOK
<1>2. \A id \in DOMAIN events : events[id] \in Event
  BY DEF TypeOK, Event
<1> QED
  BY <1>1, <1>2

\* InsertBatch appends; the rows that were there keep their ids.
LEMMA InsertRowEffect ==
  ASSUME TypeOK, NEW rid \in RequestIDs, NEW tokens \in Tokens, NEW created \in Nat,
         InsertRow(rid, tokens, created)
  PROVE  LET n == Len(rows) + 1
         IN /\ rows' \in Seq(Row) /\ DOMAIN rows' = DOMAIN rows \cup {n}
            /\ n \notin DOMAIN rows /\ rows'[n].side = 0
            /\ \A r \in DOMAIN rows : rows'[r] = rows[r]
<1> DEFINE src == IF tokens = NoUsage THEN "" ELSE "http_response"
           new == [rid |-> rid, created |-> created, tokens |-> tokens, side |-> 0,
                   source |-> src]
<1>1. src \in {"", "http_response", "cliproxy_side_channel"}
  OBVIOUS
<1>2. new \in Row /\ new.side = 0
  BY <1>1 DEF Row
<1>3. rows' = Append(rows, new)
  BY DEF InsertRow
<1> HIDE DEF new
<1>4. /\ rows' \in Seq(Row) /\ Len(rows') = Len(rows) + 1
      /\ \A r \in 1..Len(rows) : rows'[r] = rows[r]
      /\ rows'[Len(rows) + 1] = new
  BY <1>2, <1>3, RowsAreRows, AppendProperties
<1>5. DOMAIN rows' = 1..Len(rows')
  BY <1>4, LenProperties
<1> QED
  BY <1>2, <1>4, <1>5, RowsAreRows

\* What a decision writes about the event, and nothing of another event.
LEMMA SetStatusEffect ==
  ASSUME TypeOK, NEW id \in DOMAIN events, NEW st \in Statuses, NEW r \in Nat,
         SetStatus(id, st, r)
  PROVE  /\ DOMAIN events' = DOMAIN events
         /\ events'[id] \in Event
         /\ events'[id].rid = events[id].rid
         /\ events'[id].received = events[id].received
         /\ events'[id].status = st /\ events'[id].matched = r
         /\ \A other \in DOMAIN events \ {id} : events'[other] = events[other]
<1>1. events[id] \in Event
  BY EventsAreEvents
<1>2. /\ DOMAIN events' = DOMAIN events
      /\ \A other \in DOMAIN events \ {id} : events'[other] = events[other]
      /\ events'[id] = [events[id] EXCEPT !.status = st, !.matched = r]
  BY DEF SetStatus
<1> QED
  BY <1>1, <1>2 DEF Event

\* The query with ORDER BY id ASC LIMIT 1 finds a row when there is one.
LEMMA CandidateExists ==
  ASSUME TypeOK, NEW id \in DOMAIN events, Candidates(id) # {}
  PROVE  Candidate(id) \in Candidates(id)
<1>1. Candidates(id) \subseteq Nat
  BY RowsAreRows DEF Candidates, RowsOf
<1>2. \E r \in Candidates(id) : \A q \in Candidates(id) : r <= q
  <2> DEFINE S == Candidates(id)
             R == {p \in Nat \X Nat : p[1] < p[2]}
  <2>1. IsWellFoundedOn(R, Nat)
    BY NatLessThanWellFounded DEF OpToRel
  <2> HIDE DEF S, R
  <2>2. \E r \in S : \A q \in S : ~ (<<q, r>> \in R)
    BY <1>1, <2>1, WFMin DEF S
  <2>3. \A q, r \in S : <<q, r>> \notin R => r <= q
    BY <1>1 DEF R, S
  <2> QED
    BY <2>2, <2>3 DEF S
<1> QED
  BY <1>2 DEF Candidate

\* The row takes the reference and, at most, usage it did not have.
LEMMA EnrichedEffect ==
  ASSUME TypeOK, NEW id \in DOMAIN events, NEW r \in DOMAIN rows
  PROVE  /\ Enriched(id, r) \in Row
         /\ Enriched(id, r).side = id
         /\ Enriched(id, r).rid = rows[r].rid
         /\ Enriched(id, r).created = rows[r].created
         /\ rows[r].tokens # NoUsage => /\ Enriched(id, r).tokens = rows[r].tokens
                                        /\ Enriched(id, r).source = rows[r].source
<1>1. rows[r] \in Row /\ events[id] \in Event /\ id \in Nat
  BY RowsAreRows, EventsAreEvents
<1> QED
  BY <1>1 DEF Enriched, Row, Event

\* The two kinds of outcome of ApplySideUsageEvent.
Refused(id) ==
  /\ UNCHANGED rows
  /\ \E st \in {"duplicate", "expired", "unmatched", "conflict"}, r \in Nat : SetStatus(id, st, r)

MatchedTo(id, r) ==
  /\ ~OtherMatch(id) /\ ~Taken(id, r)
  /\ SetStatus(id, "matched", r)
  /\ rows' = [rows EXCEPT ![r] = Enriched(id, r)]

LEMMA DecideEffect ==
  ASSUME TypeOK, NEW id \in DOMAIN events, Decide(id)
  PROVE  Refused(id) \/ \E r \in Candidates(id) : MatchedTo(id, r)
<1>1. CASE OtherMatch(id) \/ Candidates(id) = {}
  BY <1>1 DEF Decide, Refused
<1>2. CASE ~OtherMatch(id) /\ Candidates(id) # {}
  <2> DEFINE r == Candidate(id)
  <2>1. r \in Candidates(id) /\ r \in Nat
    BY <1>2, CandidateExists, RowsAreRows DEF Candidates, RowsOf
  <2>2. CASE Taken(id, r) \/ Conflict(id, r)
    BY <1>2, <2>1, <2>2 DEF Decide, Refused
  <2>3. CASE ~Taken(id, r) /\ ~Conflict(id, r)
    BY <1>2, <2>1, <2>3 DEF Decide, MatchedTo
  <2> QED
    BY <2>2, <2>3
<1> QED
  BY <1>1, <1>2
-----------------------------------------------------------------------------
(* Type correctness *)

LEMMA SideInit == Init => TypeOK /\ MergeInv /\ MatchIsMutual /\ OneMatchPerRequest
<1> SUFFICES ASSUME Init
             PROVE  TypeOK /\ MergeInv /\ MatchIsMutual /\ OneMatchPerRequest
  OBVIOUS
<1>1. /\ DOMAIN events = {} /\ DOMAIN rows = {} /\ lastId = 0
      /\ rows \in Seq(Row) /\ fetched \in Seq(Payloads)
  BY EmptySeq DEF Init
<1>2. TypeOK
  BY <1>1 DEF Init, TypeOK, Row
<1> QED
  BY <1>1, <1>2 DEF Init, MergeInv, MatchIsMutual, OneMatchPerRequest

LEMMA PayloadTypes ==
  ASSUME NEW p \in Payloads
  PROVE  /\ p.rid \in RequestIDs \cup {NoRequestID} /\ p.tokens \in Tokens
         /\ p.status \in {"stored_only", "invalid_payload"}
         /\ p.status = "invalid_payload" => p.rid = NoRequestID
<1>1. CASE p = Malformed
  BY <1>1 DEF Malformed, Tokens
<1>2. CASE p \in [rid : RequestIDs \cup {NoRequestID}, tokens : Tokens, status : {"stored_only"}]
  BY <1>2
<1> QED
  BY <1>1, <1>2 DEF Payloads

\* The event that is stored gets an id that no event and no row knows.
LEMMA StoreEffect ==
  ASSUME TypeOK, Store
  PROVE  /\ lastId' = lastId + 1 /\ lastId' \notin DOMAIN events
         /\ DOMAIN events' = DOMAIN events \cup {lastId'}
         /\ \A id \in DOMAIN events : events'[id] = events[id]
         /\ events'[lastId'] \in Event
         /\ events'[lastId'].status \in {"stored_only", "invalid_payload"}
         /\ current' \in {0, lastId'}
         /\ current' # 0 => events'[lastId'].status = "stored_only"
         /\ fetched' \in Seq(Payloads)
         /\ UNCHANGED <<clock, rows, poller, merge, popped>>
<1> DEFINE p == Head(fetched)
           e == [rid |-> p.rid, tokens |-> p.tokens, status |-> p.status,
                 received |-> clock, matched |-> 0]
<1>1. p \in Payloads /\ fetched' \in Seq(Payloads)
  BY HeadTailProperties DEF TypeOK, Store
<1> HIDE DEF p
<1>2. e \in Event
  BY <1>1, PayloadTypes DEF Event, Statuses, TypeOK
<1>3. lastId' = lastId + 1 /\ lastId' \notin DOMAIN events
  <2>1. lastId' = lastId + 1
    BY DEF Store
  <2> QED
    BY <2>1, EventsAreEvents
<1>4. /\ events' = [id \in DOMAIN events \cup {lastId'} |->
                     IF id = lastId' THEN e ELSE events[id]]
      /\ current' = IF merge /\ p.rid # NoRequestID THEN lastId' ELSE 0
      /\ UNCHANGED <<clock, rows, poller, merge, popped>>
  BY DEF Store, p
<1>5. /\ e.status = p.status
      /\ e.status \in {"stored_only", "invalid_payload"}
      /\ p.rid # NoRequestID => e.status = "stored_only"
  BY <1>1, PayloadTypes
<1> HIDE DEF e
<1>6. /\ DOMAIN events' = DOMAIN events \cup {lastId'}
      /\ events'[lastId'] = e
      /\ \A id \in DOMAIN events : events'[id] = events[id]
  BY <1>3, <1>4
<1> QED
  BY <1>1, <1>2, <1>3, <1>4, <1>5, <1>6

\* A row is created at a time of the clock.
LEMMA CreatedIsNat ==
  ASSUME TypeOK, NEW age \in 0..FlushDelay, age <= clock
  PROVE  clock - age \in Nat
<1>1. clock \in Nat /\ FlushDelay \in Nat
  BY BoundAssumption DEF TypeOK
<1> QED
  BY <1>1

LEMMA TypeStep == TypeOK /\ MergeInv /\ [Next]_vars => TypeOK'
<1> SUFFICES ASSUME TypeOK, MergeInv, [Next]_vars PROVE TypeOK'
  OBVIOUS
<1> DEFINE Rest == /\ DOMAIN events \subseteq 1..lastId
                   /\ current \in DOMAIN events \cup {0}
                   /\ \A id \in DOMAIN events : events[id] \in Event
                   /\ clock \in Nat /\ lastId \in Nat /\ popped \in Nat
                   /\ fetched \in Seq(Payloads)
                   /\ poller \in {"poll", "process", "cleanup"}
                   /\ merge \in BOOLEAN
<1>0. Rest /\ rows \in Seq(Row)
  BY DEF TypeOK, Row, Event
<1>a. ASSUME Rest', rows' \in Seq(Row) PROVE TypeOK'
  BY <1>a DEF TypeOK, Row, Event
<1>1. CASE Tick
  <2>1. UNCHANGED <<rows, events, lastId, fetched, current, poller, merge, popped>> /\ clock' \in Nat
    BY <1>0, <1>1 DEF Tick, db
  <2> QED
    BY <1>0, <1>a, <2>1
<1>2. ASSUME NEW rid \in RequestIDs, NEW tokens \in Tokens, NEW age \in 0..FlushDelay,
             age <= clock, InsertRow(rid, tokens, clock - age)
      PROVE  TypeOK'
  <2>1. clock - age \in Nat
    BY <1>2, CreatedIsNat
  <2>2. rows' \in Seq(Row)
    BY <1>2, <2>1, InsertRowEffect
  <2>3. UNCHANGED <<clock, events, lastId, fetched, current, poller, merge, popped>>
    BY <1>2 DEF InsertRow
  <2> QED
    BY <1>0, <1>a, <2>2, <2>3
<1>3. ASSUME NEW batch \in UNION {[1..n -> Payloads] : n \in 0..PollBatch}, Fetch(batch)
      PROVE  TypeOK'
  <2>1. batch \in Seq(Payloads)
    BY <1>3, BoundAssumption, SeqDef
  <2>2. Len(batch) \in Nat
    BY <2>1, LenProperties
  <2>3. /\ fetched' = batch /\ popped' = popped + Len(batch) /\ poller' = "process"
        /\ UNCHANGED <<clock, rows, events, lastId, current, merge>>
    BY <1>3 DEF Fetch, db
  <2> QED
    BY <1>0, <1>a, <2>1, <2>2, <2>3
<1>4. CASE Store
  <2>1. /\ DOMAIN events' \subseteq 1..lastId' /\ lastId' \in Nat
        /\ current' \in DOMAIN events' \cup {0}
        /\ \A id \in DOMAIN events' : events'[id] \in Event
    BY <1>0, <1>4, StoreEffect
  <2> QED
    BY <1>0, <1>4, <1>a, <2>1, StoreEffect
<1>5. CASE StoreFails
  <2>1. /\ fetched' \in Seq(Payloads)
        /\ UNCHANGED <<clock, rows, events, lastId, current, poller, merge, popped>>
    BY <1>0, <1>5, HeadTailProperties DEF StoreFails, db
  <2> QED
    BY <1>0, <1>a, <2>1
<1>6. CASE BatchDone
  BY <1>0, <1>6, <1>a DEF BatchDone, db
<1>7. CASE Apply
  <2>1. /\ current \in DOMAIN events /\ current' = 0 /\ Decide(current)
        /\ UNCHANGED <<clock, lastId, fetched, poller, merge, popped>>
    BY <1>0, <1>7 DEF Apply
  <2>2. CASE Refused(current)
    <3>1. PICK st \in {"duplicate", "expired", "unmatched", "conflict"}, r \in Nat : SetStatus(current, st, r)
      BY <2>2 DEF Refused
    <3>2. st \in Statuses
      BY DEF Statuses
    <3>3. /\ DOMAIN events' = DOMAIN events
          /\ \A id \in DOMAIN events' : events'[id] \in Event
      BY <1>0, <2>1, <3>1, <3>2, SetStatusEffect
    <3> QED
      BY <1>0, <1>a, <2>1, <2>2, <3>3 DEF Refused
  <2>3. ASSUME NEW r \in Candidates(current), MatchedTo(current, r)
        PROVE  TypeOK'
    <3>1. r \in DOMAIN rows /\ r \in Nat /\ r \in 1..Len(rows)
      BY <2>3, RowsAreRows DEF Candidates, RowsOf
    <3>2. /\ DOMAIN events' = DOMAIN events
          /\ \A id \in DOMAIN events' : events'[id] \in Event
      BY <1>0, <2>1, <2>3, <3>1, SetStatusEffect DEF MatchedTo, Statuses
    <3>3. rows' \in Seq(Row)
      BY <2>1, <2>3, <3>1, <1>0, EnrichedEffect, ExceptSeq DEF MatchedTo
    <3> QED
      BY <1>0, <1>a, <2>1, <3>2, <3>3
  <2> QED
    BY <2>1, <2>2, <2>3, DecideEffect
<1>8. CASE ApplyFails
  BY <1>0, <1>8, <1>a DEF ApplyFails, db
<1>9. CASE Cleanup
  <2>1. /\ current = 0 /\ poller' = "poll"
        /\ UNCHANGED <<clock, rows, lastId, fetched, current, merge, popped>>
    BY <1>9 DEF Cleanup, MergeInv
  <2>2. /\ DOMAIN events' \subseteq DOMAIN events
        /\ \A id \in DOMAIN events' : events'[id] = events[id]
    BY <1>9 DEF Cleanup, Restrict
  <2> QED
    BY <1>0, <1>a, <2>1, <2>2
<1>10. CASE Restart
  <2>1. <<>> \in Seq(Payloads)
    BY EmptySeq
  <2> QED
    BY <1>0, <1>10, <1>a, <2>1 DEF Restart, db
<1>11. CASE UNCHANGED vars
  BY <1>0, <1>11, <1>a DEF vars, db
<1> QED
  BY <1>1, <1>2, <1>3, <1>4, <1>5, <1>6, <1>7, <1>8, <1>9, <1>10, <1>11 DEF Next
-----------------------------------------------------------------------------
(* Matches *)

SideInv == TypeOK /\ MergeInv /\ MatchIsMutual /\ OneMatchPerRequest

\* A transaction that matches makes the first match of its event and of its
\* row: the event was not matched, so by mutuality no row refers to it, and a
\* row that is not taken refers to no event.
LEMMA MatchPreserves ==
  ASSUME SideInv, current \in DOMAIN events, NEW r \in Candidates(current),
         MatchedTo(current, r), current' = 0, lastId' = lastId
  PROVE  MergeInv' /\ MatchIsMutual' /\ OneMatchPerRequest'
<1>1. /\ r \in DOMAIN rows /\ r \in Nat /\ r \in 1..Len(rows) /\ rows \in Seq(Row)
      /\ rows[r].rid = events[current].rid /\ InWindow(current, r)
      /\ rows[r] \in Row
  BY RowsAreRows DEF Candidates, RowsOf, SideInv
<1>2. /\ DOMAIN events' = DOMAIN events
      /\ events'[current].rid = events[current].rid
      /\ events'[current].received = events[current].received
      /\ events'[current].status = "matched" /\ events'[current].matched = r
      /\ \A other \in DOMAIN events \ {current} : events'[other] = events[other]
  BY <1>1, SetStatusEffect DEF MatchedTo, Statuses, SideInv
<1>3. /\ DOMAIN rows' = DOMAIN rows
      /\ rows'[r] = Enriched(current, r)
      /\ \A q \in DOMAIN rows \ {r} : rows'[q] = rows[q]
  BY <1>1 DEF MatchedTo
<1>4. /\ rows'[r].side = current /\ rows'[r].rid = rows[r].rid
      /\ rows'[r].created = rows[r].created
  BY <1>1, <1>3, EnrichedEffect DEF SideInv
<1>5. current # 0 /\ current \in Nat /\ current <= lastId
      /\ events[current].status = "stored_only" /\ events[current] \in Event
  BY EventsAreEvents DEF SideInv, MergeInv
<1>6. rows[r].side = 0
  BY <1>1, <1>5 DEF MatchedTo, Taken, SideInv, MatchIsMutual
<1>7. MergeInv'
  BY <1>1, <1>2, <1>3, <1>4, <1>5 DEF SideInv, MergeInv
<1>8. MatchIsMutual'
  <2> SUFFICES ASSUME NEW id \in DOMAIN events, NEW q \in DOMAIN rows
               PROVE  /\ (events'[id].status = "matched" /\ events'[id].matched = q)
                            <=> rows'[q].side = id
                      /\ rows'[q].side = id =>
                           /\ rows'[q].rid = events'[id].rid
                           /\ rows'[q].created - events'[id].received \in -MatchTimeout..MatchTimeout
    BY <1>2, <1>3 DEF MatchIsMutual
  <2>1. CASE id = current /\ q = r
    <3>1. rows[r].created - events[current].received \in -MatchTimeout..MatchTimeout
      <4>1. /\ rows[r].created \in Nat /\ events[current].received \in Nat
            /\ MatchTimeout \in Nat
        BY <1>1, <1>5, BoundAssumption DEF Row, Event
      <4> QED
        BY <1>1, <4>1 DEF InWindow
    <3> QED
      BY <1>1, <1>2, <1>4, <2>1, <3>1
  <2>2. CASE id = current /\ q # r
    BY <1>2, <1>3, <1>5, <2>2 DEF SideInv, MatchIsMutual
  <2>3. CASE id # current /\ q = r
    <3>1. id # 0
      BY EventsAreEvents DEF SideInv
    <3>2. ~(events[id].status = "matched" /\ events[id].matched = r)
      BY <1>1, <1>6, <3>1 DEF SideInv, MatchIsMutual
    <3> QED
      BY <1>2, <1>4, <2>3, <3>2
  <2>4. CASE id # current /\ q # r
    BY <1>2, <1>3, <2>4 DEF SideInv, MatchIsMutual
  <2> QED
    BY <2>1, <2>2, <2>3, <2>4
<1>9. OneMatchPerRequest'
  <2> SUFFICES ASSUME NEW id \in DOMAIN events, NEW other \in DOMAIN events,
                      events'[id].status = "matched", events'[other].status = "matched",
                      events'[id].rid = events'[other].rid
               PROVE  id = other
    BY <1>2 DEF OneMatchPerRequest
  <2>1. \A o \in DOMAIN events \ {current} :
          ~(events[o].rid = events[current].rid /\ events[o].status = "matched")
    BY DEF MatchedTo, OtherMatch
  <2> QED
    BY <1>2, <2>1 DEF SideInv, OneMatchPerRequest
<1> QED
  BY <1>7, <1>8, <1>9

LEMMA MatchStep ==
  SideInv /\ [Next]_vars => MergeInv' /\ MatchIsMutual' /\ OneMatchPerRequest'
<1> SUFFICES ASSUME SideInv, [Next]_vars
             PROVE  MergeInv' /\ MatchIsMutual' /\ OneMatchPerRequest'
  OBVIOUS
<1>0. TypeOK
  BY DEF SideInv
<1>a. ASSUME UNCHANGED <<rows, events, lastId>>,
             current' = 0 \/ (current' = current /\ poller' = poller)
      PROVE  MergeInv' /\ MatchIsMutual' /\ OneMatchPerRequest'
  BY <1>a DEF SideInv, MergeInv, MatchIsMutual, OneMatchPerRequest
<1>1. CASE Tick \/ StoreFails \/ ApplyFails
  BY <1>1, <1>a DEF Tick, StoreFails, ApplyFails, db
<1>2. ASSUME NEW rid \in RequestIDs, NEW tokens \in Tokens, NEW age \in 0..FlushDelay,
             age <= clock, InsertRow(rid, tokens, clock - age)
      PROVE  MergeInv' /\ MatchIsMutual' /\ OneMatchPerRequest'
  <2> DEFINE n == Len(rows) + 1
  <2>1. clock - age \in Nat
    BY <1>0, <1>2, CreatedIsNat
  <2>2. /\ DOMAIN rows' = DOMAIN rows \cup {n} /\ n \notin DOMAIN rows
        /\ rows'[n].side = 0 /\ \A r \in DOMAIN rows : rows'[r] = rows[r]
    BY <1>0, <1>2, <2>1, InsertRowEffect
  <2>3. UNCHANGED <<events, lastId, current, poller>>
    BY <1>2 DEF InsertRow
  <2>4. lastId \in Nat /\ 0 \notin DOMAIN events
    BY <1>0, EventsAreEvents
  <2> HIDE DEF n
  <2>5. MergeInv' /\ OneMatchPerRequest'
    BY <2>2, <2>3, <2>4 DEF SideInv, MergeInv, OneMatchPerRequest
  <2>6. \A id \in DOMAIN events : ~(events[id].status = "matched" /\ events[id].matched = n)
    BY <2>2 DEF SideInv, MergeInv
  <2>7. MatchIsMutual'
    BY <2>2, <2>3, <2>4, <2>6 DEF SideInv, MatchIsMutual
  <2> QED
    BY <2>5, <2>7
<1>3. ASSUME NEW batch \in UNION {[1..n -> Payloads] : n \in 0..PollBatch}, Fetch(batch)
      PROVE  MergeInv' /\ MatchIsMutual' /\ OneMatchPerRequest'
  <2>1. current = 0
    BY <1>3 DEF Fetch, SideInv, MergeInv
  <2> QED
    BY <1>3, <1>a, <2>1 DEF Fetch, db
<1>4. CASE Store
  <2> DEFINE new == lastId'
  <2>1. /\ new = lastId + 1 /\ new \notin DOMAIN events /\ lastId \in Nat
        /\ DOMAIN events' = DOMAIN events \cup {new}
        /\ \A id \in DOMAIN events : events'[id] = events[id]
        /\ events'[new].status # "matched"
        /\ current' \in {0, new}
        /\ current' # 0 => events'[new].status = "stored_only"
        /\ UNCHANGED <<rows, poller>> /\ poller = "process"
    BY <1>0, <1>4, StoreEffect, EventsAreEvents DEF Store
  <2>2. \A r \in DOMAIN rows : rows[r].side # new /\ rows[r].side <= new
    <3>1. \A r \in DOMAIN rows : rows[r].side \in Nat /\ rows[r].side <= lastId
      BY <1>0, RowsAreRows DEF SideInv, MergeInv, Row
    <3> QED
      BY <2>1, <3>1
  <2>3. MergeInv'
    <3>1. \A r \in DOMAIN rows' : rows'[r].side <= lastId'
      BY <2>1, <2>2
    <3>2. \A id \in DOMAIN events' :
            events'[id].status = "matched" => events'[id].matched \in DOMAIN rows'
      BY <2>1 DEF SideInv, MergeInv
    <3>3. current' # 0 => events'[current'].status = "stored_only" /\ poller' = "process"
      BY <2>1
    <3> QED
      BY <3>1, <3>2, <3>3 DEF MergeInv
  <2>4. MatchIsMutual'
    BY <2>1, <2>2 DEF SideInv, MatchIsMutual
  <2>5. OneMatchPerRequest'
    BY <2>1 DEF SideInv, OneMatchPerRequest
  <2> QED
    BY <2>3, <2>4, <2>5
<1>5. CASE BatchDone
  BY <1>5, <1>a DEF BatchDone, db
<1>6. CASE Apply
  <2>1. /\ current \in DOMAIN events /\ current' = 0 /\ Decide(current) /\ lastId' = lastId
        /\ events[current].status = "stored_only"
    BY <1>0, <1>6 DEF Apply, TypeOK, SideInv, MergeInv
  <2>2. CASE Refused(current)
    <3>1. PICK st \in {"duplicate", "expired", "unmatched", "conflict"}, r \in Nat : SetStatus(current, st, r)
      BY <2>2 DEF Refused
    <3>2. st \in Statuses
      BY DEF Statuses
    <3>3. /\ DOMAIN events' = DOMAIN events /\ events'[current].status # "matched"
          /\ \A other \in DOMAIN events \ {current} : events'[other] = events[other]
          /\ rows' = rows
      BY <1>0, <2>1, <2>2, <3>1, <3>2, SetStatusEffect DEF Refused
    <3>4. MergeInv' /\ OneMatchPerRequest'
      BY <2>1, <3>3 DEF SideInv, MergeInv, OneMatchPerRequest
    <3>5. MatchIsMutual'
      BY <2>1, <3>3 DEF SideInv, MatchIsMutual
    <3> QED
      BY <3>4, <3>5
  <2>3. ASSUME NEW r \in Candidates(current), MatchedTo(current, r)
        PROVE  MergeInv' /\ MatchIsMutual' /\ OneMatchPerRequest'
    BY <2>1, <2>3, MatchPreserves
  <2> QED
    BY <1>0, <2>1, <2>2, <2>3, DecideEffect
<1>7. CASE Cleanup
  <2>1. current = 0 /\ UNCHANGED <<rows, lastId, current>>
    BY <1>7 DEF Cleanup, SideInv, MergeInv
  <2>2. /\ DOMAIN events' \subseteq DOMAIN events
        /\ \A id \in DOMAIN events' : events'[id] = events[id]
    BY <1>7 DEF Cleanup, Restrict
  <2> QED
    BY <2>1, <2>2 DEF SideInv, MergeInv, MatchIsMutual, OneMatchPerRequest
<1>8. CASE Restart
  BY <1>8, <1>a DEF Restart, db
<1>9. CASE UNCHANGED vars
  BY <1>9, <1>a DEF vars, db
<1> QED
  BY <1>1, <1>2, <1>3, <1>4, <1>5, <1>6, <1>7, <1>8, <1>9 DEF Next

LEMMA SideInvariant == Spec => []SideInv
<1>1. Init => SideInv
  BY SideInit DEF SideInv
<1>2. SideInv /\ [Next]_vars => SideInv'
  BY TypeStep, MatchStep DEF SideInv
<1> QED
  BY <1>1, <1>2, PTL DEF Spec

\* Every reachable state is well typed; in particular the event that the poller
\* is about to apply has not been deleted (processPayload, run).
THEOREM SideTypeCorrect == Spec => []TypeOK
<1>1. SideInv => TypeOK
  BY DEF SideInv
<1> QED
  BY <1>1, SideInvariant, PTL

\* An event and a row agree on their match, through failed transactions,
\* retention and restarts (ApplySideUsageEvent).
THEOREM MatchesAreMutual == Spec => []MatchIsMutual
<1>1. SideInv => MatchIsMutual
  BY DEF SideInv
<1> QED
  BY <1>1, SideInvariant, PTL

\* However often a client reuses a request id, one stored event matches it.
THEOREM OneMatch == Spec => []OneMatchPerRequest
<1>1. SideInv => OneMatchPerRequest
  BY DEF SideInv
<1> QED
  BY <1>1, SideInvariant, PTL
-----------------------------------------------------------------------------
(* What a row has is not replaced *)

\* Only a match changes a row that is there, and it is the row's first.
LEMMA RowStep ==
  ASSUME SideInv, [Next]_vars, NEW r \in DOMAIN rows
  PROVE  /\ rows[r].side # 0 => rows'[r].side = rows[r].side
         /\ rows[r].tokens # NoUsage => /\ rows'[r].tokens = rows[r].tokens
                                        /\ rows'[r].source = rows[r].source
<1>0. TypeOK
  BY DEF SideInv
<1>1. ASSUME NEW rid \in RequestIDs, NEW tokens \in Tokens, NEW age \in 0..FlushDelay,
             age <= clock, InsertRow(rid, tokens, clock - age)
      PROVE  rows'[r] = rows[r]
  <2>1. clock - age \in Nat
    BY <1>0, <1>1, CreatedIsNat
  <2> QED
    BY <1>0, <1>1, <2>1, InsertRowEffect
<1>2. CASE Apply
  <2>1. /\ current \in DOMAIN events /\ Decide(current)
        /\ current # 0 /\ events[current].status = "stored_only"
    BY <1>0, <1>2 DEF Apply, TypeOK, SideInv, MergeInv
  <2>2. CASE Refused(current)
    BY <2>2 DEF Refused
  <2>3. ASSUME NEW q \in Candidates(current), MatchedTo(current, q)
        PROVE  /\ rows[r].side # 0 => rows'[r].side = rows[r].side
               /\ rows[r].tokens # NoUsage => /\ rows'[r].tokens = rows[r].tokens
                                              /\ rows'[r].source = rows[r].source
    <3>1. q \in DOMAIN rows /\ rows[q].side \in {0, current}
      BY <2>3 DEF Candidates, RowsOf, MatchedTo, Taken
    <3>2. rows[q].side = 0
      BY <2>1, <3>1 DEF SideInv, MatchIsMutual
    <3>3. rows' = [rows EXCEPT ![q] = Enriched(current, q)]
      BY <2>3 DEF MatchedTo
    <3>4. CASE r = q
      BY <1>0, <2>1, <3>1, <3>2, <3>3, <3>4, EnrichedEffect
    <3>5. CASE r # q
      BY <3>1, <3>3, <3>5
    <3> QED
      BY <3>4, <3>5
  <2> QED
    BY <1>0, <2>1, <2>2, <2>3, DecideEffect
<1>3. CASE Store
  BY <1>3 DEF Store
<1>4. CASE Tick \/ StoreFails \/ BatchDone \/ ApplyFails \/ Cleanup \/ Restart
  BY <1>4 DEF Tick, StoreFails, BatchDone, ApplyFails, Cleanup, Restart, db
<1>5. ASSUME NEW batch \in UNION {[1..n -> Payloads] : n \in 0..PollBatch}, Fetch(batch)
      PROVE  rows' = rows
  BY <1>5 DEF Fetch, db
<1>6. CASE UNCHANGED vars
  BY <1>6 DEF vars, db
<1> QED
  BY <1>1, <1>2, <1>3, <1>4, <1>5, <1>6 DEF Next

\* A row keeps the event it was matched with, the event deleted or not.
THEOREM MatchesAreFinal == Spec => MatchIsFinal
<1>1. SideInv /\ [Next]_vars =>
        [\A r \in DOMAIN rows : rows[r].side # 0 => rows'[r].side = rows[r].side]_vars
  BY RowStep
<1> QED
  BY <1>1, SideInvariant, PTL DEF Spec, MatchIsFinal

\* No event replaces usage that a row has, nor the record of where it came
\* from.
THEOREM UsageIsNeverReplaced == Spec => UsageIsKept
<1>1. SideInv /\ [Next]_vars =>
        [\A r \in DOMAIN rows :
           rows[r].tokens # NoUsage =>
             /\ rows'[r].tokens = rows[r].tokens
             /\ rows'[r].source = rows[r].source]_vars
  BY RowStep
<1> QED
  BY <1>1, SideInvariant, PTL DEF Spec, UsageIsKept
=============================================================================
