------------------------------ MODULE SideUsage ------------------------------
(***************************************************************************)
(* The CLIProxyAPI usage queue: internal/usagequeue/poller.go pops side     *)
(* events from a queue that does not keep them, stores each one in          *)
(* side_usage_events and merges it, by request id, into request_usage       *)
(* (ApplySideUsageEvent of internal/db/db.go).  The rows of request_usage   *)
(* come from the batch writer, some time after the request.                 *)
(*                                                                          *)
(* All writes go through one SQLite connection, so each transaction is a    *)
(* step; between two of them the process may end and be started again,      *)
(* perhaps with another setting of the request merge.                       *)
(*                                                                          *)
(* Operators named Bug... are what the definition below each of them would  *)
(* be after a plausible slip; the properties are tested against them.       *)
(***************************************************************************)
EXTENDS Integers, Sequences, FiniteSets, Functions

CONSTANTS
  RequestIDs,    \* the request ids that occur
  NoRequestID,   \* the empty request_id
  Usages,        \* token counts, not all zero
  NoUsage,       \* all token fields zero
  MatchTimeout,  \* usage_queue.match_timeout
  Retention,     \* usage_queue.event_retention, positive
  FlushDelay,    \* longest time between created_at and the insertion
  MaxRows, MaxPayloads, PollBatch, MaxTime   \* bounds of the model

ASSUME IdAssumption == NoRequestID \notin RequestIDs /\ NoUsage \notin Usages
ASSUME BoundAssumption ==
  {MatchTimeout, Retention, FlushDelay, MaxRows, MaxPayloads, PollBatch, MaxTime}
    \subseteq Nat

VARIABLES
  clock,
  rows,      \* request_usage; the position of a row is its id
  events,    \* side_usage_events, a function on the ids still stored
  lastId,    \* the AUTOINCREMENT sequence of side_usage_events
  fetched,   \* payloads popped from the queue and not yet stored
  current,   \* id of the event stored and not yet applied, 0 for none
  poller,    \* where the poller goroutine stands
  merge,     \* allowRequestMerge of this process
  popped     \* number of payloads popped so far

db == <<rows, events, lastId>>
vars == <<clock, db, fetched, current, poller, merge, popped>>

Tokens == Usages \cup {NoUsage}

\* A payload as parsePayload sees it.
Malformed == [rid |-> NoRequestID, tokens |-> NoUsage, status |-> "invalid_payload"]
Payloads == [rid : RequestIDs \cup {NoRequestID}, tokens : Tokens,
             status : {"stored_only"}] \cup {Malformed}

Statuses == {"stored_only", "invalid_payload", "unmatched", "duplicate",
             "expired", "conflict", "matched"}

Init ==
  /\ clock = 0
  /\ rows = <<>> /\ events = <<>> /\ lastId = 0
  /\ fetched = <<>> /\ current = 0 /\ poller = "poll"
  /\ merge \in BOOLEAN
  /\ popped = 0

Tick ==
  /\ clock < MaxTime
  /\ clock' = clock + 1
  /\ UNCHANGED <<db, fetched, current, poller, merge, popped>>

\* The batch writer inserts the row of a request that began up to FlushDelay
\* ago, with the usage the proxy read from the response, if any.
InsertRow(rid, tokens, created) ==
  /\ Len(rows) < MaxRows
  /\ rows' = Append(rows,
       [rid |-> rid, created |-> created, tokens |-> tokens, side |-> 0,
        source |-> IF tokens = NoUsage THEN "" ELSE "http_response"])
  /\ UNCHANGED <<clock, events, lastId, fetched, current, poller, merge, popped>>
-----------------------------------------------------------------------------
(* pollHTTPBatch, pollBatch: pop, then processPayload one by one *)

Fetch(batch) ==
  /\ poller = "poll"
  /\ popped + Len(batch) <= MaxPayloads
  /\ fetched' = batch
  /\ popped' = popped + Len(batch)
  /\ poller' = "process"
  /\ UNCHANGED <<clock, db, current, merge>>

\* InsertSideUsageEvent.  An event without a request id is not applied.
Store ==
  /\ poller = "process" /\ current = 0
  /\ fetched # <<>>
  /\ LET p == Head(fetched)
         e == [rid |-> p.rid, tokens |-> p.tokens, status |-> p.status,
               received |-> clock, matched |-> 0]
     IN /\ lastId' = lastId + 1
        /\ events' = [id \in DOMAIN events \cup {lastId'} |->
                        IF id = lastId' THEN e ELSE events[id]]
        /\ current' = IF merge /\ p.rid # NoRequestID THEN lastId' ELSE 0
  /\ fetched' = Tail(fetched)
  /\ UNCHANGED <<clock, rows, poller, merge, popped>>

\* The insert fails and the popped payload is gone.
StoreFails ==
  /\ poller = "process" /\ current = 0
  /\ fetched # <<>>
  /\ fetched' = Tail(fetched)
  /\ UNCHANGED <<clock, db, current, poller, merge, popped>>

BatchDone ==
  /\ poller = "process" /\ current = 0
  /\ fetched = <<>>
  /\ poller' = "cleanup"
  /\ UNCHANGED <<clock, db, fetched, current, merge, popped>>
-----------------------------------------------------------------------------
(* ApplySideUsageEvent, one transaction *)

\* The query for an event already matched is left out.
BugNoMatchLookup(id) == FALSE

OtherMatch(id) ==
  \E other \in DOMAIN events \ {id} :
    events[other].rid = events[id].rid /\ events[other].status = "matched"

RowsOf(id) == {r \in DOMAIN rows : rows[r].rid = events[id].rid}

InWindow(id, r) ==
  /\ events[id].received - MatchTimeout <= rows[r].created
  /\ rows[r].created <= events[id].received + MatchTimeout

Candidates(id) == {r \in RowsOf(id) : InWindow(id, r)}

\* ORDER BY id ASC LIMIT 1
Candidate(id) == CHOOSE r \in Candidates(id) : \A q \in Candidates(id) : r <= q

\* The row's reference is not looked at.
BugReferenceIgnored(id, r) == FALSE

Taken(id, r) == rows[r].side \notin {0, id}

Conflict(id, r) ==
  /\ rows[r].tokens # NoUsage /\ events[id].tokens # NoUsage
  /\ rows[r].tokens # events[id].tokens

\* The usage of the event is copied without looking at the row's.
BugOverwrites(id, r) ==
  IF events[id].tokens # NoUsage
    THEN [rows[r] EXCEPT !.tokens = events[id].tokens, !.side = id,
                         !.source = "cliproxy_side_channel"]
    ELSE [rows[r] EXCEPT !.side = id]

\* The row that is matched takes the usage of the event when it has none.
Enriched(id, r) ==
  IF rows[r].tokens = NoUsage /\ events[id].tokens # NoUsage
    THEN [rows[r] EXCEPT !.tokens = events[id].tokens, !.side = id,
                         !.source = "cliproxy_side_channel"]
    ELSE [rows[r] EXCEPT !.side = id]

SetStatus(id, status, r) ==
  events' = [events EXCEPT ![id].status = status, ![id].matched = r]

Decide(id) ==
  IF OtherMatch(id)
    THEN SetStatus(id, "duplicate", 0) /\ UNCHANGED rows
  ELSE IF Candidates(id) = {}
    THEN /\ SetStatus(id, IF RowsOf(id) # {} THEN "expired" ELSE "unmatched", 0)
         /\ UNCHANGED rows
  ELSE LET r == Candidate(id)
       IN CASE Taken(id, r)    -> SetStatus(id, "duplicate", r) /\ UNCHANGED rows
            [] ~Taken(id, r) /\ Conflict(id, r)
                               -> SetStatus(id, "conflict", r) /\ UNCHANGED rows
            [] OTHER           -> /\ SetStatus(id, "matched", r)
                                  /\ rows' = [rows EXCEPT ![r] = Enriched(id, r)]

Apply ==
  /\ current # 0
  /\ Decide(current)
  /\ current' = 0
  /\ UNCHANGED <<clock, lastId, fetched, poller, merge, popped>>

\* Without a transaction the row is updated and the event is not.
BugNoTransaction ==
  /\ current # 0
  /\ Candidates(current) # {} /\ ~OtherMatch(current)
  /\ ~Taken(current, Candidate(current)) /\ ~Conflict(current, Candidate(current))
  /\ rows' = [rows EXCEPT ![Candidate(current)] = Enriched(current, Candidate(current))]
  /\ current' = 0
  /\ UNCHANGED <<clock, events, lastId, fetched, poller, merge, popped>>

\* The transaction is rolled back; the event keeps its status for ever.
ApplyFails ==
  /\ current # 0
  /\ current' = 0
  /\ UNCHANGED <<clock, db, fetched, poller, merge, popped>>
-----------------------------------------------------------------------------
(* Retention, restart *)

\* DeleteStaleSideUsageEvents; a failure is logged and leaves the events.
Cleanup ==
  /\ poller = "cleanup"
  /\ poller' = "poll"
  /\ \/ events' = Restrict(events,
                    {id \in DOMAIN events : events[id].received >= clock - Retention})
     \/ UNCHANGED events
  /\ UNCHANGED <<clock, rows, lastId, fetched, current, merge, popped>>

\* The process ends and another one starts: what it had popped is lost.
Restart ==
  /\ poller' = "poll"
  /\ fetched' = <<>>
  /\ current' = 0
  /\ merge' \in BOOLEAN
  /\ UNCHANGED <<clock, db, popped>>

Next ==
  \/ Tick
  \/ \E rid \in RequestIDs, tokens \in Tokens, age \in 0..FlushDelay :
       age <= clock /\ InsertRow(rid, tokens, clock - age)
  \/ \E batch \in UNION {[1..n -> Payloads] : n \in 0..PollBatch} : Fetch(batch)
  \/ Store \/ StoreFails \/ BatchDone
  \/ Apply \/ ApplyFails
  \/ Cleanup \/ Restart

Spec == Init /\ [][Next]_vars
-----------------------------------------------------------------------------
(* Properties *)

\* Every variable has its type, and the event that is about to be applied is
\* still stored (the retention runs on the poller's goroutine).
TypeOK ==
  /\ clock \in Nat /\ lastId \in Nat /\ popped \in Nat
  /\ rows \in Seq([rid : RequestIDs, created : Nat, tokens : Tokens, side : Nat,
                   source : {"", "http_response", "cliproxy_side_channel"}])
  /\ DOMAIN events \subseteq 1..lastId
  /\ current \in DOMAIN events \cup {0}
  /\ \A id \in DOMAIN events :
       events[id] \in [rid : RequestIDs \cup {NoRequestID}, tokens : Tokens,
                       status : Statuses, received : Nat, matched : Nat]
  /\ fetched \in Seq(Payloads)
  /\ poller \in {"poll", "process", "cleanup"}
  /\ merge \in BOOLEAN

\* A stored event says it is matched to a row exactly when the row refers to
\* it, whatever transactions failed and wherever the process was restarted;
\* the two have the same request id and are within the match timeout.
MatchIsMutual ==
  \A id \in DOMAIN events, r \in DOMAIN rows :
    /\ (events[id].status = "matched" /\ events[id].matched = r)
         <=> rows[r].side = id
    /\ rows[r].side = id =>
         /\ rows[r].rid = events[id].rid
         /\ rows[r].created - events[id].received \in -MatchTimeout..MatchTimeout

\* A request id is matched by one stored event at most, even when a client
\* reused the id for several rows with match windows that do not overlap.
OneMatchPerRequest ==
  \A id, other \in DOMAIN events :
    /\ events[id].status = "matched" /\ events[other].status = "matched"
    /\ events[id].rid = events[other].rid
    => id = other

\* Merge rules 1, 3 and 4: usage that is there, from the response or from an
\* earlier event, is never replaced, and neither is where it came from.
UsageIsKept ==
  [][\A r \in DOMAIN rows :
       rows[r].tokens # NoUsage =>
         /\ rows'[r].tokens = rows[r].tokens
         /\ rows'[r].source = rows[r].source]_vars

\* A row is enriched at most once: after retention has deleted the event it
\* was matched with, a late event of the same request cannot take its place.
MatchIsFinal ==
  [][\A r \in DOMAIN rows : rows[r].side # 0 => rows'[r].side = rows[r].side]_vars

\* Merge rule 2 of the design: HTTP found no usage, the side channel has an
\* exact match with usage, so the usage is written; also into a row that the
\* batch writer flushes after the poller has seen the event.
LateRowIsMerged ==
  \A id \in DOMAIN events :
    events[id].status = "unmatched" /\ events[id].tokens # NoUsage =>
      \A r \in Candidates(id) : rows[r].tokens # NoUsage
=============================================================================
