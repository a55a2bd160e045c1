----------------------------- MODULE BatchWriter -----------------------------
(***************************************************************************)
(* The asynchronous batch writer of internal/writer/writer.go: proxy        *)
(* handlers call Enqueue concurrently, one goroutine runs loop, and         *)
(* somebody calls Start and Stop.  The handler that records event e and e   *)
(* itself are identified, because a request records one event.              *)
(*                                                                          *)
(* Every atomic operation of the code is a step of its own: Enqueue reads   *)
(* stopped, then tries the channel, then adds to queueDepth; a flush        *)
(* inserts, perhaps inserts again, and subtracts from queueDepth; Stop sets *)
(* stopped and then closes stopCh.  The copy of queueDepth that is exported *)
(* as a metric is left out.                                                 *)
(*                                                                          *)
(* Operators named Bug... are what the definition below each of them would  *)
(* be after a plausible slip; the properties are tested against them.       *)
(***************************************************************************)
EXTENDS Integers, Sequences, FiniteSets, Functions

CONSTANTS Events,         \* the events offered, one per handler goroutine
          QueueCapacity,  \* capacity of the channel queue
          BatchSize       \* batch length that triggers a flush

\* config.go keeps queue_capacity and batch_size positive and the batch no
\* longer than the queue.
ASSUME CapacityAssumption ==
  /\ QueueCapacity \in Nat \ {0}
  /\ BatchSize \in 1..QueueCapacity

ASSUME EventsAssumption == IsFiniteSet(Events)

VARIABLES
  queue,          \* the buffered channel
  queueDepth,     \* the atomic counter of the same name
  droppedEvents,  \* events Enqueue gave up on
  dbWriteErrors,  \* batches whose retry failed too
  started, stopped, stopClosed,   \* the two CAS flags and close(stopCh)
  caller,         \* where the goroutine that records an event stands
  stopper,        \* where the caller of Stop stands
  loop, mode,     \* where loop stands; running, draining, or last flush
  batch,          \* loop's local batch
  rows,           \* request_usage, in insertion order
  lost,           \* history: events of the batches given up
  owed            \* history: what the channel had taken when stopCh closed

loopVars == <<loop, mode, batch>>
stopVars == <<started, stopped, stopClosed, stopper, owed>>
dbVars   == <<rows, lost, dbWriteErrors>>
vars == <<queue, queueDepth, droppedEvents, caller, loopVars, stopVars, dbVars>>

\* The caller's positions after its event went into the channel.
InChannelStates == {"count", "accepted"}
CallerStates == InChannelStates \cup {"idle", "send", "rejected"}
LoopStates == {"off", "select", "insert", "retry", "settle", "done"}

Sent == {e \in Events : caller[e] \in InChannelStates}
Rejected == {e \in Events : caller[e] = "rejected"}

Init ==
  /\ queue = <<>> /\ queueDepth = 0 /\ droppedEvents = 0
  /\ dbWriteErrors = 0
  /\ started = FALSE /\ stopped = FALSE /\ stopClosed = FALSE
  /\ caller = [e \in Events |-> "idle"]
  /\ stopper = "idle"
  /\ loop = "off" /\ mode = "run" /\ batch = <<>>
  /\ rows = <<>> /\ lost = {} /\ owed = {}
-----------------------------------------------------------------------------
(* Enqueue *)

EnqueueCheck(e) ==
  /\ caller[e] = "idle"
  /\ IF stopped
       THEN /\ caller' = [caller EXCEPT ![e] = "rejected"]
            /\ droppedEvents' = droppedEvents + 1
       ELSE /\ caller' = [caller EXCEPT ![e] = "send"]
            /\ UNCHANGED droppedEvents
  /\ UNCHANGED <<queue, queueDepth, loopVars, stopVars, dbVars>>

\* The select with a default: never blocks the handler.
EnqueueSend(e) ==
  /\ caller[e] = "send"
  /\ IF Len(queue) < QueueCapacity
       THEN /\ queue' = Append(queue, e)
            /\ caller' = [caller EXCEPT ![e] = "count"]
            /\ UNCHANGED droppedEvents
       ELSE /\ caller' = [caller EXCEPT ![e] = "rejected"]
            /\ droppedEvents' = droppedEvents + 1
            /\ UNCHANGED queue
  /\ UNCHANGED <<queueDepth, loopVars, stopVars, dbVars>>

EnqueueCount(e) ==
  /\ caller[e] = "count"
  /\ queueDepth' = queueDepth + 1
  /\ caller' = [caller EXCEPT ![e] = "accepted"]
  /\ UNCHANGED <<queue, droppedEvents, loopVars, stopVars, dbVars>>

Enqueue(e) == EnqueueCheck(e) \/ EnqueueSend(e) \/ EnqueueCount(e)
-----------------------------------------------------------------------------
(* Start and Stop *)

Start ==
  /\ ~started
  /\ started' = TRUE
  /\ loop' = "select"
  /\ UNCHANGED <<queue, queueDepth, droppedEvents, caller, mode, batch,
                 stopped, stopClosed, stopper, owed, dbVars>>

\* A second call of Stop loses the CAS and returns at once: no step.
StopMark ==
  /\ ~stopped
  /\ stopped' = TRUE
  /\ stopper' = "close"
  /\ UNCHANGED <<queue, queueDepth, droppedEvents, caller, loopVars,
                 started, stopClosed, owed, dbVars>>

StopClose ==
  /\ stopper = "close"
  /\ stopClosed' = TRUE
  /\ owed' = Sent
  /\ stopper' = "wait"
  /\ UNCHANGED <<queue, queueDepth, droppedEvents, caller, loopVars,
                 started, stopped, dbVars>>

\* wg.Wait: there is nobody to wait for when Start was never called.
StopReturn ==
  /\ stopper = "wait"
  /\ loop \in {"off", "done"}
  /\ stopper' = "returned"
  /\ UNCHANGED <<queue, queueDepth, droppedEvents, caller, loopVars,
                 started, stopped, stopClosed, owed, dbVars>>
-----------------------------------------------------------------------------
(* loop *)

Receive ==
  /\ loop = "select" /\ mode \in {"run", "drain"}
  /\ queue # <<>>
  /\ queue' = Tail(queue)
  /\ batch' = Append(batch, Head(queue))
  /\ loop' = IF Len(batch) + 1 >= BatchSize THEN "insert" ELSE "select"
  /\ UNCHANGED <<queueDepth, droppedEvents, caller, mode,
                 stopVars, dbVars>>

\* The ticker is forgotten: only full batches are flushed.
BugNoTick == FALSE

\* A tick with an empty batch returns from flush at once: no step.
Tick ==
  /\ loop = "select" /\ mode = "run"
  /\ batch # <<>>
  /\ loop' = "insert"
  /\ UNCHANGED <<queue, queueDepth, droppedEvents, caller, mode, batch,
                 stopVars, dbVars>>

SeeStop ==
  /\ loop = "select" /\ mode = "run"
  /\ stopClosed
  /\ mode' = "drain"
  /\ UNCHANGED <<queue, queueDepth, droppedEvents, caller, loop, batch,
                 stopVars, dbVars>>

\* The drain returns without the last flush.
BugNoLastFlush ==
  /\ loop = "select" /\ mode = "drain"
  /\ queue = <<>>
  /\ mode' = "leave"
  /\ loop' = "done"
  /\ UNCHANGED <<queue, queueDepth, droppedEvents, caller, batch,
                 stopVars, dbVars>>

\* The drain breaks out of the select where it should return from loop.
BugBreakForReturn ==
  /\ loop = "select" /\ mode = "drain"
  /\ queue = <<>> /\ batch # <<>>
  /\ loop' = "insert"
  /\ UNCHANGED <<queue, queueDepth, droppedEvents, caller, mode, batch,
                 stopVars, dbVars>>

\* The inner default: the queue looked empty, flush and return.
Drained ==
  /\ loop = "select" /\ mode = "drain"
  /\ queue = <<>>
  /\ mode' = "leave"
  /\ loop' = IF batch = <<>> THEN "done" ELSE "insert"
  /\ UNCHANGED <<queue, queueDepth, droppedEvents, caller, batch,
                 stopVars, dbVars>>

\* InsertBatch is one transaction: the whole batch, or nothing and an error.
InsertSucceeds ==
  /\ loop \in {"insert", "retry"}
  /\ rows' = rows \o batch
  /\ loop' = "settle"
  /\ UNCHANGED <<queue, queueDepth, droppedEvents, caller, mode, batch,
                 stopVars, lost, dbWriteErrors>>

\* InsertBatch without its transaction: it fails after the first row.
BugPartialInsert ==
  /\ loop = "insert"
  /\ loop' = "retry"
  /\ rows' = Append(rows, Head(batch))
  /\ UNCHANGED <<queue, queueDepth, droppedEvents, caller, mode, batch,
                 stopVars, lost, dbWriteErrors>>

InsertFails ==
  /\ loop = "insert"
  /\ loop' = "retry"
  /\ UNCHANGED <<queue, queueDepth, droppedEvents, caller, mode, batch,
                 stopVars, dbVars>>

\* flush returns early after the second error, past the subtraction.
BugErrorReturns ==
  /\ loop = "retry"
  /\ dbWriteErrors' = dbWriteErrors + 1
  /\ lost' = lost \cup Range(batch)
  /\ batch' = <<>>
  /\ loop' = IF mode = "leave" THEN "done" ELSE "select"
  /\ UNCHANGED <<queue, queueDepth, droppedEvents, caller, mode,
                 stopVars, rows>>

RetryFails ==
  /\ loop = "retry"
  /\ dbWriteErrors' = dbWriteErrors + 1
  /\ lost' = lost \cup Range(batch)
  /\ loop' = "settle"
  /\ UNCHANGED <<queue, queueDepth, droppedEvents, caller, mode, batch,
                 stopVars, rows>>

\* flush does not empty the batch.
BugBatchKept ==
  /\ loop = "settle"
  /\ queueDepth' = queueDepth - Len(batch)
  /\ loop' = IF mode = "leave" THEN "done" ELSE "select"
  /\ UNCHANGED <<queue, droppedEvents, caller, mode, batch, stopVars, dbVars>>

FlushSettle ==
  /\ loop = "settle"
  /\ queueDepth' = queueDepth - Len(batch)
  /\ batch' = <<>>
  /\ loop' = IF mode = "leave" THEN "done" ELSE "select"
  /\ UNCHANGED <<queue, droppedEvents, caller, mode, stopVars, dbVars>>

Flush == InsertSucceeds \/ InsertFails \/ RetryFails \/ FlushSettle

Loop == Receive \/ Tick \/ SeeStop \/ Drained \/ Flush

Next ==
  \/ \E e \in Events : Enqueue(e)
  \/ Start \/ StopMark \/ StopClose \/ StopReturn
  \/ Loop

Spec == Init /\ [][Next]_vars
-----------------------------------------------------------------------------
(* Properties *)

\* Every variable has its type, and the channel and the batch stay within the
\* configured limits.
TypeOK ==
  /\ queue \in Seq(Events) /\ Len(queue) <= QueueCapacity
  /\ batch \in Seq(Events) /\ Len(batch) <= BatchSize
  /\ rows \in Seq(Events)
  /\ lost \subseteq Events /\ owed \subseteq Events
  /\ queueDepth \in Int
  /\ droppedEvents \in Nat /\ dbWriteErrors \in Nat
  /\ started \in BOOLEAN /\ stopped \in BOOLEAN /\ stopClosed \in BOOLEAN
  /\ caller \in [Events -> CallerStates]
  /\ stopper \in {"idle", "close", "wait", "returned"}
  /\ loop \in LoopStates
  /\ mode \in {"run", "drain", "leave"}

\* The part of loop's batch that the database has not answered for yet.
Unsettled == IF loop = "settle" THEN <<>> ELSE batch

\* An event the channel took is in exactly one place, once: waiting in the
\* channel, waiting in the batch, a row of request_usage, or lost with a batch
\* that failed twice (Enqueue and flush: no event billed twice, none vanishing).
ExactlyOnePlace ==
  /\ Sent = Range(queue) \cup Range(Unsettled) \cup Range(rows) \cup lost
  /\ IsInjective(queue) /\ IsInjective(Unsettled) /\ IsInjective(rows)
  /\ Range(queue) \cap Range(Unsettled) = {}
  /\ (Range(queue) \cup Range(Unsettled)) \cap (Range(rows) \cup lost) = {}
  /\ Range(rows) \cap lost = {}

\* The events whose sender has not counted them yet.
Uncounted == {e \in Events : caller[e] = "count"}

\* queueDepth is off the number of unflushed events by exactly the senders
\* between their channel send and their atomic add, so it may dip below zero
\* but never drifts, failed batches included.
DepthAccounting ==
  queueDepth = Len(queue) + Len(batch) - Cardinality(Uncounted)

\* When loop has returned, whatever the channel held when Stop closed stopCh
\* has been inserted or given up after a retry; what remains in the channel
\* was sent during or after the drain.
StopDrains == loop = "done" => owed \subseteq Range(rows) \cup lost

\* The writer implements the ledger: each event is rejected, or accepted and
\* settled once, in the order of acceptance, in batches of at most BatchSize.
Ledger == INSTANCE UsageLedger WITH pending <- Unsettled \o queue,
                                    rejected <- Rejected
LedgerSpec == Ledger!Spec

\* With loop running and fairly scheduled, an event in the channel before Stop
\* closed stopCh is eventually settled: ticks, full batches and the drain leave
\* nothing behind.
SentIsSettled ==
  \A e \in Events :
    (started /\ e \in Sent /\ (stopClosed => e \in owed))
      ~> (e \in Range(rows) \cup lost)
=============================================================================
