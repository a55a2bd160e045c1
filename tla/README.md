# MeteringProxy: a formal model

TLA+ modules that model the metering gateway in `src/`, TLC configurations that
model-check them, and proofs that TLAPS checks.  MeteringProxy stands between
Caddy and CLIProxyAPI: it forwards LLM traffic byte for byte, reads the token
usage of each response beside the forwarding, and writes it asynchronously to
SQLite.  Pollers add what CLIProxyAPI reports on its management interface, and
a web interface shows reports and costs.

`PROJECT.json` lists the components, the runs, the lines each definition
stands for (`map`), the hazards, the findings and the theorems.

## 1. The system

One process, one SQLite file with one writing connection and one that only
reads.  Goroutines: one per request, one per request inside `http.Transport`
(it sends the body), the batch writer's `loop`, the signal goroutine, the
health reporter, the three management pollers, and those that the quota poller
starts.

| Component | State | Operations | What is hard | What makes it correct | Module |
|---|---|---|---|---|---|
| Request path (`internal/proxy/proxy.go`: `ServeHTTP`, `forwardTransparent`, `forwardRequestOnly`, `handleNonStream`) | prefix of the body, replay position, probe and sample buffers, counters | read the prefix, scan for the model, send, copy, sample, record | the transport sends while the handler answers; every read may be the last; ring buffers | the body arrives unchanged, the row tells what happened | `ProxyRequest`, `SampleBuffers` |
| Streams (`handleStream`, `internal/streamproto`) | line buffer, event assembler, last usage, responses state | read, forward, split, assemble, extract, finish | reads cut anything anywhere; limits; cancellation | same events however cut; nothing metered that was not forwarded | `StreamCapture` |
| Extraction (`internal/extractor`, `mergeUsageInfo`) | the usage merged so far | extract a document, merge, build dimensions | five vendors' ways to count; counters that come in pieces; sums at the limit | a stream yields what the whole response would | `Extraction` |
| Batch writer (`internal/writer`, `internal/store`) | channel, batch, atomic counters, CAS flags | `Enqueue`, `Start`, `Stop`, `loop`, `flush` | senders racing a stop; retry of a failed batch; a counter updated by both sides | no event twice, none vanishes, a stop drains | `BatchWriter`, `UsageLedger` |
| Process life cycle (`serve.go`) | listener, deferred calls, signal goroutine | set up, serve, shut down, unwind | order of the unwinding; requests in flight; stuck streams; a poller that does not stop | drain before close; the process ends | `GatewayShutdown` |
| Usage queue (`internal/usagequeue`, `ApplySideUsageEvent` and its neighbours in `internal/db/db.go`) | popped batch, `side_usage_events`, `request_usage` | pop, store, apply, clean up | events in any order, before or after their row; restarts; failing transactions; retention | matches are mutual, single and final; measured usage is kept | `SideUsage`, `MCSideUsage`, `GatewayShutdown` |
| Quota poller (`internal/quota`) | flags of the refresh gate, semaphore, `quota_current`, cache | `Refresh`, probe, poll, mark stale, `Stop` | goroutines against stop and the closing of the database | one refresh at a time, none lost, each ends | `RefreshGate`, `QuotaPoller` |
| Credential poller (`internal/credential`) | as above, `credential_health` | `Refresh`, poll, mark stale, clean up, `Stop` | statements that fail one by one; restart | cache agrees with table; errors stay visible | `RefreshGate`, `CredentialPoller` |
| Database (`internal/db/db.go`, salt guard in `queries.go`) | tables, indexes, task marks, versions, WAL, fingerprint of the salt | `Open`, migrations, batches, upserts, retention, checkpoint | a crash between two statements of the migration; two starts at once; a replaced salt file | whoever opens it finds the whole schema; a start is never a dead end | `Database`, `MCDatabase`; the data statements in the modules of their callers |
| Pricing (`internal/pricing`) | price table, read once | validate, build the index, look up, cost of a bucket | names, aliases and dates; map order; presence of a field against zero | the same file always gives the same prices | `Pricing` |
| Reports (`internal/db/*report*.go`, `cost.go`, `queries.go`, `internal/report`) | none | SQL and arithmetic in a read transaction | buckets, gaps, several queries beside a writer | parts make the whole; nothing is billed twice or hidden | `CostReport`, `Reports`, `MCReports` |
| Configuration (`internal/config`) | none after the start | defaults, clamping | any integer in the file | what the others assume of their constants | `Config` |
| Metrics, health (`internal/metrics`, `health.go`, reporter in `serve.go`) | counters, a row per minute | add, publish, checkpoint | checkpoints beside a start | | the row and the checkpoint in `Database` |
| Profiles, events (`internal/profile`, `internal/event`) | none | match a path, fill a row | | | as the route and the extractor in `ProxyRequest`, `StreamCapture` |
| Web interface (`internal/webui`) | none that lasts | read-only handlers, two refresh buttons | | | its calls of `Refresh` only |
| CLIProxyAPI client (`internal/cliproxy`) | none | HTTP requests | | | as the nondeterministic answers its callers act on |
| Command line, demo data (`main.go`, `cli.go`, `internal/db/demo.go`) | none that the gateway uses | | | | not modelled |

How they interact: a handler ends in `recordUsage`, which calls `Enqueue`; the
batch writer inserts rows of `request_usage` with their children; the usage
poller later updates these rows by request id; the web interface reads tables
and the pollers' caches, prices what it read and calls `Refresh`; `runServe`
starts everything and unwinds it in the reverse order when `ListenAndServe`
returns.

## 2. The modules

```
UsageLedger                what metering promises of an event    (abstract)
   ^ implements
BatchWriter                Enqueue, loop, flush, Start, Stop
   ^ extends
GatewayShutdown            one process: main, signal, handlers, usage poller

RefreshGate <- QuotaPoller, CredentialPoller
SampleBuffers <- ProxyRequest
SideUsage <- MCSideUsage                    Database <- MCDatabase
Pricing <- CostReport <- Reports <- MCReports
StreamCapture      Extraction      Config

the proofs, each module extending the ones it is about:
GatewayShutdown <- BatchWriterProofs    SideUsage <- SideUsageProofs
ProxyRequest <- ProxyRequestProofs      StreamCapture <- StreamCaptureProofs
Database <- DatabaseProofs              Reports <- ReportsProofs
Extraction, Config <- NumbersProofs
QuotaPoller, CredentialPoller <- PollerProofs
```

Operators named `Bug...` are what the definition below each of them (or the
action that its comment names) would be after a plausible slip: a dropped
guard, a missing reset, an off-by-one.  Each is paired with a property in
`PROJECT.json`; put in place of the definition, it makes TLC find that property
violated.

**UsageLedger** has four variables (pending, rows, lost, rejected) and lets the
oldest pending events leave together, as rows or as losses.

**BatchWriter** takes every atomic operation of `writer.go` as a step: a
handler loads `stopped`, tries the channel (with the `default` branch), and
only then adds to `queueDepth`; `flush` inserts, perhaps inserts again, and
subtracts; `Stop` sets `stopped`, closes `stopCh`, waits.  `loop` and `mode`
are the program counter of `loop`: `select`, the two inserts, the settling, and
whether it runs, drains, or is in its last flush.  `InsertBatch` is one
transaction, so it inserts the whole batch or nothing.  `lost` and `owed` are
history.  A handler is named by its event, since a request records one.

**GatewayShutdown** puts that writer into the process of `serve.go`: `main` is
the position in `runServe` and its deferred calls, `shutdown` the signal
goroutine, `handler` the requests, `dbOpen` the database, `poller` the usage
queue's goroutine as far as its stopping goes.  `poller` is at a look at
`stopCh` (`turn`), in something that ends (`busy`: an HTTP request, a dial, a
pause), or in `readRESP` (`asking`), for which no deadline is set.  After
`Exit` nothing else may run, as in Go.

**SideUsage**: each transaction is a step, since all writes share one
connection.  A row's position is its id.  Times are clock ticks; the match
window, the retention and the delay of the batch writer are constants.
`Restart` may come anywhere between two transactions and may change
`request_merge`.

**RefreshGate** splits `Refresh` where the mutex is released: the decision is
one step, the non-blocking send another.  The ticker, `Stop` and `loop`'s
select are its other actions.  **QuotaPoller** and **CredentialPoller** extend
it with what happens between `BeginRefresh` and `EndRefresh`.  In the quota
poller every database call may fail, and the goroutines of `pollProvider` go on
when a refresh leaves because of `stopCh`.  `adapterForProvider` returns no
adapter for any provider, so the only live branch of `pollProvider` is the one
that records an unsupported provider.  The credential poller names its
state apart from the quota poller's (`health` is its table, `healthCache` its
cache), so that one module of proofs can extend both.

**StreamCapture**: a byte is an atom (CR, LF, `data:`, text, and the two halves
of the JSON document of each event), so that a document can be cut by a read
and be spread over two data lines.  A read returns any number of atoms, perhaps
with an error; the loop then takes line after line from the chunk.

**Extraction** is the other half of a stream: documents instead of bytes.  A
provider counts (`truth`) and tells of its counters in its own fields, once or
in pieces; the extractor of its kind turns each document into a `UsageInfo` and
`mergeUsageInfo` folds them.  The same response asked for as one document goes
through `ExtractNonStreaming`.  Sums that saturate in the code are `Plus`, sums
that do not are `Wrap`.

**SampleBuffers** has `limitedBuffer` and `prefixTailBuffer` as operators, with
the ring of the latter and the three cases of its `Bytes`.  **ProxyRequest** is
one request: `phase` is the handler's position, `upload` the transport's.  A
body is the sequence 1, ..., n; what was forwarded can therefore be compared
with what should have been.  The handler's unsynchronised reads of the
transport's counter and probe return any earlier value while the body is still
being sent (`SeenBytes`, `SeenModels`).

**Database** has the migration as a list of statements (`Migration`), each
committed by itself, around one task that runs in a transaction.  Processes
(`proc`) walk through the list; `db` is what is committed, `durable` what is
synced, so that a power loss may take back what a crash may not.  A start goes
on to the write probe, the salt's fingerprint and serving, where rows and
checkpoints follow.  Tables are reduced to the columns that differ between
releases.  A database of an earlier release (`LegacyDBs`) is any that satisfies
`Known`: its tables have the columns that no statement adds, its rows are timed
if it records the backfill as done, and they have the salt that it binds or
none.

**Pricing** has validation, the alias index, the lookup (exact name, alias, the
name without its date) and the cost functions.  A YAML mapping is a function,
its DOMAIN being the fields that are present.  **CostReport** has the cost
buckets of `cost.go` and how `report/cost.go` prices and groups them; a table is
a bag of rows.  **Reports** is the dynamics: a handler opens a read transaction,
runs its queries one after another while the writer flushes and the side
channel merges, and answers.  The seven reports that carry an amount are
functions of what the queries saw.

**Config** is `parseConfig` for numbers and choices: one operator per section
of the file, and `Invalid` for what the code refuses.  It has no state; it is
proved, not run.

## 3. The runs

Every property that a passing run checks is broken by one mutant.  All runs
but `database` and `reports` say `CHECK_DEADLOCK FALSE` because each of those
systems may really come to rest: no more requests, a stopped poller, an ended
process, a finished response.

| Run | Instance | Distinct states | Shows |
|---|---|---|---|
| `gateway_shutdown` | 3 requests, channel 2, batch 2, the usage poller | 523 thousand | the writer keeps its promises inside the process, owes nothing when the database is closed, and the process ends after a signal unless a RESP server never answers |
| `side_usage` | 1 request id, 2 usages, 2 rows, 2 payloads, clock to 3 | 1.1 million | matches are mutual, single and final; measured usage is kept |
| `quota_poller` | 2 handlers, 2 providers, 1 slot, 1 failure | 422 thousand | the gate, the goroutines, and that a refresh and a stop end |
| `credential_poller` | 1 handler, 2 credentials, 2 failures | 173 thousand | cache and table agree; errors stay visible |
| `stream_capture` | chat streams of up to 4 lines, responses streams of up to 3, `maxLine` of 4 atoms | 5.1 million | events, usage and outcome do not depend on the reads |
| `extraction` | 5 kinds of providers, counters up to 2, an int64 of 6, up to 2 documents before the last | 812 thousand | a stream is metered like the whole response |
| `proxy_request` | body and response up to 7 fields, together 8 | 1.25 million | the body arrives; the row is true |
| `database` | 2 processes, 2 salts, 2 crashes, a fresh and two old databases | 728 thousand | who opens the database finds it complete; a start is never a dead end |
| `reports` | up to 2 of 15 kinds of rows, 3 price files | 21 thousand | the reports agree with each other and with the rows |
| `graceful_shutdown`, `side_late_row`, `stream_images` | smallest that shows it | | the disagreements of section 5 |

Why the bounds are enough:

- *Writer.* Three handlers, a channel of two and batches of two: the channel
  can be full with a third sender waiting in the select, a batch can be full or
  stay partial, and a sender can be suspended past `stopped` while the drain
  runs.  A fourth event repeats one of these situations.
- *Side events.* Two events and two rows of the same id give every order of
  arrival, with an event in the match window of both rows, of one or of none;
  one tick of retention deletes a matched event while its row and a second
  event are still there.  Ids and usages are compared only for equality, which
  is why they may be permuted.  `MaxRows`, `MaxPayloads`, `PollBatch` and
  `MaxTime` are bounds of the model, as is `FlushDelay` in place of the
  writer's real delay.
- *Pollers.* One slot for two providers makes the loop wait for a goroutine.
  `MaxFailures` bounds the failing statements of a whole run.
- *Streams.* A document spread over two lines, an empty line after it and one
  document more need three or four lines; with `MaxLine` = 4 a data line with
  its document fits, a line of five atoms does not.  `MaxLines` and `MaxEvents`
  bound the stream, not the code.  The theorems of section 4 need neither.
- *Extraction.* `MaxTokenCount` stands for the largest int64: two counters of 2
  fit under 6, three add up to it, four saturate or wrap.  Two partial
  documents and a completing one give a counter that comes early, late, or
  twice.
- *Requests.* A body of 7 and a window of 6 is the smallest pair for which the
  ring of three wraps inside a write; `InitialBytes` 1 and `ReadSize` 3 give two
  rounds of the scan, the second one shortened by `MaxBytes`.  `MaxBody`,
  `MaxResponse` and `MaxTotal` bound the model.
- *Database.* Two starts meet in any pair of statements; two crashes interrupt
  both, or one and its successor.  One old database lacks the times in seconds,
  the other the columns that only `ensureColumns` adds.
- *Reports.* A report is a sum over rows, and whatever two rows can do to each
  other (share a bucket, hide a gap, divide a group) needs two.  The fifteen
  kinds reach each class of usage and each way to be priced: short and long
  context, cache, no price, lost usage, refused, image by token and by piece,
  and image rows of the releases that kept no outcome, without and with tokens.
  The price files are a good one, one with a forgotten field and one with an
  alias that two entries claim.

### What the properties say

- `ExactlyOnePlace`, `DepthAccounting`, `StopDrains`: an event the channel took
  is in exactly one of channel, batch, rows and lost; the counter is off by the
  senders between send and add and by nothing else; when `loop` returns,
  everything in the channel at the close of `stopCh` is settled.  An event that
  is sent *after* the close by a handler that had already passed the check of
  `stopped` may stay in the channel for ever although `Enqueue` returned true.
  `LedgerSpec` is the refinement of `UsageLedger`, by
  `pending <- Unsettled \o queue`; `SentIsSettled` is the flush by ticker.
- `ExitOwesNothing`, `ShutdownCompletes`: the composition.  The second has one
  exception, in its text: `usagequeue.Poller.Stop` waits for `run`, and `run`
  may be in `readRESP`, which has no deadline.
- `MatchIsMutual`, `OneMatchPerRequest`, `UsageIsKept`, `MatchIsFinal`:
  relations between the two tables that hold after any failed transaction and
  any restart.
- `InFlightIsServed`, `OneAtATime`, `EveryProviderIsTried`,
  `UnreachableIsShown`, `RefreshEnds`, `StopReturns`, and `CacheIsStored`,
  `ErrorIsKept` for the pollers.  The exceptions in them (`stopCh`, `lost`) are
  cases in which the code promises nothing.
- `EventsAreWhole`, `EventsWereForwarded`, `UsageIsNotLost`,
  `TokensMeanCaptured` for streams; `StreamEqualsWhole`, `UsageIsConsistent`,
  `DimensionsAddUp` for what the documents say.  The last three are about
  counts whose sum fits an int64, and `StreamEqualsWhole` about responses with
  some input.
- `BodyIsForwarded`, `RowIsTrue`, `ModelIsFound`, `OutcomeIsRight` for
  requests.
- `OpenedMeansComplete`, `HistoryIsTimed`, `OneSalt`, `ServesInTheEnd` for the
  database.
- `PartsMakeTheWhole`, `EachRequestIsBilledOnce`, `GapsAreNotMasked`,
  `CompleteMeansCharged`, `ReportIsOneMoment`, `PricesSurviveRestart` for the
  reports.  The amounts need `ReasoningIsInside`, because `computeCost` clamps
  reasoning to output for a bucket and not for a request.

### Fairness

Only what Go's scheduler, a timeout or a supervisor guarantees.

- `GatewayShutdown`: weak fairness of `main`, of the writer's goroutine, and of
  the poller's turns and requests with a timeout.  Weak fairness of the
  writer's `Loop` as a whole lets the select starve one of its cases; the
  properties hold all the same.  Handlers, the signal and the answers of a RESP
  server are not fair.
- `QuotaPoller` (`Fairness`) and `RefreshGate` (`GateFairness`): weak fairness
  of handlers past the unlock, of the refresh, the cleanup and the workers,
  whose requests have timeouts; strong fairness of the two cases of `select`
  that must win some time against the ticker, since Go chooses at random among
  the ready cases.
- `Database`: weak fairness of each process's steps while it opens, and of
  `Start`: the service is started again (`Restart=always` in
  `src/systemd/ai-gateway-metering-proxy.service`).
- `BatchWriter` by itself, `SideUsage`, `CredentialPoller`, `StreamCapture`,
  `Extraction`, `ProxyRequest` and `Reports` have safety and action properties
  only.

## 4. What is proved

The theorems hold for every value of the constants that the named ASSUMEs
allow.  TLC checked the properties they are about on the instances above.

| Theorem | Module | Assumptions |
|---|---|---|
| `TypeCorrect`: `Spec => []TypeOK` | `BatchWriterProofs` | capacity and batch size positive, batch no longer than the queue |
| `NoDuplicateNoLoss`: `Spec => []ExactlyOnePlace` | `BatchWriterProofs` | the same |
| `DepthNeverDrifts`: `Spec => []DepthAccounting` | `BatchWriterProofs` | and finitely many events |
| `StopDrainsQueue`: `Spec => []StopDrains` | `BatchWriterProofs` | the same as the first |
| `ProcessRunsTheWriter`: `GatewaySpec => Spec` | `BatchWriterProofs` | the same as the first |
| `NoDuplicateInProcess`, `DepthInProcess` | `BatchWriterProofs` | as for the writer |
| `NothingOwedAtExit`: `GatewaySpec => []ExitOwesNothing` | `BatchWriterProofs` | the same as the first |
| `WriterImplementsLedger`: `Spec => LedgerSpec`, `ProcessImplementsLedger`: `GatewaySpec => LedgerSpec` | `BatchWriterProofs` | the same as the first |
| `SideTypeCorrect`: `Spec => []TypeOK` | `SideUsageProofs` | "no id" and "no usage" are no id and no usage; the bounds are numbers |
| `MatchesAreMutual`: `Spec => []MatchIsMutual`, `OneMatch`: `Spec => []OneMatchPerRequest` | `SideUsageProofs` | the same |
| `MatchesAreFinal`: `Spec => MatchIsFinal`, `UsageIsNeverReplaced`: `Spec => UsageIsKept` | `SideUsageProofs` | the same |
| `GateTypeCorrect`, `FlagHasAnOwner`, `SingleFlight`, `NoSignalIsLost` | `PollerProofs` | none |
| `PollerFlagHasAnOwner`: `Spec => []InFlightIsServed`, `PollerSingleFlight`: `Spec => []OneAtATime` | `PollerProofs` | none |
| `EveryProviderTried`: `Spec => []EveryProviderIsTried` | `PollerProofs` | `Concurrency` positive |
| `UnreachableShown`: `Spec => UnreachableIsShown` | `PollerProofs` | the same |
| `CacheAgreesWithTable`: `CredentialSpec => []CacheIsStored`, `ErrorsAreKept`: `CredentialSpec => ErrorIsKept` | `PollerProofs` | none |
| `SchemaIsComplete`: `Spec => []OpenedMeansComplete` | `DatabaseProofs` | earlier releases left databases that are `Known` |
| `NoRowLeftBehind`: `Spec => []HistoryIsTimed`, `HashesHaveOneSalt`: `Spec => []OneSalt` | `DatabaseProofs` | the same |
| `UpstreamGetsTheBody`: `Spec => []BodyIsForwarded` | `ProxyRequestProofs` | `InitialBytes` and `ReadSize` positive, `MaxBytes >= InitialBytes` |
| `RowsAreTrue`: `Spec => []RowIsTrue` | `ProxyRequestProofs` | the same |
| `ModelsAreFound`: `Spec => []ModelIsFound` | `ProxyRequestProofs` | and `MaxBytes` even |
| `OutcomesAreRight`: `Spec => []OutcomeIsRight` | `ProxyRequestProofs` | and `MaxSample` even |
| `BuffersAreBounded`: `Spec => []TypeOK` | `ProxyRequestProofs` | and neither limit 1 |
| `StreamTypeCorrect`: `Spec => []TypeOK`, `OnlyForwardedIsMetered`: `Spec => []EventsWereForwarded`, `RowAgrees`: `Spec => []TokensMeanCaptured` | `StreamCaptureProofs` | the limit and the bounds are numbers |
| `NoUsageIsLost`: `Spec => []UsageIsNotLost`, `CutsDoNotMatter`: `Spec => []EventsAreWhole` | `StreamCaptureProofs` | and `MaxLine` at least 4 |
| `StreamSays`: `Spec => []ExtractionInv`, `ConsistentUsage`: `Spec => []UsageIsConsistent` | `NumbersProofs` | the bounds are numbers, and a counter fits an int64 |
| `StreamedAsWhole`: `Spec => []StreamEqualsWhole`, `DimensionsBillOnce`: `Spec => []DimensionsAddUp` | `NumbersProofs` | the same |
| `WriterSettingsFit`, `ProxySettingsFit`, `ClampedTwice` | `NumbersProofs` | none |
| `SameFileSamePrices`: `Spec => PricesSurviveRestart` | `ReportsProofs` | rows are `Requests` with at most one image row, side-channel usage is `Usages`, rates are numbers |
| `BillsEachRequestOnce`: `Spec => []EachRequestIsBilledOnce`, `PartsAddUp`: `Spec => []PartsMakeTheWhole` | `ReportsProofs` | the same |
| `NoGapIsMasked`: `Spec => []GapsAreNotMasked`, `ReportsSeeOneMoment`: `Spec => []ReportIsOneMoment` | `ReportsProofs` | the same |
| `CompleteIsCharged`: `Spec => []CompleteMeansCharged` | `ReportsProofs` | the same |

*Writer.* `TypeOK` is not inductive: that the batch stays within `BatchSize`
needs that it is not full while `loop` can receive (`BatchInv`).
`ExactlyOnePlace` and `DepthAccounting` are inductive relative to `TypeInv`
(`TypeOK` and `BatchInv`); the work is in how `Append`, `Tail` and
concatenation change the set of elements and keep them distinct, which the
lemmas at its beginning state once.  `StopDrains` speaks of the end only;
`DrainInv` says how far a stop has come: one caller closes `stopCh`, `owed` is
empty before that, `loop` leaves its normal mode only after it, and when it has
found the channel empty nothing owed is in the channel again, because a later
sender's event is not in `owed`.

*Process.* Each step of `GatewayNext` is a step of the writer or leaves its
variables alone (`ProcessStep`), so the process implements the writer and
inherits its theorems.  `ExitOwesNothing` needs more: that `loop` was started
before `main` can reach the stop, that `main` goes past the writer only when
its `Stop` has returned, and that the batch is empty when `loop` returns
(`ExitInv`).

*Ledger.* The ledger's `pending` is what `loop` has and has not settled, before
what is in the channel (`Unsettled \o queue`).  A receive moves an event inside
that sequence, so the ledger stutters; so it does when a handler that has sent
its event goes on to add to `queueDepth`.  A flush settles the whole batch, and
it is a step of the ledger because the batch is not empty then (`FlushInv`).
The mapping needs `ExactlyOnePlace`: a new event must be in none of the
ledger's places.  The process inherits the refinement through
`ProcessRunsTheWriter`.

*Side usage.* `MatchIsMutual` and `OneMatchPerRequest` are inductive together
with `MergeInv`: a row names an id that was given out, so an event stored later
cannot be the one an old row names; a matched event names a row that exists;
and the event that is being applied is still `stored_only`, so it is applied
once.  A match is made only where neither side has one, which is why the two
transactions that can make it, in either order, never make two.

*Gate and pollers.* `FlightInv` joins the types, `InFlightIsServed` and
`OneAtATime`: none of the last two is inductive without the other, because the
flag is the only thing that keeps a second handler out.  That every send finds
the channel empty (`NoSignalIsLost`) is one step from there.  A step of the
quota poller is a step of the gate or leaves its variables alone
(`PollerStep`), so it inherits them.  `TriedInv` says where each provider is:
in `todo`, with a goroutine, or noted; and that, until a stop, a goroutine
belongs to the refresh under way.  `MarkedInv` says of a refresh that cannot
reach CLIProxyAPI that the rows it has come past are not shown as current.
`UnreachableIsShown` follows, with `TriedInv` for the fact that no goroutine of
an earlier refresh writes in between.

*Credential poller.* `CacheInv` says, for each phase of a refresh, which part of
which cache the table bears out: all of the old one until the statements start,
then what they have come past of the next one.  It also says that a refresh
which marks rows stale has none in error among them; `ErrorIsKept` rests on it.

*Database.* Nothing is proved by walking through the thirty statements.  The
migration is a `Script`: what a statement needs (a table before a column of it,
an `inspect` before the first `alter` of a table, the end of a task after its
beginning), an earlier one has seen to; `Compose` shows it for two scripts in a
row, so for all of `Migration`.  A statement that a process has passed is
`Done`, and it stays done because every step of every process only adds
(`Grows`), a crash keeps what is committed, and a power loss stops all
processes.  `ScriptInv` says so for each process, `SaltInv` that a process past
the binding has the salt that is bound, `OpenInv` joins them with `Known` of
what is committed and of what is synced.

*Request.* `BodyIsForwarded` says nothing of what was read and not yet sent.
`ReplayInv` adds that `prefix` is the beginning of the body and that the longer
of `prefix` and `sent` is all that was taken from the client, so that the
replay and the rest of the source join without a gap.  `FieldsJoin` and
`FieldsPart` are the two facts about pieces of a body it rests on.

*Side buffers.* `Holds` says what a `prefixTailBuffer` contains after the first
n bytes of a body, in whatever pieces they were written: the first half, and in
the ring the last half of what came after it, the newest up to `wpos` and, once
the ring has been filled, the oldest after it (`RingHolds`).  `HoldsMore` takes it
through a write, `BytesAreWindow` says what `Bytes` then gives (`Window`): all of
it, or the two ends with a gap.  The limit has to be even for the second: half
of an odd limit is rounded down (`proxy.go:1023`), so a body of exactly that size
has a gap too.  `ProbeInv` is `Holds` of what was sent, `SampleInv` (`Sampled`) of
what was received, and `ModelIsFound` and `OutcomeIsRight` say what a reader of
the window finds: for the latter, `UsageInEnds` and `WholeResponse` say when the
two ends hold the usage and when they hold everything.  `RowInv` says that the
counters follow what was sent and received until the handler writes its row.
`BuffersAreBounded` leaves out a limit of 1, for both halves of it hold one byte.

*Stream: nothing invented.* `ForwardInv` counts the ends of the documents of a
kind: those of the events, of what the assembler keeps, of the line buffer and
of the chunk are together no more than those in the bytes forwarded.  Each step
moves some of them to the left or drops them.  The type invariant goes with it
(`BasicInv`), and in particular that a responses stream holds no chat usage,
which `TokensMeanCaptured` needs: a row is the result of one of the two ways to
count, never of both.

*Stream: nothing lost.* The other two properties compare the end of a run with
the lines of the stream, so the invariant has to say where the parser is:
`At(m)` says that m lines are behind it and that the line buffer is the
beginning of the next one, or has given it up as too long, or that a read ended
between the CR and the LF that end line m.  Beside that `LostInv(m)` says that
usage in those lines was seen, and that an assembler over its limit has had
pieces enough for that; `WholeInv(m)` says that, if their documents are in order
so far, the events and the document which the assembler holds back are these
documents (`Clean`), and that it keeps a first half only after the line of one.
`EventsAreWhole` and `UsageIsNotLost` are about the end alone: there, m is the
number of lines that have their break (`PlaceAtEnd`, `TerminatedIs`).
`MaxLine` has to be at least 4 since the two halves of a document with their
data lines would otherwise not fit into an event; the code's is 256 KB or
what a profile says (`proxy.go:583`).

*Extraction.* That usage is consistent is not inductive, since `mergeUsageInfo`
puts the fields of two documents into one usage.  `MergedInv` is about where
they come from: each field of the merged usage is what the documents so far told
of that counter (`Says(usage, Heard)`).  One lemma for each extractor and each
kind of document shows it for one document (`ChatSays`, ..., `ImagesSays`), and
`MergeSays` and `MergeDelta` show that a merge keeps it, as the counters only
grow.  `SplitInv` says which parts of an image's input have come, and
`GeminiLast` that a Gemini stream ends with a document about everything.
`StreamEqualsWhole` then compares two usages that say the same of the same
counters.  All is relative to `Fits`: past an int64, `Plus` and `Wrap` part.

*Reports.* Of the state the invariant says little (`ReportsInv`): a table is a
finite bag of rows of the kinds the writer makes, and every query of a handler
has seen the table of its transaction.  The work is in the arithmetic, for any
number of rows.  The sums are folds over sets and bags, and an induction theorem
with a predicate as a parameter is out of reach, so each fact about a sum is
proved in its set form: the subsets for which it fails have no least element
under strict inclusion, which is well-founded on the subsets of a finite set.
A bucket holds the totals of its rows, and a sum over buckets or over groups of
buckets is one over rows since each row is in exactly one.  `computeCost` is
linear in the counts of a bucket as long as reasoning is within output and cache
within input (`ReasoningIsInside`), so that the amounts of the parts add up; no
such hypothesis is needed for counts, gaps and confidence, which are decided row
by row (`RowComplete`).  The last clause of `ReportIsOneMoment`, which
compares amounts of images, turned out to need `ReasoningIsInside` too when its
proof was tried, and says so now.  `CompleteMeansCharged` is about files whose
written rates charge (`WrittenRatesCharge`), since a rate that is given as 0
makes tokens free on purpose; a file has to write down the rates for input and
output (`RequiredFields`) but not the one for cached input, so what has to be
paid for (`MustPay`) are the tokens that did not come from a cache.  Its proof
needs no sum: if the total is complete each row is (`SummaryComplete`), and a
complete row that has to pay was given a tier or an image price
(`CompleteRowPays`).  `SamplesAssumption` is
what the code makes sure of: an extractor clamps negative counts
(`extractor.go:801`).  `UsagesAssumption` relies on CLIProxyAPI for the same: the
side channel stores the counts it is told (`usagequeue/poller.go:457`), and a
negative one would subtract from a total.  `FilesAssumption` says that rates are
numbers.

*Configuration.* The two theorems discharge what the other modules assume of
their constants: whatever integers the file holds, an accepted file gives them
a queue, a batch, a scan and a number of slots within the ASSUMEs.

Only model-checked is liveness (`SentIsSettled`, `ShutdownCompletes`,
`RefreshEnds`, `StopReturns`, `ServesInTheEnd`): the prover does not handle
liveness under fairness or ENABLED.

Induction over data is out of the prover's reach in the form in which the
library states it, with a predicate as a parameter.  Where a proof needs it, a set
takes the place of the predicate: `Induction` in `StreamCaptureProofs` for the
recursive functions of a stream, least elements of a family of sets in
`ReportsProofs`.

## 5. Where the code disagrees with what is said of it

Each is a run that TLC ends with a counterexample; `PROJECT.json` quotes the
lines.

1. `graceful_shutdown`: `ListenAndServe` returns when `Shutdown` begins, and
   `runServe` unwinds and ends the process without waiting for it; requests in
   flight are cut off and not recorded.
2. `side_late_row`: an event applied before its row was flushed is unmatched
   for ever.
3. `stream_images`: the images of a Gemini stream are those of its last chunk,
   the same chunks in a JSON array are summed.

Other behaviour that the models, or the reading they took, made visible, and
that no run refutes because no document promises otherwise:

- *Stopping.* `usagequeue.Poller.Stop` waits for ever when the RESP server
  takes a command and never answers, and the deferred stops of the writer and
  the database wait behind it; `ShutdownCompletes` excepts exactly this.  The
  reporter's goroutine is not waited for (`serve.go:160`), and neither are the
  quota poller's workers when a refresh leaves because of `stopCh`.
- *Counters.* The `queue_depth` metric is refreshed by a load and a store that
  are not atomic together, so that an idle gateway may show an old value.
- *Bytes.* An odd sample limit loses one byte in the middle of a body of
  exactly that size (`OutcomeIsRight` fails for `MaxSample = 5`); a read that
  ends between CR and LF ends an event that is spread over several data lines;
  pieces of a document that no empty line ends are kept until they pass
  `maxLine`, and then data lines are dropped up to the next empty line; a
  last line without a break is never parsed; a client that leaves in the middle
  of a response that is not streamed is filed as a parse error.
- *Tokens.* `mergeUsageInfo` (`proxy.go:1930`) and the usage queue
  (`usagequeue/poller.go:329`) add without saturation; a responses stream with
  a partial image and a `response.completed` counts the image twice; a
  responses document without input that arrives at the chat endpoint loses its
  output.
- *Side channel.* An event without tokens that arrives first takes the match,
  and the one with the usage becomes a duplicate; the side merge leaves the
  child tables of `InsertBatch` as they were; a failed `markExistingStale` is
  never repeated; a `Commit` that reports an error after it took effect would
  be repeated.
- *Amounts.* Reasoning is clamped to output per bucket (`pricing.go:1044`), so
  that one request's surplus may use another's room; a multimodal rate of 0
  counts as unpriced and a text rate for cached input of 0 as free; an image
  size whose key is missing is unpriced even beside a default; the image models
  report leaves out input of mixed channels; the missing-usage count and the
  confidence of a row are decided by different conditions; an image row without
  an outcome that has tokens and no dimensions, as an earlier release left it,
  is called complete and costs nothing where the model has an image price (its
  text confidence counts it as observed, `db/cost.go:199`, its image confidence
  as missing, `db/cost.go:313`, and reports add up the first,
  `report/cost.go:125`), which `MustPay` excepts; the severity by
  which issues are ranked in SQL (`issues_report.go:216`) is a list of its own
  beside `classSeverity`.
- *Configuration.* The low and the warning threshold of the quota and the
  smallest and the largest retry interval are not put into order.

## 6. What is not modelled

- Headers, hashes, correlation ids, image metadata, error classes and samples:
  data that the properties do not tell apart.
- The scanner that finds a model in JSON or in a multipart form: `Model` looks
  for one atom, so a value cut at the end of the prefix is outside the model.
- The JSON decoder: a document is a record of the fields that an extractor
  looks at, and a field that is missing is 0.
- The framing of RESP, the connection status of the usage poller, the HTTP
  client of the management interface: their callers act on the result alone.
- The web interface beside its refresh buttons: its authentication, its
  parameters and its JSON; the readiness probe.
- The lists of requests, errors and issues, percentiles and latencies: queries
  that copy or rank rows and keep no relation that a run could check.
- The YAML decoder, the syntax of addresses and labels, the hash function.
- The command line and the demo data.

## 7. Plan

Done: the writer, its ledger and the process around it with the usage poller;
side usage; the gate and the two other pollers; streams, extraction, requests;
the database's start; pricing and the reports with an amount; configuration.
Proofs for all of these: every safety and action property of the runs.

Left: the hand-over of a streamed response from `ProxyRequest` to
`StreamCapture` to `Extraction`, and of the row to `BatchWriter`, as one
composition.
