---------------------------- MODULE QuotaPoller ----------------------------
(***************************************************************************)
(* The provider quota poller, internal/quota/poller.go, between the gate of *)
(* RefreshGate: probe CLIProxyAPI's /api-call; when it does not answer,     *)
(* note the failure for every provider and mark its rows stale; when it     *)
(* does, poll the providers in goroutines bounded by a semaphore and wait   *)
(* for them; at last read quota_current back into the cache.                *)
(*                                                                          *)
(* adapterForProvider knows no provider, so a goroutine only records that   *)
(* its provider is unsupported; rows of another kind were left by another   *)
(* version of the program.  A refresh that finds stopCh closed returns      *)
(* without waiting for its goroutines; the database may be closed under     *)
(* them.                                                                    *)
(***************************************************************************)
EXTENDS RefreshGate, FiniteSets

CONSTANTS
  Providers,     \* cfg.Providers
  Concurrency,   \* cfg.Concurrency, at least 1
  MaxFailures    \* bound of the model: failed reads and writes

ASSUME ConcurrencyAssumption == Concurrency \in Nat \ {0} /\ MaxFailures \in Nat

VARIABLES
  table,     \* quota_current
  cache,     \* the rows last read back
  apiCallAvail,
  phase,     \* where the refresh stands
  todo,      \* providers the refresh has not come to
  provider,  \* provider whose rows are being marked
  rows,      \* the keys markProviderStale has yet to write
  worker,    \* the goroutines of pollProvider
  events,    \* number of quota_refresh_events rows this refresh stored for a provider
  missed,    \* history: number it failed to store
  failed,    \* history: some read or write of this refresh failed
  loaded,    \* history: the last refreshDBState read the table
  failures,
  dbOpen

workVars == <<phase, todo, provider, rows, worker, events, missed, failed, failures>>
pollVars == <<table, cache, apiCallAvail, workVars, loaded, dbOpen>>
vars == <<gateVars, pollVars>>

\* A row of quota_current: the one recordUnsupportedProvider writes, or
\* another window of the provider.
Keys == Providers \X {"unsupported", "window"}
Statuses == {"ok", "error", "stale", "unsupported"}
RowSets == UNION {[K -> Statuses] : K \in SUBSET Keys}

TypeOK ==
  /\ GateTypeOK
  /\ table \in RowSets /\ cache \in RowSets
  /\ apiCallAvail \in BOOLEAN
  /\ phase \in {"idle", "probe", "record", "read", "mark", "dispatch", "acquire",
                "join", "reload", "done"}
  /\ todo \subseteq Providers
  /\ provider \in Providers
  /\ rows \subseteq DOMAIN table
  /\ worker \in [Providers -> {"none", "upsert", "event"}]
  /\ events \in [Providers -> 0..2] /\ missed \in [Providers -> 0..2]
  /\ failed \in BOOLEAN /\ loaded \in BOOLEAN /\ dbOpen \in BOOLEAN
  /\ failures \in 0..MaxFailures

Running == {p \in Providers : worker[p] # "none"}

\* Rows of earlier versions: "ok" stands for every status but "error" that a
\* refresh does not write.
Init ==
  /\ GateInit
  /\ table \in [Providers \X {"window"} -> {"ok", "error"}]
  /\ cache = <<>> /\ apiCallAvail = FALSE /\ loaded = FALSE /\ dbOpen = TRUE
  /\ phase = "idle" /\ todo = {} /\ provider = (CHOOSE p \in Providers : TRUE)
  /\ rows = {} /\ worker = [p \in Providers |-> "none"]
  /\ events = [p \in Providers |-> 0] /\ missed = [p \in Providers |-> 0]
  /\ failed = FALSE /\ failures = 0

(***************************************************************************)
(* The database: a statement may fail, and fails once the file is closed.   *)
(***************************************************************************)
MayFail ==
  \/ ~dbOpen /\ failed' = TRUE /\ UNCHANGED failures
  \/ dbOpen /\ failures < MaxFailures /\ failures' = failures + 1 /\ failed' = TRUE

Works == dbOpen /\ UNCHANGED <<failures, failed>>

UpsertQuotaCurrent(k, status) ==
  \/ /\ Works
     /\ table' = [j \in DOMAIN table \cup {k} |-> IF j = k THEN status ELSE table[j]]
  \/ MayFail /\ UNCHANGED table

InsertQuotaRefreshEvent(p) ==
  \/ Works /\ events' = [events EXCEPT ![p] = @ + 1] /\ UNCHANGED missed
  \/ MayFail /\ missed' = [missed EXCEPT ![p] = @ + 1] /\ UNCHANGED events

(***************************************************************************)
(* doRefresh: probeAPICall, then poll.                                     *)
(***************************************************************************)
DoRefresh ==
  /\ BeginRefresh
  /\ phase' = "probe"
  /\ UNCHANGED <<table, cache, apiCallAvail, todo, provider, rows, worker, events,
                 missed, failed, failures, loaded, dbOpen>>

\* apiCallProbeReachable is any function of CLIProxyAPI's answer.
ProbeAPICall ==
  /\ phase = "probe"
  /\ apiCallAvail' \in BOOLEAN
  /\ phase' = IF apiCallAvail' THEN "dispatch" ELSE "record"
  /\ todo' = Providers
  /\ UNCHANGED <<gateVars, table, cache, provider, rows, worker, events, missed,
                 failed, failures, loaded, dbOpen>>

\* Unreachable: recordRefreshEvent for the next provider ...
RecordProbe(p) ==
  /\ phase = "record" /\ p \in todo
  /\ InsertQuotaRefreshEvent(p)
  /\ todo' = todo \ {p}
  /\ provider' = p
  /\ phase' = "read"
  /\ UNCHANGED <<gateVars, table, cache, apiCallAvail, rows, worker, loaded, dbOpen>>

\* ... then markProviderStale: it reads the table, gives up when it cannot ...
BugMarkOnlyOK ==
  /\ phase = "read"
  /\ \/ Works /\ rows' = {k \in DOMAIN table : k[1] = provider /\ table[k] = "ok"}
              /\ phase' = "mark"
     \/ MayFail /\ phase' = "record" /\ UNCHANGED rows
  /\ UNCHANGED <<gateVars, table, cache, apiCallAvail, todo, provider, worker, events,
                 missed, loaded, dbOpen>>

ReadRows ==
  /\ phase = "read"
  /\ \/ Works /\ rows' = {k \in DOMAIN table :
                            k[1] = provider /\ table[k] \notin {"stale", "error"}}
              /\ phase' = "mark"
     \/ MayFail /\ phase' = "record" /\ UNCHANGED rows
  /\ UNCHANGED <<gateVars, table, cache, apiCallAvail, todo, provider, worker, events,
                 missed, loaded, dbOpen>>

\* ... and writes the rows one by one.
MarkRow(k) ==
  /\ phase = "mark" /\ k \in rows
  /\ UpsertQuotaCurrent(k, "stale")
  /\ rows' = rows \ {k}
  /\ UNCHANGED <<gateVars, cache, apiCallAvail, phase, todo, provider, worker, events,
                 missed, loaded, dbOpen>>

Marked ==
  /\ \/ phase = "mark" /\ rows = {} /\ phase' = "record"
     \/ phase = "record" /\ todo = {} /\ phase' = "reload"
  /\ UNCHANGED <<gateVars, table, cache, apiCallAvail, todo, provider, rows, worker,
                 events, missed, failed, failures, loaded, dbOpen>>

(***************************************************************************)
(* Reachable: for each provider a look at stopCh, a slot of the semaphore   *)
(* and a goroutine.                                                        *)
(***************************************************************************)
LookAtStop ==
  /\ phase = "dispatch" /\ todo # {}
  /\ phase' = IF stopCh THEN "done" ELSE "acquire"
  /\ UNCHANGED <<gateVars, table, cache, apiCallAvail, todo, provider, rows, worker,
                 events, missed, failed, failures, loaded, dbOpen>>

BugUnbufferedSemaphore(p) ==
  /\ phase = "acquire" /\ p \in todo
  /\ Cardinality(Running) < Concurrency - 1
  /\ worker' = [worker EXCEPT ![p] = "upsert"]
  /\ todo' = todo \ {p}
  /\ phase' = "dispatch"
  /\ UNCHANGED <<gateVars, table, cache, apiCallAvail, provider, rows, events, missed,
                 failed, failures, loaded, dbOpen>>

Spawn(p) ==
  /\ phase = "acquire" /\ p \in todo
  /\ Cardinality(Running) < Concurrency
  /\ worker' = [worker EXCEPT ![p] = "upsert"]
  /\ todo' = todo \ {p}
  /\ phase' = "dispatch"
  /\ UNCHANGED <<gateVars, table, cache, apiCallAvail, provider, rows, events, missed,
                 failed, failures, loaded, dbOpen>>

\* pollProvider, in its goroutine: recordUnsupportedProvider writes the row ...
RecordUnsupported(p) ==
  /\ worker[p] = "upsert"
  /\ UpsertQuotaCurrent(<<p, "unsupported">>, "unsupported")
  /\ worker' = [worker EXCEPT ![p] = "event"]
  /\ UNCHANGED <<gateVars, cache, apiCallAvail, phase, todo, provider, rows, events,
                 missed, loaded, dbOpen>>

RecordEvent(p) ==
  /\ worker[p] = "event"
  /\ InsertQuotaRefreshEvent(p)
  /\ worker' = [worker EXCEPT ![p] = "none"]
  /\ UNCHANGED <<gateVars, table, cache, apiCallAvail, phase, todo, provider, rows,
                 loaded, dbOpen>>

BugNoWait ==
  /\ \/ phase = "dispatch" /\ todo = {} /\ phase' = "join"
     \/ phase = "join" /\ phase' = "reload"
  /\ UNCHANGED <<gateVars, table, cache, apiCallAvail, todo, provider, rows, worker,
                 events, missed, failed, failures, loaded, dbOpen>>

\* wg.Wait.
Wait ==
  /\ \/ phase = "dispatch" /\ todo = {} /\ phase' = "join"
     \/ phase = "join" /\ Running = {} /\ phase' = "reload"
  /\ UNCHANGED <<gateVars, table, cache, apiCallAvail, todo, provider, rows, worker,
                 events, missed, failed, failures, loaded, dbOpen>>

(***************************************************************************)
(* refreshDBState and the end of the refresh.                              *)
(***************************************************************************)
RefreshDBState ==
  /\ phase = "reload"
  /\ \/ Works /\ cache' = table /\ loaded' = TRUE
     \/ MayFail /\ loaded' = FALSE /\ UNCHANGED cache
  /\ phase' = "done"
  /\ UNCHANGED <<gateVars, table, apiCallAvail, todo, provider, rows, worker, events,
                 missed, dbOpen>>

Refreshed ==
  /\ phase = "done"
  /\ EndRefresh
  /\ phase' = "idle"
  /\ todo' = {} /\ provider' = (CHOOSE p \in Providers : TRUE)
  /\ events' = [p \in Providers |-> 0] /\ missed' = [p \in Providers |-> 0]
  /\ failed' = FALSE
  /\ UNCHANGED <<table, cache, apiCallAvail, rows, worker, failures, loaded, dbOpen>>

\* runServe's deferred calls: after Stop has returned, the database is closed.
CloseDB ==
  /\ loop = "returned" /\ dbOpen
  /\ dbOpen' = FALSE
  /\ UNCHANGED <<gateVars, table, cache, apiCallAvail, workVars, loaded>>

\* The deletion of old quota_refresh_events leaves those of this refresh.
Gate ==
  /\ \/ \E c \in Callers : Refresh(c) \/ Signal(c)
     \/ Elapse \/ Tick
     \/ BeginCleanup \/ EndCleanup
     \/ Stop \/ Return
  /\ UNCHANGED pollVars

LoopStep ==
  \/ ProbeAPICall
  \/ \E p \in Providers : RecordProbe(p) \/ Spawn(p)
  \/ ReadRows
  \/ \E k \in Keys : MarkRow(k)
  \/ Marked \/ LookAtStop \/ Wait \/ RefreshDBState \/ Refreshed

WorkerStep(p) == RecordUnsupported(p) \/ RecordEvent(p)

Next == Gate \/ DoRefresh \/ LoopStep \/ (\E p \in Providers : WorkerStep(p)) \/ CloseDB

\* As GateFairness, with the steps of the refresh in place of its end.
Fairness ==
  /\ \A c \in Callers : WF_vars(Signal(c) /\ UNCHANGED pollVars)
  /\ SF_vars(DoRefresh) /\ SF_vars(Return /\ UNCHANGED pollVars)
  /\ WF_vars(EndCleanup /\ UNCHANGED pollVars)
  /\ WF_vars(LoopStep)
  /\ \A p \in Providers : WF_vars(WorkerStep(p))

Spec == Init /\ [][Next]_vars /\ Fairness

(***************************************************************************)
(* Properties                                                              *)
(***************************************************************************)

\* When a refresh reads its result back it has tried to note exactly one event
\* for every provider: neither a failure of another provider nor the end of the
\* goroutines' turn in the semaphore leaves one out, and none is noted twice
\* (poll).  Once the poller is being stopped the goroutines of an earlier refresh
\* may still be at work.
EveryProviderIsTried ==
  phase = "reload" /\ ~stopCh => \A p \in Providers : events[p] + missed[p] = 1

\* After a refresh that found /api-call unreachable, and whose database calls
\* worked, no row of a provider is shown as if it were current
\* (markProviderStale).  Excepted is a poller being stopped, as above.
UnreachableIsShown ==
  [][~apiCallAvail /\ ~failed' /\ ~stopCh /\ phase = "reload" /\ phase' = "done"
       => \A k \in DOMAIN cache' : cache'[k] \in {"stale", "error"}]_vars
=============================================================================
