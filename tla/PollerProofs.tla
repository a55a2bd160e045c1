-------------------------- MODULE PollerProofs ------------------------------
(***************************************************************************)
(* The refresh gate for any set of handlers: the type invariant, the        *)
(* singleflight and the promise that no accepted refresh is lost.  And the  *)
(* quota poller inside the gate, for any set of providers and any           *)
(* concurrency: it keeps to the gate, tries every provider once, and shows  *)
(* nothing as current after it could not reach CLIProxyAPI.  And the        *)
(* credential poller, for every set of credentials and any number of failed *)
(* upserts: what the cache shows is what the table has, and an error that   *)
(* was reported is not hidden.                                              *)
(*                                                                          *)
(* OneAtATime alone is not inductive: that Refresh lets nobody through      *)
(* while a refresh is on its way follows only from the flag being set       *)
(* then, so InFlightIsServed is carried along.                              *)
(***************************************************************************)
EXTENDS QuotaPoller, CredentialPoller, TLAPS

-----------------------------------------------------------------------------
(* The gate *)

FlightInv == GateTypeOK /\ InFlightIsServed /\ OneAtATime

LEMMA GateInitInv == GateInit => FlightInv
<1> SUFFICES ASSUME GateInit PROVE FlightInv
  OBVIOUS
<1> USE DEF GateInit
<1>1. Signalling = {}
  BY DEF Signalling
<1>2. GateTypeOK
  BY DEF GateTypeOK
<1> QED BY <1>1, <1>2 DEF FlightInv, InFlightIsServed, OneAtATime

\* Every step of the gate keeps the flag and the refresh it stands for together.
LEMMA GateStepInv == FlightInv /\ [GateNext]_gateVars => FlightInv'
<1> SUFFICES ASSUME FlightInv, [GateNext]_gateVars PROVE FlightInv'
  OBVIOUS
<1> USE DEF FlightInv, GateTypeOK, InFlightIsServed, OneAtATime, Signalling
<1>1. ASSUME NEW c \in Callers, Refresh(c) PROVE FlightInv'
  <2>1. /\ Signalling = {} /\ refreshCh = 0 /\ loop # "refresh"
        /\ caller[c] = "idle"
        /\ refreshInFlight' = TRUE /\ recent' = TRUE
        /\ caller' = [caller EXCEPT ![c] = "signal"]
        /\ UNCHANGED <<refreshCh, tick, stopCh, loop>>
    BY <1>1 DEF Refresh
  <2>2. Signalling' = {c}
    BY <2>1
  <2>3. GateTypeOK'
    BY <2>1
  <2> QED BY <2>1, <2>2, <2>3
<1>2. ASSUME NEW c \in Callers, Signal(c) PROVE FlightInv'
  <2>1. /\ c \in Signalling /\ refreshCh' = 1
        /\ caller' = [caller EXCEPT ![c] = "idle"]
        /\ UNCHANGED <<refreshInFlight, recent, tick, stopCh, loop>>
    BY <1>2 DEF Signal
  <2>2. Signalling = {c} /\ refreshInFlight /\ loop # "refresh"
    BY <2>1
  <2>3. Signalling' = {}
    BY <2>1, <2>2
  <2>4. GateTypeOK'
    BY <2>1
  <2> QED BY <2>1, <2>2, <2>3, <2>4
<1>3. CASE BeginRefresh
  BY <1>3 DEF BeginRefresh
<1>4. CASE EndRefresh
  BY <1>4 DEF EndRefresh
<1>5. CASE Elapse
  BY <1>5 DEF Elapse
<1>6. CASE Tick \/ Stop
  <2>1. /\ UNCHANGED <<caller, refreshInFlight, recent, refreshCh, loop>>
        /\ tick' \in BOOLEAN /\ stopCh' \in BOOLEAN
    BY <1>6 DEF Tick, Stop
  <2>2. Signalling' = Signalling
    BY <2>1
  <2>3. GateTypeOK'
    BY <2>1
  <2>4. InFlightIsServed'
    BY <2>1, <2>2
  <2> QED BY <2>1, <2>2, <2>3, <2>4
<1>7. CASE BeginCleanup \/ EndCleanup \/ Return
  <2>1. /\ UNCHANGED <<caller, refreshInFlight, recent, refreshCh, stopCh>>
        /\ loop # "refresh" /\ loop' \in {"select", "cleanup", "returned"}
        /\ tick' \in BOOLEAN
    BY <1>7 DEF BeginCleanup, EndCleanup, Return
  <2>2. Signalling' = Signalling
    BY <2>1
  <2>3. GateTypeOK'
    BY <2>1
  <2>4. InFlightIsServed'
    BY <2>1, <2>2
  <2> QED BY <2>1, <2>2, <2>3, <2>4
<1>8. CASE UNCHANGED gateVars
  <2>1. UNCHANGED <<caller, refreshInFlight, recent, refreshCh, tick, stopCh, loop>>
    BY <1>8 DEF gateVars
  <2> QED BY <2>1
<1> QED BY <1>1, <1>2, <1>3, <1>4, <1>5, <1>6, <1>7, <1>8 DEF GateNext

\* The variables of the gate keep their types, whatever the handlers are
\* (NewPoller, Refresh, loop).
THEOREM GateTypeCorrect == GateSpec => []GateTypeOK
<1>1. FlightInv => GateTypeOK
  BY DEF FlightInv
<1> QED BY <1>1, GateInitInv, GateStepInv, PTL DEF GateSpec

\* The in-flight flag is set exactly while a handler, the channel or the loop
\* is going to clear it (Refresh, doRefresh).
THEOREM FlagHasAnOwner == GateSpec => []InFlightIsServed
<1>1. FlightInv => InFlightIsServed
  BY DEF FlightInv
<1> QED BY <1>1, GateInitInv, GateStepInv, PTL DEF GateSpec

\* However many handlers call Refresh, there is one refresh on its way at most
\* (the singleflight of Refresh).
THEOREM SingleFlight == GateSpec => []OneAtATime
<1>1. FlightInv => OneAtATime
  BY DEF FlightInv
<1> QED BY <1>1, GateInitInv, GateStepInv, PTL DEF GateSpec

\* The non-blocking send never meets a full channel, so every accepted refresh
\* reaches the loop (the select with default in Refresh).
THEOREM NoSignalIsLost == GateSpec => SignalIsNew
<1> DEFINE Lossless == \A c \in Callers : c \in Signalling /\ caller'[c] = "idle"
                         => refreshCh = 0 /\ refreshCh' = 1
<1>1. FlightInv /\ [GateNext]_gateVars => [Lossless]_gateVars
  <2> SUFFICES ASSUME FlightInv, GateNext, NEW c \in Callers, c \in Signalling,
                      caller'[c] = "idle"
               PROVE refreshCh = 0 /\ refreshCh' = 1
    OBVIOUS
  <2> USE DEF FlightInv, GateTypeOK, OneAtATime, Signalling
  <2>1. ASSUME NEW d \in Callers, Refresh(d) PROVE FALSE
    BY <2>1 DEF Refresh
  <2>2. ASSUME NEW d \in Callers, Signal(d) PROVE refreshCh = 0 /\ refreshCh' = 1
    BY <2>2 DEF Signal
  <2>3. caller' = caller => FALSE
    OBVIOUS
  <2> QED BY <2>1, <2>2, <2>3 DEF GateNext, Elapse, BeginRefresh, EndRefresh, Tick,
             BeginCleanup, EndCleanup, Stop, Return
<1> QED BY <1>1, GateInitInv, GateStepInv, PTL DEF GateSpec, SignalIsNew
-----------------------------------------------------------------------------
(* The quota poller keeps to the gate *)

\* Every step of the poller is one of the gate, or leaves it alone: a refresh
\* begins and ends as the gate's does (doRefresh).
LEMMA PollerStep == [Next]_vars => [GateNext]_gateVars
<1> SUFFICES ASSUME [Next]_vars PROVE [GateNext]_gateVars
  OBVIOUS
<1>1. CASE Gate
  BY <1>1 DEF Gate, GateNext
<1>2. CASE DoRefresh
  BY <1>2 DEF DoRefresh, GateNext
<1>3. CASE Refreshed
  BY <1>3 DEF Refreshed, GateNext
<1>4. CASE ProbeAPICall \/ ReadRows \/ Marked \/ LookAtStop \/ Wait \/ RefreshDBState \/ CloseDB
  BY <1>4 DEF ProbeAPICall, ReadRows, Marked, LookAtStop, Wait, RefreshDBState, CloseDB
<1>5. ASSUME NEW p \in Providers, RecordProbe(p) \/ Spawn(p) \/ WorkerStep(p)
      PROVE  UNCHANGED gateVars
  BY <1>5 DEF RecordProbe, Spawn, WorkerStep, RecordUnsupported, RecordEvent
<1>6. ASSUME NEW k \in Keys, MarkRow(k)
      PROVE  UNCHANGED gateVars
  BY <1>6 DEF MarkRow
<1>7. CASE UNCHANGED vars
  BY <1>7 DEF vars
<1> QED
  BY <1>1, <1>2, <1>3, <1>4, <1>5, <1>6, <1>7 DEF Next, LoopStep

LEMMA PollerFlightInv == Spec => []FlightInv
<1>1. Init => FlightInv
  BY GateInitInv DEF Init
<1>2. FlightInv /\ [Next]_vars => FlightInv'
  BY PollerStep, GateStepInv
<1> QED
  BY <1>1, <1>2, PTL DEF Spec

\* In the poller, too, the flag has somebody behind it: whatever a refresh does
\* between its begin and its end, failing reads and a closed database included.
THEOREM PollerFlagHasAnOwner == Spec => []InFlightIsServed
<1>1. FlightInv => InFlightIsServed
  BY DEF FlightInv
<1> QED BY <1>1, PollerFlightInv, PTL

\* CLIProxyAPI and quota_current never see two refreshes at a time.
THEOREM PollerSingleFlight == Spec => []OneAtATime
<1>1. FlightInv => OneAtATime
  BY DEF FlightInv
<1> QED BY <1>1, PollerFlightInv, PTL
-----------------------------------------------------------------------------
(* What a refresh notes about the providers *)

\* The events that this refresh has stored or failed to store for p.
Noted(p) == events[p] + missed[p]

CountsAreNumbers ==
  /\ events \in [Providers -> Nat] /\ missed \in [Providers -> Nat]
  /\ worker \in [Providers -> {"none", "upsert", "event"}]

\* Until somebody stops the poller a goroutine belongs to the refresh that is
\* under way: it ends before the refresh does.  Each provider is in todo, has a
\* goroutine, or has been noted.
TriedInv ==
  /\ phase = "idle" <=> loop # "refresh"
  /\ phase \in {"join", "reload"} => todo = {}
  /\ ~stopCh => \A p \in Providers :
       /\ worker[p] # "none" => phase \in {"dispatch", "acquire", "join"} /\ p \notin todo
       /\ phase \in {"idle", "probe"} => Noted(p) = 0
       /\ phase \notin {"idle", "probe", "done"} =>
            Noted(p) = IF p \in todo \/ worker[p] # "none" THEN 0 ELSE 1

LEMMA TriedInit == Init => CountsAreNumbers /\ TriedInv
  BY DEF Init, GateInit, CountsAreNumbers, TriedInv, Noted

\* InsertQuotaRefreshEvent counts one attempt, successful or not.
LEMMA InsertEffect ==
  ASSUME CountsAreNumbers, NEW p \in Providers, InsertQuotaRefreshEvent(p)
  PROVE  /\ events' \in [Providers -> Nat] /\ missed' \in [Providers -> Nat]
         /\ Noted(p)' = Noted(p) + 1
         /\ \A q \in Providers \ {p} : Noted(q)' = Noted(q)
<1>1. CASE events' = [events EXCEPT ![p] = @ + 1] /\ missed' = missed
  BY <1>1 DEF CountsAreNumbers, Noted
<1>2. CASE missed' = [missed EXCEPT ![p] = @ + 1] /\ events' = events
  BY <1>2 DEF CountsAreNumbers, Noted
<1> QED
  BY <1>1, <1>2 DEF InsertQuotaRefreshEvent

LEMMA TriedStep == CountsAreNumbers /\ TriedInv /\ [Next]_vars => CountsAreNumbers' /\ TriedInv'
<1> SUFFICES ASSUME CountsAreNumbers, TriedInv, [Next]_vars
             PROVE  CountsAreNumbers' /\ TriedInv'
  OBVIOUS
<1> USE DEF CountsAreNumbers, TriedInv, Noted
\* A step that leaves the work of the refresh alone; it may be Stop.
<1>a. ASSUME UNCHANGED <<events, missed, worker, phase, todo>>,
             stopCh' = stopCh \/ stopCh' = TRUE,
             loop' = "refresh" <=> loop = "refresh"
      PROVE  CountsAreNumbers' /\ TriedInv'
  BY <1>a
<1>1. CASE Gate
  <2>1. UNCHANGED <<events, missed, worker, phase, todo>>
    BY <1>1 DEF Gate, pollVars, workVars
  <2>2. /\ stopCh' = stopCh \/ stopCh' = TRUE
        /\ loop' = "refresh" <=> loop = "refresh"
    BY <1>1 DEF Gate, Refresh, Signal, Elapse, Tick, BeginCleanup, EndCleanup, Stop, Return
  <2> QED
    BY <1>a, <2>1, <2>2
<1>2. CASE DoRefresh
  <2>1. /\ phase = "idle" /\ phase' = "probe" /\ loop' = "refresh"
        /\ UNCHANGED <<events, missed, worker, todo, stopCh>>
    BY <1>2 DEF DoRefresh, BeginRefresh
  <2> QED
    BY <2>1
<1>3. CASE ProbeAPICall
  <2>1. /\ phase = "probe" /\ phase' \in {"dispatch", "record"} /\ todo' = Providers
        /\ UNCHANGED <<events, missed, worker, stopCh, loop>>
    BY <1>3 DEF ProbeAPICall, gateVars
  <2> QED
    BY <2>1
<1>4. ASSUME NEW p \in Providers, RecordProbe(p)
      PROVE  CountsAreNumbers' /\ TriedInv'
  <2>1. /\ phase = "record" /\ p \in todo /\ todo' = todo \ {p} /\ phase' = "read"
        /\ InsertQuotaRefreshEvent(p)
        /\ UNCHANGED <<worker, stopCh, loop>>
    BY <1>4 DEF RecordProbe, gateVars
  <2>2. /\ Noted(p)' = Noted(p) + 1
        /\ \A q \in Providers \ {p} : Noted(q)' = Noted(q)
        /\ CountsAreNumbers'
    BY <2>1, InsertEffect
  <2>3. ~stopCh => Noted(p) = 0 /\ worker[p] = "none"
    BY <2>1
  <2> HIDE DEF Noted
  <2> QED
    BY <2>1, <2>2, <2>3
<1>5. CASE ReadRows
  <2>1. /\ phase = "read" /\ phase' \in {"mark", "record"}
        /\ UNCHANGED <<events, missed, worker, todo, stopCh, loop>>
    BY <1>5 DEF ReadRows, gateVars
  <2> QED
    BY <2>1
<1>6. ASSUME NEW k \in Keys, MarkRow(k)
      PROVE  CountsAreNumbers' /\ TriedInv'
  BY <1>6, <1>a DEF MarkRow, gateVars
<1>7. CASE Marked
  <2>1. /\ \/ phase = "mark" /\ phase' = "record"
           \/ phase = "record" /\ todo = {} /\ phase' = "reload"
        /\ UNCHANGED <<events, missed, worker, todo, stopCh, loop>>
    BY <1>7 DEF Marked, gateVars
  <2> QED
    BY <2>1
<1>8. CASE LookAtStop
  <2>1. /\ phase = "dispatch" /\ phase' = IF stopCh THEN "done" ELSE "acquire"
        /\ UNCHANGED <<events, missed, worker, todo, stopCh, loop>>
    BY <1>8 DEF LookAtStop, gateVars
  <2> QED
    BY <2>1
<1>9. ASSUME NEW p \in Providers, Spawn(p)
      PROVE  CountsAreNumbers' /\ TriedInv'
  <2>1. /\ phase = "acquire" /\ p \in todo /\ todo' = todo \ {p} /\ phase' = "dispatch"
        /\ worker' = [worker EXCEPT ![p] = "upsert"]
        /\ UNCHANGED <<events, missed, stopCh, loop>>
    BY <1>9 DEF Spawn, gateVars
  <2> QED
    BY <2>1
<1>10. ASSUME NEW p \in Providers, RecordUnsupported(p)
       PROVE  CountsAreNumbers' /\ TriedInv'
  <2>1. /\ worker[p] = "upsert" /\ worker' = [worker EXCEPT ![p] = "event"]
        /\ UNCHANGED <<events, missed, phase, todo, stopCh, loop>>
    BY <1>10 DEF RecordUnsupported, gateVars
  <2> QED
    BY <2>1
<1>11. ASSUME NEW p \in Providers, RecordEvent(p)
       PROVE  CountsAreNumbers' /\ TriedInv'
  <2>1. /\ worker[p] = "event" /\ worker' = [worker EXCEPT ![p] = "none"]
        /\ InsertQuotaRefreshEvent(p)
        /\ UNCHANGED <<phase, todo, stopCh, loop>>
    BY <1>11 DEF RecordEvent, gateVars
  <2>2. /\ Noted(p)' = Noted(p) + 1
        /\ \A q \in Providers \ {p} : Noted(q)' = Noted(q) /\ worker'[q] = worker[q]
        /\ CountsAreNumbers' /\ worker'[p] = "none"
    BY <2>1, InsertEffect
  <2>3. ~stopCh => Noted(p) = 0 /\ p \notin todo /\ phase \in {"dispatch", "acquire", "join"}
    BY <2>1
  <2> HIDE DEF Noted
  <2> QED
    BY <2>1, <2>2, <2>3
<1>12. CASE Wait
  <2>1. /\ \/ phase = "dispatch" /\ todo = {} /\ phase' = "join"
           \/ phase = "join" /\ Running = {} /\ phase' = "reload"
        /\ UNCHANGED <<events, missed, worker, todo, stopCh, loop>>
    BY <1>12 DEF Wait, gateVars
  <2> QED
    BY <2>1 DEF Running
<1>13. CASE RefreshDBState
  <2>1. /\ phase = "reload" /\ phase' = "done"
        /\ UNCHANGED <<events, missed, worker, todo, stopCh, loop>>
    BY <1>13 DEF RefreshDBState, gateVars
  <2> QED
    BY <2>1
<1>14. CASE Refreshed
  <2>1. /\ phase = "done" /\ phase' = "idle" /\ loop' = "select"
        /\ events' = [p \in Providers |-> 0] /\ missed' = [p \in Providers |-> 0]
        /\ UNCHANGED <<worker, stopCh>>
    BY <1>14 DEF Refreshed, EndRefresh
  <2> QED
    BY <2>1
<1>15. CASE CloseDB
  BY <1>15, <1>a DEF CloseDB, gateVars, workVars
<1>16. CASE UNCHANGED vars
  BY <1>16, <1>a DEF vars, gateVars, pollVars, workVars
<1> QED
  BY <1>1, <1>2, <1>3, <1>4, <1>5, <1>6, <1>7, <1>8, <1>9, <1>10, <1>11, <1>12, <1>13,
     <1>14, <1>15, <1>16 DEF Next, LoopStep, WorkerStep

LEMMA TriedInvariant == Spec => [](CountsAreNumbers /\ TriedInv)
  BY TriedInit, TriedStep, PTL DEF Spec

\* A refresh that reads its result back has made one attempt to note an event
\* for every provider, however the goroutines took turns (poll, pollProvider).
THEOREM EveryProviderTried == Spec => []EveryProviderIsTried
<1>1. TriedInv => EveryProviderIsTried
  BY DEF TriedInv, EveryProviderIsTried, Noted
<1> QED
  BY <1>1, TriedInvariant, PTL
-----------------------------------------------------------------------------
(* What is shown when CLIProxyAPI cannot be reached *)

NotCurrent == {"stale", "error"}

\* The rows that a refresh which cannot reach CLIProxyAPI has come past are not
\* current, provided that its calls of the database have worked so far.
MarkedInv ==
  /\ DOMAIN table \subseteq Keys
  /\ phase \in {"record", "read", "mark"} => ~apiCallAvail
  /\ phase \in {"dispatch", "acquire", "join"} => apiCallAvail
  /\ ~stopCh /\ ~failed /\ ~apiCallAvail /\ phase \in {"record", "read", "mark", "reload"} =>
       \A k \in DOMAIN table :
         \/ table[k] \in NotCurrent
         \/ k[1] \in todo
         \/ phase = "read" /\ k[1] = provider
         \/ phase = "mark" /\ k \in rows

LEMMA MarkedStep == CountsAreNumbers /\ TriedInv /\ MarkedInv /\ [Next]_vars => MarkedInv'
<1> SUFFICES ASSUME CountsAreNumbers, TriedInv, MarkedInv, [Next]_vars PROVE MarkedInv'
  OBVIOUS
<1> USE DEF MarkedInv, NotCurrent
<1>a. ASSUME UNCHANGED <<table, phase, apiCallAvail, failed, todo, provider, rows>>,
             stopCh' = stopCh \/ stopCh' = TRUE
      PROVE  MarkedInv'
  BY <1>a
\* A failure of the database ends the promise.
<1>b. ASSUME DOMAIN table' \subseteq Keys,
             phase' \in {"record", "read", "mark"} => ~apiCallAvail',
             phase' \in {"dispatch", "acquire", "join"} => apiCallAvail',
             stopCh' \/ failed' \/ apiCallAvail' \/ phase' \notin {"record", "read", "mark", "reload"}
      PROVE  MarkedInv'
  BY <1>b
<1>1. CASE Gate
  <2>1. UNCHANGED <<table, phase, apiCallAvail, failed, todo, provider, rows>>
    BY <1>1 DEF Gate, pollVars, workVars
  <2>2. stopCh' = stopCh \/ stopCh' = TRUE
    BY <1>1 DEF Gate, Refresh, Signal, Elapse, Tick, BeginCleanup, EndCleanup, Stop, Return
  <2> QED
    BY <1>a, <2>1, <2>2
<1>2. CASE DoRefresh
  BY <1>2, <1>b DEF DoRefresh
<1>3. CASE ProbeAPICall
  <2>1. /\ todo' = Providers /\ UNCHANGED table
        /\ apiCallAvail' \in BOOLEAN
        /\ phase' = IF apiCallAvail' THEN "dispatch" ELSE "record"
    BY <1>3 DEF ProbeAPICall
  <2>2. \A k \in Keys : k[1] \in Providers
    BY DEF Keys
  <2> QED
    BY <2>1, <2>2
<1>4. ASSUME NEW p \in Providers, RecordProbe(p) PROVE MarkedInv'
  <2>1. /\ phase = "record" /\ todo' = todo \ {p} /\ provider' = p /\ phase' = "read"
        /\ failed' = failed \/ failed' = TRUE
        /\ UNCHANGED <<table, apiCallAvail, stopCh, rows>>
    BY <1>4 DEF RecordProbe, InsertQuotaRefreshEvent, Works, MayFail, gateVars
  <2> QED
    BY <2>1
<1>5. CASE ReadRows
  <2>1. phase = "read" /\ UNCHANGED <<table, apiCallAvail, todo, provider, stopCh>>
    BY <1>5 DEF ReadRows, gateVars
  <2>2. CASE Works /\ rows' = {k \in DOMAIN table : k[1] = provider /\ table[k] \notin {"stale", "error"}}
             /\ phase' = "mark"
    BY <2>1, <2>2 DEF Works
  <2>3. CASE MayFail /\ phase' = "record"
    BY <2>1, <2>3, <1>b DEF MayFail
  <2> QED
    BY <1>5, <2>2, <2>3 DEF ReadRows
<1>6. ASSUME NEW k \in Keys, MarkRow(k) PROVE MarkedInv'
  <2>1. /\ phase = "mark" /\ k \in rows /\ rows' = rows \ {k}
        /\ UpsertQuotaCurrent(k, "stale")
        /\ UNCHANGED <<phase, apiCallAvail, todo, provider, stopCh>>
    BY <1>6 DEF MarkRow, gateVars
  <2>2. CASE Works /\ table' = [j \in DOMAIN table \cup {k} |-> IF j = k THEN "stale" ELSE table[j]]
    <3>1. /\ DOMAIN table' = DOMAIN table \cup {k} /\ table'[k] = "stale"
          /\ \A j \in DOMAIN table \ {k} : table'[j] = table[j]
          /\ failed' = failed
      BY <2>2 DEF Works
    <3> QED
      BY <2>1, <3>1
  <2>3. CASE MayFail /\ UNCHANGED table
    BY <2>1, <2>3, <1>b DEF MayFail
  <2> QED
    BY <2>1, <2>2, <2>3 DEF UpsertQuotaCurrent
<1>7. CASE Marked
  <2>1. /\ \/ phase = "mark" /\ rows = {} /\ phase' = "record"
           \/ phase = "record" /\ todo = {} /\ phase' = "reload"
        /\ UNCHANGED <<table, apiCallAvail, todo, provider, rows, failed, stopCh>>
    BY <1>7 DEF Marked, gateVars
  <2> QED
    BY <2>1
<1>8. CASE LookAtStop \/ RefreshDBState \/ Refreshed
  <2>1. /\ UNCHANGED <<table, apiCallAvail>> /\ phase' \in {"done", "acquire", "idle"}
        /\ phase' = "acquire" => phase = "dispatch"
    BY <1>8 DEF LookAtStop, RefreshDBState, Refreshed
  <2> QED
    BY <2>1, <1>b
<1>9. ASSUME NEW p \in Providers, Spawn(p) PROVE MarkedInv'
  BY <1>9, <1>b DEF Spawn
\* A goroutine of an earlier refresh may be at work when the poller is stopped,
\* and one of this refresh before it comes to the end.
<1>10. ASSUME NEW p \in Providers, RecordUnsupported(p) PROVE MarkedInv'
  <2>1. /\ worker[p] # "none" /\ UpsertQuotaCurrent(<<p, "unsupported">>, "unsupported")
        /\ UNCHANGED <<phase, apiCallAvail, stopCh>>
    BY <1>10 DEF RecordUnsupported, gateVars
  <2>2. stopCh \/ phase \in {"dispatch", "acquire", "join"}
    BY <2>1 DEF TriedInv
  <2>3. <<p, "unsupported">> \in Keys
    BY DEF Keys
  <2>4. DOMAIN table' \subseteq Keys
    BY <2>1, <2>3 DEF UpsertQuotaCurrent
  <2> QED
    BY <2>1, <2>2, <2>4, <1>b
<1>11. ASSUME NEW p \in Providers, RecordEvent(p) PROVE MarkedInv'
  <2>1. failed' = failed \/ failed' = TRUE
    BY <1>11 DEF RecordEvent, InsertQuotaRefreshEvent, Works, MayFail
  <2> QED
    BY <1>11, <2>1 DEF RecordEvent, gateVars
<1>12. CASE Wait
  <2>1. /\ \/ phase = "dispatch" /\ phase' = "join"
           \/ phase = "join" /\ phase' = "reload"
        /\ UNCHANGED <<table, apiCallAvail, failed, stopCh>>
    BY <1>12 DEF Wait, gateVars
  <2> QED
    BY <2>1, <1>b
<1>13. CASE CloseDB
  BY <1>13, <1>a DEF CloseDB, gateVars, workVars
<1>14. CASE UNCHANGED vars
  BY <1>14, <1>a DEF vars, gateVars, pollVars, workVars
<1> QED
  BY <1>1, <1>2, <1>3, <1>4, <1>5, <1>6, <1>7, <1>8, <1>9, <1>10, <1>11, <1>12, <1>13,
     <1>14 DEF Next, LoopStep, WorkerStep

\* After a refresh that could not reach CLIProxyAPI, while nobody stops the
\* poller and the database works, the cache shows no row as current
\* (markProviderStale, refreshDBState).
THEOREM UnreachableShown == Spec => UnreachableIsShown
<1>1. Init => MarkedInv
  BY DEF Init, MarkedInv, Keys
<1>2. Spec => [](TriedInv /\ MarkedInv)
  BY <1>1, MarkedStep, TriedInvariant, PTL DEF Spec
<1>3. TriedInv /\ MarkedInv /\ [Next]_vars =>
        [~apiCallAvail /\ ~failed' /\ ~stopCh /\ phase = "reload" /\ phase' = "done"
           => \A k \in DOMAIN cache' : cache'[k] \in {"stale", "error"}]_vars
  <2> SUFFICES ASSUME TriedInv, MarkedInv, Next, ~apiCallAvail, ~failed', ~stopCh,
                      phase = "reload", phase' = "done"
               PROVE  \A k \in DOMAIN cache' : cache'[k] \in {"stale", "error"}
    OBVIOUS
  <2>1. RefreshDBState
    BY DEF Next, Gate, pollVars, workVars, DoRefresh, LoopStep, ProbeAPICall, RecordProbe, Spawn,
           ReadRows, MarkRow, Marked, LookAtStop, Wait, Refreshed, WorkerStep,
           RecordUnsupported, RecordEvent, CloseDB
  <2>2. cache' = table /\ failed' = failed
    BY <2>1 DEF RefreshDBState, Works, MayFail
  <2> QED
    BY <2>2 DEF TriedInv, MarkedInv, NotCurrent
<1> QED
  BY <1>2, <1>3, PTL DEF Spec, UnreachableIsShown
-----------------------------------------------------------------------------
(* The credential poller, behind the same gate. *)

\* The table bears out what view says of credential c: they agree, or retention
\* has deleted a row that view calls stale.
BornOut(view, c) ==
  IF c \in DOMAIN health THEN health[c] = view[c] ELSE view[c] = "stale"

\* Between refreshes, and until one replaces it, the cache is borne out; while
\* a refresh writes, so is the part of the next cache that it has come past.  A
\* refresh that found CLIProxyAPI unreachable has rows to write for credentials
\* only whose row is not in error.
CacheInv ==
  /\ stage = "idle" <=> loop # "refresh"
  /\ stage \in {"idle", "fetch", "publish"} =>
       \A c \in DOMAIN healthCache \ lost : BornOut(healthCache, c)
  /\ stage \in {"upsert", "mark"} =>
       /\ files \subseteq DOMAIN next
       /\ \A c \in DOMAIN next \ (lost \cup files) : BornOut(next, c)
  /\ stage = "mark" =>
       \A c \in files \ lost : c \in DOMAIN health => health[c] # "error"

\* Every step of the credential poller keeps the invariant of its cache.
LEMMA CacheStep == CacheInv /\ [CredentialNext]_credentialVars => CacheInv'
<1> SUFFICES ASSUME CacheInv, [CredentialNext]_credentialVars PROVE CacheInv'
  OBVIOUS
<1> USE DEF CacheInv, BornOut
<1>a. ASSUME UNCHANGED healthVars, loop' = "refresh" <=> loop = "refresh"
      PROVE  CacheInv'
  BY <1>a DEF healthVars
<1>1. ASSUME NEW c \in Callers, Click(c) PROVE CacheInv'
  BY <1>1, <1>a DEF Click, Refresh, Signal
<1>2. CASE Clock
  BY <1>2, <1>a DEF Clock, Elapse, Tick
<1>3. CASE CredentialDoRefresh
  BY <1>3 DEF CredentialDoRefresh, BeginRefresh
<1>4. CASE Fetched
  <2>1. /\ files' = DOMAIN next' /\ stage = "fetch" /\ stage' = "upsert"
        /\ UNCHANGED <<loop, health, lost>>
    BY <1>4 DEF Fetched, gateVars
  <2> QED
    BY <2>1
<1>5. CASE FetchFails
  <2>1. /\ next' = [c \in DOMAIN healthCache |-> IF healthCache[c] = "error" THEN "error" ELSE "stale"]
        /\ files' = {c \in DOMAIN healthCache : healthCache[c] \notin {"stale", "error"}}
        /\ stage = "fetch" /\ stage' = "mark" /\ UNCHANGED <<loop, health, lost>>
    BY <1>5 DEF FetchFails, gateVars
  <2>2. /\ DOMAIN next' = DOMAIN healthCache
        /\ \A c \in DOMAIN healthCache \ files' : next'[c] = healthCache[c]
    BY <2>1
  <2> QED
    BY <2>1, <2>2
<1>6. ASSUME NEW c \in Credentials, Upsert(c) PROVE CacheInv'
  <2>1. /\ stage \in {"upsert", "mark"} /\ c \in files
        /\ files' = files \ {c} /\ lost' = lost \ {c}
        /\ DOMAIN health' = DOMAIN health \cup {c} /\ health'[c] = next[c]
        /\ \A k \in DOMAIN health \ {c} : health'[k] = health[k]
        /\ UNCHANGED <<loop, next, stage>>
    BY <1>6 DEF Upsert, gateVars
  <2> QED
    BY <2>1
<1>7. ASSUME NEW c \in Credentials, UpsertFails(c) PROVE CacheInv'
  <2>1. /\ stage \in {"upsert", "mark"} /\ c \in files
        /\ files' = files \ {c} /\ lost' = lost \cup {c}
        /\ UNCHANGED <<loop, health, next, stage>>
    BY <1>7 DEF UpsertFails, gateVars
  <2> QED
    BY <2>1
<1>8. CASE Publish
  <2>1. /\ stage \in {"upsert", "mark"} /\ files = {} /\ healthCache' = next /\ stage' = "publish"
        /\ UNCHANGED <<loop, health, lost>>
    BY <1>8 DEF Publish, gateVars
  <2> QED
    BY <2>1
<1>9. CASE CredentialRefreshed
  <2>1. /\ stage = "publish" /\ stage' = "idle" /\ loop' = "select"
        /\ UNCHANGED <<health, healthCache, lost>>
    BY <1>9 DEF CredentialRefreshed, EndRefresh
  <2> QED
    BY <2>1
<1>10. CASE (BeginCleanup \/ Stop \/ Return) /\ UNCHANGED healthVars
  BY <1>10, <1>a DEF BeginCleanup, Stop, Return
<1>11. ASSUME NEW old \in SUBSET Credentials, Cleanup(old) PROVE CacheInv'
  <2>1. /\ loop = "cleanup" /\ loop' = "select"
        /\ DOMAIN health' = {c \in DOMAIN health : ~(c \in old /\ health[c] = "stale")}
        /\ \A c \in DOMAIN health' : health'[c] = health[c]
        /\ UNCHANGED <<healthCache, files, next, stage, lost>>
    BY <1>11 DEF Cleanup, EndCleanup
  <2> QED
    BY <2>1
<1>12. CASE Restart
  <2>1. DOMAIN healthCache' = {} /\ stage' = "idle" /\ loop' = "select"
    BY <1>12 DEF Restart
  <2> QED
    BY <2>1
<1>13. CASE UNCHANGED credentialVars
  BY <1>13, <1>a DEF credentialVars, gateVars
<1> QED
  BY <1>1, <1>2, <1>3, <1>4, <1>5, <1>6, <1>7, <1>8, <1>9, <1>10, <1>11, <1>12, <1>13 DEF CredentialNext

\* The invariant of the cache holds in every reachable state.
LEMMA CacheInvariant == CredentialSpec => []CacheInv
<1>1. CredentialInit => CacheInv
  BY DEF CredentialInit, GateInit, CacheInv
<1> QED
  BY <1>1, CacheStep, PTL DEF CredentialSpec

\* Outside a refresh the web UI, which shows the cache, and the issues report,
\* which reads the table, say the same of a credential (poll,
\* markExistingStale, cleanup).
THEOREM CacheAgreesWithTable == CredentialSpec => []CacheIsStored
<1>1. CacheInv => CacheIsStored
  BY DEF CacheInv, CacheIsStored, BornOut
<1> QED
  BY <1>1, CacheInvariant, PTL

\* Nothing but a newer report takes an error out of the table: not an
\* unreachable CLIProxyAPI, nor retention, nor a restart.
THEOREM ErrorsAreKept == CredentialSpec => ErrorIsKept
<1> DEFINE Kept == \A c \in DOMAIN health :
                     health[c] = "error" /\ c \notin lost /\ stage # "upsert"
                       => c \in DOMAIN health' /\ health'[c] = "error"
<1>1. CacheInv /\ [CredentialNext]_credentialVars => [Kept]_credentialVars
  <2> SUFFICES ASSUME CacheInv, CredentialNext, NEW c \in DOMAIN health, health[c] = "error",
                      c \notin lost, stage # "upsert"
               PROVE  c \in DOMAIN health' /\ health'[c] = "error"
    OBVIOUS
  <2>1. ASSUME NEW k \in Credentials, Upsert(k) PROVE k # c /\ Kept
    BY <2>1 DEF Upsert, CacheInv
  <2>2. ASSUME NEW old \in SUBSET Credentials, Cleanup(old) PROVE Kept
    BY <2>2 DEF Cleanup
  <2>3. ASSUME UNCHANGED health PROVE Kept
    BY <2>3
  <2>4. (\E k \in Credentials : Upsert(k)) \/ (\E old \in SUBSET Credentials : Cleanup(old))
          \/ UNCHANGED health
    BY DEF CredentialNext, Click, Clock, healthVars, CredentialDoRefresh,
           Fetched, FetchFails, UpsertFails, Publish,
           CredentialRefreshed, Restart
  <2> QED
    BY <2>1, <2>2, <2>3, <2>4
<1> QED
  BY <1>1, CacheInvariant, PTL DEF CredentialSpec, ErrorIsKept
=============================================================================
