----------------------------- MODULE RefreshGate -----------------------------
(***************************************************************************)
(* The manual refresh that the quota poller (internal/quota/poller.go) and  *)
(* the credential poller (internal/credential/poller.go) have in common:    *)
(* handlers of the web UI call Refresh, which lets one request through at a *)
(* time, and one goroutine, loop, serves it between retention cleanups      *)
(* until Stop.                                                              *)
(*                                                                          *)
(* Refresh decides under refreshMu and signals after it has released it, so *)
(* the two halves are two steps.  What a refresh does is left to            *)
(* QuotaPoller and CredentialPoller, which extend this module; here it is   *)
(* whatever happens between BeginRefresh and EndRefresh.                    *)
(***************************************************************************)
EXTENDS Naturals

CONSTANT Callers   \* the handler goroutines that call Refresh

VARIABLES
  caller,           \* "idle", or "signal" between the unlock and the send
  refreshInFlight,
  recent,           \* time.Since(lastRefresh) < MinRefreshInterval
  refreshCh,        \* number of signals in the channel, of capacity 1
  tick,             \* the cleanup ticker's channel, of capacity 1
  stopCh,           \* closed?
  loop              \* where the loop goroutine stands

gateVars == <<caller, refreshInFlight, recent, refreshCh, tick, stopCh, loop>>

GateTypeOK ==
  /\ caller \in [Callers -> {"idle", "signal"}]
  /\ refreshInFlight \in BOOLEAN
  /\ recent \in BOOLEAN
  /\ refreshCh \in {0, 1}
  /\ tick \in BOOLEAN
  /\ stopCh \in BOOLEAN
  /\ loop \in {"select", "refresh", "cleanup", "returned"}

GateInit ==
  /\ caller = [c \in Callers |-> "idle"]
  /\ refreshInFlight = FALSE /\ recent = FALSE
  /\ refreshCh = 0 /\ tick = FALSE /\ stopCh = FALSE
  /\ loop = "select"

(***************************************************************************)
(* Refresh, called by the handler c.                                       *)
(***************************************************************************)
BugNoFlightCheck(c) ==
  /\ caller[c] = "idle"
  /\ ~recent
  /\ refreshInFlight' = TRUE
  /\ recent' = TRUE
  /\ caller' = [caller EXCEPT ![c] = "signal"]
  /\ UNCHANGED <<refreshCh, tick, stopCh, loop>>

Refresh(c) ==
  /\ caller[c] = "idle"
  /\ ~refreshInFlight /\ ~recent
  /\ refreshInFlight' = TRUE
  /\ recent' = TRUE
  /\ caller' = [caller EXCEPT ![c] = "signal"]
  /\ UNCHANGED <<refreshCh, tick, stopCh, loop>>

\* The non-blocking send: with a signal in the channel it does nothing.
Signal(c) ==
  /\ caller[c] = "signal"
  /\ caller' = [caller EXCEPT ![c] = "idle"]
  /\ refreshCh' = 1
  /\ UNCHANGED <<refreshInFlight, recent, tick, stopCh, loop>>

\* MinRefreshInterval has passed since the last accepted call.
Elapse ==
  /\ recent
  /\ recent' = FALSE
  /\ UNCHANGED <<caller, refreshInFlight, refreshCh, tick, stopCh, loop>>

(***************************************************************************)
(* loop: one select over the signal, the ticker and stopCh.                *)
(***************************************************************************)
BeginRefresh ==
  /\ loop = "select" /\ refreshCh = 1
  /\ refreshCh' = 0
  /\ loop' = "refresh"
  /\ UNCHANGED <<caller, refreshInFlight, recent, tick, stopCh>>

\* The deferred function of doRefresh.
BugFlagStaysSet ==
  /\ loop = "refresh"
  /\ loop' = "select"
  /\ UNCHANGED <<caller, refreshInFlight, recent, refreshCh, tick, stopCh>>

BugStuckAfterStop ==
  /\ loop = "refresh" /\ ~stopCh
  /\ refreshInFlight' = FALSE
  /\ loop' = "select"
  /\ UNCHANGED <<caller, recent, refreshCh, tick, stopCh>>

EndRefresh ==
  /\ loop = "refresh"
  /\ refreshInFlight' = FALSE
  /\ loop' = "select"
  /\ UNCHANGED <<caller, recent, refreshCh, tick, stopCh>>

Tick ==
  /\ ~tick
  /\ tick' = TRUE
  /\ UNCHANGED <<caller, refreshInFlight, recent, refreshCh, stopCh, loop>>

BeginCleanup ==
  /\ loop = "select" /\ tick
  /\ tick' = FALSE
  /\ loop' = "cleanup"
  /\ UNCHANGED <<caller, refreshInFlight, recent, refreshCh, stopCh>>

EndCleanup ==
  /\ loop = "cleanup"
  /\ loop' = "select"
  /\ UNCHANGED <<caller, refreshInFlight, recent, refreshCh, tick, stopCh>>

Stop ==
  /\ ~stopCh
  /\ stopCh' = TRUE
  /\ UNCHANGED <<caller, refreshInFlight, recent, refreshCh, tick, loop>>

\* The loop closes doneCh, which lets Stop return.
Return ==
  /\ loop = "select" /\ stopCh
  /\ loop' = "returned"
  /\ UNCHANGED <<caller, refreshInFlight, recent, refreshCh, tick, stopCh>>

GateNext ==
  \/ \E c \in Callers : Refresh(c) \/ Signal(c)
  \/ Elapse
  \/ BeginRefresh \/ EndRefresh
  \/ Tick \/ BeginCleanup \/ EndCleanup
  \/ Stop \/ Return

(***************************************************************************)
(* A handler past the unlock runs on, and so does the loop; a select with   *)
(* several ready cases takes one of them at random, which is strong         *)
(* fairness for each.  A refresh ends because every request of it has a     *)
(* timeout.  Nothing makes a handler call, a tick come or Stop be called.   *)
(***************************************************************************)
GateFairness ==
  /\ \A c \in Callers : WF_gateVars(Signal(c))
  /\ SF_gateVars(BeginRefresh) /\ WF_gateVars(EndRefresh)
  /\ WF_gateVars(EndCleanup)
  /\ SF_gateVars(Return)

GateSpec == GateInit /\ [][GateNext]_gateVars /\ GateFairness

(***************************************************************************)
(* Properties                                                              *)
(***************************************************************************)

Signalling == {c \in Callers : caller[c] = "signal"}

\* refreshInFlight is set exactly while somebody is responsible for it: a
\* handler about to signal, a signal in the channel, or the loop.  A flag with
\* nobody behind it would refuse every later refresh for the life of the
\* process (Refresh and doRefresh).
InFlightIsServed ==
  refreshInFlight <=> Signalling # {} \/ refreshCh = 1 \/ loop = "refresh"

\* There is never more than one refresh on its way, so upstream never sees two
\* at a time and the default case of the send, which would lose a request that
\* was accepted, is never taken (the singleflight of Refresh).
OneAtATime ==
  /\ \A c, d \in Signalling : c = d
  /\ Signalling # {} => refreshCh = 0 /\ loop # "refresh"
  /\ refreshCh = 1 => loop # "refresh"

\* No accepted refresh is lost: every send puts a signal into the channel that
\* was not there before (the select with default in Refresh).
SignalIsNew ==
  [][\A c \in Callers : c \in Signalling /\ caller'[c] = "idle"
        => refreshCh = 0 /\ refreshCh' = 1]_gateVars

\* A refresh that was accepted is over some time later, or the poller is
\* stopped: the button of the web UI does not stay dead.
RefreshEnds == refreshInFlight ~> ~refreshInFlight \/ stopCh

\* Stop returns, whatever the handlers and the ticker do meanwhile.
StopReturns == stopCh ~> loop = "returned"
=============================================================================
