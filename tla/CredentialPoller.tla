-------------------------- MODULE CredentialPoller --------------------------
(***************************************************************************)
(* The credential poller, internal/credential/poller.go: a refresh reads    *)
(* CLIProxyAPI's auth files, writes one row per credential to               *)
(* credential_health and replaces the cache.  The web UI shows the cache    *)
(* (Snapshot), the issues report reads the table                            *)
(* (internal/db/issues_report.go), so the two have to agree.                *)
(*                                                                          *)
(* The table has one row per credential hash and each upsert is a           *)
(* transaction of its own that may fail.  The process may end at any time;  *)
(* the table survives, the cache does not.                                  *)
(***************************************************************************)
EXTENDS RefreshGate

CONSTANTS
  Credentials,      \* the (provider, credential_hash) keys
  MaxFailedUpserts  \* bound of the model: failed upserts

ASSUME UpsertAssumption == MaxFailedUpserts \in Nat

VARIABLES
  health,           \* credential_health: a function on the keys with a row
  healthCache,      \* the rows of the last poll, in memory
  files,            \* the rows this refresh has yet to write
  next,             \* what this refresh will put into the cache
  stage,            \* where the refresh stands
  failedUpserts,    \* failed upserts so far
  lost              \* history: keys whose last upsert failed

healthVars == <<health, healthCache, files, next, stage, failedUpserts, lost>>
credentialVars == <<gateVars, healthVars>>

\* Of the statuses that normalizeCredentialStatus returns only "error" is
\* treated apart; "ready" stands for all the others but "stale".
Reported == {"ready", "error"}
HealthStatuses == Reported \cup {"stale"}
HealthRows(S) == UNION {[K -> S] : K \in SUBSET Credentials}

CredentialTypeOK ==
  /\ GateTypeOK
  /\ health \in HealthRows(HealthStatuses)
  /\ healthCache \in HealthRows(HealthStatuses)
  /\ next \in HealthRows(HealthStatuses)
  /\ files \subseteq DOMAIN next
  /\ stage \in {"idle", "fetch", "upsert", "mark", "publish"}
  /\ failedUpserts \in 0..MaxFailedUpserts
  /\ lost \subseteq Credentials

\* An earlier process leaves whatever it had written.
CredentialInit ==
  /\ GateInit
  /\ health \in HealthRows(HealthStatuses)
  /\ healthCache = <<>> /\ files = {} /\ next = <<>>
  /\ stage = "idle"
  /\ failedUpserts = 0 /\ lost = {}

(***************************************************************************)
(* The shared gate, with the refresh of this poller between its begin and   *)
(* its end.                                                                *)
(***************************************************************************)
Click(c) == (Refresh(c) \/ Signal(c)) /\ UNCHANGED healthVars

Clock == (Elapse \/ Tick) /\ UNCHANGED healthVars

CredentialDoRefresh ==
  /\ BeginRefresh
  /\ stage' = "fetch"
  /\ UNCHANGED <<health, healthCache, files, next, failedUpserts, lost>>

\* FetchAuthFiles answers with any set of credentials.
Fetched ==
  /\ stage = "fetch"
  /\ next' \in HealthRows(Reported)
  /\ files' = DOMAIN next'
  /\ stage' = "upsert"
  /\ UNCHANGED <<gateVars, health, healthCache, failedUpserts, lost>>

(***************************************************************************)
(* FetchAuthFiles fails: markExistingStale copies the cache and marks what  *)
(* is neither stale nor in error.                                          *)
(***************************************************************************)
BugMarkErrors ==
  /\ stage = "fetch"
  /\ next' = [c \in DOMAIN healthCache |-> "stale"]
  /\ files' = {c \in DOMAIN healthCache : healthCache[c] # "stale"}
  /\ stage' = "mark"
  /\ UNCHANGED <<gateVars, health, healthCache, failedUpserts, lost>>

FetchFails ==
  /\ stage = "fetch"
  /\ next' = [c \in DOMAIN healthCache |-> IF healthCache[c] = "error" THEN "error" ELSE "stale"]
  /\ files' = {c \in DOMAIN healthCache : healthCache[c] \notin {"stale", "error"}}
  /\ stage' = "mark"
  /\ UNCHANGED <<gateVars, health, healthCache, failedUpserts, lost>>

\* UpsertCredentialHealth of one row, in the loops of poll and markExistingStale.
Upsert(c) ==
  /\ stage \in {"upsert", "mark"} /\ c \in files
  /\ health' = [k \in DOMAIN health \cup {c} |-> IF k = c THEN next[c] ELSE health[k]]
  /\ files' = files \ {c}
  /\ lost' = lost \ {c}
  /\ UNCHANGED <<gateVars, healthCache, next, stage, failedUpserts>>

\* A failed upsert is logged and the loop goes on.
UpsertFails(c) ==
  /\ stage \in {"upsert", "mark"} /\ c \in files
  /\ failedUpserts < MaxFailedUpserts
  /\ failedUpserts' = failedUpserts + 1
  /\ files' = files \ {c}
  /\ lost' = lost \cup {c}
  /\ UNCHANGED <<gateVars, health, healthCache, next, stage>>

\* The rows written, poll and markExistingStale replace the cache under mu.
BugPublishFirst ==
  /\ stage \in {"upsert", "mark"}
  /\ healthCache' = next
  /\ files' = {}
  /\ stage' = "publish"
  /\ UNCHANGED <<gateVars, health, next, failedUpserts, lost>>

Publish ==
  /\ stage \in {"upsert", "mark"} /\ files = {}
  /\ healthCache' = next
  /\ stage' = "publish"
  /\ UNCHANGED <<gateVars, health, files, next, failedUpserts, lost>>

CredentialRefreshed ==
  /\ stage = "publish"
  /\ EndRefresh
  /\ stage' = "idle"
  /\ next' = <<>>
  /\ UNCHANGED <<health, healthCache, files, failedUpserts, lost>>

(***************************************************************************)
(* cleanup deletes the stale rows that were last checked more than          *)
(* DiagnosticRetention ago; how long ago that was is left open.             *)
(***************************************************************************)
Cleanup(old) ==
  /\ EndCleanup
  /\ health' = [k \in {c \in DOMAIN health : ~(c \in old /\ health[c] = "stale")} |-> health[k]]
  /\ UNCHANGED <<healthCache, files, next, stage, failedUpserts, lost>>

\* The process ends, wherever it stands, and a new one starts on the table.
Restart ==
  /\ caller' = [c \in Callers |-> "idle"]
  /\ refreshInFlight' = FALSE /\ recent' = FALSE
  /\ refreshCh' = 0 /\ tick' = FALSE /\ stopCh' = FALSE
  /\ loop' = "select"
  /\ healthCache' = <<>> /\ files' = {} /\ next' = <<>> /\ stage' = "idle"
  /\ lost' = {}
  /\ UNCHANGED <<health, failedUpserts>>

CredentialNext ==
  \/ \E c \in Callers : Click(c)
  \/ Clock
  \/ CredentialDoRefresh \/ Fetched \/ FetchFails
  \/ \E c \in Credentials : Upsert(c) \/ UpsertFails(c)
  \/ Publish \/ CredentialRefreshed
  \/ BeginCleanup /\ UNCHANGED healthVars
  \/ \E old \in SUBSET Credentials : Cleanup(old)
  \/ (Stop \/ Return) /\ UNCHANGED healthVars
  \/ Restart

CredentialSpec == CredentialInit /\ [][CredentialNext]_credentialVars

(***************************************************************************)
(* Properties                                                              *)
(***************************************************************************)

\* What the web UI shows and what the issues report reads agree whenever no
\* refresh is under way: a credential in the cache has a row with the same
\* status, except where its last upsert failed, and except that retention may
\* have deleted a stale row (Publish after the upserts of poll).
CacheIsStored ==
  loop # "refresh" =>
    \A c \in DOMAIN healthCache \ lost :
      IF c \in DOMAIN health THEN health[c] = healthCache[c] ELSE healthCache[c] = "stale"

\* An error that CLIProxyAPI reported stays in the table until CLIProxyAPI
\* reports something else about the credential: neither a failed refresh nor
\* retention nor a restart hides it (markExistingStale, DeleteStaleCredentialHealth).
\* A credential whose newer report failed to be stored is known to the cache only
\* and excepted.
ErrorIsKept ==
  [][\A c \in DOMAIN health : health[c] = "error" /\ c \notin lost /\ stage # "upsert"
       => c \in DOMAIN health' /\ health'[c] = "error"]_credentialVars
=============================================================================
