------------------------------ MODULE Database ------------------------------
(***************************************************************************)
(* internal/db Open and migrate, the salt guard and the steps of a start    *)
(* around them (serve.go): processes that start on one database file, which *)
(* may be fresh, of an earlier release, or left behind by a start that did  *)
(* not end.  The migration is a list of statements, each committed by       *)
(* itself, except the task that runs in a transaction.                      *)
(*                                                                          *)
(* Each table is given by the columns that tell the cases apart: columns    *)
(* every release had, columns that CREATE has and an old table lacks, and   *)
(* columns that even a new table gets from ensureColumns only.              *)
(***************************************************************************)
EXTENDS Integers, Sequences, FiniteSets, SequencesExt

CONSTANTS
  Procs,        \* processes on the database file: a deployment and a second start
  Salts,        \* contents of the salt file
  None,         \* no fingerprint is stored
  LegacyDBs,    \* the databases that earlier releases leave behind
  MaxCrashes    \* bound: crashes, failing statements and power losses

VARIABLES
  db,           \* what is committed
  durable,      \* what is synced: a power loss may go back to it
  proc,         \* the processes
  saltFile,     \* the content of the salt file
  crashes

vars == <<db, durable, proc, saltFile, crashes>>

SchemaVersion == 8

-----------------------------------------------------------------------------
(* The migration as a list of statements                                    *)

BaseTables       == <<"request_usage", "health_metrics", "schema_migrations", "schema_tasks", "db_metadata">>
TablesV6         == <<"side_usage_events", "credential_health", "quota_refresh_events">>
MultimodalTables == <<"usage_dimensions">>

BaseColumns == [
  request_usage        |-> {"created_at", "created_at_unix"},
  health_metrics       |-> {"timestamp", "timestamp_unix"},
  schema_migrations    |-> {"version", "name"},
  schema_tasks         |-> {"name"},
  db_metadata          |-> {"key"},
  side_usage_events    |-> {"request_id", "cache_creation_tokens"},
  credential_health    |-> {"status", "display_label"},
  quota_refresh_events |-> {"provider", "details_json"},
  usage_dimensions     |-> {"created_at_unix"},
  _init                |-> {"x"}]

RequestUsageColumns      == <<"created_at_unix", "capture_outcome">>
HealthMetricColumns      == <<"timestamp_unix">>
CredentialHealthColumns  == <<"display_label">>
QuotaRefreshEventColumns == <<"details_json">>
SideUsageEventColumns    == <<"cache_creation_tokens">>

\* An index needs its column.
IndexedColumns == << <<"request_usage", "capture_outcome">>, <<"usage_dimensions", "created_at_unix">> >>

\* What the rows are updated from and to.
Normalized == {<<"request_usage", "created_at_unix">>, <<"health_metrics", "timestamp_unix">>,
               <<"request_usage", "capture_outcome">>}

Each(op, seq) == [i \in DOMAIN seq |-> [op |-> op, on |-> seq[i]]]
CreateTables(tables) == Each("create", tables)
EnsureColumns(table, cols) ==
  <<[op |-> "inspect", on |-> table]>> \o [i \in DOMAIN cols |-> [op |-> "alter", on |-> <<table, cols[i]>>]]
CreateIndexes == Each("index", IndexedColumns)
RunSchemaTask == Each("begin", <<"backfill">>) \o Each("commit", <<"backfill">>)
RecordVersion == Each("record", <<SchemaVersion>>) \o Each("version", <<SchemaVersion>>)
WriteProbe    == Each("create", <<"_init">>) \o Each("drop", <<"_init">>)

Columns ==
  EnsureColumns("schema_migrations", <<"name">>)
  \o EnsureColumns("request_usage", RequestUsageColumns)
  \o EnsureColumns("health_metrics", HealthMetricColumns)

BugIndexesFirst == CreateTables(BaseTables) \o CreateTables(TablesV6) \o CreateTables(MultimodalTables)
  \o CreateIndexes \o Columns \o EnsureColumns("credential_health", CredentialHealthColumns)
  \o EnsureColumns("quota_refresh_events", QuotaRefreshEventColumns)
  \o EnsureColumns("side_usage_events", SideUsageEventColumns) \o RunSchemaTask \o RecordVersion \o WriteProbe

Migration ==
  CreateTables(BaseTables) \o Columns
  \o CreateTables(TablesV6)
  \o EnsureColumns("credential_health", CredentialHealthColumns)
  \o EnsureColumns("quota_refresh_events", QuotaRefreshEventColumns)
  \o CreateTables(MultimodalTables)
  \o EnsureColumns("side_usage_events", SideUsageEventColumns)
  \o CreateIndexes \o RunSchemaTask \o RecordVersion \o WriteProbe

Statements(op) == {s.on : s \in {r \in Range(Migration) : r.op = op}}

-----------------------------------------------------------------------------
(* State                                                                    *)

Off == [state |-> "off", at |-> 0, existing |-> {}, tx |-> <<>>, salt |-> None]

Fresh == [tables |-> <<>>, indexes |-> {}, tasks |-> {}, versions |-> {}, userVersion |-> 0,
          rows |-> {}, fingerprint |-> None]

\* A row has its time in seconds or not yet, and the salt of its hashes: None
\* for one that was written before fingerprints were stored.
Rows == [timed : BOOLEAN, salt : Salts \cup {None}]

\* What is known of a database: a table lacks at most the columns that a later
\* release adds to it, the times in seconds were written before the task was
\* recorded, and no row has a hash with another salt than the one that is bound.
Known(d) ==
  /\ d = [tables |-> d.tables, indexes |-> d.indexes, tasks |-> d.tasks, versions |-> d.versions,
          userVersion |-> d.userVersion, rows |-> d.rows, fingerprint |-> d.fingerprint]
  /\ d.rows \subseteq Rows /\ d.fingerprint \in Salts \cup {None}
  /\ \A t \in DOMAIN d.tables \ {"_init"} :
       \A c \in BaseColumns[t] : <<t, c>> \in Statements("alter") \/ c \in d.tables[t]
  /\ "backfill" \in d.tasks => \A r \in d.rows : r.timed
  /\ \A r \in d.rows : r.salt \in {None, d.fingerprint}

ASSUME LegacyAssumption == None \notin Salts /\ \A d \in LegacyDBs : Known(d)

TypeOK ==
  /\ db.rows \subseteq Rows /\ db.fingerprint \in Salts \cup {None}
  /\ \A p \in Procs : /\ proc[p].state \in {"off", "migrating", "verifying", "binding", "serving"}
                      /\ (proc[p].state = "migrating") <=> proc[p].at \in DOMAIN Migration
  /\ saltFile \in Salts /\ crashes \in 0..MaxCrashes

Init ==
  /\ db \in LegacyDBs \cup {Fresh}
  /\ durable = db
  /\ proc = [p \in Procs |-> Off]
  /\ saltFile \in Salts
  /\ crashes = 0

-----------------------------------------------------------------------------
(* A start: the salt, the statements of Open, the salt guard                *)

At(p, op) == proc[p].state = "migrating" /\ Migration[proc[p].at].op = op
On(p)     == Migration[proc[p].at].on

Start(p) ==
  /\ proc[p].state = "off"
  /\ proc' = [proc EXCEPT ![p].state = "migrating", ![p].at = 1, ![p].salt = saltFile]
  /\ UNCHANGED <<db, durable, saltFile, crashes>>

Forward(p, n) == IF proc[p].at + n \in DOMAIN Migration
                 THEN [proc EXCEPT ![p].at = @ + n]
                 ELSE [proc EXCEPT ![p].at = 0, ![p].state = "verifying", ![p].existing = {}]

Do(p, committed) ==
  /\ db' = committed
  /\ proc' = Forward(p, 1)
  /\ UNCHANGED <<durable, saltFile, crashes>>

\* The statement reports an error: Open returns it and the process ends.
Fail(p) ==
  /\ proc' = [proc EXCEPT ![p] = Off]
  /\ UNCHANGED <<db, durable, saltFile, crashes>>

CreateTable(p) ==
  /\ At(p, "create")
  /\ LET t == On(p) IN
     Do(p, [db EXCEPT !.tables = [u \in DOMAIN @ \cup {t} |-> IF u \in DOMAIN @ THEN @[u] ELSE BaseColumns[u]]])

DropTable(p) ==
  /\ At(p, "drop")
  /\ Do(p, [db EXCEPT !.tables = [u \in DOMAIN @ \ {On(p)} |-> @[u]]])

\* A table that CREATE TABLE IF NOT EXISTS has passed is taken to have its columns.
BugTrustsCreate(p) ==
  /\ At(p, "inspect")
  /\ proc' = [Forward(p, 1) EXCEPT ![p].existing = db.tables[On(p)] \cup BaseColumns[On(p)]]
  /\ UNCHANGED <<db, durable, saltFile, crashes>>

Inspect(p) ==
  /\ At(p, "inspect")
  /\ proc' = [Forward(p, 1) EXCEPT ![p].existing = db.tables[On(p)]]
  /\ UNCHANGED <<db, durable, saltFile, crashes>>

\* A column that another process has added since the inspection is an error.
AddColumn(p) ==
  /\ At(p, "alter")
  /\ LET t == On(p)[1]  c == On(p)[2] IN
     IF c \in proc[p].existing THEN Do(p, db)
     ELSE IF c \in db.tables[t] THEN Fail(p)
     ELSE Do(p, [db EXCEPT !.tables[t] = @ \cup {c}])

CreateIndex(p) ==
  /\ At(p, "index")
  /\ IF On(p)[2] \in db.tables[On(p)[1]]
     THEN Do(p, [db EXCEPT !.indexes = @ \cup {On(p)}])
     ELSE Fail(p)

BeginTask(p) ==
  /\ At(p, "begin")
  /\ proc' = IF On(p) \in db.tasks THEN Forward(p, 2) ELSE [Forward(p, 1) EXCEPT ![p].tx = <<db>>]
  /\ UNCHANGED <<db, durable, saltFile, crashes>>

Timed(rows) == {[r EXCEPT !.timed = TRUE] : r \in rows}

\* The task is recorded first, and the rows are updated when it is known to be new.
BugTaskFirst(p) ==
  \/ /\ At(p, "begin")
     /\ IF On(p) \in db.tasks
        THEN proc' = Forward(p, 2) /\ UNCHANGED db
        ELSE proc' = Forward(p, 1) /\ db' = [db EXCEPT !.tasks = @ \cup {On(p)}]
     /\ UNCHANGED <<durable, saltFile, crashes>>
  \/ /\ At(p, "commit")
     /\ Do(p, [db EXCEPT !.rows = Timed(@)])

\* The transaction has read before it writes: it cannot write any more when
\* another process has committed in between.
CommitTask(p) ==
  /\ At(p, "commit")
  /\ IF db = proc[p].tx[1] /\ \A tc \in Normalized : tc[2] \in db.tables[tc[1]]
     THEN /\ db' = [db EXCEPT !.rows = Timed(@), !.tasks = @ \cup {On(p)}]
          /\ proc' = [Forward(p, 1) EXCEPT ![p].tx = <<>>]
          /\ UNCHANGED <<durable, saltFile, crashes>>
     ELSE Fail(p)

BackfillV4(p) == BeginTask(p) \/ CommitTask(p)

RecordMigration(p) ==
  /\ At(p, "record")
  /\ Do(p, [db EXCEPT !.versions = @ \cup {On(p)}])

SetUserVersion(p) ==
  /\ At(p, "version")
  /\ Do(p, [db EXCEPT !.userVersion = On(p)])

BugTrustsTheFile(p) ==
  /\ proc[p].state = "verifying"
  /\ proc' = [proc EXCEPT ![p].state = "binding"]
  /\ UNCHANGED <<db, durable, saltFile, crashes>>

ReadFingerprint(p) ==
  /\ proc[p].state = "verifying"
  /\ \/ /\ db.fingerprint = None
        /\ proc' = [proc EXCEPT ![p].state = "binding"]
     \/ /\ db.fingerprint = proc[p].salt
        /\ proc' = [proc EXCEPT ![p].state = "serving"]
     \/ /\ db.fingerprint \notin {None, proc[p].salt}
        /\ proc' = [proc EXCEPT ![p] = Off]
  /\ UNCHANGED <<db, durable, saltFile, crashes>>

BindFingerprint(p) ==
  /\ proc[p].state = "binding"
  /\ db' = [db EXCEPT !.fingerprint = proc[p].salt]
  /\ proc' = [proc EXCEPT ![p].state = "serving"]
  /\ UNCHANGED <<durable, saltFile, crashes>>

-----------------------------------------------------------------------------
(* A process that serves                                                    *)

\* A flush of the writer, or the row of the health reporter.
InsertBatch(p) ==
  /\ proc[p].state = "serving"
  /\ db' = [db EXCEPT !.rows = @ \cup {[timed |-> TRUE, salt |-> proc[p].salt]}]
  /\ UNCHANGED <<durable, proc, saltFile, crashes>>

CheckpointWAL(p) ==
  /\ proc[p].state = "serving"
  /\ durable' = db
  /\ UNCHANGED <<db, proc, saltFile, crashes>>

\* The last connection that is closed checkpoints.
Close(p) ==
  /\ proc[p].state = "serving"
  /\ proc' = [proc EXCEPT ![p] = Off]
  /\ durable' = IF \A q \in Procs \ {p} : proc[q].state = "off" THEN db ELSE durable
  /\ UNCHANGED <<db, saltFile, crashes>>

-----------------------------------------------------------------------------
(* The environment                                                          *)

Crash(p) ==
  /\ crashes < MaxCrashes /\ proc[p].state # "off"
  /\ proc' = [proc EXCEPT ![p] = Off]
  /\ crashes' = crashes + 1
  /\ UNCHANGED <<db, durable, saltFile>>

\* synchronous is NORMAL: commits since the last checkpoint may be gone.
PowerLoss ==
  /\ crashes < MaxCrashes
  /\ db' = durable
  /\ proc' = [p \in Procs |-> Off]
  /\ crashes' = crashes + 1
  /\ UNCHANGED <<durable, saltFile>>

\* The salt file is replaced, but not while a process starts: two that start on
\* an unbound database with different salts would both bind it.
ReplaceSalt(s) ==
  /\ \A p \in Procs : proc[p].state \in {"off", "serving"}
  /\ s # saltFile
  /\ saltFile' = s
  /\ UNCHANGED <<db, durable, proc, crashes>>

-----------------------------------------------------------------------------
Opening(p) ==
  \/ CreateTable(p) \/ DropTable(p) \/ Inspect(p) \/ AddColumn(p) \/ CreateIndex(p) \/ BackfillV4(p)
  \/ RecordMigration(p) \/ SetUserVersion(p) \/ ReadFingerprint(p) \/ BindFingerprint(p)

Next ==
  \/ \E p \in Procs : Start(p) \/ Opening(p) \/ InsertBatch(p) \/ CheckpointWAL(p) \/ Close(p) \/ Crash(p)
  \/ PowerLoss
  \/ \E s \in Salts : ReplaceSalt(s)

\* A supervisor starts a process that has ended, and a process that runs goes on.
Spec == Init /\ [][Next]_vars /\ \A p \in Procs : WF_vars(Start(p)) /\ WF_vars(Opening(p))

-----------------------------------------------------------------------------
(* Properties                                                               *)

Opened(p) == proc[p].state \in {"verifying", "binding", "serving"}
Ready(p)  == proc[p].state = "serving"

\* Open returns a database only when the schema is that of this release,
\* whatever database it found, wherever an earlier start was interrupted and
\* whatever a second start does meanwhile.
OpenedMeansComplete == \A p \in Procs : Opened(p) =>
  /\ Statements("create") \ {"_init"} \subseteq DOMAIN db.tables
  /\ \A t \in Statements("create") \ {"_init"} : BaseColumns[t] \subseteq db.tables[t]
  /\ \A tc \in Statements("alter") : tc[2] \in db.tables[tc[1]]
  /\ Statements("index") \subseteq db.indexes
  /\ Statements("commit") \subseteq db.tasks
  /\ SchemaVersion \in db.versions /\ db.userVersion = SchemaVersion

\* No request of the past is left out of the reports, which select by the time
\* in seconds: the task is marked as done only together with its rows.
HistoryIsTimed == \A p \in Procs : Opened(p) => \A r \in db.rows : r.timed

\* All rows since the binding are hashed with the salt that is bound.
OneSalt == \A r \in db.rows : r.salt \in {None, db.fingerprint}

\* A start that fails is not a dead end: while the salt file fits the database,
\* processes come to serve, from any database and after any crash.
ServesInTheEnd == <>[](db.fingerprint \in {None, saltFile}) => []<>(\E p \in Procs : Ready(p))
=============================================================================
