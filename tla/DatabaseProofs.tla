--------------------------- MODULE DatabaseProofs ---------------------------
(***************************************************************************)
(* The opening of the database, for any number of processes that start on  *)
(* one file, any number of crashes and power losses, and any database that  *)
(* an earlier release left behind.                                          *)
(*                                                                          *)
(* The argument does not look at the thirty statements one by one.  The     *)
(* migration is a script: what a statement needs, an earlier one has seen   *)
(* to.  A statement that a process has passed is done, and stays done       *)
(* whatever the others do, because the statements of a script only add.     *)
(***************************************************************************)
EXTENDS Database, SequenceTheorems, TLAPS

-----------------------------------------------------------------------------
(* Scripts *)

Operations == {"create", "inspect", "alter", "index", "begin", "commit", "record", "version", "drop"}

TableNames == {"request_usage", "health_metrics", "schema_migrations", "schema_tasks", "db_metadata",
  "side_usage_events", "credential_health", "quota_refresh_events", "usage_dimensions", "_init"}

ColumnNames == {"name", "created_at_unix", "capture_outcome", "timestamp_unix", "display_label",
  "details_json", "cache_creation_tokens"}

Names == TableNames \cup (TableNames \X ColumnNames) \cup {"backfill", SchemaVersion}

Statement == [op : Operations, on : Names]

Created(s) == {r.on : r \in {q \in Range(s) : q.op = "create"}}

\* The tables created before the i-th statement.
CreatedBefore(s, i) == {s[j].on : j \in {k \in 1..(i - 1) : s[k].op = "create"}}

\* A column is added to a table that exists, directly after the inspection of
\* that table or after another of its columns; a task is begun and committed;
\* only the table of the write probe is dropped; and there is one version.
Script(s, before) ==
  /\ s \in Seq(Statement)
  /\ \A i \in 1..Len(s) :
       /\ s[i].op = "alter" =>
            /\ s[i].on[1] # "_init"
            /\ s[i].on[1] \in before \cup CreatedBefore(s, i)
            /\ i > 1
            /\ \/ s[i - 1].op = "inspect" /\ s[i - 1].on = s[i].on[1]
               \/ s[i - 1].op = "alter" /\ s[i - 1].on[1] = s[i].on[1]
       /\ s[i].op = "begin" =>
            i < Len(s) /\ s[i + 1].op = "commit" /\ s[i + 1].on = s[i].on
       /\ s[i].op = "drop" => s[i].on = "_init"
       /\ s[i].op = "version" => s[i].on = SchemaVersion

\* A statement is on a table, on a column of a table, or on the version.
LEMMA NameForms ==
  /\ \A t \in TableNames : t \in Names
  /\ \A t \in TableNames, c \in ColumnNames : <<t, c>> \in Names
  /\ "backfill" \in Names /\ SchemaVersion \in Names
<1>1. TableNames \subseteq Names /\ TableNames \X ColumnNames \subseteq Names
      /\ "backfill" \in Names /\ SchemaVersion \in Names
  BY Zenon DEF Names
<1>2. \A t \in TableNames, c \in ColumnNames : <<t, c>> \in TableNames \X ColumnNames
  OBVIOUS
<1> QED
  BY Zenon, <1>1, <1>2

\* A script goes on as a script.
LEMMA Compose ==
  ASSUME NEW s, NEW u, NEW before, Script(s, before), Script(u, before \cup Created(s))
  PROVE  /\ Script(s \o u, before)
         /\ Created(s \o u) = Created(s) \cup Created(u)
         /\ Range(s \o u) = Range(s) \cup Range(u)
<1> DEFINE v == s \o u
<1>1. /\ s \in Seq(Statement) /\ u \in Seq(Statement) /\ v \in Seq(Statement)
      /\ Len(s) \in Nat /\ Len(u) \in Nat /\ Len(v) = Len(s) + Len(u)
      /\ \A i \in 1..(Len(s) + Len(u)) : v[i] = IF i <= Len(s) THEN s[i] ELSE u[i - Len(s)]
  BY ConcatProperties, LenProperties DEF Script
<1>2. Range(v) = Range(s) \cup Range(u)
  BY <1>1, RangeConcatenation
<1>3. Created(v) = Created(s) \cup Created(u)
  BY <1>2 DEF Created
<1>4. Created(s) = {s[j].on : j \in {k \in 1..Len(s) : s[k].op = "create"}}
  BY <1>1, RangeEquality DEF Created
<1> HIDE DEF v
<1>5. ASSUME NEW i \in 1..Len(s) PROVE v[i] = s[i] /\ CreatedBefore(s, i) \subseteq CreatedBefore(v, i)
  BY <1>1 DEF CreatedBefore
<1>6. ASSUME NEW i \in 1..Len(u)
      PROVE  /\ v[Len(s) + i] = u[i]
             /\ Created(s) \cup CreatedBefore(u, i) \subseteq CreatedBefore(v, Len(s) + i)
  <2>1. v[Len(s) + i] = u[i]
    BY <1>1
  <2>2. ASSUME NEW j \in 1..Len(s), s[j].op = "create" PROVE s[j].on \in CreatedBefore(v, Len(s) + i)
    <3>1. v[j] = s[j] /\ j \in 1..(Len(s) + i - 1)
      BY <1>1
    <3> QED
      BY <2>2, <3>1 DEF CreatedBefore
  <2>3. ASSUME NEW j \in 1..(i - 1), u[j].op = "create" PROVE u[j].on \in CreatedBefore(v, Len(s) + i)
    <3>1. j \in 1..Len(u) /\ Len(s) + j \in 1..(Len(s) + i - 1)
      BY <1>1
    <3>2. /\ Len(s) + j \in 1..(Len(s) + Len(u)) /\ ~(Len(s) + j <= Len(s))
          /\ (Len(s) + j) - Len(s) = j
      BY <1>1, <3>1
    <3>3. v[Len(s) + j] = u[j]
      BY <1>1, <3>2
    <3> QED
      BY <2>3, <3>1, <3>3 DEF CreatedBefore
  <2> QED
    BY <1>4, <2>1, <2>2, <2>3 DEF CreatedBefore
<1> DEFINE Fits(w, b, i) ==
       /\ w[i].op = "alter" =>
            /\ w[i].on[1] # "_init"
            /\ w[i].on[1] \in b \cup CreatedBefore(w, i)
            /\ i > 1
            /\ \/ w[i - 1].op = "inspect" /\ w[i - 1].on = w[i].on[1]
               \/ w[i - 1].op = "alter" /\ w[i - 1].on[1] = w[i].on[1]
       /\ w[i].op = "begin" =>
            i < Len(w) /\ w[i + 1].op = "commit" /\ w[i + 1].on = w[i].on
       /\ w[i].op = "drop" => w[i].on = "_init"
       /\ w[i].op = "version" => w[i].on = SchemaVersion
<1>7. ASSUME NEW i \in 1..Len(s) PROVE Fits(v, before, i)
  <2>1. Fits(s, before, i)
    BY DEF Script
  <2>2. i > 1 => v[i - 1] = s[i - 1]
    BY <1>1
  <2>3. i < Len(s) => v[i + 1] = s[i + 1] /\ i < Len(v)
    BY <1>1
  <2> QED
    BY <1>5, <2>1, <2>2, <2>3
<1>8. ASSUME NEW i \in 1..Len(u) PROVE Fits(v, before, Len(s) + i)
  <2>1. Fits(u, before \cup Created(s), i)
    BY DEF Script
  <2>2. i > 1 => v[(Len(s) + i) - 1] = u[i - 1] /\ Len(s) + i > 1
    BY <1>1
  <2>3. i < Len(u) => v[(Len(s) + i) + 1] = u[i + 1] /\ Len(s) + i < Len(v)
    BY <1>1
  <2> QED
    BY <1>6, <2>1, <2>2, <2>3
<1>9. ASSUME NEW i \in 1..Len(v) PROVE Fits(v, before, i)
  <2>1. CASE i <= Len(s)
    <3>1. i \in 1..Len(s)
      BY <1>1, <2>1
    <3> HIDE DEF Fits
    <3> QED
      BY <1>7, <3>1
  <2>2. CASE i > Len(s)
    <3>1. i - Len(s) \in 1..Len(u) /\ Len(s) + (i - Len(s)) = i
      BY <1>1, <2>2
    <3> HIDE DEF Fits
    <3>2. Fits(v, before, Len(s) + (i - Len(s)))
      BY <1>8, <3>1
    <3> QED
      BY <3>1, <3>2
  <2> QED
    BY <1>1, <2>1, <2>2
<1>10. Script(v, before)
  BY <1>1, <1>9 DEF Script
<1> QED
  BY <1>2, <1>3, <1>10 DEF v

\* The parts of the migration are scripts of their own, if their tables exist.
LEMMA TablesScript ==
  ASSUME NEW tables \in Seq(TableNames), NEW before
  PROVE  Script(CreateTables(tables), before) /\ Created(CreateTables(tables)) = Range(tables)
<1> DEFINE s == CreateTables(tables)
<1>1. /\ Len(tables) \in Nat /\ DOMAIN tables = 1..Len(tables)
      /\ \A i \in 1..Len(tables) : tables[i] \in TableNames
  BY LenProperties, ElementOfSeq
<1>2. s = [i \in 1..Len(tables) |-> [op |-> "create", on |-> tables[i]]]
  BY <1>1 DEF CreateTables, Each
<1>3. s \in Seq(Statement) /\ Len(s) = Len(tables)
  <2>1. \A i \in 1..Len(tables) : [op |-> "create", on |-> tables[i]] \in Statement
    BY <1>1, NameForms DEF Statement, Operations
  <2> HIDE DEF s
  <2>2. s \in [1..Len(tables) -> Statement]
    BY <1>2, <2>1
  <2>3. s \in Seq(Statement)
    BY <1>1, <2>2, SeqDef
  <2> QED
    BY <1>1, <1>2, <2>3, LenProperties
<1> HIDE DEF s
<1>4. Script(s, before)
  BY <1>2, <1>3 DEF Script
<1>5. Range(s) = {s[i] : i \in 1..Len(tables)} /\ Range(tables) = {tables[i] : i \in 1..Len(tables)}
  BY <1>1, <1>2 DEF Range
<1>6. Created(s) = Range(tables)
  <2>1. \A i \in 1..Len(tables) : s[i] \in Range(s) /\ s[i].op = "create" /\ s[i].on = tables[i]
    BY <1>2, <1>5
  <2>2. \A r \in Range(s) : \E i \in 1..Len(tables) : r = s[i]
    BY <1>5
  <2> QED
    BY <1>5, <2>1, <2>2 DEF Created
<1> QED
  BY <1>4, <1>6 DEF s

\* Columns of a table that exists.
LEMMA ColumnsScript ==
  ASSUME NEW table \in TableNames, NEW cols \in Seq(ColumnNames), NEW before, table \in before, table # "_init"
  PROVE  Script(EnsureColumns(table, cols), before) /\ Created(EnsureColumns(table, cols)) = {}
<1> DEFINE look == <<[op |-> "inspect", on |-> table]>>
           add  == [i \in DOMAIN cols |-> [op |-> "alter", on |-> <<table, cols[i]>>]]
           s    == EnsureColumns(table, cols)
<1>1. /\ Len(cols) \in Nat /\ DOMAIN cols = 1..Len(cols)
      /\ \A i \in 1..Len(cols) : cols[i] \in ColumnNames
  BY LenProperties, ElementOfSeq
<1>2. add \in Seq(Statement) /\ Len(add) = Len(cols)
  <2>1. \A i \in 1..Len(cols) : [op |-> "alter", on |-> <<table, cols[i]>>] \in Statement
    BY <1>1, NameForms DEF Statement, Operations
  <2>2. add \in [1..Len(cols) -> Statement] /\ DOMAIN add = 1..Len(cols)
    BY <1>1, <2>1
  <2> HIDE DEF add
  <2>3. add \in Seq(Statement)
    BY <1>1, <2>2, SeqDef
  <2> QED
    BY <1>1, <2>2, <2>3, LenProperties
<1>3. look \in Seq(Statement) /\ Len(look) = 1 /\ look[1] = [op |-> "inspect", on |-> table]
  BY NameForms DEF Statement, Operations
<1>4. s = look \o add
  BY DEF EnsureColumns
<1>5. \A i \in 1..Len(cols) : add[i] = [op |-> "alter", on |-> <<table, cols[i]>>]
  BY <1>1
<1> HIDE DEF s, look, add
<1>5a. /\ s \in Seq(Statement) /\ Len(s) = Len(look) + Len(add)
       /\ \A i \in 1..(Len(look) + Len(add)) : s[i] = IF i <= Len(look) THEN look[i] ELSE add[i - Len(look)]
  <2>1. look \in Seq(Statement) /\ add \in Seq(Statement)
    BY <1>2, <1>3
  <2> QED
    BY <1>4, <2>1, ConcatProperties
<1>6. s \in Seq(Statement) /\ Len(s) = Len(cols) + 1
  BY <1>1, <1>2, <1>3, <1>5a
<1>7. s[1] = [op |-> "inspect", on |-> table]
  BY <1>1, <1>2, <1>3, <1>5a
<1>8. ASSUME NEW i \in 2..(Len(cols) + 1) PROVE s[i] = [op |-> "alter", on |-> <<table, cols[i - 1]>>]
  <2>1. i - 1 \in 1..Len(cols) /\ i \in 1..(1 + Len(cols)) /\ ~(i <= 1)
    BY <1>1
  <2>2. s[i] = add[i - 1]
    BY <1>2, <1>3, <1>5a, <2>1
  <2> QED
    BY <1>5, <2>1, <2>2
<1>9. ASSUME NEW i \in 1..Len(s)
      PROVE  IF i = 1 THEN s[i].op = "inspect" /\ s[i].on = table
                      ELSE s[i].op = "alter" /\ s[i].on[1] = table
  <2>1. i = 1 \/ i \in 2..(Len(cols) + 1)
    BY <1>1, <1>6
  <2>2. ASSUME i \in 2..(Len(cols) + 1) PROVE s[i].op = "alter" /\ s[i].on[1] = table
    <3>1. s[i] = [op |-> "alter", on |-> <<table, cols[i - 1]>>]
      BY ONLY <1>8, <2>2
    <3> QED
      BY ONLY <3>1
  <2> QED
    BY <1>1, <1>7, <2>1, <2>2
<1>10. \A i \in 1..Len(s) : i = 1 \/ (i > 1 /\ i - 1 \in 1..Len(s))
  BY <1>1, <1>6
<1>11. Script(s, before)
  BY <1>6, <1>9, <1>10 DEF Script
<1>12. Created(s) = {}
  <2>1. Range(s) = {s[i] : i \in 1..Len(s)}
    BY <1>6, RangeEquality
  <2>2. \A r \in Range(s) : r.op # "create"
    BY <1>9, <2>1
  <2> QED
    BY <2>2 DEF Created
<1> QED
  BY <1>11, <1>12 DEF s

\* The indexes ask for nothing here: one that lacks its column is an error.
LEMMA IndexesScript ==
  ASSUME NEW before
  PROVE  Script(CreateIndexes, before) /\ Created(CreateIndexes) = {}
<1> DEFINE s == CreateIndexes
<1>1. s = << [op |-> "index", on |-> IndexedColumns[1]], [op |-> "index", on |-> IndexedColumns[2]] >>
  BY DEF CreateIndexes, Each, IndexedColumns
<1>2. s \in Seq(Statement) /\ Len(s) = 2
  <2>1. IndexedColumns[1] = <<"request_usage", "capture_outcome">>
        /\ IndexedColumns[2] = <<"usage_dimensions", "created_at_unix">>
    BY DEF IndexedColumns
  <2>2. IndexedColumns[1] \in Names /\ IndexedColumns[2] \in Names
    BY <2>1, NameForms DEF TableNames, ColumnNames
  <2>3. \A n \in Names : [op |-> "index", on |-> n] \in Statement
    BY DEF Statement, Operations
  <2> QED
    BY <1>1, <2>2, <2>3
<1> HIDE DEF s
<1>3. \A i \in 1..Len(s) : s[i].op = "index"
  BY <1>1, <1>2
<1>4. Range(s) = {s[i] : i \in 1..Len(s)}
  BY <1>2, RangeEquality
<1> QED
  BY <1>2, <1>3, <1>4 DEF s, Script, Created

\* Two statements that belong together.
Pair(r1, r2) ==
  /\ r1.op \in {"begin", "record", "create"} /\ r2.op \in {"commit", "version", "drop"}
  /\ r1.op = "begin" => r2.op = "commit" /\ r2.on = r1.on
  /\ r2.op = "drop" => r2.on = "_init"
  /\ r2.op = "version" => r2.on = SchemaVersion

\* Such a pair is a script.
LEMMA PairScript ==
  ASSUME NEW r1 \in Statement, NEW r2 \in Statement, NEW before, Pair(r1, r2)
  PROVE  Script(<<r1>> \o <<r2>>, before) /\ Range(<<r1>> \o <<r2>>) = {r1, r2}
<1> DEFINE s == <<r1>> \o <<r2>>
<1>1. /\ <<r1>> \in Seq(Statement) /\ Len(<<r1>>) = 1 /\ <<r1>>[1] = r1
      /\ <<r2>> \in Seq(Statement) /\ Len(<<r2>>) = 1 /\ <<r2>>[1] = r2
  OBVIOUS
<1>2. s \in Seq(Statement) /\ Len(s) = 2 /\ s[1] = r1 /\ s[2] = r2
  BY <1>1, ConcatProperties
<1> HIDE DEF s
<1>3. Range(s) = {r1, r2}
  BY <1>2, RangeEquality
<1>4. \A i \in 1..Len(s) : i = 1 \/ i = 2
  BY <1>2
<1>5. Script(s, before)
  BY <1>2, <1>4 DEF Script, Pair
<1> QED
  BY <1>3, <1>5 DEF s

\* The lists of tables, and those of them that get columns later.
LEMMA TableLists ==
  /\ BaseTables \in Seq(TableNames) /\ TablesV6 \in Seq(TableNames) /\ MultimodalTables \in Seq(TableNames)
  /\ {"request_usage", "health_metrics", "schema_migrations"} \subseteq Range(BaseTables)
  /\ {"side_usage_events", "credential_health", "quota_refresh_events"} \subseteq Range(TablesV6)
<1>1. BaseTables \in Seq(TableNames) /\ TablesV6 \in Seq(TableNames) /\ MultimodalTables \in Seq(TableNames)
  BY DEF BaseTables, TablesV6, MultimodalTables, TableNames
<1>2. {"request_usage", "health_metrics", "schema_migrations"} \subseteq Range(BaseTables)
  <2>1. /\ BaseTables[1] = "request_usage" /\ BaseTables[2] = "health_metrics"
        /\ BaseTables[3] = "schema_migrations" /\ {1, 2, 3} \subseteq DOMAIN BaseTables
    BY DEF BaseTables
  <2> QED
    BY <2>1 DEF Range
<1>3. {"side_usage_events", "credential_health", "quota_refresh_events"} \subseteq Range(TablesV6)
  <2>1. /\ TablesV6[1] = "side_usage_events" /\ TablesV6[2] = "credential_health"
        /\ TablesV6[3] = "quota_refresh_events" /\ {1, 2, 3} \subseteq DOMAIN TablesV6
    BY DEF TablesV6
  <2> QED
    BY <2>1 DEF Range
<1> QED
  BY <1>1, <1>2, <1>3

\* The lists of columns.
LEMMA ColumnLists ==
  /\ <<"name">> \in Seq(ColumnNames) /\ RequestUsageColumns \in Seq(ColumnNames)
  /\ HealthMetricColumns \in Seq(ColumnNames) /\ CredentialHealthColumns \in Seq(ColumnNames)
  /\ QuotaRefreshEventColumns \in Seq(ColumnNames) /\ SideUsageEventColumns \in Seq(ColumnNames)
<1>1. <<"name">> \in Seq(ColumnNames) /\ RequestUsageColumns \in Seq(ColumnNames)
      /\ HealthMetricColumns \in Seq(ColumnNames)
  BY DEF RequestUsageColumns, HealthMetricColumns, ColumnNames
<1>2. CredentialHealthColumns \in Seq(ColumnNames) /\ QuotaRefreshEventColumns \in Seq(ColumnNames)
      /\ SideUsageEventColumns \in Seq(ColumnNames)
  BY DEF CredentialHealthColumns, QuotaRefreshEventColumns, SideUsageEventColumns, ColumnNames
<1> QED
  BY <1>1, <1>2

\* Compose, for a script that starts with no table.
LEMMA Then ==
  ASSUME NEW s, NEW u, Script(s, {}), Script(u, Created(s))
  PROVE  /\ Script(s \o u, {})
         /\ Created(s \o u) = Created(s) \cup Created(u)
         /\ Range(s \o u) = Range(s) \cup Range(u)
<1>1. \A b : Script(s, b) /\ Script(u, b \cup Created(s)) =>
        /\ Script(s \o u, b)
        /\ Created(s \o u) = Created(s) \cup Created(u)
        /\ Range(s \o u) = Range(s) \cup Range(u)
  BY Compose
<1>2. {} \cup Created(s) = Created(s)
  OBVIOUS
<1> QED
  BY Zenon, <1>1, <1>2

\* Columns after tables that exist: a step of the composition.
LEMMA ThenColumns ==
  ASSUME NEW s, Script(s, {}), NEW table \in Created(s), NEW cols \in Seq(ColumnNames),
         table \in TableNames, table # "_init"
  PROVE  /\ Script(s \o EnsureColumns(table, cols), {})
         /\ Created(s \o EnsureColumns(table, cols)) = Created(s)
<1>1. Script(EnsureColumns(table, cols), Created(s)) /\ Created(EnsureColumns(table, cols)) = {}
  BY ColumnsScript
<1>2. Created(s) \cup {} = Created(s)
  OBVIOUS
<1> QED
  BY <1>1, <1>2, Then

\* Tables after anything.
LEMMA ThenTables ==
  ASSUME NEW s, Script(s, {}), NEW tables \in Seq(TableNames)
  PROVE  /\ Script(s \o CreateTables(tables), {})
         /\ Created(s \o CreateTables(tables)) = Created(s) \cup Range(tables)
<1>1. Script(CreateTables(tables), Created(s)) /\ Created(CreateTables(tables)) = Range(tables)
  BY TablesScript
<1> QED
  BY <1>1, Then

\* The columns of Columns, but appended one table after the other.
LEMMA ColumnsInARow ==
  ASSUME NEW s \in Seq(Statement)
  PROVE  s \o Columns = ((s \o EnsureColumns("schema_migrations", <<"name">>))
                          \o EnsureColumns("request_usage", RequestUsageColumns))
                          \o EnsureColumns("health_metrics", HealthMetricColumns)
<1> DEFINE a == EnsureColumns("schema_migrations", <<"name">>)
           b == EnsureColumns("request_usage", RequestUsageColumns)
           c == EnsureColumns("health_metrics", HealthMetricColumns)
<1>1. a \in Seq(Statement) /\ b \in Seq(Statement) /\ c \in Seq(Statement)
  <2>1. Script(a, TableNames) /\ Script(b, TableNames) /\ Script(c, TableNames)
    BY ColumnLists, ColumnsScript DEF TableNames
  <2> QED
    BY <2>1 DEF Script
<1>2. Columns = (a \o b) \o c
  BY DEF Columns
<1> HIDE DEF a, b, c
<1>3. s \o ((a \o b) \o c) = ((s \o a) \o b) \o c
  <2>1. a \o b \in Seq(Statement)
    BY <1>1, ConcatProperties
  <2>2. s \o ((a \o b) \o c) = (s \o (a \o b)) \o c
    BY <1>1, <2>1, ConcatAssociative, SMTT(30)
  <2>3. s \o (a \o b) = (s \o a) \o b
    BY <1>1, ConcatAssociative, SMTT(30)
  <2> QED
    BY <2>2, <2>3
<1> QED
  BY <1>2, <1>3 DEF a, b, c

\* The whole migration is a script, and these are the statements of its end.
LEMMA MigrationIsScript ==
  /\ Script(Migration, {})
  /\ [op |-> "commit", on |-> "backfill"] \in Range(Migration)
  /\ [op |-> "record", on |-> SchemaVersion] \in Range(Migration)
  /\ [op |-> "version", on |-> SchemaVersion] \in Range(Migration)
<1> DEFINE
  s1  == CreateTables(BaseTables)
  s2  == s1 \o EnsureColumns("schema_migrations", <<"name">>)
  s3  == s2 \o EnsureColumns("request_usage", RequestUsageColumns)
  s4  == s3 \o EnsureColumns("health_metrics", HealthMetricColumns)
  s5  == s4 \o CreateTables(TablesV6)
  s6  == s5 \o EnsureColumns("credential_health", CredentialHealthColumns)
  s7  == s6 \o EnsureColumns("quota_refresh_events", QuotaRefreshEventColumns)
  s8  == s7 \o CreateTables(MultimodalTables)
  s9  == s8 \o EnsureColumns("side_usage_events", SideUsageEventColumns)
  s10 == s9 \o CreateIndexes
  s11 == s10 \o RunSchemaTask
  s12 == s11 \o RecordVersion
<1>1. Script(s1, {}) /\ {"request_usage", "health_metrics", "schema_migrations"} \subseteq Created(s1)
  BY TableLists, TablesScript
<1>2. s1 \in Seq(Statement)
  BY <1>1 DEF Script
<1>3. Migration = s12 \o WriteProbe
  <2>1. s1 \o Columns = s4
    BY <1>2, ColumnsInARow
  <2> QED
    BY <2>1 DEF Migration
<1> HIDE DEF s1
<1>4. "schema_migrations" # "_init" /\ "request_usage" # "_init" /\ "health_metrics" # "_init"
      /\ "credential_health" # "_init" /\ "quota_refresh_events" # "_init" /\ "side_usage_events" # "_init"
      /\ {"schema_migrations", "request_usage", "health_metrics", "credential_health",
          "quota_refresh_events", "side_usage_events"} \subseteq TableNames
  BY DEF TableNames
<1>5. Script(s2, {}) /\ Created(s2) = Created(s1)
  BY <1>1, <1>4, ColumnLists, ThenColumns
<1> HIDE DEF s2
<1>6. Script(s3, {}) /\ Created(s3) = Created(s1)
  BY <1>1, <1>4, <1>5, ColumnLists, ThenColumns
<1> HIDE DEF s3
<1>7. Script(s4, {}) /\ Created(s4) = Created(s1)
  BY <1>1, <1>4, <1>6, ColumnLists, ThenColumns
<1> HIDE DEF s4
<1>8. Script(s5, {})
      /\ {"side_usage_events", "credential_health", "quota_refresh_events"} \subseteq Created(s5)
  BY <1>7, TableLists, ThenTables
<1> HIDE DEF s5
<1>9. Script(s6, {}) /\ Created(s6) = Created(s5)
  BY <1>4, <1>8, ColumnLists, ThenColumns
<1> HIDE DEF s6
<1>10. Script(s7, {}) /\ Created(s7) = Created(s5)
  BY <1>4, <1>8, <1>9, ColumnLists, ThenColumns
<1> HIDE DEF s7
<1>11. Script(s8, {}) /\ Created(s5) \subseteq Created(s8)
  BY <1>10, TableLists, ThenTables
<1> HIDE DEF s8
<1>12. Script(s9, {})
  BY <1>4, <1>8, <1>11, ColumnLists, ThenColumns
<1> HIDE DEF s9
<1>13. Script(s10, {})
  BY <1>12, IndexesScript, Then
<1> HIDE DEF s10
<1> DEFINE begin   == [op |-> "begin", on |-> "backfill"]
           commit  == [op |-> "commit", on |-> "backfill"]
           record  == [op |-> "record", on |-> SchemaVersion]
           version == [op |-> "version", on |-> SchemaVersion]
           create  == [op |-> "create", on |-> "_init"]
           drop    == [op |-> "drop", on |-> "_init"]
<1>14. /\ RunSchemaTask = <<begin>> \o <<commit>>
       /\ RecordVersion = <<record>> \o <<version>>
       /\ WriteProbe = <<create>> \o <<drop>>
  BY DEF RunSchemaTask, RecordVersion, WriteProbe, Each
<1>15. /\ begin \in Statement /\ commit \in Statement /\ record \in Statement
       /\ version \in Statement /\ create \in Statement /\ drop \in Statement
  <2>1. "_init" \in Names /\ "backfill" \in Names /\ SchemaVersion \in Names
    BY NameForms DEF TableNames
  <2> QED
    BY <2>1 DEF Statement, Operations
<1>16. /\ begin.op = "begin" /\ commit.op = "commit" /\ commit.on = begin.on
       /\ record.op = "record" /\ version.op = "version" /\ version.on = SchemaVersion
       /\ create.op = "create" /\ drop.op = "drop" /\ drop.on = "_init"
  OBVIOUS
<1> HIDE DEF begin, record, create, drop, commit, version, s11, s12
<1>17. Pair(begin, commit) /\ Pair(record, version) /\ Pair(create, drop)
  BY <1>16 DEF Pair
<1>18. \A b : /\ Script(RunSchemaTask, b) /\ Range(RunSchemaTask) = {begin, commit}
              /\ Script(RecordVersion, b) /\ Range(RecordVersion) = {record, version}
              /\ Script(WriteProbe, b)
  BY <1>14, <1>15, <1>17, PairScript
<1>19. Script(s11, {}) /\ commit \in Range(s11)
  BY <1>13, <1>18, Then DEF s11
<1>20. Script(s12, {}) /\ {commit, record, version} \subseteq Range(s12)
  BY <1>18, <1>19, Then DEF s12
<1>21. Script(Migration, {}) /\ {commit, record, version} \subseteq Range(Migration)
  BY <1>3, <1>18, <1>20, Then
<1> QED
  BY <1>21 DEF commit, record, version

-----------------------------------------------------------------------------
(* What a process has done *)

\* What a statement leaves in the database.
Done(d, s) ==
  /\ s.op = "create" /\ s.on # "_init" => s.on \in DOMAIN d.tables
  /\ s.op = "alter"   => s.on[1] \in DOMAIN d.tables /\ s.on[2] \in d.tables[s.on[1]]
  /\ s.op = "index"   => s.on \in d.indexes
  /\ s.op = "commit"  => s.on \in d.tasks
  /\ s.op = "record"  => s.on \in d.versions
  /\ s.op = "version" => d.userVersion = s.on

\* Another database that has at least the same: only the probe's table goes.
Grows(d, e) ==
  /\ \A t \in DOMAIN d.tables \ {"_init"} : t \in DOMAIN e.tables /\ d.tables[t] \subseteq e.tables[t]
  /\ d.indexes \subseteq e.indexes /\ d.tasks \subseteq e.tasks /\ d.versions \subseteq e.versions
  /\ e.userVersion \in {d.userVersion, SchemaVersion}

\* A process has done the statements before the one it is at, and what it saw
\* of the table it is about to alter is still there.
ScriptInv(d, q) ==
  /\ q.state = "migrating" =>
       /\ q.at \in 1..Len(Migration)
       /\ \A i \in 1..(q.at - 1) : Done(d, Migration[i])
       /\ Migration[q.at].op = "alter" =>
            /\ Migration[q.at].on[1] \in DOMAIN d.tables
            /\ q.existing \subseteq d.tables[Migration[q.at].on[1]]
  /\ q.state \in {"verifying", "binding", "serving"} => \A i \in 1..Len(Migration) : Done(d, Migration[i])

\* What MigrationIsScript says, statement by statement.
LEMMA MigrationStatements ==
  /\ Migration \in Seq(Statement) /\ Len(Migration) \in Nat /\ Len(Migration) > 0
  /\ DOMAIN Migration = 1..Len(Migration)
  /\ \A i \in 1..Len(Migration) :
       /\ Migration[i].op \in Operations
       /\ Migration[i].op = "alter" =>
            /\ Migration[i].on[1] # "_init" /\ Migration[i].on[1] \in CreatedBefore(Migration, i)
            /\ i > 1
            /\ \/ Migration[i - 1].op = "inspect" /\ Migration[i - 1].on = Migration[i].on[1]
               \/ Migration[i - 1].op = "alter" /\ Migration[i - 1].on[1] = Migration[i].on[1]
       /\ Migration[i].op = "begin" =>
            i < Len(Migration) /\ Migration[i + 1].op = "commit" /\ Migration[i + 1].on = Migration[i].on
       /\ Migration[i].op = "drop" => Migration[i].on = "_init"
       /\ Migration[i].op = "version" => Migration[i].on = SchemaVersion
<1>1. Migration \in Seq(Statement)
  BY MigrationIsScript DEF Script
<1>2. Len(Migration) \in Nat /\ DOMAIN Migration = 1..Len(Migration)
  BY <1>1, LenProperties
<1>3. \A i \in 1..Len(Migration) : Migration[i].op \in Operations
  <2>1. \A i \in 1..Len(Migration) : Migration[i] \in Statement
    BY <1>1, ElementOfSeq
  <2> QED
    BY <2>1 DEF Statement
<1>4. Len(Migration) > 0
  <2>1. Range(Migration) = {Migration[i] : i \in 1..Len(Migration)}
    BY <1>1, RangeEquality
  <2>2. \E i \in 1..Len(Migration) : TRUE
    BY <2>1, MigrationIsScript
  <2> QED
    BY <1>2, <2>2
<1>5. \A i : {} \cup CreatedBefore(Migration, i) = CreatedBefore(Migration, i)
  OBVIOUS
<1> QED
  BY <1>1, <1>2, <1>3, <1>4, <1>5, MigrationIsScript DEF Script

\* A statement that is done stays done.
LEMMA DoneStays ==
  ASSUME NEW d, NEW e, Grows(d, e), NEW i \in 1..Len(Migration), Done(d, Migration[i])
  PROVE  Done(e, Migration[i])
  BY MigrationStatements DEF Done, Grows

\* What a process has done does not depend on what the others do to the database.
LEMMA OthersKeep ==
  ASSUME NEW d, NEW e, Grows(d, e), NEW q, ScriptInv(d, q)
  PROVE  ScriptInv(e, q)
<1>1. ASSUME q.state = "migrating"
      PROVE  /\ q.at \in 1..Len(Migration)
             /\ \A i \in 1..(q.at - 1) : Done(e, Migration[i])
  <2>1. q.at \in 1..Len(Migration) /\ \A i \in 1..(q.at - 1) : Done(d, Migration[i])
    BY <1>1 DEF ScriptInv
  <2>2. \A i \in 1..(q.at - 1) : i \in 1..Len(Migration)
    BY <2>1, MigrationStatements
  <2> QED
    BY <2>1, <2>2, DoneStays
<1>2. ASSUME q.state = "migrating", Migration[q.at].op = "alter"
      PROVE  /\ Migration[q.at].on[1] \in DOMAIN e.tables
             /\ q.existing \subseteq e.tables[Migration[q.at].on[1]]
  <2>1. Migration[q.at].on[1] # "_init"
    BY <1>2, MigrationStatements DEF ScriptInv
  <2> QED
    BY <1>2, <2>1 DEF ScriptInv, Grows
<1>3. ASSUME q.state \in {"verifying", "binding", "serving"}
      PROVE  \A i \in 1..Len(Migration) : Done(e, Migration[i])
  BY <1>3, DoneStays DEF ScriptInv
<1> QED
  BY <1>1, <1>2, <1>3 DEF ScriptInv

\* The statement a process is at has been executed on d, giving e, and the
\* process goes on at the next one (or, when the task is known, after it).
LEMMA Advance ==
  ASSUME NEW d, NEW e, Grows(d, e), NEW q, NEW r, ScriptInv(d, q), q.state = "migrating",
         NEW n \in {1, 2},
         Done(e, Migration[q.at]),
         n = 2 => Migration[q.at].op = "begin" /\ Done(e, Migration[q.at + 1]),
         IF q.at + n \in 1..Len(Migration)
         THEN r.state = "migrating" /\ r.at = q.at + n
         ELSE r.state = "verifying",
         r.state = "migrating" =>
           /\ Migration[q.at].op = "inspect" => r.existing \subseteq e.tables[Migration[q.at].on]
           /\ Migration[q.at].op = "alter" => r.existing = q.existing
  PROVE  ScriptInv(e, r)
<1>1. /\ q.at \in 1..Len(Migration) /\ Len(Migration) \in Nat
      /\ \A i \in 1..(q.at - 1) : Done(d, Migration[i])
  BY MigrationStatements DEF ScriptInv
<1>2. \A i \in 1..(q.at - 1) : Done(e, Migration[i])
  <2>1. \A i \in 1..(q.at - 1) : i \in 1..Len(Migration)
    BY <1>1
  <2> QED
    BY <1>1, <2>1, DoneStays
<1>3. n = 2 => q.at + 1 \in 1..Len(Migration) /\ Migration[q.at + 1].op = "commit"
  BY <1>1, MigrationStatements
<1>4. ASSUME NEW i \in 1..(q.at + n - 1) PROVE Done(e, Migration[i])
  <2>1. i \in 1..(q.at - 1) \/ i = q.at \/ (n = 2 /\ i = q.at + 1)
    BY <1>1
  <2> QED
    BY <1>2, <2>1
<1>5. CASE q.at + n \in 1..Len(Migration)
  <2> DEFINE m == q.at + n
             t == Migration[m].on[1]
  <2>0. ASSUME NEW i \in 1..(m - 1) PROVE Done(e, Migration[i])
    BY <1>1, <1>4
  <2>1. ASSUME Migration[m].op = "alter"
        PROVE  t \in DOMAIN e.tables /\ r.existing \subseteq e.tables[t]
    <3>1. /\ t # "_init" /\ t \in CreatedBefore(Migration, m)
          /\ \/ Migration[m - 1].op = "inspect" /\ Migration[m - 1].on = t
             \/ Migration[m - 1].op = "alter" /\ Migration[m - 1].on[1] = t
      BY <1>5, <2>1, MigrationStatements
    <3>2. n = 1 /\ m - 1 = q.at
      BY <1>1, <1>3, <3>1
    <3>3. t \in DOMAIN e.tables
      <4>1. PICK j \in 1..(m - 1) : Migration[j].op = "create" /\ Migration[j].on = t
        BY <3>1 DEF CreatedBefore
      <4>2. Done(e, Migration[j])
        BY <2>0
      <4> QED
        BY <3>1, <4>1, <4>2 DEF Done
    <3>4. CASE Migration[q.at].op = "inspect" /\ Migration[q.at].on = t
      BY <1>5, <3>3, <3>4
    <3>5. CASE Migration[q.at].op = "alter" /\ Migration[q.at].on[1] = t
      <4>1. t \in DOMAIN d.tables /\ q.existing \subseteq d.tables[t]
        BY <3>5 DEF ScriptInv
      <4> QED
        BY <1>5, <3>1, <3>3, <3>5, <4>1 DEF Grows
    <3> QED
      BY <3>1, <3>2, <3>4, <3>5
  <2> QED
    BY <1>5, <2>0, <2>1 DEF ScriptInv
<1>6. CASE q.at + n \notin 1..Len(Migration)
  <2>1. \A i \in 1..Len(Migration) : i \in 1..(q.at + n - 1)
    BY <1>1, <1>6
  <2> QED
    BY <1>4, <1>6, <2>1 DEF ScriptInv
<1> QED
  BY <1>5, <1>6

-----------------------------------------------------------------------------
(* The invariant *)

\* A process that starts has the salt of the file, which is not replaced
\* meanwhile; one that binds it has seen no other, and one that serves has
\* found or bound its own.
SaltInv(d, q, file) ==
  /\ q.state \in {"off", "migrating", "verifying", "binding", "serving"}
  /\ q.state \in {"migrating", "verifying", "binding"} => q.salt = file
  /\ q.state = "binding" => d.fingerprint \in {None, q.salt}
  /\ q.state = "serving" => d.fingerprint = q.salt /\ q.salt \in Salts

ProcsOK(f) == f = [q \in Procs |-> [state |-> f[q].state, at |-> f[q].at, existing |-> f[q].existing,
                                   tx |-> f[q].tx, salt |-> f[q].salt]]

OpenInv ==
  /\ Known(db) /\ Known(durable) /\ saltFile \in Salts /\ ProcsOK(proc)
  /\ \A p \in Procs : ScriptInv(db, proc[p]) /\ SaltInv(db, proc[p], saltFile)

\* A fresh database and those of earlier releases are known, and no process runs.
LEMMA OpenInit == Init => OpenInv
<1> SUFFICES ASSUME Init PROVE OpenInv
  OBVIOUS
<1>1. Known(Fresh)
  BY DEF Known, Fresh
<1>2. Known(db) /\ Known(durable)
  BY <1>1, LegacyAssumption DEF Init
<1>3. ProcsOK(proc) /\ \A p \in Procs : proc[p].state = "off"
  BY DEF Init, ProcsOK, Off
<1> QED
  BY <1>2, <1>3 DEF Init, OpenInv, ScriptInv, SaltInv

\* Forward, field by field.
LEMMA ForwardFields ==
  ASSUME ProcsOK(proc), NEW p \in Procs, NEW n \in {1, 2}, proc[p].state = "migrating"
  PROVE  /\ ProcsOK(Forward(p, n))
         /\ \A q \in Procs \ {p} : Forward(p, n)[q] = proc[q]
         /\ IF proc[p].at + n \in 1..Len(Migration)
            THEN /\ Forward(p, n)[p].state = "migrating"
                 /\ Forward(p, n)[p].at = proc[p].at + n
                 /\ Forward(p, n)[p].existing = proc[p].existing
            ELSE Forward(p, n)[p].state = "verifying"
         /\ Forward(p, n)[p].salt = proc[p].salt
<1>1. CASE proc[p].at + n \in 1..Len(Migration)
  <2>1. Forward(p, n) = [proc EXCEPT ![p].at = @ + n]
    BY <1>1, MigrationStatements DEF Forward
  <2> QED
    BY <1>1, <2>1 DEF ProcsOK
<1>2. CASE proc[p].at + n \notin 1..Len(Migration)
  <2>1. Forward(p, n) = [proc EXCEPT ![p].at = 0, ![p].state = "verifying", ![p].existing = {}]
    BY <1>2, MigrationStatements DEF Forward
  <2> QED
    BY <1>2, <2>1, ZenonT(40) DEF ProcsOK
<1> QED
  BY <1>1, <1>2

\* A statement that succeeds.
LEMMA StatementStep ==
  ASSUME OpenInv, NEW p \in Procs, proc[p].state = "migrating", NEW n \in {1, 2},
         Grows(db, db'), Known(db'), db'.fingerprint = db.fingerprint, durable' = durable, saltFile' = saltFile,
         Done(db', Migration[proc[p].at]),
         n = 2 => Migration[proc[p].at].op = "begin" /\ Done(db', Migration[proc[p].at + 1]),
         ProcsOK(proc'), \A q \in Procs \ {p} : proc'[q] = proc[q],
         proc'[p].salt = proc[p].salt,
         IF proc[p].at + n \in 1..Len(Migration)
         THEN proc'[p].state = "migrating" /\ proc'[p].at = proc[p].at + n
         ELSE proc'[p].state = "verifying",
         proc'[p].state = "migrating" =>
           /\ Migration[proc[p].at].op = "inspect" => proc'[p].existing \subseteq db'.tables[Migration[proc[p].at].on]
           /\ Migration[proc[p].at].op = "alter" => proc'[p].existing = proc[p].existing
  PROVE  OpenInv'
<1>1. ScriptInv(db', proc'[p])
  <2>1. ScriptInv(db, proc[p])
    BY DEF OpenInv
  <2> QED
    BY <2>1, Advance
<1>2. SaltInv(db', proc'[p], saltFile')
  BY DEF OpenInv, SaltInv
<1>3. ASSUME NEW q \in Procs \ {p} PROVE ScriptInv(db', proc'[q]) /\ SaltInv(db', proc'[q], saltFile')
  <2>1. ScriptInv(db, proc[q]) /\ SaltInv(db, proc[q], saltFile)
    BY DEF OpenInv
  <2>2. ScriptInv(db', proc[q])
    BY <2>1, OthersKeep
  <2> QED
    BY <2>1, <2>2 DEF SaltInv
<1> QED
  BY <1>1, <1>2, <1>3 DEF OpenInv

\* A statement that commits (Do).
LEMMA DoStep ==
  ASSUME OpenInv, NEW p \in Procs, proc[p].state = "migrating", NEW committed, Do(p, committed),
         Grows(db, committed), Known(committed), committed.fingerprint = db.fingerprint,
         Done(committed, Migration[proc[p].at]), Migration[proc[p].at].op # "inspect"
  PROVE  OpenInv'
<1>1. ProcsOK(proc) /\ db' = committed /\ proc' = Forward(p, 1) /\ durable' = durable /\ saltFile' = saltFile
  BY DEF OpenInv, Do
<1>2. /\ ProcsOK(proc') /\ \A q \in Procs \ {p} : proc'[q] = proc[q]
      /\ proc'[p].salt = proc[p].salt
      /\ IF proc[p].at + 1 \in 1..Len(Migration)
         THEN /\ proc'[p].state = "migrating" /\ proc'[p].at = proc[p].at + 1
              /\ proc'[p].existing = proc[p].existing
         ELSE proc'[p].state = "verifying"
  BY <1>1, ForwardFields
<1>3. proc'[p].state = "migrating" => proc'[p].existing = proc[p].existing
  BY <1>2
<1> QED
  BY <1>1, <1>2, <1>3, StatementStep

\* A process that ends leaves the others as they are.
LEMMA EndStep ==
  ASSUME OpenInv, NEW p \in Procs, proc' = [proc EXCEPT ![p] = Off], db' = db, saltFile' = saltFile,
         durable' \in {db, durable}
  PROVE  OpenInv'
<1>1. ProcsOK(proc') /\ proc'[p].state = "off" /\ \A q \in Procs \ {p} : proc'[q] = proc[q]
  BY DEF OpenInv, ProcsOK, Off
<1>2. ScriptInv(db', proc'[p]) /\ SaltInv(db', proc'[p], saltFile')
  BY <1>1 DEF ScriptInv, SaltInv
<1>3. Known(db') /\ Known(durable')
  BY DEF OpenInv
<1> QED
  BY <1>1, <1>2, <1>3 DEF OpenInv

-----------------------------------------------------------------------------
(* The steps *)

\* The statements of Open, one lemma for each kind.
LEMMA CreateTableStep ==
  ASSUME OpenInv, NEW p \in Procs, CreateTable(p) PROVE OpenInv'
<1> DEFINE t == On(p)
           T == [u \in DOMAIN db.tables \cup {t} |-> IF u \in DOMAIN db.tables THEN db.tables[u] ELSE BaseColumns[u]]
           e == [db EXCEPT !.tables = T]
<1>1. proc[p].state = "migrating" /\ Migration[proc[p].at].op = "create" /\ Do(p, e)
  BY DEF CreateTable, At
<1>2. Known(db)
  BY DEF OpenInv
<1>3. /\ e.tables = T /\ e.indexes = db.indexes /\ e.tasks = db.tasks /\ e.versions = db.versions
      /\ e.userVersion = db.userVersion /\ e.rows = db.rows /\ e.fingerprint = db.fingerprint
      /\ e = [tables |-> e.tables, indexes |-> e.indexes, tasks |-> e.tasks, versions |-> e.versions,
              userVersion |-> e.userVersion, rows |-> e.rows, fingerprint |-> e.fingerprint]
  BY <1>2 DEF Known
<1> HIDE DEF e
<1>4. Known(e)
  BY <1>2, <1>3 DEF Known
<1>5. Grows(db, e)
  BY <1>3 DEF Grows
<1>6. Done(e, Migration[proc[p].at])
  BY <1>1, <1>3 DEF Done, On
<1> QED
  BY <1>1, <1>3, <1>4, <1>5, <1>6, DoStep

\* The drop of the write probe: no other table goes.
LEMMA DropTableStep ==
  ASSUME OpenInv, NEW p \in Procs, DropTable(p) PROVE OpenInv'
<1> DEFINE T == [u \in DOMAIN db.tables \ {On(p)} |-> db.tables[u]]
           e == [db EXCEPT !.tables = T]
<1>1. proc[p].state = "migrating" /\ Migration[proc[p].at].op = "drop" /\ Do(p, e)
  BY DEF DropTable, At
<1>2. Known(db) /\ ScriptInv(db, proc[p])
  BY DEF OpenInv
<1>3. /\ e.tables = T /\ e.indexes = db.indexes /\ e.tasks = db.tasks /\ e.versions = db.versions
      /\ e.userVersion = db.userVersion /\ e.rows = db.rows /\ e.fingerprint = db.fingerprint
      /\ e = [tables |-> e.tables, indexes |-> e.indexes, tasks |-> e.tasks, versions |-> e.versions,
              userVersion |-> e.userVersion, rows |-> e.rows, fingerprint |-> e.fingerprint]
  BY <1>2 DEF Known
<1>4. On(p) = "_init"
  BY <1>1, <1>2, MigrationStatements DEF ScriptInv, On
<1> HIDE DEF e
<1>5. Known(e)
  BY <1>2, <1>3 DEF Known
<1>6. Grows(db, e)
  BY <1>3, <1>4 DEF Grows
<1>7. Done(e, Migration[proc[p].at])
  BY <1>1 DEF Done
<1> QED
  BY <1>1, <1>3, <1>5, <1>6, <1>7, DoStep

\* Nothing is written: the database stays, and so grows.
LEMMA GrowsSelf == ASSUME NEW d PROVE Grows(d, d)
  BY DEF Grows

\* tableColumns: what is seen is in the table and stays there.
LEMMA InspectStep ==
  ASSUME OpenInv, NEW p \in Procs, Inspect(p) PROVE OpenInv'
<1> DEFINE f == Forward(p, 1)
<1>1. proc[p].state = "migrating" /\ Migration[proc[p].at].op = "inspect" /\ ProcsOK(proc)
  BY DEF Inspect, At, OpenInv
<1>2. proc' = [f EXCEPT ![p].existing = db.tables[On(p)]] /\ db' = db /\ durable' = durable /\ saltFile' = saltFile
  BY DEF Inspect
<1>3. /\ ProcsOK(f)
      /\ \A q \in Procs \ {p} : f[q] = proc[q]
      /\ IF proc[p].at + 1 \in 1..Len(Migration)
         THEN f[p].state = "migrating" /\ f[p].at = proc[p].at + 1
         ELSE f[p].state = "verifying"
      /\ f[p].salt = proc[p].salt
  BY <1>1, ForwardFields
<1> HIDE DEF f
<1>4. /\ ProcsOK(proc')
      /\ \A q \in Procs \ {p} : proc'[q] = f[q]
      /\ proc'[p].state = f[p].state /\ proc'[p].at = f[p].at /\ proc'[p].salt = f[p].salt
      /\ proc'[p].existing = db.tables[On(p)]
  BY <1>2, <1>3 DEF ProcsOK
<1>5. Done(db', Migration[proc[p].at])
  BY <1>1 DEF Done
<1>6. Known(db') /\ Grows(db, db')
  BY <1>2, GrowsSelf DEF OpenInv
<1>7. /\ \A q \in Procs \ {p} : proc'[q] = proc[q]
      /\ proc'[p].salt = proc[p].salt
      /\ IF proc[p].at + 1 \in 1..Len(Migration)
         THEN proc'[p].state = "migrating" /\ proc'[p].at = proc[p].at + 1
         ELSE proc'[p].state = "verifying"
      /\ proc'[p].existing \subseteq db'.tables[Migration[proc[p].at].on]
  BY <1>2, <1>3, <1>4 DEF On
<1>8. /\ db'.fingerprint = db.fingerprint
      /\ proc'[p].state = "migrating" =>
           /\ Migration[proc[p].at].op = "inspect" => proc'[p].existing \subseteq db'.tables[Migration[proc[p].at].on]
           /\ Migration[proc[p].at].op = "alter" => proc'[p].existing = proc[p].existing
  BY <1>1, <1>2, <1>7
<1>9. ProcsOK(proc') /\ proc[p].state = "migrating" /\ durable' = durable /\ saltFile' = saltFile
  BY <1>1, <1>2, <1>4
<1>10. 1 \in {1, 2} /\ 1 # 2
  OBVIOUS
<1> QED
  BY <1>5, <1>6, <1>7, <1>8, <1>9, <1>10, StatementStep

\* ensureColumns: the column was seen, is added, or is an error.
LEMMA AddColumnStep ==
  ASSUME OpenInv, NEW p \in Procs, AddColumn(p) PROVE OpenInv'
<1> DEFINE t == On(p)[1]
           c == On(p)[2]
<1>1. proc[p].state = "migrating" /\ Migration[proc[p].at].op = "alter"
  BY DEF AddColumn, At
<1>2. Known(db) /\ t \in DOMAIN db.tables /\ proc[p].existing \subseteq db.tables[t]
  BY <1>1 DEF OpenInv, ScriptInv, On
<1>3. CASE c \in proc[p].existing
  <2>1. Do(p, db)
    BY <1>3 DEF AddColumn
  <2>2. Done(db, Migration[proc[p].at])
    BY <1>1, <1>2, <1>3 DEF Done, On
  <2> QED
    BY <1>1, <1>2, <2>1, <2>2, GrowsSelf, DoStep
<1>4. CASE c \notin proc[p].existing /\ c \in db.tables[t]
  <2>1. Fail(p)
    BY <1>4 DEF AddColumn
  <2> QED
    BY <2>1, EndStep DEF Fail
<1>5. CASE c \notin proc[p].existing /\ c \notin db.tables[t]
  <2> DEFINE e == [db EXCEPT !.tables[t] = @ \cup {c}]
  <2>1. Do(p, e)
    BY <1>5 DEF AddColumn
  <2>2a. e = [db EXCEPT !.tables = [db.tables EXCEPT ![t] = @ \cup {c}]]
    BY <1>2 DEF Known
  <2> HIDE DEF e
  <2>2. /\ e.tables = [db.tables EXCEPT ![t] = @ \cup {c}]
        /\ e.indexes = db.indexes /\ e.tasks = db.tasks /\ e.versions = db.versions
        /\ e.userVersion = db.userVersion /\ e.rows = db.rows /\ e.fingerprint = db.fingerprint
        /\ e = [tables |-> e.tables, indexes |-> e.indexes, tasks |-> e.tasks, versions |-> e.versions,
                userVersion |-> e.userVersion, rows |-> e.rows, fingerprint |-> e.fingerprint]
    BY <1>2, <2>2a DEF Known
  <2>3. /\ DOMAIN e.tables = DOMAIN db.tables
        /\ \A u \in DOMAIN db.tables : db.tables[u] \subseteq e.tables[u]
        /\ c \in e.tables[t]
    BY <1>2, <2>2
  <2>4. Known(e)
    BY <1>2, <2>2, <2>3 DEF Known
  <2>5. Grows(db, e)
    BY <2>2, <2>3 DEF Grows
  <2>6. Done(e, Migration[proc[p].at])
    BY <1>1, <1>2, <2>3 DEF Done, On
  <2> QED
    BY <1>1, <2>1, <2>2, <2>4, <2>5, <2>6, DoStep
<1> QED
  BY <1>3, <1>4, <1>5

\* CREATE INDEX IF NOT EXISTS.
LEMMA CreateIndexStep ==
  ASSUME OpenInv, NEW p \in Procs, CreateIndex(p) PROVE OpenInv'
<1> DEFINE e == [db EXCEPT !.indexes = @ \cup {On(p)}]
<1>1. proc[p].state = "migrating" /\ Migration[proc[p].at].op = "index" /\ (Do(p, e) \/ Fail(p))
  BY DEF CreateIndex, At
<1>2. Known(db)
  BY DEF OpenInv
<1>3. /\ e.tables = db.tables /\ e.indexes = db.indexes \cup {On(p)} /\ e.tasks = db.tasks
      /\ e.versions = db.versions /\ e.userVersion = db.userVersion
      /\ e.rows = db.rows /\ e.fingerprint = db.fingerprint
      /\ e = [tables |-> e.tables, indexes |-> e.indexes, tasks |-> e.tasks, versions |-> e.versions,
              userVersion |-> e.userVersion, rows |-> e.rows, fingerprint |-> e.fingerprint]
  BY <1>2 DEF Known
<1> HIDE DEF e
<1>4. CASE Do(p, e)
  <2>1. Known(e) /\ Grows(db, e)
    BY <1>2, <1>3 DEF Known, Grows
  <2>2. Done(e, Migration[proc[p].at])
    BY <1>1, <1>3 DEF Done, On
  <2> QED
    BY <1>1, <1>3, <1>4, <2>1, <2>2, DoStep
<1>5. CASE Fail(p)
  BY <1>5, EndStep DEF Fail
<1> QED
  BY <1>1, <1>4, <1>5

\* The row of schema_migrations.
LEMMA RecordMigrationStep ==
  ASSUME OpenInv, NEW p \in Procs, RecordMigration(p) PROVE OpenInv'
<1> DEFINE e == [db EXCEPT !.versions = @ \cup {On(p)}]
<1>1. proc[p].state = "migrating" /\ Migration[proc[p].at].op = "record" /\ Do(p, e)
  BY DEF RecordMigration, At
<1>2. Known(db) /\ ScriptInv(db, proc[p])
  BY DEF OpenInv
<1>3. /\ e.tables = db.tables /\ e.indexes = db.indexes /\ e.tasks = db.tasks
      /\ e.versions = db.versions \cup {On(p)} /\ e.userVersion = db.userVersion
      /\ e.rows = db.rows /\ e.fingerprint = db.fingerprint
      /\ e = [tables |-> e.tables, indexes |-> e.indexes, tasks |-> e.tasks, versions |-> e.versions,
              userVersion |-> e.userVersion, rows |-> e.rows, fingerprint |-> e.fingerprint]
  BY <1>2 DEF Known
<1> HIDE DEF e
<1>4. Known(e)
  BY <1>2, <1>3 DEF Known
<1>5. Grows(db, e)
  BY <1>1, <1>2, <1>3, MigrationStatements DEF Grows, ScriptInv, On
<1>6. Done(e, Migration[proc[p].at])
  BY <1>1, <1>3 DEF Done, On
<1> QED
  BY <1>1, <1>3, <1>4, <1>5, <1>6, DoStep

\* PRAGMA user_version.
LEMMA SetUserVersionStep ==
  ASSUME OpenInv, NEW p \in Procs, SetUserVersion(p) PROVE OpenInv'
<1> DEFINE e == [db EXCEPT !.userVersion = On(p)]
<1>1. proc[p].state = "migrating" /\ Migration[proc[p].at].op = "version" /\ Do(p, e)
  BY DEF SetUserVersion, At
<1>2. Known(db) /\ ScriptInv(db, proc[p])
  BY DEF OpenInv
<1>3. /\ e.tables = db.tables /\ e.indexes = db.indexes /\ e.tasks = db.tasks
      /\ e.versions = db.versions /\ e.userVersion = On(p)
      /\ e.rows = db.rows /\ e.fingerprint = db.fingerprint
      /\ e = [tables |-> e.tables, indexes |-> e.indexes, tasks |-> e.tasks, versions |-> e.versions,
              userVersion |-> e.userVersion, rows |-> e.rows, fingerprint |-> e.fingerprint]
  BY <1>2 DEF Known
<1> HIDE DEF e
<1>4. Known(e)
  BY <1>2, <1>3 DEF Known
<1>5. Grows(db, e)
  BY <1>1, <1>2, <1>3, MigrationStatements DEF Grows, ScriptInv, On
<1>6. Done(e, Migration[proc[p].at])
  BY <1>1, <1>3 DEF Done, On
<1> QED
  BY <1>1, <1>3, <1>4, <1>5, <1>6, DoStep

\* The task: begun unless it is known, and committed with its rows.
LEMMA BeginTaskStep ==
  ASSUME OpenInv, NEW p \in Procs, BeginTask(p) PROVE OpenInv'
<1>1. proc[p].state = "migrating" /\ Migration[proc[p].at].op = "begin" /\ ProcsOK(proc)
      /\ db' = db /\ durable' = durable /\ saltFile' = saltFile
  BY DEF BeginTask, At, OpenInv
<1>2. Known(db') /\ Grows(db, db') /\ db'.fingerprint = db.fingerprint /\ ScriptInv(db, proc[p])
  BY <1>1, GrowsSelf DEF OpenInv
<1>3. Done(db', Migration[proc[p].at]) /\ Migration[proc[p].at].op \notin {"inspect", "alter"}
  BY <1>1 DEF Done
<1>4. CASE On(p) \in db.tasks
  <2>1. proc' = Forward(p, 2)
    BY <1>4 DEF BeginTask
  <2>2. /\ ProcsOK(proc') /\ \A q \in Procs \ {p} : proc'[q] = proc[q]
        /\ proc'[p].salt = proc[p].salt
        /\ IF proc[p].at + 2 \in 1..Len(Migration)
           THEN proc'[p].state = "migrating" /\ proc'[p].at = proc[p].at + 2
           ELSE proc'[p].state = "verifying"
    BY <1>1, <2>1, ForwardFields
  <2>3. Done(db', Migration[proc[p].at + 1])
    <3>1. Migration[proc[p].at + 1].op = "commit" /\ Migration[proc[p].at + 1].on = On(p)
      BY <1>1, <1>2, MigrationStatements DEF ScriptInv, On
    <3> QED
      BY <1>1, <1>4, <3>1 DEF Done
  <2>4. 2 \in {1, 2}
    OBVIOUS
  <2> QED
    BY <1>1, <1>2, <1>3, <2>2, <2>3, <2>4, StatementStep
<1>5. CASE On(p) \notin db.tasks
  <2> DEFINE f == Forward(p, 1)
  <2>1. proc' = [f EXCEPT ![p].tx = <<db>>]
    BY <1>5 DEF BeginTask
  <2>2. /\ ProcsOK(f) /\ \A q \in Procs \ {p} : f[q] = proc[q]
        /\ f[p].salt = proc[p].salt
        /\ IF proc[p].at + 1 \in 1..Len(Migration)
           THEN f[p].state = "migrating" /\ f[p].at = proc[p].at + 1
           ELSE f[p].state = "verifying"
    BY <1>1, ForwardFields
  <2> HIDE DEF f
  <2>3. /\ ProcsOK(proc')
        /\ \A q \in Procs \ {p} : proc'[q] = f[q]
        /\ proc'[p].state = f[p].state /\ proc'[p].at = f[p].at /\ proc'[p].salt = f[p].salt
    BY <2>1, <2>2 DEF ProcsOK
  <2>4. /\ \A q \in Procs \ {p} : proc'[q] = proc[q]
        /\ proc'[p].salt = proc[p].salt
        /\ IF proc[p].at + 1 \in 1..Len(Migration)
           THEN proc'[p].state = "migrating" /\ proc'[p].at = proc[p].at + 1
           ELSE proc'[p].state = "verifying"
    BY <2>2, <2>3
  <2>5. 1 \in {1, 2} /\ 1 # 2 /\ ProcsOK(proc')
    BY <2>3
  <2> QED
    BY <1>1, <1>2, <1>3, <2>4, <2>5, StatementStep
<1> QED
  BY <1>4, <1>5

\* The commit of the task: the rows and its record together, or an error.
LEMMA CommitTaskStep ==
  ASSUME OpenInv, NEW p \in Procs, CommitTask(p) PROVE OpenInv'
<1> DEFINE e == [db EXCEPT !.rows = Timed(@), !.tasks = @ \cup {On(p)}]
<1>1. proc[p].state = "migrating" /\ Migration[proc[p].at].op = "commit" /\ Known(db) /\ ProcsOK(proc)
  BY DEF CommitTask, At, OpenInv
<1>2. CASE Fail(p)
  BY <1>2, EndStep DEF Fail
<1>3. /\ e.tables = db.tables /\ e.indexes = db.indexes /\ e.tasks = db.tasks \cup {On(p)}
      /\ e.versions = db.versions /\ e.userVersion = db.userVersion
      /\ e.rows = Timed(db.rows) /\ e.fingerprint = db.fingerprint
      /\ e = [tables |-> e.tables, indexes |-> e.indexes, tasks |-> e.tasks, versions |-> e.versions,
              userVersion |-> e.userVersion, rows |-> e.rows, fingerprint |-> e.fingerprint]
  <2> DEFINE R == Timed(db.rows)
             K == db.tasks \cup {On(p)}
  <2>1. db = [tables |-> db.tables, indexes |-> db.indexes, tasks |-> db.tasks, versions |-> db.versions,
              userVersion |-> db.userVersion, rows |-> db.rows, fingerprint |-> db.fingerprint]
    BY <1>1 DEF Known
  <2>2. e = [db EXCEPT !.rows = R, !.tasks = K]
    OBVIOUS
  <2> HIDE DEF e, R, K
  <2>3. e = [tables |-> db.tables, indexes |-> db.indexes, tasks |-> K, versions |-> db.versions,
             userVersion |-> db.userVersion, rows |-> R, fingerprint |-> db.fingerprint]
    BY <2>1, <2>2
  <2> QED
    BY <2>3 DEF R, K
<1>4. CASE db' = e /\ proc' = [Forward(p, 1) EXCEPT ![p].tx = <<>>] /\ UNCHANGED <<durable, saltFile>>
  <2> DEFINE f == Forward(p, 1)
  <2>1. /\ ProcsOK(f) /\ \A q \in Procs \ {p} : f[q] = proc[q]
        /\ f[p].salt = proc[p].salt
        /\ IF proc[p].at + 1 \in 1..Len(Migration)
           THEN f[p].state = "migrating" /\ f[p].at = proc[p].at + 1
           ELSE f[p].state = "verifying"
    BY <1>1, ForwardFields
  <2>2. proc' = [f EXCEPT ![p].tx = <<>>]
    BY <1>4
  <2> HIDE DEF f, e
  <2>3. /\ ProcsOK(proc')
        /\ \A q \in Procs \ {p} : proc'[q] = f[q]
        /\ proc'[p].state = f[p].state /\ proc'[p].at = f[p].at /\ proc'[p].salt = f[p].salt
    BY <2>1, <2>2 DEF ProcsOK
  <2>4. /\ \A q \in Procs \ {p} : proc'[q] = proc[q]
        /\ proc'[p].salt = proc[p].salt
        /\ IF proc[p].at + 1 \in 1..Len(Migration)
           THEN proc'[p].state = "migrating" /\ proc'[p].at = proc[p].at + 1
           ELSE proc'[p].state = "verifying"
    BY <2>1, <2>3
  <2>5. /\ e.rows \subseteq Rows /\ \A r \in e.rows : r.timed /\ r.salt \in {None, db.fingerprint}
    <3>1. \A r \in db.rows : r \in Rows /\ r.salt \in {None, db.fingerprint}
      BY <1>1 DEF Known
    <3>2. \A r \in Rows : [r EXCEPT !.timed = TRUE] \in Rows /\ [r EXCEPT !.timed = TRUE].timed
                          /\ [r EXCEPT !.timed = TRUE].salt = r.salt
      BY DEF Rows
    <3> QED
      BY <1>3, <3>1, <3>2 DEF Timed
  <2>6. Known(e)
    BY <1>1, <1>3, <2>5 DEF Known
  <2>7. Grows(db, e)
    BY <1>3 DEF Grows
  <2>8. Done(e, Migration[proc[p].at]) /\ Migration[proc[p].at].op \notin {"inspect", "alter"}
    BY <1>1, <1>3 DEF Done, On
  <2>9. 1 \in {1, 2} /\ 1 # 2 /\ ProcsOK(proc') /\ durable' = durable /\ saltFile' = saltFile
        /\ db' = e /\ db'.fingerprint = db.fingerprint
    BY <1>3, <1>4, <2>3
  <2> QED
    BY <1>1, <2>4, <2>6, <2>7, <2>8, <2>9, StatementStep
<1> HIDE DEF e
<1>5. Fail(p) \/ (db' = e /\ proc' = [Forward(p, 1) EXCEPT ![p].tx = <<>>] /\ UNCHANGED <<durable, saltFile>>)
  BY DEF CommitTask, e
<1> QED
  BY <1>2, <1>4, <1>5

\* The salt guard.
LEMMA GuardStep ==
  ASSUME OpenInv, NEW p \in Procs, ReadFingerprint(p) \/ BindFingerprint(p) PROVE OpenInv'
<1> DEFINE Bound   == db.fingerprint = proc[p].salt /\ proc' = [proc EXCEPT ![p].state = "serving"]
           Unbound == db.fingerprint = None /\ proc' = [proc EXCEPT ![p].state = "binding"]
<1>0. ProcsOK(proc) /\ Known(db) /\ \A q \in Procs : ScriptInv(db, proc[q]) /\ SaltInv(db, proc[q], saltFile)
  BY DEF OpenInv
<1>1. CASE ReadFingerprint(p)
  <2>1. proc[p].state = "verifying" /\ db' = db /\ durable' = durable /\ saltFile' = saltFile
    BY <1>1 DEF ReadFingerprint
  <2>2. Bound \/ Unbound \/ proc' = [proc EXCEPT ![p] = Off]
    BY <1>1, Zenon DEF ReadFingerprint
  <2>3. CASE proc' = [proc EXCEPT ![p] = Off]
    BY <2>1, <2>3, EndStep
  <2>4. CASE Bound \/ Unbound
    <3>1. /\ ProcsOK(proc') /\ \A q \in Procs \ {p} : proc'[q] = proc[q]
          /\ proc'[p].salt = proc[p].salt
          /\ \/ db.fingerprint = None /\ proc'[p].state = "binding"
             \/ db.fingerprint = proc[p].salt /\ proc'[p].state = "serving"
      BY <1>0, <2>4 DEF ProcsOK
    <3>2. ScriptInv(db', proc'[p])
      BY <1>0, <2>1, <3>1 DEF ScriptInv
    <3>3. SaltInv(db', proc'[p], saltFile')
      BY <1>0, <2>1, <3>1 DEF SaltInv, OpenInv
    <3> QED
      BY <1>0, <2>1, <3>1, <3>2, <3>3 DEF OpenInv
  <2> QED
    BY <2>2, <2>3, <2>4
<1>3. CASE BindFingerprint(p)
  <2> DEFINE e == [db EXCEPT !.fingerprint = proc[p].salt]
  <2>1. proc[p].state = "binding" /\ db' = e /\ durable' = durable /\ saltFile' = saltFile
        /\ proc' = [proc EXCEPT ![p].state = "serving"]
    BY <1>3 DEF BindFingerprint
  <2>2. /\ e.tables = db.tables /\ e.indexes = db.indexes /\ e.tasks = db.tasks
        /\ e.versions = db.versions /\ e.userVersion = db.userVersion
        /\ e.rows = db.rows /\ e.fingerprint = proc[p].salt
        /\ e = [tables |-> e.tables, indexes |-> e.indexes, tasks |-> e.tasks, versions |-> e.versions,
                userVersion |-> e.userVersion, rows |-> e.rows, fingerprint |-> e.fingerprint]
    BY <1>0 DEF Known
  <2> HIDE DEF e
  <2>3. /\ ProcsOK(proc') /\ \A q \in Procs \ {p} : proc'[q] = proc[q]
        /\ proc'[p].salt = proc[p].salt /\ proc'[p].state = "serving"
    BY <1>0, <2>1, SMTT(30) DEF ProcsOK
  <2>4. proc[p].salt = saltFile /\ saltFile \in Salts /\ db.fingerprint \in {None, proc[p].salt}
    BY <1>0, <2>1 DEF OpenInv, SaltInv
  <2>5. Known(e) /\ Grows(db, e)
    BY <1>0, <2>2, <2>4 DEF Known, Grows
  <2>6. ScriptInv(e, proc'[p])
    <3>1. ScriptInv(e, proc[p])
      BY <1>0, <2>5, OthersKeep
    <3> QED
      BY <2>1, <2>3, <3>1 DEF ScriptInv
  <2>7. SaltInv(e, proc'[p], saltFile)
    BY <2>2, <2>3, <2>4 DEF SaltInv
  <2>8. ASSUME NEW q \in Procs \ {p} PROVE ScriptInv(e, proc'[q]) /\ SaltInv(e, proc'[q], saltFile)
    <3>1. ScriptInv(e, proc[q])
      BY <1>0, <2>5, OthersKeep
    <3>2. SaltInv(db, proc[q], saltFile) /\ proc'[q] = proc[q]
      BY <1>0, <2>3
    <3> QED
      BY <2>2, <2>4, <3>1, <3>2, LegacyAssumption DEF SaltInv
  <2> QED
    BY <2>1, <2>3, <2>5, <2>6, <2>7, <2>8 DEF OpenInv
<1> QED
  BY <1>1, <1>3

\* A process that starts has done nothing yet, and its first statement alters nothing.
LEMMA StartStep ==
  ASSUME OpenInv, NEW p \in Procs, Start(p) PROVE OpenInv'
<1>1. ProcsOK(proc) /\ proc' = [proc EXCEPT ![p].state = "migrating", ![p].at = 1, ![p].salt = saltFile]
      /\ db' = db /\ durable' = durable /\ saltFile' = saltFile
  BY DEF OpenInv, Start
<1>2. /\ ProcsOK(proc') /\ \A q \in Procs \ {p} : proc'[q] = proc[q]
      /\ proc'[p].state = "migrating" /\ proc'[p].at = 1 /\ proc'[p].salt = saltFile
  <2> DEFINE r == [proc[p] EXCEPT !.state = "migrating", !.at = 1, !.salt = saltFile]
  <2>1. proc[p] = [state |-> proc[p].state, at |-> proc[p].at, existing |-> proc[p].existing,
                   tx |-> proc[p].tx, salt |-> proc[p].salt]
    BY <1>1 DEF ProcsOK
  <2>3. proc' = [proc EXCEPT ![p] = r]
    BY <1>1
  <2>4. /\ r = [state |-> r.state, at |-> r.at, existing |-> r.existing, tx |-> r.tx, salt |-> r.salt]
        /\ r.state = "migrating" /\ r.at = 1 /\ r.salt = saltFile
    <3> DEFINE r1 == [proc[p] EXCEPT !.state = "migrating"]
               r2 == [r1 EXCEPT !.at = 1]
    <3>1. r = [r2 EXCEPT !.salt = saltFile]
      OBVIOUS
    <3>2. r.state = "migrating" /\ r.at = 1 /\ r.salt = saltFile
      BY <2>1
    <3> HIDE DEF r, r2
    <3>3. r1 = [state |-> r1.state, at |-> r1.at, existing |-> r1.existing, tx |-> r1.tx, salt |-> r1.salt]
      BY <2>1
    <3> HIDE DEF r1
    <3>4. r2 = [state |-> r2.state, at |-> r2.at, existing |-> r2.existing, tx |-> r2.tx, salt |-> r2.salt]
      BY <3>3 DEF r2
    <3>5. r = [state |-> r.state, at |-> r.at, existing |-> r.existing, tx |-> r.tx, salt |-> r.salt]
      BY <3>1, <3>4
    <3> QED
      BY <3>2, <3>5
  <2> HIDE DEF r
  <2>5. proc'[p] = r /\ \A q \in Procs \ {p} : proc'[q] = proc[q]
    BY <1>1, <2>3 DEF ProcsOK
  <2>6. proc' = [q \in Procs |-> IF q = p THEN r ELSE proc[q]]
    BY <1>1, <2>3 DEF ProcsOK
  <2>7. ProcsOK(proc')
    BY <1>1, <2>4, <2>6 DEF ProcsOK
  <2> QED
    BY <2>4, <2>5, <2>7
<1>3. Migration[1].op # "alter" /\ 1 \in 1..Len(Migration)
  <2>1. 1 \in 1..Len(Migration) /\ ~(1 > 1)
    BY MigrationStatements
  <2> QED
    BY <2>1, MigrationStatements
<1>4. ScriptInv(db', proc'[p]) /\ SaltInv(db', proc'[p], saltFile')
  <2>1. \A i \in 1..(1 - 1) : FALSE
    OBVIOUS
  <2>2. ScriptInv(db', proc'[p])
    BY <1>2, <1>3, <2>1 DEF ScriptInv
  <2>3. SaltInv(db', proc'[p], saltFile')
    BY <1>1, <1>2 DEF SaltInv
  <2> QED
    BY <2>2, <2>3
<1> QED
  BY <1>1, <1>2, <1>4 DEF OpenInv

\* A row of a process that serves has its time and the salt that is bound.
LEMMA InsertStep ==
  ASSUME OpenInv, NEW p \in Procs, InsertBatch(p) PROVE OpenInv'
<1> DEFINE row == [timed |-> TRUE, salt |-> proc[p].salt]
           e   == [db EXCEPT !.rows = @ \cup {row}]
<1>1. Known(db) /\ db.fingerprint = proc[p].salt /\ proc[p].salt \in Salts
  BY DEF OpenInv, SaltInv, InsertBatch
<1>2. /\ e.tables = db.tables /\ e.indexes = db.indexes /\ e.tasks = db.tasks
      /\ e.versions = db.versions /\ e.userVersion = db.userVersion
      /\ e.rows = db.rows \cup {row} /\ e.fingerprint = db.fingerprint
      /\ e = [tables |-> e.tables, indexes |-> e.indexes, tasks |-> e.tasks, versions |-> e.versions,
              userVersion |-> e.userVersion, rows |-> e.rows, fingerprint |-> e.fingerprint]
  BY <1>1 DEF Known
<1>3. row \in Rows /\ row.timed /\ row.salt = db.fingerprint
  BY <1>1 DEF Rows
<1>4. db' = e /\ proc' = proc /\ durable' = durable /\ saltFile' = saltFile
  BY DEF InsertBatch
<1> HIDE DEF e, row
<1>5. Known(e) /\ Grows(db, e)
  BY <1>1, <1>2, <1>3 DEF Known, Grows
<1>6. ASSUME NEW q \in Procs PROVE ScriptInv(e, proc[q]) /\ SaltInv(e, proc[q], saltFile)
  <2>1. ScriptInv(db, proc[q]) /\ SaltInv(db, proc[q], saltFile)
    BY DEF OpenInv
  <2>2. ScriptInv(e, proc[q])
    BY <1>5, <2>1, OthersKeep
  <2> QED
    BY <1>2, <2>1, <2>2 DEF SaltInv
<1> QED
  BY <1>4, <1>5, <1>6 DEF OpenInv

\* The file goes back to what is synced, and no process survives.
LEMMA PowerLossStep == ASSUME OpenInv, PowerLoss PROVE OpenInv'
<1>1. ProcsOK(proc') /\ \A q \in Procs : proc'[q].state = "off"
  BY DEF PowerLoss, ProcsOK, Off
<1>2. \A q \in Procs : ScriptInv(db', proc'[q]) /\ SaltInv(db', proc'[q], saltFile')
  BY <1>1 DEF ScriptInv, SaltInv
<1> QED
  BY <1>1, <1>2 DEF PowerLoss, OpenInv

\* The salt file is replaced while no process starts.
LEMMA ReplaceSaltStep == ASSUME OpenInv, NEW s \in Salts, ReplaceSalt(s) PROVE OpenInv'
<1>1. \A q \in Procs : SaltInv(db, proc[q], saltFile')
  BY DEF OpenInv, ReplaceSalt, SaltInv
<1> QED
  BY <1>1 DEF OpenInv, ReplaceSalt

\* Every step keeps the invariant.
LEMMA OpenStep == OpenInv /\ [Next]_vars => OpenInv'
<1> SUFFICES ASSUME OpenInv, [Next]_vars PROVE OpenInv'
  OBVIOUS
<1>1. ASSUME NEW p \in Procs, Opening(p) PROVE OpenInv'
  BY <1>1, CreateTableStep, DropTableStep, InspectStep, AddColumnStep, CreateIndexStep, BeginTaskStep,
     CommitTaskStep, RecordMigrationStep, SetUserVersionStep, GuardStep DEF Opening, BackfillV4
<1>2. ASSUME NEW p \in Procs, CheckpointWAL(p) PROVE OpenInv'
  BY <1>2 DEF CheckpointWAL, OpenInv
<1>3. ASSUME NEW p \in Procs, Close(p) PROVE OpenInv'
  BY <1>3, EndStep DEF Close
<1>4. ASSUME NEW p \in Procs, Crash(p) PROVE OpenInv'
  BY <1>4, EndStep DEF Crash
<1>5. CASE UNCHANGED vars
  BY <1>5 DEF vars, OpenInv
<1> QED
  BY <1>1, <1>2, <1>3, <1>4, <1>5, StartStep, InsertStep, PowerLossStep, ReplaceSaltStep DEF Next

\* The invariant holds in every reachable state.
LEMMA OpenInvariant == Spec => []OpenInv
  BY OpenInit, OpenStep, PTL DEF Spec

\* A process past its last statement has done all of them.
LEMMA AllDone ==
  ASSUME OpenInv, NEW p \in Procs, Opened(p), NEW s \in Range(Migration)
  PROVE  Done(db, s) /\ s.op \in Operations
<1>1. \A i \in 1..Len(Migration) : Done(db, Migration[i])
  BY DEF OpenInv, ScriptInv, Opened
<1>2. Range(Migration) = {Migration[i] : i \in 1..Len(Migration)}
  BY MigrationStatements, RangeEquality
<1>3. PICK i \in 1..Len(Migration) : s = Migration[i]
  BY <1>2
<1> QED
  BY <1>1, <1>3, MigrationStatements

\* Open hands out only a complete schema of this release, from any database an
\* earlier release left, with any number of other starts and of interrupted
\* ones before.
THEOREM SchemaIsComplete == Spec => []OpenedMeansComplete
<1>1. ASSUME OpenInv, NEW p \in Procs, Opened(p)
      PROVE  /\ Statements("create") \ {"_init"} \subseteq DOMAIN db.tables
             /\ \A t \in Statements("create") \ {"_init"} : BaseColumns[t] \subseteq db.tables[t]
             /\ \A tc \in Statements("alter") : tc[2] \in db.tables[tc[1]]
             /\ Statements("index") \subseteq db.indexes
             /\ Statements("commit") \subseteq db.tasks
             /\ SchemaVersion \in db.versions /\ db.userVersion = SchemaVersion
  <2>1. \A s \in Range(Migration) : Done(db, s)
    BY <1>1, AllDone
  <2>2. Statements("create") \ {"_init"} \subseteq DOMAIN db.tables
    BY <2>1 DEF Statements, Done
  <2>3. \A tc \in Statements("alter") : tc[2] \in db.tables[tc[1]]
    BY <2>1 DEF Statements, Done
  <2>4. Statements("index") \subseteq db.indexes /\ Statements("commit") \subseteq db.tasks
    BY <2>1 DEF Statements, Done
  <2>5. SchemaVersion \in db.versions /\ db.userVersion = SchemaVersion
    <3>1. Done(db, [op |-> "record", on |-> SchemaVersion]) /\ Done(db, [op |-> "version", on |-> SchemaVersion])
      BY <2>1, MigrationIsScript
    <3> QED
      BY <3>1 DEF Done
  <2>6. ASSUME NEW t \in Statements("create") \ {"_init"}, NEW c \in BaseColumns[t]
        PROVE  c \in db.tables[t]
    <3>1. <<t, c>> \in Statements("alter") \/ c \in db.tables[t]
      BY <1>1, <2>2 DEF OpenInv, Known
    <3> QED
      BY <2>3, <3>1
  <2> QED
    BY <2>2, <2>3, <2>4, <2>5, <2>6
<1>2. OpenInv => OpenedMeansComplete
  BY <1>1 DEF OpenedMeansComplete
<1> QED
  BY <1>2, OpenInvariant, PTL

\* Once a start is past Open no row lacks its time in seconds: the task commits
\* with its rows, so no crash separates them.
THEOREM NoRowLeftBehind == Spec => []HistoryIsTimed
<1>1. ASSUME OpenInv, NEW p \in Procs, Opened(p) PROVE \A r \in db.rows : r.timed
  <2>1. Done(db, [op |-> "commit", on |-> "backfill"])
    BY <1>1, AllDone, MigrationIsScript
  <2>2. "backfill" \in db.tasks
    BY <2>1 DEF Done
  <2> QED
    BY <1>1, <2>2 DEF OpenInv, Known
<1>2. OpenInv => HistoryIsTimed
  BY <1>1 DEF HistoryIsTimed
<1> QED
  BY <1>2, OpenInvariant, PTL

\* The rows since the binding have one salt, through restarts, replaced salt
\* files, power losses that undo the binding, and starts that race to bind.
THEOREM HashesHaveOneSalt == Spec => []OneSalt
<1>1. OpenInv => OneSalt
  BY DEF OpenInv, Known, OneSalt
<1> QED
  BY <1>1, OpenInvariant, PTL
=============================================================================
