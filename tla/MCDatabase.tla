----------------------------- MODULE MCDatabase -----------------------------
(***************************************************************************)
(* Instances of Database for TLC: a database from before the times in       *)
(* seconds, and one from before the side channel's later columns.           *)
(***************************************************************************)
EXTENDS Database

Untimed == [Fresh EXCEPT
  !.tables = [request_usage |-> {"created_at"}, health_metrics |-> {"timestamp"}, schema_migrations |-> {"version"}],
  !.versions = {3}, !.userVersion = 3, !.rows = {[timed |-> FALSE, salt |-> None]}]

SideChannel == [Fresh EXCEPT
  !.tables = [request_usage |-> {"created_at", "created_at_unix", "capture_outcome"},
              health_metrics |-> BaseColumns["health_metrics"], schema_migrations |-> BaseColumns["schema_migrations"],
              schema_tasks |-> {"name"}, side_usage_events |-> {"request_id"}, credential_health |-> {"status"}],
  !.indexes = { <<"request_usage", "capture_outcome">> }, !.tasks = {"backfill"},
  !.versions = {4, 6}, !.userVersion = 6, !.rows = {[timed |-> TRUE, salt |-> None]}]

MCLegacyDBs == {Untimed, SideChannel}
=============================================================================
