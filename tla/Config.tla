-------------------------------- MODULE Config --------------------------------
(***************************************************************************)
(* What parseConfig of internal/config makes of the numbers and choices of  *)
(* a configuration file, whatever integers the operator wrote: the values   *)
(* that the other modules take as constants.  Sizes are bytes, times are    *)
(* nanoseconds.  A choice is one of the words the code knows, or "unknown", *)
(* after the trimming and the change of case that the code makes; what the  *)
(* file leaves out has its default already, and "" is an empty text.        *)
(***************************************************************************)
EXTENDS Integers

Second == 1000000000
Day == 24 * 3600 * Second
MinQueueCapacity == 100
MaxQueueCapacity == 1000000
MaxBatchSize     == 10000
DefaultSample    == 2 * 1024 * 1024
MaxSample        == 64 * 1024 * 1024
MaxScan          == 65536

\* Above or below the range: the limit, or the default.
Clamp(value, low, default, high) ==
  IF value < low THEN default ELSE IF value > high THEN high ELSE value

Positive(value, default) == IF value <= 0 THEN default ELSE value
NotNegative(value, default) == IF value < 0 THEN default ELSE value

(***************************************************************************)
(* Sections of the file                                                    *)
(***************************************************************************)

\* The writer's queue and batches, and the sampling of responses.
QueueCapacity(raw) == Clamp(raw.queue_capacity, MinQueueCapacity, MinQueueCapacity, MaxQueueCapacity)
BatchSize(raw) ==
  LET batch == Clamp(raw.batch_size, 1, 50, MaxBatchSize)
  IN  IF batch > QueueCapacity(raw) THEN QueueCapacity(raw) ELSE batch

Gateway(raw) ==
  [queue_capacity |-> QueueCapacity(raw),
   batch_size     |-> BatchSize(raw),
   flush_interval |-> Clamp(raw.flush_interval, 1, Second, 60 * Second),
   max_nonstream_sample_bytes |-> Clamp(raw.max_nonstream_sample_bytes, 1024, DefaultSample, MaxSample)]

\* The scan of a request for its model.
InitialBytes(raw) == Clamp(raw.initial_bytes, 1, 4096, MaxScan)
MaxBytes(raw) ==
  LET max == IF raw.max_bytes < InitialBytes(raw) THEN InitialBytes(raw) ELSE raw.max_bytes
  IN  IF max > MaxScan THEN MaxScan ELSE max

RequestMetadata(raw) == [initial_bytes |-> InitialBytes(raw), max_bytes |-> MaxBytes(raw)]

\* clampProxyTransport, called here and once more by buildTransport.
ProxyTransport(raw) ==
  [max_idle_conns          |-> Clamp(raw.max_idle_conns, 0, 100, 10000),
   max_idle_conns_per_host |-> Clamp(raw.max_idle_conns_per_host, 0, 20, 10000),
   idle_conn_timeout       |-> Clamp(raw.idle_conn_timeout, 1, 90 * Second, 3600 * Second),
   tls_handshake_timeout   |-> Clamp(raw.tls_handshake_timeout, 1, 10 * Second, 300 * Second),
   expect_continue_timeout |-> NotNegative(raw.expect_continue_timeout, Second),
   response_header_timeout |-> NotNegative(raw.response_header_timeout, 0)]

UsageQueue(raw) ==
  [poll_interval      |-> Positive(raw.poll_interval, 1 * Second),
   reconnect_interval |-> Positive(raw.reconnect_interval, 5 * Second),
   batch_size         |-> Positive(raw.batch_size, 50),
   timeout            |-> Positive(raw.timeout, 10 * Second)]

CredentialHealth(raw) ==
  [cache_ttl            |-> Positive(raw.cache_ttl, 300 * Second),
   timeout              |-> Positive(raw.timeout, 10 * Second),
   diagnostic_retention |-> Positive(raw.diagnostic_retention, 3 * Day),
   min_refresh_interval |-> Positive(raw.min_refresh_interval, 30 * Second)]

Quota(raw) ==
  [cache_ttl            |-> Positive(raw.cache_ttl, 300 * Second),
   timeout              |-> Positive(raw.timeout, 10 * Second),
   concurrency          |-> Positive(raw.concurrency, 4),
   diagnostic_retention |-> Positive(raw.diagnostic_retention, 3 * Day),
   retry_min_interval   |-> Positive(raw.retry_min_interval, 30 * Second),
   retry_max_interval   |-> Positive(raw.retry_max_interval, 600 * Second),
   min_refresh_interval |-> Positive(raw.min_refresh_interval, 60 * Second)]

(***************************************************************************)
(* Options and the whole file                                              *)
(***************************************************************************)

Options == [mode         |-> [default |-> "passive", words |-> {"passive", "inject_if_missing"}],
            side_merge   |-> [default |-> "stored_only", words |-> {"stored_only", "request_id"}],
            merge_mode   |-> [default |-> "stored_only", words |-> {"stored_only", "request_id"}],
            pop          |-> [default |-> "LPOP", words |-> {"LPOP", "RPOP"}],
            transport    |-> [default |-> "auto", words |-> {"auto", "http", "resp"}],
            credential_refresh |-> [default |-> "manual", words |-> {"manual", "scheduled"}],
            quota_refresh      |-> [default |-> "manual", words |-> {"manual", "scheduled"}]]

Chosen(raw) == [c \in DOMAIN Options |-> IF raw[c] = "" THEN Options[c].default ELSE raw[c]]

Invalid == [invalid |-> TRUE]

\* An address or a list of labels is valid or not; a management section that is
\* not enabled is not looked at.
ParseConfig(raw) ==
  LET chosen == Chosen(raw.choices)
  IN  IF \/ ~raw.valid_upstream \/ ~raw.valid_base_path \/ ~raw.valid_key_labels
         \/ raw.management_enabled /\ ~raw.valid_management
         \/ \E c \in DOMAIN Options : chosen[c] \notin Options[c].words
      THEN Invalid
      ELSE [gateway |-> Gateway(raw.gateway), request_metadata |-> RequestMetadata(raw.request_metadata),
            proxy_transport |-> ProxyTransport(raw.proxy_transport), usage_queue |-> UsageQueue(raw.usage_queue),
            credential_health |-> CredentialHealth(raw.credential_health), quota |-> Quota(raw.quota),
            choices |-> chosen]

Texts == {""} \cup {"unknown"} \cup UNION {Options[c].words : c \in DOMAIN Options}

RawFiles ==
  [gateway : [queue_capacity : Int, batch_size : Int, flush_interval : Int, max_nonstream_sample_bytes : Int],
   request_metadata : [initial_bytes : Int, max_bytes : Int],
   proxy_transport : [max_idle_conns : Int, max_idle_conns_per_host : Int, idle_conn_timeout : Int,
     tls_handshake_timeout : Int, expect_continue_timeout : Int, response_header_timeout : Int],
   usage_queue : [poll_interval : Int, reconnect_interval : Int, batch_size : Int, timeout : Int],
   credential_health : [cache_ttl : Int, timeout : Int, diagnostic_retention : Int, min_refresh_interval : Int],
   quota : [cache_ttl : Int, timeout : Int, concurrency : Int, diagnostic_retention : Int,
     retry_min_interval : Int, retry_max_interval : Int, min_refresh_interval : Int],
   choices : [DOMAIN Options -> Texts],
   valid_upstream : BOOLEAN, valid_base_path : BOOLEAN, valid_key_labels : BOOLEAN,
   management_enabled : BOOLEAN, valid_management : BOOLEAN]
=============================================================================
