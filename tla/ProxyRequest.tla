---------------------------- MODULE ProxyRequest ----------------------------
(***************************************************************************)
(* One request through ServeHTTP of internal/proxy/proxy.go: the prefix of  *)
(* the body is read for the model's name and replayed to the upstream, the  *)
(* transport sends the body in a goroutine of its own, perhaps still while  *)
(* the response comes back, the handler copies the response past a side     *)
(* buffer, and one row is recorded.  Any step may be the last: the client's *)
(* body breaks off, the upstream fails, the client goes away.               *)
(*                                                                          *)
(* A body is the sequence 1, 2, ..., n of its fields.  The request is a form *)
(* whose field modelAt is the model's name (0 for none), the response a     *)
(* JSON document with the key "usage" at usageAt and its value after it.    *)
(* Of a streamed response only the forwarding is here, the rest is in       *)
(* StreamCapture.  Headers are passed through.                              *)
(***************************************************************************)
EXTENDS SampleBuffers

CONSTANTS
  InitialBytes, MaxBytes,  \* reqMeta, and the size of requestProbe
  DefaultMaxBytes,         \* what the scan takes when the two are equal
  ReadSize,                \* what the extended scan reads at a time
  MaxSample,               \* maxSample
  MaxBody, MaxResponse,    \* bounds of the model
  MaxTotal                 \* bound of the model: body and response together

ASSUME SizeAssumption ==
  /\ InitialBytes \in Nat \ {0} /\ ReadSize \in Nat \ {0}
  /\ MaxBytes \in Nat /\ MaxBytes >= InitialBytes /\ DefaultMaxBytes \in Nat
  /\ MaxSample \in Nat \ {0}
  /\ MaxBody \in Nat /\ MaxResponse \in Nat /\ MaxTotal \in Nat

VARIABLES
  route,       \* what profile and metering_enabled make of the request
  tailProfile, \* usesPrefixTailSampling
  extended,    \* reqMeta.ExtendedModelScan
  body,        \* [size, modelAt, broken]: the client's body
  taken,       \* bytes read from the client's body
  prefix,      \* bodyPrefix
  sent,        \* what the upstream was sent
  upload,      \* "sending", "sent" or "failed"
  bytesRead,   \* countingReader
  probe,       \* requestBodyProbe's buffer
  response,    \* [size, usageAt, stream]
  received,    \* bytes of it read
  sample,      \* the side buffer
  client,      \* [status, got]: what the client was answered
  phase,       \* where the handler stands
  row          \* what recordUsage was called with

requestVars == <<route, tailProfile, extended, body>>
uploadVars == <<taken, sent, upload, bytesRead, probe>>
vars == <<requestVars, prefix, uploadVars, response, received, sample, client, phase, row>>

NoRow == [status |-> 0]
NoResponse == [size |-> 0, usageAt |-> 0, stream |-> FALSE]
Fields(from, to) == [i \in 1..(to - from) |-> from + i]
Metered == route = "metered"

Init ==
  /\ route \in {"transparent", "request_only", "metered"}
  /\ tailProfile \in BOOLEAN /\ extended \in BOOLEAN
  /\ body \in [size : 0..MaxBody, modelAt : 0..MaxBody, broken : BOOLEAN]
  /\ body.modelAt <= body.size
  /\ ~Metered => ~tailProfile /\ ~extended /\ body.modelAt = 0
  /\ taken = 0 /\ prefix = <<>> /\ sent = <<>> /\ upload = "sending" /\ bytesRead = 0
  /\ probe = EmptyPrefixTail /\ sample = [limited |-> EmptyLimited, pt |-> EmptyPrefixTail]
  /\ response = NoResponse /\ received = 0
  /\ client = [status |-> 0, got |-> 0]
  /\ phase = IF Metered THEN "prefix" ELSE "roundtrip"
  /\ row = NoRow

(***************************************************************************)
(* Before the request is forwarded                                         *)
(***************************************************************************)

\* extractModel of what is left of the form; no field has the number of Gap.
Model(bytes) == body.modelAt # Gap /\ \E i \in DOMAIN bytes : bytes[i] = body.modelAt

\* io.ReadAll of a LimitReader: up to k bytes, an error is ignored.
ReadAll(k) == Fields(taken, Smaller(taken + k, body.size))

\* The extended scan has a limit of its own when max_bytes adds nothing to
\* initial_bytes.
ScanMax == IF MaxBytes <= InitialBytes THEN DefaultMaxBytes ELSE MaxBytes

ReadPrefix ==
  /\ phase = "prefix"
  /\ prefix' = ReadAll(InitialBytes) /\ taken' = Len(prefix')
  /\ phase' = IF ~Model(prefix') /\ extended /\ Len(prefix') < ScanMax
                 THEN "scan" ELSE "roundtrip"
  /\ UNCHANGED <<requestVars, sent, upload, bytesRead, probe, response, received, sample,
                 client, row>>

BugScannedIsLost ==
  /\ phase = "scan"
  /\ LET chunk == ReadAll(Smaller(ReadSize, ScanMax - Len(prefix)))
         found == Model(prefix \o chunk)
     IN  /\ taken' = taken + Len(chunk)
         /\ prefix' = IF found THEN prefix ELSE prefix \o chunk
         /\ phase' = IF found \/ chunk = <<>> \/ Len(prefix) + Len(chunk) >= ScanMax
                       THEN "roundtrip" ELSE "scan"
  /\ UNCHANGED <<requestVars, sent, upload, bytesRead, probe, response, received, sample,
                 client, row>>

Scan ==
  /\ phase = "scan"
  /\ LET chunk == ReadAll(Smaller(ReadSize, ScanMax - Len(prefix)))
     IN  /\ taken' = taken + Len(chunk)
         /\ prefix' = prefix \o chunk
         /\ phase' = IF \/ Model(prefix') \/ chunk = <<>> \/ Len(prefix') >= ScanMax
                        \/ body.broken /\ taken' = body.size
                       THEN "roundtrip" ELSE "scan"
  /\ UNCHANGED <<requestVars, sent, upload, bytesRead, probe, response, received, sample,
                 client, row>>

(***************************************************************************)
(* The transport's goroutine reads countingReader over replayReader.       *)
(***************************************************************************)
Sending == phase \in {"roundtrip", "copy"} /\ upload = "sending"

\* A read ends with the prefix; only a metered request has a probe.
Upload(k) ==
  /\ Sending
  /\ LET offset == Len(sent)
         replayed == offset < Len(prefix)
         p == IF replayed THEN SubSeq(prefix, offset + 1, offset + k)
              ELSE Fields(taken, taken + k)
     IN  /\ k <= IF replayed THEN Len(prefix) - offset ELSE body.size - taken
         /\ taken' = IF replayed THEN taken ELSE taken + k
         /\ sent' = sent \o p
         /\ bytesRead' = bytesRead + k
         /\ probe' = IF Metered THEN PrefixTailWrite(probe, p, MaxBytes) ELSE probe
  /\ UNCHANGED <<requestVars, prefix, upload, response, received, sample, client, phase,
                 row>>

UploadEnds ==
  /\ Sending /\ Len(sent) >= Len(prefix) /\ taken = body.size
  /\ upload' = IF body.broken THEN "failed" ELSE "sent"
  /\ UNCHANGED <<requestVars, prefix, taken, sent, bytesRead, probe, response, received,
                 sample, client, phase, row>>

(***************************************************************************)
(* What is recorded                                                        *)
(***************************************************************************)

\* countingReader and probe belong to the goroutine: while it is sending, the
\* handler reads them without synchronisation and may see any earlier state.
SeenBytes == IF upload = "sending" THEN 0..bytesRead ELSE {bytesRead}
SeenModels ==
  LET sampled == Model(PrefixTailBytes(probe, MaxBytes))
  IN  IF upload = "sending" THEN {sampled, FALSE} ELSE {sampled}

Record(status, outcome, reason, responseBytes) ==
  \E b \in SeenBytes, m \in SeenModels :
    row' = [status |-> status, outcome |-> outcome, reason |-> reason,
            requestBytes |-> b, responseBytes |-> responseBytes, model |-> m \/ Model(prefix)]

\* writeError and writeTransparentProxyError; the rows of errors have only the
\* model of the prefix.
BugStatusBeforeTimeout(timeout) ==
  /\ phase = "roundtrip"
  /\ client' = [client EXCEPT !.status = IF timeout THEN 504 ELSE 502]
  /\ IF route = "transparent" THEN UNCHANGED row
     ELSE \E b \in SeenBytes :
            row' = [status |-> 502, outcome |-> "failed", reason |-> "upstream_error",
                    requestBytes |-> b, responseBytes |-> 0, model |-> Model(prefix)]
  /\ phase' = "failed"
  /\ UNCHANGED <<requestVars, prefix, uploadVars, response, received, sample>>

RoundTripFails(timeout) ==
  /\ phase = "roundtrip"
  /\ LET status == IF timeout THEN 504 ELSE 502
     IN  /\ client' = [client EXCEPT !.status = status]
         /\ IF route = "transparent" THEN UNCHANGED row
            ELSE \E b \in SeenBytes :
                   row' = [status |-> status, outcome |-> "failed", reason |-> "upstream_error",
                           requestBytes |-> b, responseBytes |-> 0, model |-> Model(prefix)]
  /\ phase' = "failed"
  /\ UNCHANGED <<requestVars, prefix, uploadVars, response, received, sample>>

\* The upstream may answer before it has the whole body.
RoundTrip(resp, status) ==
  /\ phase = "roundtrip"
  /\ body.size + resp.size <= MaxTotal
  /\ resp.usageAt = 0 \/ resp.usageAt < resp.size
  /\ ~Metered \/ resp.stream => resp.usageAt = 0
  /\ response' = resp
  /\ client' = [client EXCEPT !.status = status]
  /\ phase' = "copy"
  /\ UNCHANGED <<requestVars, prefix, uploadVars, received, sample, row>>

(***************************************************************************)
(* The response                                                            *)
(***************************************************************************)
SampleWrite(p) ==
  IF ~Metered \/ response.stream THEN sample
  ELSE IF tailProfile THEN [sample EXCEPT !.pt = PrefixTailWrite(@, p, MaxSample)]
  ELSE [sample EXCEPT !.limited = LimitedWrite(@, p, MaxSample)]

Overflow(s) == IF tailProfile THEN s.pt.total > MaxSample ELSE s.limited.overflow

SampleBytes(s) == IF tailProfile THEN PrefixTailBytes(s.pt, MaxSample) ELSE s.limited.buf

\* NonStreamExtractor: usage or none from a whole document; from a part of one
\* an error, but for the profiles that look for the field in what there is.
Extract(bytes) ==
  LET field(i) == /\ bytes[i] = response.usageAt /\ bytes[i] # Gap
                  /\ i < Len(bytes) /\ bytes[i + 1] = response.usageAt + 1
  IN  IF bytes = Fields(0, response.size)
        THEN IF response.usageAt # 0 THEN "usage" ELSE "none"
      ELSE IF tailProfile /\ \E i \in DOMAIN bytes : field(i) THEN "usage"
      ELSE "error"

\* The end of handleNonStream, forwardRequestOnly or handleStream; written is
\* what they counted, s the side buffer at the end.
Finish(s, written) ==
  LET extracted == IF SampleBytes(s) = <<>> THEN "none" ELSE Extract(SampleBytes(s))
      record(outcome, reason) == Record(client.status, outcome, reason, written)
  IN  /\ CASE route = "transparent" -> UNCHANGED row
           [] route = "request_only" -> record("captured", "request_only_profile")
           [] Metered /\ response.stream -> record("stream", "")
           [] Metered /\ ~response.stream ->
                CASE extracted = "usage" -> record("captured", "")
                  [] extracted = "none" -> record("skipped", "usage_not_present")
                  [] extracted = "error" ->
                       IF Overflow(s) THEN record("skipped", "sample_limit_exceeded")
                       ELSE record("failed", "parse_error")
      /\ phase' = "done"

\* io.TeeReader fills the sample before the client is written to.
Copy(k) ==
  /\ phase = "copy"
  /\ k \in 1..(response.size - received)
  /\ received' = received + k
  /\ sample' = SampleWrite(Fields(received, received + k))
  /\ client' = [client EXCEPT !.got = @ + k]
  /\ UNCHANGED <<requestVars, prefix, uploadVars, response, phase, row>>

\* The client takes j of the k bytes; handleStream counts them all.
ClientGone(k, j) ==
  /\ phase = "copy"
  /\ k \in 1..(response.size - received) /\ j \in 0..(k - 1)
  /\ received' = received + k
  /\ sample' = SampleWrite(Fields(received, received + k))
  /\ client' = [client EXCEPT !.got = @ + j]
  /\ Finish(sample', IF Metered /\ response.stream THEN client.got + k ELSE client.got + j)
  /\ UNCHANGED <<requestVars, prefix, uploadVars, response>>

\* The end of the response, or the upstream breaks off; so does a client that
\* cancels, in the next read.
ResponseEnds ==
  /\ phase = "copy"
  /\ Finish(sample, client.got)
  /\ UNCHANGED <<requestVars, prefix, uploadVars, response, received, sample, client>>

Responses == [size : 0..MaxResponse, usageAt : 0..MaxResponse, stream : BOOLEAN]

Next ==
  \/ ReadPrefix \/ Scan \/ UploadEnds \/ ResponseEnds
  \/ \E k \in 1..MaxBody : Upload(k)
  \/ \E timeout \in BOOLEAN : RoundTripFails(timeout)
  \/ \E resp \in Responses, status \in {200, 400} : RoundTrip(resp, status)
  \/ \E k \in 1..MaxResponse : Copy(k) \/ \E j \in 0..MaxResponse : ClientGone(k, j)

Spec == Init /\ [][Next]_vars

(***************************************************************************)
(* Properties                                                              *)
(***************************************************************************)
\* The buffers keep their bounds.
TypeOK ==
  /\ Len(prefix) <= ScanMax \/ Len(prefix) <= InitialBytes
  /\ bytesRead \in 0..body.size /\ received \in 0..response.size
  /\ Len(SampleBytes(sample)) <= MaxSample + (IF tailProfile THEN 1 ELSE 0)
  /\ Len(PrefixTailBytes(probe, MaxBytes)) <= MaxBytes + 1
  /\ upload \in {"sending", "sent", "failed"}
  /\ phase \in {"prefix", "scan", "roundtrip", "copy", "done", "failed"}

\* The upstream gets the client's body, in order and without loss, wherever the
\* search for the model's name stopped and however replay and source are read.
BodyIsForwarded ==
  /\ sent = Fields(0, Len(sent))
  /\ upload = "sent" => Len(sent) = body.size

\* The row tells what happened: the status the client was sent, and, once the
\* whole body was sent, its size; the bytes the client got, but for the stream
\* whose last write failed.  A request that is not metered has no row, any
\* other has one when its handler is done.
RowIsTrue ==
  phase \in {"done", "failed"} =>
    IF route = "transparent" THEN row = NoRow
    ELSE /\ row.status = client.status
         /\ upload = "sent" => row.requestBytes = Len(sent)
         /\ phase = "done" /\ received = client.got => row.responseBytes = client.got
         /\ ~response.stream => row.responseBytes = client.got

\* A model whose name lies in the scanned prefix, in the first or in the last
\* half of the probe's window, or in a body of at most MaxBytes, is in the row
\* of a request whose body was sent and which was answered; no other is.  (For
\* an even MaxBytes: Half loses a byte of an odd one.)
ModelIsFound ==
  phase = "done" /\ Metered /\ upload = "sent" =>
    (row.model <=>
       /\ body.modelAt # 0
       /\ \/ body.modelAt <= Len(prefix)
          \/ body.size <= MaxBytes
          \/ body.modelAt <= Half(MaxBytes)
          \/ body.modelAt > body.size - Half(MaxBytes))

\* A response that came whole is never filed as broken: its usage is captured
\* when the sampled part holds it, else the row says that there was none, or
\* that the sample was too small.  (For an even MaxSample: Half loses a byte of
\* an odd one.)
InWindow(at, size) ==
  \/ size <= MaxSample
  \/ tailProfile /\ (at < Half(MaxSample) \/ at > size - Half(MaxSample))
OutcomeIsRight ==
  LET has == response.usageAt # 0
  IN  phase = "done" /\ Metered /\ ~response.stream /\ received = response.size
      => CASE has /\ InWindow(response.usageAt, response.size) -> row.outcome = "captured"
           [] ~has /\ response.size <= MaxSample -> row.reason = "usage_not_present"
           [] OTHER -> row.outcome = "skipped" /\ row.reason = "sample_limit_exceeded"
=============================================================================
