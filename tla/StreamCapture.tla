---------------------------- MODULE StreamCapture ----------------------------
(***************************************************************************)
(* One streamed response: handleStream of internal/proxy/proxy.go forwards  *)
(* every chunk it reads and then parses what it has forwarded, line by line *)
(* and event by event, until the stream ends, the upstream or the client    *)
(* fails, or the request is cancelled; then it records one row.             *)
(*                                                                          *)
(* Bytes are atoms: line breaks, the prefix of a data line, other text, and *)
(* the two halves of the JSON document of each kind of event, so that a     *)
(* document can be cut by a chunk and be spread over several data lines.    *)
(* Models, images and the samples for error classes are left out, and of    *)
(* the token counts only whether they are zero.                             *)
(***************************************************************************)
EXTENDS Integers, Sequences, FiniteSets, SequencesExt

CONSTANTS
  MaxLine,      \* maxLine, in atoms
  MaxLines,     \* bound of the model: lines of a chat stream
  MaxEvents     \* bound of the model: lines of a responses stream

ASSUME LineAssumption == MaxLine \in Nat /\ MaxLines \in Nat /\ MaxEvents \in Nat

\* A document over two data lines fits into an event.
ASSUME EventAssumption == MaxLine >= 4

CR == <<"CR", 0>>
LF == <<"LF", 0>>
Data == <<"data:", 0>>
Text == <<"text", 0>>
Breaks == {<<LF>>, <<CR>>, <<CR, LF>>}

\* Event documents: chat chunks with usage; and the response.* events, where
\* "completed" has usage and "bare" is a response.completed without.
ResponsesKinds == {"created", "completed", "bare", "incomplete", "failed", "error", "partial"}
Kinds == {"usage"} \cup ResponsesKinds

Document(k) == <<<<k, 1>>, <<k, 2>>>>
Whole(k) == <<Data>> \o Document(k)
FirstHalf == <<Data, <<"usage", 1>>>>
SecondHalf == <<Data, <<"usage", 2>>>>
Long == <<Data>> \o [i \in 1..MaxLine |-> Text]

ChatLines == {Whole("usage"), FirstHalf, SecondHalf, <<>>, <<Text>>, Long}
ResponsesLines == {Whole(k) : k \in ResponsesKinds}
SeqsUpTo(S, n) == UNION {[1..m -> S] : m \in 0..n}

VARIABLES
  profile,      \* "chat", "responses", or "compressed" for an encoded body
  lines, brk,   \* the lines of the response and the break between them
  stream,       \* its bytes
  pos,          \* bytes read
  forwarded,    \* bytes written to the client
  phase,        \* "read", "lines", "recorded"
  chunk,        \* bytes of this read not yet parsed
  readErr,      \* result of this read: "none", "eof" or "fail"
  lineBuf, lineOverflow,
  asm,          \* sseEventAssembler
  events,       \* kinds of the events processed, "bad" for what is no JSON
  row,          \* what recordUsage was called with
  cutBreak      \* history: a chunk ended between the CR and the LF of a break

vars == <<profile, lines, brk, stream, pos, forwarded, phase, chunk, readErr, lineBuf,
          lineOverflow, asm, events, row, cutBreak>>

NoRow == [outcome |-> "", reason |-> "", terminal |-> "", tokens |-> 0, partials |-> 0]
EmptyAssembler == [data |-> <<>>, size |-> 0, overflow |-> FALSE]

\* The lines ls with the break b after each, the last one perhaps without.
Bytes(ls, b, ended) ==
  LET terminated(i) == IF i < Len(ls) \/ ended THEN ls[i] \o b ELSE ls[i]
  IN  FlattenSeq([i \in DOMAIN ls |-> terminated(i)])

Init ==
  /\ \/ profile = "chat" /\ lines \in SeqsUpTo(ChatLines, MaxLines)
     \/ profile = "responses" /\ lines \in SeqsUpTo(ResponsesLines, MaxEvents)
     \/ profile = "compressed" /\ lines = <<Whole("usage")>>
  /\ brk \in Breaks
  /\ \E ended \in BOOLEAN : stream = Bytes(lines, brk, ended)
  /\ pos = 0 /\ forwarded = 0 /\ phase = "read"
  /\ chunk = <<>> /\ readErr = "none"
  /\ lineBuf = <<>> /\ lineOverflow = FALSE /\ asm = EmptyAssembler
  /\ events = <<>> /\ row = NoRow /\ cutBreak = FALSE

(***************************************************************************)
(* sseEventAssembler                                                       *)
(***************************************************************************)

\* json.Valid. An empty payload and [DONE], which carry nothing, are left out.
IsJSON(p) == \E k \in Kinds : p = Document(k)

\* What processSSEEvent makes of a payload.
Kind(p) == IF IsJSON(p) THEN p[1][1] ELSE "bad"

\* Both return the assembler and the payloads to process, none or one.
Flush(a) ==
  [asm |-> EmptyAssembler,
   out |-> IF a.overflow \/ a.data = <<>> THEN <<>> ELSE <<a.data>>]

Keep(a, payload, out) ==
  LET size == a.size + Len(payload) + 1
  IN  [asm |-> IF size > MaxLine
                 THEN [data |-> <<>>, size |-> 0, overflow |-> TRUE]
                 ELSE [data |-> a.data \o payload, size |-> size, overflow |-> a.overflow],
       out |-> out]

AddLine(a, line) ==
  IF line = <<>> THEN Flush(a)
  ELSE IF line[1] # Data \/ a.overflow THEN [asm |-> a, out |-> <<>>]
  ELSE IF IsJSON(a.data) THEN Keep(EmptyAssembler, Tail(line), Flush(a).out)
  ELSE IF IsJSON(Tail(line)) THEN [asm |-> a, out |-> <<Tail(line)>>]
  ELSE Keep(a, Tail(line), <<>>)

Process(payloads) == [i \in DOMAIN payloads |-> Kind(payloads[i])]

(***************************************************************************)
(* What the events amount to                                               *)
(***************************************************************************)
NoUsage == [tokens |-> 0, partials |-> 0]
Seen(es, k) == \E i \in DOMAIN es : es[i] = k
Count(es, k) == Cardinality({i \in DOMAIN es : es[i] = k})
Usage(tokens, partials) == [tokens |-> tokens, partials |-> partials]

\* tryExtractSSEUsage and mergeUsageInfo over the events: lastUsage.
HasLastUsage(es) == \E k \in {"usage", "completed", "partial"} : Seen(es, k)
LastUsage(es) == Usage(IF Seen(es, "usage") \/ Seen(es, "completed") THEN 1 ELSE 0,
                  Count(es, "partial"))

Merge(current, next) ==
  Usage(IF next.tokens # 0 THEN next.tokens ELSE current.tokens,
        current.partials + next.partials)

Row(outcome, reason, terminal, usage) ==
  [outcome |-> outcome, reason |-> reason, terminal |-> terminal,
   tokens |-> usage.tokens, partials |-> usage.partials]

\* ResponsesStreamState.Result, with NoUsage for a nil usage.
Result(es) ==
  LET partials == Count(es, "partial")
  IN  CASE Seen(es, "completed") ->
             Row("captured", "", "response.completed", Usage(1, partials))
        [] ~Seen(es, "completed") /\ Seen(es, "bad") ->
             Row("failed", "parse_error", "stream_error", NoUsage)
        [] ~Seen(es, "completed") /\ ~Seen(es, "bad") ->
             CASE Seen(es, "bare") /\ partials > 0 ->
                    Row("captured", "", "response.completed", Usage(0, partials))
               [] Seen(es, "bare") /\ partials = 0 ->
                    Row("skipped", "response_completed_without_usage",
                        "response.completed", NoUsage)
               [] ~Seen(es, "bare") /\ Seen(es, "incomplete") ->
                    Row("skipped", "response_incomplete", "response.incomplete", NoUsage)
               [] OTHER ->
                    IF Seen(es, "error") THEN Row("failed", "response_error_event", "error", NoUsage)
                    ELSE IF Seen(es, "failed")
                      THEN Row("failed", "response_error_event", "response.failed", NoUsage)
                    ELSE IF Seen(es, "created")
                      THEN Row("skipped", "stream_ended_without_completed", "stream_end", NoUsage)
                    ELSE Row("skipped", "usage_not_present", "", NoUsage)

\* finalizeStreamUsage for the responses profile ...
FinalizeResponses(es) ==
  LET res == Result(es)
      usage == Usage(res.tokens, res.partials)
  IN  IF ~HasLastUsage(es) THEN res
      ELSE IF usage # NoUsage
        THEN Row(res.outcome, res.reason, res.terminal, Merge(LastUsage(es), usage))
      ELSE IF res.outcome = "skipped" /\ LastUsage(es).tokens > 0
        THEN Row("captured", "", res.terminal, LastUsage(es))
      ELSE Row(res.outcome, res.reason, res.terminal, LastUsage(es))

\* ... and for the others.
BugParseErrorWins(es) ==
  IF Seen(es, "bad") THEN Row("failed", "parse_error", "stream_error", LastUsage(es))
  ELSE IF HasLastUsage(es) THEN Row("captured", "", "", LastUsage(es))
  ELSE Row("skipped", "usage_not_present", "", NoUsage)

FinalizeOther(es) ==
  IF HasLastUsage(es) THEN Row("captured", "", "", LastUsage(es))
  ELSE IF Seen(es, "bad") THEN Row("failed", "parse_error", "stream_error", NoUsage)
  ELSE Row("skipped", "usage_not_present", "", NoUsage)

FinalizeStreamUsage(es) ==
  CASE profile = "responses" -> FinalizeResponses(es)
    [] profile = "chat" -> FinalizeOther(es)
    [] profile = "compressed" -> Row("skipped", "compressed_stream_not_metered", "", NoUsage)

\* flushPendingEvent, finalizeStreamUsage and recordUsage, on each way out.
BugNoFinalFlush ==
  /\ row' = FinalizeStreamUsage(events)
  /\ UNCHANGED <<events, asm>>
  /\ phase' = "recorded"

Finish ==
  /\ LET flushed == Flush(asm)
         es == events \o Process(flushed.out)
     IN  events' = es /\ asm' = flushed.asm /\ row' = FinalizeStreamUsage(es)
  /\ phase' = "recorded"

(***************************************************************************)
(* The loop                                                                *)
(***************************************************************************)

\* The request's context is done; a compressed stream does not look.
Cancel ==
  /\ phase = "read" /\ profile # "compressed"
  /\ Finish
  /\ UNCHANGED <<profile, lines, brk, stream, pos, forwarded, chunk, readErr, lineBuf,
                 lineOverflow, cutBreak>>

\* resp.Body.Read returns n bytes, and perhaps an error with them, and the
\* client takes them.
Read(n, err) ==
  /\ phase = "read"
  /\ n \in 0..(Len(stream) - pos)
  /\ err \in {"none", "eof", "fail"}
  /\ err = "none" => n > 0
  /\ err = "eof" => pos + n = Len(stream)
  /\ pos' = pos + n /\ forwarded' = pos + n
  /\ chunk' = IF profile = "compressed" THEN <<>> ELSE SubSeq(stream, pos + 1, pos + n)
  /\ readErr' = err
  /\ cutBreak' = (cutBreak \/ (n > 0 /\ pos + n < Len(stream)
                               /\ stream[pos + n] = CR /\ stream[pos + n + 1] = LF))
  /\ phase' = "lines"
  /\ UNCHANGED <<profile, lines, brk, stream, lineBuf, lineOverflow, asm, events, row>>

\* The client does not take them.
BugParseBeforeWrite(n) ==
  /\ phase = "read"
  /\ n \in 1..(Len(stream) - pos)
  /\ pos' = pos + n
  /\ chunk' = SubSeq(stream, pos + 1, pos + n)
  /\ readErr' = "fail"
  /\ phase' = "lines"
  /\ UNCHANGED <<profile, lines, brk, stream, forwarded, lineBuf, lineOverflow, asm, events,
                 row, cutBreak>>

WriteFails(n) ==
  /\ phase = "read"
  /\ n \in 1..(Len(stream) - pos)
  /\ pos' = pos + n
  /\ Finish
  /\ UNCHANGED <<profile, lines, brk, stream, forwarded, chunk, readErr, lineBuf, lineOverflow,
                 cutBreak>>

\* nextLineBreak: a CR with the LF after it, in this chunk, is one break.
BreakIn(c) == {i \in DOMAIN c : c[i] \in {CR, LF}}
NextLineBreak(c) == CHOOSE i \in BreakIn(c) : \A j \in BreakIn(c) : i <= j
BreakWidth(c, i) == IF c[i] = CR /\ i < Len(c) /\ c[i + 1] = LF THEN 2 ELSE 1

\* A line that is too long is an empty one to the assembler.
BugForgetBuffer ==
  /\ phase = "lines" /\ BreakIn(chunk) # {}
  /\ LET i == NextLineBreak(chunk)
         text == SubSeq(chunk, 1, i - 1)
         line == IF lineOverflow \/ Len(text) > MaxLine THEN <<>> ELSE text
         added == AddLine(asm, line)
     IN  /\ asm' = added.asm
         /\ events' = events \o Process(added.out)
         /\ chunk' = SubSeq(chunk, i + BreakWidth(chunk, i), Len(chunk))
  /\ lineBuf' = <<>> /\ lineOverflow' = FALSE
  /\ UNCHANGED <<profile, lines, brk, stream, pos, forwarded, phase, readErr, row, cutBreak>>

Line ==
  /\ phase = "lines" /\ BreakIn(chunk) # {}
  /\ LET i == NextLineBreak(chunk)
         text == lineBuf \o SubSeq(chunk, 1, i - 1)
         line == IF lineOverflow \/ Len(text) > MaxLine THEN <<>> ELSE text
         added == AddLine(asm, line)
     IN  /\ asm' = added.asm
         /\ events' = events \o Process(added.out)
         /\ chunk' = SubSeq(chunk, i + BreakWidth(chunk, i), Len(chunk))
  /\ lineBuf' = <<>> /\ lineOverflow' = FALSE
  /\ UNCHANGED <<profile, lines, brk, stream, pos, forwarded, phase, readErr, row, cutBreak>>

Remainder ==
  /\ phase = "lines" /\ chunk # <<>> /\ BreakIn(chunk) = {}
  /\ LET fits == Len(lineBuf) + Len(chunk) <= MaxLine
     IN  /\ lineBuf' = IF lineOverflow \/ ~fits THEN <<>> ELSE lineBuf \o chunk
         /\ lineOverflow' = (lineOverflow \/ ~fits)
  /\ chunk' = <<>>
  /\ UNCHANGED <<profile, lines, brk, stream, pos, forwarded, phase, readErr, asm, events, row,
                 cutBreak>>

NextRead ==
  /\ phase = "lines" /\ chunk = <<>> /\ readErr = "none"
  /\ phase' = "read"
  /\ UNCHANGED <<profile, lines, brk, stream, pos, forwarded, chunk, readErr, lineBuf,
                 lineOverflow, asm, events, row, cutBreak>>

StreamEnds ==
  /\ phase = "lines" /\ chunk = <<>> /\ readErr # "none"
  /\ Finish
  /\ UNCHANGED <<profile, lines, brk, stream, pos, forwarded, chunk, readErr, lineBuf,
                 lineOverflow, cutBreak>>

Next ==
  \/ Cancel
  \/ \E n \in 0..Len(stream) : WriteFails(n) \/ \E err \in {"none", "eof", "fail"} : Read(n, err)
  \/ Line \/ Remainder \/ NextRead \/ StreamEnds

Spec == Init /\ [][Next]_vars

(***************************************************************************)
(* Properties                                                              *)
(***************************************************************************)
Atoms == {CR, LF, Data, Text} \cup {<<k, h>> : k \in Kinds, h \in {1, 2}}

\* Also the bounds on what is kept in memory: a line and an event of maxLine.
TypeOK ==
  /\ pos \in 0..Len(stream) /\ forwarded \in 0..pos
  /\ phase \in {"read", "lines", "recorded"}
  /\ chunk \in Seq(Atoms) /\ readErr \in {"none", "eof", "fail"}
  /\ lineBuf \in Seq(Atoms) /\ Len(lineBuf) <= MaxLine /\ lineOverflow \in BOOLEAN
  /\ asm.data \in Seq(Atoms) /\ asm.size \in 0..MaxLine /\ asm.overflow \in BOOLEAN
  /\ events \in Seq(Kinds \cup {"bad"})
  /\ cutBreak \in BOOLEAN

Recorded == phase = "recorded"

\* The lines that the stream ends with a break.
Terminated ==
  IF lines = <<>> \/ (stream # <<>> /\ Last(stream) \in {CR, LF})
    THEN lines ELSE Front(lines)

\* The two data lines of a document that is spread over two follow each other.
WellFormed(ls) ==
  \A i \in DOMAIN ls :
    /\ ls[i] = FirstHalf => i < Len(ls) /\ ls[i + 1] = SecondHalf
    /\ ls[i] = SecondHalf => i > 1 /\ ls[i - 1] = FirstHalf
OneLineDocuments == \A i \in DOMAIN lines : lines[i] \notin {FirstHalf, SecondHalf}

\* The documents that a line ends, none or one.
Documents(line) ==
  IF line = SecondHalf THEN <<"usage">>
  ELSE IF line \in {Whole(k) : k \in Kinds} THEN <<line[2][1]>>
  ELSE <<>>
Expected(ls) == FlattenSeq([i \in DOMAIN ls |-> Documents(ls[i])])

\* A stream read to its end is understood as if it had come in one piece: the
\* events are the documents of its finished lines, in order, however the reads
\* cut lines, documents and breaks, and whatever was too long. (The code does
\* not hold on to a CR at the end of a chunk, so the LF after it is an empty
\* line, which ends a document that is spread over two lines.)
EventsAreWhole ==
  Recorded /\ readErr = "eof" /\ profile # "compressed" /\ WellFormed(Terminated)
    /\ (cutBreak => OneLineDocuments)
  => events = Expected(Terminated)

\* What is metered has reached the client: each event processed is a document
\* that lies in the bytes forwarded, and none is processed twice.
EventsWereForwarded ==
  \A k \in Kinds :
    Count(events, k) <= Cardinality({i \in 1..forwarded : stream[i] = <<k, 2>>})

\* However the stream ends (cancelled, broken off, a client gone), usage whose
\* line was forwarded with its break is in the row.  (Pieces of a document that
\* no empty line ends are kept until they are too long for an event, and then
\* the assembler takes nothing up to the next empty line.)
LineForwarded(i) == Len(Bytes(SubSeq(lines, 1, i), brk, FALSE)) < forwarded
Pieces(i) ==
  {j \in 1..i : lines[j] \in {FirstHalf, SecondHalf} /\ \A l \in j..i : lines[l] # <<>>}
UsageIsNotLost ==
  Recorded /\ profile # "compressed"
  => \A i \in DOMAIN lines :
       /\ LineForwarded(i)
       /\ \/ /\ lines[i] \in {Whole("usage"), Whole("completed")}
             /\ 2 * Cardinality(Pieces(i)) <= MaxLine
          \/ lines[i] = SecondHalf /\ WellFormed(SubSeq(lines, 1, i)) /\ ~cutBreak
       => row.tokens > 0

\* The outcome of the row agrees with its numbers: tokens are never filed as
\* failed or skipped, whatever else the stream held, and captured is never said
\* of a row without any count.
TokensMeanCaptured ==
  Recorded => /\ row.tokens > 0 => row.outcome = "captured" /\ row.reason = ""
              /\ row.outcome = "captured" => row.tokens + row.partials > 0
=============================================================================
