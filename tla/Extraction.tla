----------------------------- MODULE Extraction -----------------------------
(***************************************************************************)
(* The token counts of one response, from what the provider reports to what *)
(* the row says.  A provider counts while it generates (truth) and tells of *)
(* its counters in its own field names, once or several times; an extractor *)
(* of internal/extractor turns each document into a UsageInfo, and          *)
(* mergeUsageInfo puts those of a stream together.  The same response may   *)
(* be asked for as one document, which is extracted without a merge.        *)
(*                                                                          *)
(* A field that a document leaves out is 0, as after json.Unmarshal.        *)
(***************************************************************************)
EXTENDS Integers, Sequences, FiniteSets, SequencesExt

CONSTANTS
  MaxTokenCount,  \* the largest int64
  MaxCount,       \* bound: what a counter of the model may reach
  MaxEvents       \* bound: documents of a stream before the one that completes it

ASSUME WidthAssumption == MaxTokenCount \in Nat \ {0} /\ MaxCount \in 0..MaxTokenCount /\ MaxEvents \in Nat

VARIABLES
  provider,  \* whose field names the documents use
  truth,     \* what the provider has counted so far
  events,    \* the documents the stream has carried
  usage,     \* lastUsage, with the result of the responses state at the end
  done       \* the last document was one that completes the response

vars == <<provider, truth, events, usage, done>>

Providers == {"chat", "responses", "anthropic", "gemini", "images"}

\* Two's complement, for the additions that do not saturate.
Wrap(x) == IF x > MaxTokenCount THEN x - 2 * (MaxTokenCount + 1) ELSE x

TokenCount(v) == IF v < 0 THEN 0 ELSE v

\* A sum that stays at the limit once it has reached it.
Plus(a, b) == IF TokenCount(b) > MaxTokenCount - TokenCount(a) THEN MaxTokenCount
              ELSE TokenCount(a) + TokenCount(b)

-----------------------------------------------------------------------------
(* UsageInfo                                                                *)

NoUsage == [nil |-> TRUE]
Zero == [input |-> 0, output |-> 0, reasoning |-> 0, cached |-> 0, creation |-> 0, total |-> 0,
         inputText |-> 0, inputImage |-> 0, cachedText |-> 0, cachedImage |-> 0,
         images |-> 0, partials |-> 0]

HasTokens(info) == info.input # 0 \/ info.output # 0 \/ info.total # 0

\* chatUsageToInfo; responses usage in its place is left to the other format.
TryChat(u) ==
  IF \/ u.prompt_tokens = 0 /\ u.completion_tokens = 0 /\ u.input_tokens > 0
     \/ u.prompt_tokens <= 0 /\ u.completion_tokens <= 0 /\ u.total_tokens <= 0
  THEN NoUsage
  ELSE [Zero EXCEPT !.input = TokenCount(u.prompt_tokens), !.output = TokenCount(u.completion_tokens),
                    !.total = TokenCount(u.total_tokens), !.cached = TokenCount(u.cached_tokens),
                    !.reasoning = TokenCount(u.reasoning_tokens)]

ResponsesInfo(u) ==
  [Zero EXCEPT !.input = TokenCount(u.input_tokens), !.output = TokenCount(u.output_tokens),
               !.total = TokenCount(u.total_tokens), !.cached = TokenCount(u.cached_tokens),
               !.reasoning = TokenCount(u.reasoning_tokens), !.images = u.images]

TryResponses(u) ==
  IF u.input_tokens = 0 /\ u.output_tokens = 0 /\ u.images = 0 THEN NoUsage ELSE ResponsesInfo(u)

Anthropic(u) ==
  LET input == Plus(Plus(u.input_tokens, u.cache_creation_input_tokens), u.cache_read_input_tokens)
      output == TokenCount(u.output_tokens)
  IN  IF \A f \in DOMAIN u : u[f] <= 0 THEN NoUsage
      ELSE [Zero EXCEPT !.input = input, !.output = output, !.total = Plus(input, output),
                        !.cached = TokenCount(u.cache_read_input_tokens),
                        !.creation = TokenCount(u.cache_creation_input_tokens)]

\* Tool prompts are input, thoughts are output, and what is missing is taken
\* from the provider's total.
BugThoughtsApart(u) ==
  LET input == Plus(u.promptTokenCount, u.toolUsePromptTokenCount)
      total == TokenCount(u.totalTokenCount)
  IN  IF \A f \in DOMAIN u : u[f] <= 0 THEN NoUsage
      ELSE [Zero EXCEPT !.input = input, !.output = TokenCount(u.candidatesTokenCount),
                        !.total = IF total = 0 THEN Plus(input, TokenCount(u.candidatesTokenCount)) ELSE total,
                        !.cached = TokenCount(u.cachedContentTokenCount),
                        !.reasoning = TokenCount(u.thoughtsTokenCount), !.images = u.images]

Gemini(u) ==
  LET cached  == TokenCount(u.cachedContentTokenCount)
      prompts == Plus(u.promptTokenCount, u.toolUsePromptTokenCount)
      input   == IF prompts = 0 THEN cached ELSE prompts
      total   == TokenCount(u.totalTokenCount)
      made    == Plus(u.candidatesTokenCount, u.thoughtsTokenCount)
      output  == IF made = 0 /\ total > input THEN total - input ELSE made
  IN  IF \A f \in DOMAIN u : u[f] <= 0 THEN NoUsage
      ELSE [Zero EXCEPT !.input = input, !.output = output, !.cached = cached,
                        !.reasoning = TokenCount(u.thoughtsTokenCount), !.images = u.images,
                        !.total = IF total = 0 THEN Plus(input, output) ELSE total]

\* A document that has usage and no list of images is about one image.
Images(u) ==
  LET info == [Zero EXCEPT !.input = TokenCount(u.input_tokens), !.output = TokenCount(u.output_tokens),
                 !.total = TokenCount(u.total_tokens), !.inputText = TokenCount(u.text_tokens),
                 !.inputImage = TokenCount(u.image_tokens), !.cached = TokenCount(u.cached_tokens),
                 !.cachedText = TokenCount(u.cached_text_tokens),
                 !.cachedImage = TokenCount(u.cached_image_tokens), !.images = u.images]
  IN  IF info.images # 0 THEN info
      ELSE IF HasTokens(info) THEN [info EXCEPT !.images = 1] ELSE NoUsage

PartialImage == [partial_image_index |-> 0]

Extract(u) ==
  IF u = PartialImage THEN [Zero EXCEPT !.partials = 1]
  ELSE CASE provider = "chat"      -> TryChat(u)
         [] provider = "responses" -> ResponsesInfo(u)
         [] provider = "anthropic" -> Anthropic(u)
         [] provider = "gemini"    -> Gemini(u)
         [] provider = "images"    -> Images(u)

\* ExtractNonStreaming tries the endpoint's own format first.
ExtractNonStreaming(u, endpoint) ==
  LET first  == IF endpoint = "responses" THEN TryResponses(u) ELSE TryChat(u)
      second == IF endpoint = "responses" THEN TryChat(u) ELSE TryResponses(u)
  IN  IF first # NoUsage THEN first ELSE second

\* An array of chunks: the last one with usage, and the images of all.
AllImages(us) == FoldSeq(LAMBDA u, n : u.images + n, 0, us)

ExtractGeminiArray(us) ==
  LET told == {i \in DOMAIN us : Gemini(us[i]) # NoUsage}
      info == Gemini(us[Max(told)])
  IN  IF told = {} THEN NoUsage
      ELSE IF AllImages(us) = 0 THEN info ELSE [info EXCEPT !.images = AllImages(us)]

\* mergeUsageInfo: what a later document says counts, field by field, but a
\* document about the output alone does not set the total.
BugLastTotal(current, next) ==
  IF next = NoUsage THEN current
  ELSE IF current = NoUsage THEN next
  ELSE [f \in DOMAIN Zero |-> IF next[f] # 0 THEN next[f] ELSE current[f]]

Merge(current, next) ==
  IF next = NoUsage THEN current
  ELSE IF current = NoUsage THEN next
  ELSE LET merged == [f \in DOMAIN Zero |-> IF next[f] # 0 THEN next[f] ELSE current[f]]
           sum == Wrap(merged.input + merged.output)
       IN  [merged EXCEPT !.partials = current.partials + next.partials, !.total =
              IF next.total # 0
                THEN IF next.input = 0 /\ next.output # 0 /\ current.input # 0 /\ next.total = next.output
                       THEN sum ELSE next.total
              ELSE IF \E f \in {"input", "output", "reasoning", "cached"} : next[f] # 0
                THEN sum ELSE current.total]

-----------------------------------------------------------------------------
(* usage_dimensions                                                        *)

Channels   == {"text", "image", "mixed"}
Directions == {"input", "cached_input", "output"}
NotZero(amount) == [c \in {d \in DOMAIN amount : amount[d] # 0} |-> amount[c]]

BugMixedWhenSplit(info) == NotZero([c \in Channels \X {"input"} |->
  CASE c[1] = "text"  -> info.inputText
    [] c[1] = "image" -> info.inputImage
    [] c[1] = "mixed" -> IF info.inputText = 0 \/ info.inputImage = 0 THEN info.input ELSE 0])

BuildImageDimensions(info) == NotZero([c \in Channels \X Directions |->
  CASE c = <<"text", "input">>         -> info.inputText
    [] c = <<"image", "input">>        -> info.inputImage
    [] c = <<"mixed", "input">>        -> IF info.inputText = 0 /\ info.inputImage = 0 THEN info.input ELSE 0
    [] c = <<"text", "cached_input">>  -> info.cachedText
    [] c = <<"image", "cached_input">> -> info.cachedImage
    [] c = <<"mixed", "cached_input">> -> IF info.cachedText = 0 /\ info.cachedImage = 0 THEN info.cached ELSE 0
    [] c = <<"image", "output">>       -> info.output
    [] OTHER                           -> 0])

-----------------------------------------------------------------------------
(* What the providers tell                                                 *)

Counters == {"prompt", "cached", "creation", "tool", "answer", "thoughts", "images"}
Inputs == {"prompt", "cached", "creation"}   \* known when the stream begins
InputOf(t)  == t.prompt + t.cached + t.creation + t.tool
OutputOf(t) == t.answer + t.thoughts

OpenAI(t) == [prompt_tokens |-> InputOf(t), completion_tokens |-> OutputOf(t), input_tokens |-> 0,
              output_tokens |-> 0, total_tokens |-> InputOf(t) + OutputOf(t),
              cached_tokens |-> t.cached, reasoning_tokens |-> t.thoughts, images |-> 0]
ResponsesDoc(t) == [OpenAI(t) EXCEPT !.prompt_tokens = 0, !.completion_tokens = 0,
                      !.input_tokens = InputOf(t), !.output_tokens = OutputOf(t), !.images = t.images]
AnthropicDoc(t) == [input_tokens |-> t.prompt, output_tokens |-> OutputOf(t),
                    cache_creation_input_tokens |-> t.creation, cache_read_input_tokens |-> t.cached]
AnthropicDelta(t) == [AnthropicDoc([c \in Counters |-> 0]) EXCEPT !.output_tokens = OutputOf(t)]
GeminiDoc(t, images, total) ==
  [promptTokenCount |-> t.prompt + t.cached, toolUsePromptTokenCount |-> t.tool,
   cachedContentTokenCount |-> t.cached, candidatesTokenCount |-> t.answer, thoughtsTokenCount |-> t.thoughts,
   totalTokenCount |-> IF total THEN InputOf(t) + OutputOf(t) ELSE 0, images |-> images]
\* With the split of the input, or without; the cached part is text.
ImagesDoc(t, split, images) ==
  [input_tokens |-> InputOf(t), output_tokens |-> OutputOf(t), total_tokens |-> InputOf(t) + OutputOf(t),
   text_tokens |-> IF split THEN t.prompt + t.cached ELSE 0, image_tokens |-> IF split THEN t.tool ELSE 0,
   cached_tokens |-> t.cached, cached_text_tokens |-> IF split THEN t.cached ELSE 0,
   cached_image_tokens |-> 0, images |-> images]

\* The counters a provider has at all.
Counted(p) ==
  CASE p = "chat"      -> {"prompt", "cached", "answer", "thoughts"}
    [] p = "responses" -> {"prompt", "cached", "answer", "thoughts", "images"}
    [] p = "anthropic" -> {"prompt", "cached", "creation", "answer"}
    [] p = "gemini"    -> {"prompt", "cached", "tool", "answer", "thoughts", "images"}
    [] p = "images"    -> {"prompt", "cached", "tool", "answer", "images"}

\* The documents that may follow when the counters are t.
Progress(t) ==
  CASE provider = "chat"      -> {OpenAI(t)}
    [] provider = "anthropic" -> IF events = <<>> THEN {AnthropicDoc(t)} ELSE {AnthropicDelta(t), AnthropicDoc(t)}
    [] provider = "gemini"    -> {GeminiDoc(t, t.images - truth.images, total) : total \in BOOLEAN}
    [] OTHER                  -> {PartialImage}
Final(t) ==
  CASE provider = "responses" -> {ResponsesDoc(t)}
    [] provider = "images"    -> {ImagesDoc(t, split, 0) : split \in BOOLEAN}
    [] OTHER                  -> Progress(t)

-----------------------------------------------------------------------------
(* Steps                                                                   *)

Init ==
  /\ provider \in Providers
  /\ truth \in {t \in [Counters -> 0..MaxCount] : \A c \in Counters \ (Inputs \cap Counted(provider)) : t[c] = 0}
  /\ events = <<>> /\ usage = NoUsage /\ done = FALSE

Grown == {t \in [Counters -> 0..MaxCount] :
            \A c \in Counters : t[c] >= truth[c]
              /\ (c \in Inputs \/ c \notin Counted(provider) => t[c] = truth[c])}

\* A document on the way.
Report ==
  /\ ~done /\ Len(events) < MaxEvents
  /\ truth' \in Grown
  /\ \E u \in Progress(truth') : events' = Append(events, u) /\ usage' = Merge(usage, Extract(u))
  /\ UNCHANGED <<provider, done>>

\* The document that completes the response.  For responses the usage that the
\* responses state has collected, with its own count of partial images, is
\* merged once more.  A streamed image request makes one image.
Complete ==
  /\ ~done
  /\ truth' \in Grown
  /\ provider = "images" => truth'.images = 1
  /\ \E u \in Final(truth') :
       LET merged == Merge(usage, Extract(u))
       IN  /\ events' = Append(events, u)
           /\ usage' = IF provider = "responses"
                         THEN Merge(merged, [Extract(u) EXCEPT !.partials = Len(events)]) ELSE merged
  /\ done' = TRUE
  /\ UNCHANGED provider

Next == Report \/ Complete

Spec == Init /\ [][Next]_vars

-----------------------------------------------------------------------------
(* Properties                                                              *)

TokenFields == {"input", "output", "reasoning", "cached", "creation", "total"}
Tokens(info) == IF info = NoUsage THEN [f \in TokenFields |-> 0] ELSE [f \in TokenFields |-> info[f]]
Fits == InputOf(truth) + OutputOf(truth) <= MaxTokenCount

\* What the extraction makes of the response when it is asked for whole, in
\* each form and at each endpoint that may carry it.
WholeForms ==
  CASE provider = "chat"      -> {ExtractNonStreaming(OpenAI(truth), e) : e \in {"chat", "responses"}}
    [] provider = "responses" -> {ExtractNonStreaming(ResponsesDoc(truth), e) : e \in {"chat", "responses"}}
    [] provider = "anthropic" -> {Anthropic(AnthropicDoc(truth))}
    [] provider = "gemini"    -> {Gemini(GeminiDoc(truth, truth.images, TRUE)), ExtractGeminiArray(events)}
    [] provider = "images"    -> {Images(ImagesDoc(truth, split, truth.images)) : split \in BOOLEAN}

\* A client that streams is metered like one that does not: however the
\* provider spreads its counters over the documents of a stream, the merged
\* tokens are those of the whole response (mergeUsageInfo, ExtractNonStreaming).
\* The input is never empty: a responses document without input is taken for
\* chat usage.
StreamEqualsWhole ==
  done /\ Fits /\ InputOf(truth) > 0 => \A whole \in WholeForms : Tokens(usage) = Tokens(whole)

\* Wherever a stream is cut off, what would be recorded adds up, as the pricing
\* of cached input and of reasoning takes it: cached input and cache creation
\* are parts of the input, reasoning is a part of the output, and the total is
\* the two together.
UsageIsConsistent ==
  usage # NoUsage /\ Fits =>
    /\ usage.cached + usage.creation <= usage.input
    /\ usage.reasoning <= usage.output
    /\ usage.total = usage.input + usage.output

\* The dimensions of an image request bill its input once: by channel when the
\* provider gave the split, as mixed when it did not, and never both.
DimensionsAddUp ==
  provider = "images" /\ usage # NoUsage /\ Fits =>
    LET d == BuildImageDimensions(usage)
        At(c) == IF c \in DOMAIN d THEN d[c] ELSE 0
        Of(direction) == At(<<"text", direction>>) + At(<<"image", direction>>) + At(<<"mixed", direction>>)
    IN  Of("input") = usage.input /\ Of("cached_input") = usage.cached /\ Of("output") = usage.output

\* "Also accepts a JSON array of streamed chunks": the images of a Gemini
\* response are the same number, streamed as events or as an array.
ImagesAddUp ==
  done /\ provider = "gemini" /\ usage # NoUsage => usage.images = ExtractGeminiArray(events).images
=============================================================================
