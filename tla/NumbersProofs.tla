---------------------------- MODULE NumbersProofs ----------------------------
(***************************************************************************)
(* What becomes of numbers that come from outside: the token counts of any  *)
(* provider, any range of its counters and streams of any length, and the   *)
(* integers of any configuration file.                                      *)
(*                                                                          *)
(* That a merged usage is consistent is not inductive: a merge puts fields  *)
(* of two documents together, and they fit only because both tell of one    *)
(* response.  ExtractionInv says so: the merged usage says, field by field, *)
(* what the documents have told of the counters (Heard), which since then   *)
(* have only grown.  Each extractor is shown once to say what its document  *)
(* is about (ChatSays to ImagesSays), and a merge to say what the later one *)
(* does (MergeSays); MergeDelta is the case of Anthropic's documents about  *)
(* the output alone.                                                        *)
(*                                                                          *)
(* Numbers, Reads and Splits hold the fields of a UsageInfo apart from the  *)
(* arithmetic about them.                                                   *)
(***************************************************************************)
EXTENDS Extraction, Config, SequenceTheorems, TLAPS

Fields == TokenFields \cup {"inputText", "inputImage", "cachedText", "cachedImage", "images", "partials"}
Infos  == {NoUsage} \cup [Fields -> Int]
Truths == [Counters -> Nat]

\* What a UsageInfo says; none at all says nothing.
Value(info, f) == IF info = NoUsage THEN 0 ELSE info[f]

\* What the row should say of a response whose counters are t.
Told(t) == [input |-> InputOf(t), output |-> OutputOf(t), reasoning |-> t.thoughts,
            cached |-> t.cached, creation |-> t.creation, total |-> InputOf(t) + OutputOf(t)]

Says(info, t) == \A f \in TokenFields : Value(info, f) = Told(t)[f]

\* Nothing is larger than the model's int64.
InRange(t) == InputOf(t) + OutputOf(t) <= MaxTokenCount

-----------------------------------------------------------------------------
(* UsageInfo *)

\* The fields of a UsageInfo that nothing has been written to.
LEMMA ZeroIs == DOMAIN Zero = Fields /\ Zero \in [Fields -> Int] /\ \A f \in Fields : Zero[f] = 0
<1>1. DOMAIN Zero = Fields
  BY DEF Zero, Fields, TokenFields
<1>2. \A f \in Fields : Zero[f] = 0
  BY DEF Zero, Fields, TokenFields
<1>3. Zero = [f \in DOMAIN Zero |-> Zero[f]]
  BY DEF Zero
<1> QED BY <1>1, <1>2, <1>3

\* A UsageInfo is not nil.
LEMMA NotNil == ASSUME NEW info \in [Fields -> Int] PROVE info # NoUsage
<1>1. DOMAIN info = Fields /\ DOMAIN NoUsage = {"nil"} /\ "nil" \notin Fields
  BY DEF NoUsage, Fields, TokenFields
<1> QED BY <1>1

\* What the counters tell are numbers, and a part is not more than its whole.
LEMMA ToldIs ==
  ASSUME NEW t \in Truths
  PROVE  /\ InputOf(t) \in Nat /\ OutputOf(t) \in Nat
         /\ \A f \in TokenFields : Told(t)[f] \in Nat
         /\ t.cached + t.creation <= InputOf(t) /\ t.thoughts <= OutputOf(t)
         /\ t.cached <= InputOf(t) /\ t.creation <= InputOf(t)
         /\ t.cached \in Nat /\ t.creation \in Nat /\ t.thoughts \in Nat
<1>1. /\ t.prompt \in Nat /\ t.cached \in Nat /\ t.creation \in Nat /\ t.tool \in Nat
      /\ t.answer \in Nat /\ t.thoughts \in Nat
  BY DEF Truths, Counters
<1>2. \A a, b, c, d \in Nat : a + b + c + d \in Nat /\ b + c <= a + b + c + d /\ b <= a + b + c + d
                              /\ c <= a + b + c + d
  OBVIOUS
<1>3. \A a, b \in Nat : a + b \in Nat /\ b <= a + b
  OBVIOUS
<1>4. InputOf(t) \in Nat /\ t.cached + t.creation <= InputOf(t) /\ t.cached <= InputOf(t)
      /\ t.creation <= InputOf(t)
  BY <1>1, <1>2, Zenon DEF InputOf
<1>5. OutputOf(t) \in Nat /\ t.thoughts <= OutputOf(t)
  BY <1>1, <1>3, Zenon DEF OutputOf
<1>6. InputOf(t) + OutputOf(t) \in Nat
  BY <1>4, <1>5
<1> HIDE DEF InputOf, OutputOf
<1>7. \A f \in TokenFields : Told(t)[f] \in Nat
  BY <1>1, <1>4, <1>5, <1>6 DEF Told, TokenFields
<1> QED BY <1>1, <1>4, <1>5, <1>7

\* A UsageInfo with these numbers of tokens: input, output, total, cached,
\* reasoning, creation.
Reads(info, i, o, l, c, r, n) ==
  /\ info \in [Fields -> Int]
  /\ info.input = i /\ info.output = o /\ info.total = l
  /\ info.cached = c /\ info.reasoning = r /\ info.creation = n

\* What a document says that says all.
LEMMA SaysAll ==
  ASSUME NEW info, NEW t \in Truths, NEW i, NEW o, NEW l, NEW c, NEW r, NEW n,
         Reads(info, i, o, l, c, r, n)
  PROVE  /\ info \in Infos /\ info # NoUsage
         /\ Says(info, t) <=>
           /\ i = InputOf(t) /\ o = OutputOf(t) /\ l = InputOf(t) + OutputOf(t)
           /\ c = t.cached /\ r = t.thoughts /\ n = t.creation
<1>1. info # NoUsage /\ info \in [Fields -> Int]
  BY NotNil DEF Reads
<1>2. info.input = i /\ info.output = o /\ info.total = l
      /\ info.cached = c /\ info.reasoning = r /\ info.creation = n
  BY DEF Reads
<1>3. Says(info, t) <=>
           /\ i = InputOf(t) /\ o = OutputOf(t) /\ l = InputOf(t) + OutputOf(t)
           /\ c = t.cached /\ r = t.thoughts /\ n = t.creation
  BY <1>1, <1>2 DEF Says, Value, Told, TokenFields
<1> QED BY <1>1, <1>3 DEF Infos

\* No usage at all says what there is when nothing was counted.
LEMMA NothingSaid ==
  ASSUME NEW t \in Truths, InputOf(t) = 0, OutputOf(t) = 0
  PROVE  Says(NoUsage, t)
BY ToldIs DEF Says, Value, Told, TokenFields

\* A counter that the provider does not have.
Lacks(t, c) == t[c] = 0

-----------------------------------------------------------------------------
(* The documents *)

\* A sum that is in range is the sum.
LEMMA PlusIs ==
  ASSUME NEW a \in Int, NEW b \in Int, a >= 0, b >= 0
  PROVE  /\ TokenCount(a) = a /\ Plus(a, b) \in Int
         /\ a + b <= MaxTokenCount => Plus(a, b) = a + b
BY WidthAssumption DEF Plus, TokenCount

\* The numbers that a document about t is made of.
Numbers(t, i, o, l, c, r, n) ==
  /\ i = InputOf(t) /\ o = OutputOf(t) /\ l = InputOf(t) + OutputOf(t) /\ l = i + o
  /\ c = t.cached /\ r = t.thoughts /\ n = t.creation /\ c + n <= i /\ r <= o /\ c <= i
  /\ i >= 0 /\ o >= 0 /\ l >= 0 /\ c >= 0 /\ r >= 0 /\ n >= 0

\* A usage with these numbers is a usage that says all of t.
LEMMA ReadAsTold ==
  ASSUME NEW info, NEW t \in Truths, NEW i, NEW o, NEW l, NEW c, NEW r, NEW n,
         Reads(info, i, o, l, c, r, n), Numbers(t, i, o, l, c, r, n)
  PROVE  info \in Infos /\ Says(info, t)
<1>1. /\ i = InputOf(t) /\ o = OutputOf(t) /\ l = InputOf(t) + OutputOf(t)
      /\ c = t.cached /\ r = t.thoughts /\ n = t.creation
  BY Zenon DEF Numbers
<1> QED BY <1>1, SaysAll, Zenon

\* There are such numbers.
LEMMA NumbersOf ==
  ASSUME NEW t \in Truths
  PROVE  \E i, o, l, c, r, n \in Int : Numbers(t, i, o, l, c, r, n)
<1>1. PICK i \in Int : i >= 0 /\ i = InputOf(t)
  BY ToldIs
<1>2. PICK o \in Int : o >= 0 /\ o = OutputOf(t)
  BY ToldIs
<1>3. PICK c \in Int : c >= 0 /\ c = t.cached
  BY ToldIs
<1>4. PICK r \in Int : r >= 0 /\ r = t.thoughts
  BY ToldIs
<1>5. PICK n \in Int : n >= 0 /\ n = t.creation
  BY ToldIs
<1>6. PICK l \in Int : l >= 0 /\ l = i + o
  <2>1. i + o \in Int /\ i + o >= 0
    BY <1>1, <1>2
  <2> QED BY <2>1, Zenon
<1>7. c + n <= i /\ r <= o /\ c <= i
  BY <1>1, <1>2, <1>3, <1>4, <1>5, ToldIs, Zenon
<1>8. l = InputOf(t) + OutputOf(t)
  BY <1>1, <1>2, <1>6, Zenon
<1> QED BY <1>1, <1>2, <1>3, <1>4, <1>5, <1>6, <1>7, <1>8, Zenon DEF Numbers

\* What chatUsageToInfo writes into an empty UsageInfo.
ChatFill(i, o, l, c, r) == [Zero EXCEPT !.input = i, !.output = o, !.total = l, !.cached = c, !.reasoning = r]

\* It has these numbers of tokens.
LEMMA ChatFilled ==
  ASSUME NEW i \in Int, NEW o \in Int, NEW l \in Int, NEW c \in Int, NEW r \in Int
  PROVE  Reads(ChatFill(i, o, l, c, r), i, o, l, c, r, 0)
<1> DEFINE info == ChatFill(i, o, l, c, r)
<1>1. info \in [Fields -> Int]
  BY ZeroIs DEF Fields, TokenFields, ChatFill
<1>2. /\ info.input = i /\ info.output = o /\ info.total = l
      /\ info.cached = c /\ info.reasoning = r /\ info.creation = 0
  BY DEF Zero, ChatFill
<1> QED BY <1>1, <1>2 DEF Reads

\* What responsesUsageToInfo writes into an empty UsageInfo.
ResponsesFill(i, o, l, c, r, m) == [Zero EXCEPT !.input = i, !.output = o, !.total = l, !.cached = c,
                                     !.reasoning = r, !.images = m]

\* It has these numbers of tokens.
LEMMA ResponsesFilled ==
  ASSUME NEW i \in Int, NEW o \in Int, NEW l \in Int, NEW c \in Int, NEW r \in Int, NEW m \in Int
  PROVE  Reads(ResponsesFill(i, o, l, c, r, m), i, o, l, c, r, 0)
<1> DEFINE info == ResponsesFill(i, o, l, c, r, m)
<1>1. info \in [Fields -> Int]
  BY ZeroIs DEF Fields, TokenFields, ResponsesFill
<1>2. /\ info.input = i /\ info.output = o /\ info.total = l
      /\ info.cached = c /\ info.reasoning = r /\ info.creation = 0
  BY DEF Zero, ResponsesFill
<1> QED BY <1>1, <1>2 DEF Reads

\* What extractAnthropicUsage writes into an empty UsageInfo.
AnthropicFill(i, o, l, c, n) == [Zero EXCEPT !.input = i, !.output = o, !.total = l, !.cached = c, !.creation = n]

\* It has these numbers of tokens.
LEMMA AnthropicFilled ==
  ASSUME NEW i \in Int, NEW o \in Int, NEW l \in Int, NEW c \in Int, NEW n \in Int
  PROVE  Reads(AnthropicFill(i, o, l, c, n), i, o, l, c, 0, n)
<1> DEFINE info == AnthropicFill(i, o, l, c, n)
<1>1. info \in [Fields -> Int]
  BY ZeroIs DEF Fields, TokenFields, AnthropicFill
<1>2. /\ info.input = i /\ info.output = o /\ info.total = l
      /\ info.cached = c /\ info.reasoning = 0 /\ info.creation = n
  BY DEF Zero, AnthropicFill
<1> QED BY <1>1, <1>2 DEF Reads

\* What the Gemini extractor writes into an empty UsageInfo.
GeminiFill(i, o, l, c, r, m) == [Zero EXCEPT !.input = i, !.output = o, !.cached = c, !.reasoning = r,
                                  !.images = m, !.total = l]

\* It has these numbers of tokens.
LEMMA GeminiFilled ==
  ASSUME NEW i \in Int, NEW o \in Int, NEW l \in Int, NEW c \in Int, NEW r \in Int, NEW m \in Int
  PROVE  Reads(GeminiFill(i, o, l, c, r, m), i, o, l, c, r, 0)
<1> DEFINE info == GeminiFill(i, o, l, c, r, m)
<1>1. info \in [Fields -> Int]
  BY ZeroIs DEF Fields, TokenFields, GeminiFill
<1>2. /\ info.input = i /\ info.output = o /\ info.total = l
      /\ info.cached = c /\ info.reasoning = r /\ info.creation = 0
  BY DEF Zero, GeminiFill
<1> QED BY <1>1, <1>2 DEF Reads

\* chatUsageToInfo on a chat document, and on one of the responses format.
LEMMA ChatSays ==
  ASSUME NEW t \in Truths, Lacks(t, "creation")
  PROVE  /\ TryChat(OpenAI(t)) \in Infos /\ Says(TryChat(OpenAI(t)), t)
         /\ InputOf(t) > 0 => TryChat(OpenAI(t)) # NoUsage /\ TryChat(ResponsesDoc(t)) = NoUsage
<1> DEFINE u == OpenAI(t)
           v == ResponsesDoc(t)
<1>a. PICK i, o, l, c, r, n \in Int : Numbers(t, i, o, l, c, r, n)
  BY NumbersOf
<1>1. /\ i = InputOf(t) /\ o = OutputOf(t) /\ l = InputOf(t) + OutputOf(t) /\ l = i + o
      /\ c = t.cached /\ r = t.thoughts /\ n = t.creation /\ c + n <= i /\ r <= o /\ c <= i
      /\ i >= 0 /\ o >= 0 /\ l >= 0 /\ c >= 0 /\ r >= 0 /\ n >= 0
  BY <1>a, Zenon DEF Numbers
<1> DEFINE info == ChatFill(i, o, l, c, r)
<1>2. /\ u.prompt_tokens = i /\ u.completion_tokens = o /\ u.input_tokens = 0
      /\ u.total_tokens = l /\ u.cached_tokens = c /\ u.reasoning_tokens = r
  BY <1>1 DEF OpenAI
<1>3. v.prompt_tokens = 0 /\ v.completion_tokens = 0 /\ v.input_tokens = i
  BY <1>1 DEF ResponsesDoc, OpenAI
<1> HIDE DEF u, v
<1>4. Reads(info, i, o, l, c, r, 0)
  BY ChatFilled
<1>5. /\ TokenCount(i) = i /\ TokenCount(o) = o /\ TokenCount(l) = l
      /\ TokenCount(c) = c /\ TokenCount(r) = r
  BY <1>1, PlusIs
<1>6. TryChat(u) = IF i = 0 /\ o = 0 THEN NoUsage ELSE info
  <2>1. (\/ u.prompt_tokens = 0 /\ u.completion_tokens = 0 /\ u.input_tokens > 0
         \/ u.prompt_tokens <= 0 /\ u.completion_tokens <= 0 /\ u.total_tokens <= 0)
        <=> i = 0 /\ o = 0
    BY <1>1, <1>2
  <2> QED BY <2>1, <1>2, <1>5, Zenon DEF TryChat, ChatFill
<1> HIDE DEF info
<1>7. Says(info, t) /\ info # NoUsage
  <2>1. t.creation = 0
    BY DEF Lacks
  <2> QED BY <1>1, <1>4, <2>1, SaysAll, Zenon
<1>8. i = 0 /\ o = 0 => Says(NoUsage, t)
  BY <1>1, NothingSaid, Zenon
<1>9. i > 0 => TryChat(v) = NoUsage
  BY <1>3 DEF TryChat
<1>10. (i > 0 => ~(i = 0)) /\ info \in Infos /\ NoUsage \in Infos
  BY <1>4 DEF Infos, Reads
<1>11. TryChat(u) \in Infos /\ Says(TryChat(u), t) /\ (i > 0 => TryChat(u) # NoUsage)
  BY <1>6, <1>7, <1>8, <1>10, Zenon
<1> QED BY <1>1, <1>9, <1>11, Zenon DEF u, v

\* responsesUsageToInfo on a responses document; and a chat document has
\* nothing that it would take.
LEMMA ResponsesSays ==
  ASSUME NEW t \in Truths, Lacks(t, "creation")
  PROVE  /\ ResponsesInfo(ResponsesDoc(t)) \in [Fields -> Int]
         /\ Says(ResponsesInfo(ResponsesDoc(t)), t)
         /\ InputOf(t) > 0 => TryResponses(ResponsesDoc(t)) = ResponsesInfo(ResponsesDoc(t))
         /\ TryResponses(OpenAI(t)) = NoUsage
<1> DEFINE u == ResponsesDoc(t)
<1>a. PICK i, o, l, c, r, n \in Int : Numbers(t, i, o, l, c, r, n)
  BY NumbersOf
<1>1. /\ i = InputOf(t) /\ o = OutputOf(t) /\ l = InputOf(t) + OutputOf(t) /\ l = i + o
      /\ c = t.cached /\ r = t.thoughts /\ n = t.creation /\ c + n <= i /\ r <= o /\ c <= i
      /\ i >= 0 /\ o >= 0 /\ l >= 0 /\ c >= 0 /\ r >= 0 /\ n >= 0
  BY <1>a, Zenon DEF Numbers
<1>2. PICK m \in Int : m = t.images /\ m >= 0
  BY DEF Truths, Counters
<1> DEFINE info == ResponsesFill(i, o, l, c, r, m)
<1>3. /\ u.input_tokens = i /\ u.output_tokens = o /\ u.total_tokens = l
      /\ u.cached_tokens = c /\ u.reasoning_tokens = r /\ u.images = m
  BY <1>1, <1>2 DEF ResponsesDoc, OpenAI
<1> HIDE DEF u
<1>4. Reads(info, i, o, l, c, r, 0)
  BY ResponsesFilled
<1>5. /\ TokenCount(i) = i /\ TokenCount(o) = o /\ TokenCount(l) = l
      /\ TokenCount(c) = c /\ TokenCount(r) = r
  BY <1>1, PlusIs
<1>6. ResponsesInfo(u) = info
  BY <1>3, <1>5, Zenon DEF ResponsesInfo, ResponsesFill
<1> HIDE DEF info
<1>7. Says(info, t)
  <2>1. t.creation = 0
    BY DEF Lacks
  <2> QED BY <1>1, <1>4, <2>1, SaysAll, Zenon
<1>8. i > 0 => TryResponses(u) = ResponsesInfo(u)
  BY <1>3 DEF TryResponses
<1>9. TryResponses(OpenAI(t)) = NoUsage
  <2>1. OpenAI(t).input_tokens = 0 /\ OpenAI(t).output_tokens = 0 /\ OpenAI(t).images = 0
    BY DEF OpenAI
  <2> QED BY <2>1 DEF TryResponses
<1> QED BY <1>1, <1>4, <1>6, <1>7, <1>8, <1>9, Zenon DEF u, Reads

\* extractAnthropicUsage on a document about all.
LEMMA AnthropicSays ==
  ASSUME NEW t \in Truths, InRange(t), Lacks(t, "tool"), Lacks(t, "thoughts")
  PROVE  Anthropic(AnthropicDoc(t)) \in Infos /\ Says(Anthropic(AnthropicDoc(t)), t)
<1> DEFINE u == AnthropicDoc(t)
<1>a. PICK i, o, l, c, r, n \in Int : Numbers(t, i, o, l, c, r, n)
  BY NumbersOf
<1>1. /\ i = InputOf(t) /\ o = OutputOf(t) /\ l = InputOf(t) + OutputOf(t) /\ l = i + o
      /\ c = t.cached /\ r = t.thoughts /\ n = t.creation /\ c + n <= i /\ r <= o /\ c <= i
      /\ i >= 0 /\ o >= 0 /\ l >= 0 /\ c >= 0 /\ r >= 0 /\ n >= 0
  BY <1>a, Zenon DEF Numbers
<1>2. PICK a \in Int : a = t.prompt /\ a >= 0
  BY DEF Truths, Counters
<1>3. /\ u.input_tokens = a /\ u.output_tokens = o
      /\ u.cache_creation_input_tokens = n /\ u.cache_read_input_tokens = c
      /\ DOMAIN u = {"input_tokens", "output_tokens", "cache_creation_input_tokens", "cache_read_input_tokens"}
  BY <1>1, <1>2 DEF AnthropicDoc
<1>4. i = a + n + c /\ l <= MaxTokenCount /\ r = 0
  <2>1. t.tool = 0 /\ t.thoughts = 0
    BY DEF Lacks
  <2>2. i = a + c + n + t.tool
    BY <1>1, <1>2, Zenon DEF InputOf
  <2>3. i = a + c + n + 0 /\ r = 0
    BY <2>1, <2>2, <1>1, Zenon
  <2>4. l <= MaxTokenCount
    BY <1>1, Zenon DEF InRange
  <2> QED BY <2>3, <2>4
<1> HIDE DEF u
<1> DEFINE info == AnthropicFill(i, o, l, c, n)
<1>5. Reads(info, i, o, l, c, 0, n)
  BY AnthropicFilled
<1>6. /\ TokenCount(o) = o /\ TokenCount(c) = c /\ TokenCount(n) = n
      /\ Plus(Plus(a, n), c) = i /\ Plus(i, o) = l
  <2>1. /\ a + n \in Int /\ a + n >= 0 /\ a + n <= MaxTokenCount /\ i <= MaxTokenCount
    BY <1>1, <1>2, <1>4, WidthAssumption
  <2>2. Plus(a, n) = a + n
    BY <1>1, <1>2, <2>1, PlusIs
  <2>3. Plus(a + n, c) = i
    BY <1>1, <1>4, <2>1, PlusIs
  <2> QED BY <1>1, <1>4, <2>2, <2>3, PlusIs
<1>7. Anthropic(u) = IF i = 0 /\ o = 0 THEN NoUsage ELSE info
  <2>1. (\A f \in DOMAIN u : u[f] <= 0) <=> i = 0 /\ o = 0
    <3>1. (\A f \in DOMAIN u : u[f] <= 0) <=> a <= 0 /\ o <= 0 /\ n <= 0 /\ c <= 0
      BY <1>3
    <3>2. a <= 0 /\ o <= 0 /\ n <= 0 /\ c <= 0 <=> i = 0 /\ o = 0
      <4>1. o >= 0 /\ n >= 0 /\ c >= 0 /\ a >= 0
        BY <1>1, <1>2
      <4>2. i = a + n + c
        BY <1>4
      <4> QED BY <4>1, <4>2
    <3> QED BY <3>1, <3>2
  <2> QED BY <2>1, <1>3, <1>6, Zenon DEF Anthropic, AnthropicFill
<1> HIDE DEF info
<1>8. Says(info, t) /\ info \in Infos
  BY <1>1, <1>4, <1>5, SaysAll, Zenon
<1>9. i = 0 /\ o = 0 => Says(NoUsage, t) /\ NoUsage \in Infos
  BY <1>1, NothingSaid, Zenon DEF Infos
<1> QED BY <1>7, <1>8, <1>9, Zenon DEF u

\* And on one about the output alone, whose total is that output.
LEMMA AnthropicDeltaReads ==
  ASSUME NEW t \in Truths, InRange(t)
  PROVE  LET o == OutputOf(t)
             next == Anthropic(AnthropicDelta(t))
         IN  IF o = 0 THEN next = NoUsage ELSE Reads(next, 0, o, o, 0, 0, 0)
<1> DEFINE u == AnthropicDelta(t)
<1>1. PICK o \in Int : o = OutputOf(t) /\ o >= 0 /\ o <= MaxTokenCount
  <2>a. PICK i, o, l, c, r, n \in Int : Numbers(t, i, o, l, c, r, n)
    BY NumbersOf
  <2>1. /\ i = InputOf(t) /\ o = OutputOf(t) /\ l = InputOf(t) + OutputOf(t) /\ l = i + o
        /\ c = t.cached /\ r = t.thoughts /\ n = t.creation /\ c + n <= i /\ r <= o /\ c <= i
        /\ i >= 0 /\ o >= 0 /\ l >= 0 /\ c >= 0 /\ r >= 0 /\ n >= 0
    BY <2>a, Zenon DEF Numbers
  <2>2. l <= MaxTokenCount
    BY <2>1, Zenon DEF InRange
  <2>3. o <= MaxTokenCount
    <3>1. l = i + o /\ i >= 0
      BY <2>1
    <3> QED BY <3>1, <2>2, WidthAssumption
  <2> QED BY <2>1, <2>3, Zenon
<1>2. /\ u.input_tokens = 0 /\ u.output_tokens = o
      /\ u.cache_creation_input_tokens = 0 /\ u.cache_read_input_tokens = 0
      /\ DOMAIN u = {"input_tokens", "output_tokens", "cache_creation_input_tokens", "cache_read_input_tokens"}
  BY <1>1 DEF AnthropicDelta, AnthropicDoc, Counters
<1> HIDE DEF u
<1> DEFINE info == AnthropicFill(0, o, o, 0, 0)
<1>3. Reads(info, 0, o, o, 0, 0, 0)
  BY AnthropicFilled
<1>4. TokenCount(o) = o /\ TokenCount(0) = 0 /\ Plus(Plus(0, 0), 0) = 0 /\ Plus(0, o) = o
  BY <1>1, WidthAssumption DEF Plus, TokenCount
<1>5. (\A f \in DOMAIN u : u[f] <= 0) <=> o = 0
  BY <1>1, <1>2
<1>6. Anthropic(u) = IF o = 0 THEN NoUsage ELSE info
  BY <1>2, <1>4, <1>5, Zenon DEF Anthropic, AnthropicFill
<1> HIDE DEF info
<1> QED BY <1>1, <1>3, <1>6, Zenon DEF u

\* The Gemini extractor, with or without the provider's total.
LEMMA GeminiSays ==
  ASSUME NEW t \in Truths, InRange(t), Lacks(t, "creation"), NEW m \in Int, NEW total \in BOOLEAN
  PROVE  LET next == Gemini(GeminiDoc(t, m, total))
         IN  next \in Infos /\ Says(next, t) /\ (InputOf(t) > 0 => next # NoUsage)
<1> DEFINE u == GeminiDoc(t, m, total)
<1>a. PICK i, o, l, c, r, n \in Int : Numbers(t, i, o, l, c, r, n)
  BY NumbersOf
<1>1. /\ i = InputOf(t) /\ o = OutputOf(t) /\ l = InputOf(t) + OutputOf(t) /\ l = i + o
      /\ c = t.cached /\ r = t.thoughts /\ n = t.creation /\ c + n <= i /\ r <= o /\ c <= i
      /\ i >= 0 /\ o >= 0 /\ l >= 0 /\ c >= 0 /\ r >= 0 /\ n >= 0
  BY <1>a, Zenon DEF Numbers
<1>2. PICK a \in Int : a = t.prompt /\ a >= 0
  BY DEF Truths, Counters
<1>3. PICK b \in Int : b = t.tool /\ b >= 0
  BY DEF Truths, Counters
<1>4. PICK d \in Int : d = t.answer /\ d >= 0
  BY DEF Truths, Counters
<1>5. PICK e \in Int : e = (IF total THEN l ELSE 0)
  OBVIOUS
<1>6. /\ u.promptTokenCount = a + c /\ u.toolUsePromptTokenCount = b
      /\ u.cachedContentTokenCount = c /\ u.candidatesTokenCount = d
      /\ u.thoughtsTokenCount = r /\ u.totalTokenCount = e /\ u.images = m
      /\ DOMAIN u = {"promptTokenCount", "toolUsePromptTokenCount", "cachedContentTokenCount",
                     "candidatesTokenCount", "thoughtsTokenCount", "totalTokenCount", "images"}
  <2>1. u = [promptTokenCount |-> a + c, toolUsePromptTokenCount |-> b,
             cachedContentTokenCount |-> c, candidatesTokenCount |-> d, thoughtsTokenCount |-> r,
             totalTokenCount |-> e, images |-> m]
    BY <1>1, <1>2, <1>3, <1>4, <1>5, Zenon DEF GeminiDoc
  <2> HIDE DEF u
  <2> QED BY <2>1
<1>7. i = a + c + b /\ o = d + r /\ l <= MaxTokenCount
  <2>1. t.creation = 0
    BY DEF Lacks
  <2>2. i = a + c + 0 + b
    BY <1>1, <1>2, <1>3, <2>1, Zenon DEF InputOf
  <2>3. o = d + r
    BY <1>1, <1>4, Zenon DEF OutputOf
  <2>4. l <= MaxTokenCount
    BY <1>1, Zenon DEF InRange
  <2> QED BY <2>2, <2>3, <2>4
<1> HIDE DEF u
<1> DEFINE info == GeminiFill(i, o, l, c, r, m)
<1>8. Reads(info, i, o, l, c, r, 0)
  BY GeminiFilled
<1>9. /\ TokenCount(c) = c /\ TokenCount(r) = r /\ TokenCount(e) = e
      /\ Plus(a + c, b) = i /\ Plus(d, r) = o /\ Plus(i, o) = l
  <2>1. e >= 0
    BY <1>1, <1>5
  <2>2. /\ a + c \in Int /\ a + c >= 0 /\ i <= MaxTokenCount /\ o <= MaxTokenCount
    BY <1>1, <1>2, <1>7, WidthAssumption
  <2>3. Plus(a + c, b) = i
    BY <1>3, <1>7, <2>2, PlusIs
  <2>4. Plus(d, r) = o
    BY <1>1, <1>4, <1>7, <2>2, PlusIs
  <2>5. Plus(i, o) = l
    BY <1>1, <1>7, PlusIs
  <2>6. TokenCount(c) = c /\ TokenCount(r) = r /\ TokenCount(e) = e
    BY <1>1, <2>1, PlusIs
  <2> QED BY <2>3, <2>4, <2>5, <2>6
<1>10. /\ (IF i = 0 THEN c ELSE i) = i
       /\ (IF o = 0 /\ e > i THEN e - i ELSE o) = o
       /\ (IF e = 0 THEN l ELSE e) = l
  BY <1>1, <1>5
<1>11. (\A f \in DOMAIN u : u[f] <= 0) => i = 0 /\ o = 0
  <2>1. (\A f \in DOMAIN u : u[f] <= 0) => a + c <= 0 /\ b <= 0 /\ d <= 0 /\ r <= 0
    BY <1>6
  <2>2. a + c <= 0 /\ b <= 0 /\ d <= 0 /\ r <= 0 => i = 0 /\ o = 0
    BY <1>1, <1>2, <1>3, <1>4, <1>7
  <2> QED BY <2>1, <2>2
<1>12. Gemini(u) = IF \A f \in DOMAIN u : u[f] <= 0 THEN NoUsage ELSE info
  BY <1>6, <1>9, <1>10, Zenon DEF Gemini, GeminiFill
<1> HIDE DEF info
<1>13. Says(info, t) /\ info \in Infos /\ info # NoUsage
  <2>1. t.creation = 0
    BY DEF Lacks
  <2> QED BY <1>1, <1>8, <2>1, SaysAll, Zenon
<1>14. i = 0 /\ o = 0 => Says(NoUsage, t) /\ NoUsage \in Infos
  BY <1>1, NothingSaid, Zenon DEF Infos
<1>15. i > 0 => ~(i = 0)
  OBVIOUS
<1>16. Gemini(u) \in Infos /\ Says(Gemini(u), t)
  BY <1>11, <1>12, <1>13, <1>14, Zenon
<1>17. InputOf(t) > 0 => Gemini(u) # NoUsage
  BY <1>1, <1>11, <1>12, <1>13, <1>15, Zenon
<1> QED BY <1>16, <1>17, Zenon DEF u

\* The split of an image request's input by channel: x is text and y image
\* input, z the part of the cached input that is text.
Splits(info, x, y, z) ==
  /\ info.inputText = x /\ info.inputImage = y
  /\ info.cachedText = z /\ info.cachedImage = 0

\* What the extractor of images writes into an empty UsageInfo.
ImagesFill(i, o, l, x, y, c, z, m) ==
  [Zero EXCEPT !.input = i, !.output = o, !.total = l, !.inputText = x, !.inputImage = y,
               !.cached = c, !.cachedText = z, !.cachedImage = 0, !.images = m]

\* It has these numbers of tokens and of images.
LEMMA ImagesFilled ==
  ASSUME NEW i \in Int, NEW o \in Int, NEW l \in Int, NEW x \in Int, NEW y \in Int,
         NEW c \in Int, NEW z \in Int, NEW m \in Int
  PROVE  /\ Reads(ImagesFill(i, o, l, x, y, c, z, m), i, o, l, c, 0, 0)
         /\ Splits(ImagesFill(i, o, l, x, y, c, z, m), x, y, z)
<1> DEFINE info == ImagesFill(i, o, l, x, y, c, z, m)
<1>1. info \in [Fields -> Int]
  BY ZeroIs DEF Fields, TokenFields, ImagesFill
<1>2. /\ info.input = i /\ info.output = o /\ info.total = l
      /\ info.cached = c /\ info.reasoning = 0 /\ info.creation = 0
  BY DEF Zero, ImagesFill
<1>3. /\ info.inputText = x /\ info.inputImage = y
      /\ info.cachedText = z /\ info.cachedImage = 0
  BY DEF Zero, ImagesFill
<1> QED BY <1>1, <1>2, <1>3 DEF Reads, Splits

\* The number of images or of partial images is not one of tokens.
LEMMA CountedApart ==
  ASSUME NEW info \in [Fields -> Int], NEW f \in {"images", "partials"}, NEW k \in Int
  PROVE  /\ [info EXCEPT ![f] = k] \in [Fields -> Int]
         /\ \A g \in Fields \ {f} : [info EXCEPT ![f] = k][g] = info[g]
BY DEF Fields

WithImages(info, k)   == [info EXCEPT !.images = k]
WithPartials(info, k) == [info EXCEPT !.partials = k]

\* So that it can be set without changing what is said of them.
LEMMA ReadsApart ==
  ASSUME NEW info, NEW i, NEW o, NEW l, NEW c, NEW r, NEW n, NEW x, NEW y, NEW z, NEW k \in Int,
         Reads(info, i, o, l, c, r, n)
  PROVE  /\ Reads(WithImages(info, k), i, o, l, c, r, n)
         /\ Reads(WithPartials(info, k), i, o, l, c, r, n)
         /\ Splits(info, x, y, z) => Splits(WithImages(info, k), x, y, z)
<1>1. info \in [Fields -> Int]
  BY DEF Reads
<1>2. /\ [info EXCEPT !.images = k] \in [Fields -> Int]
      /\ \A g \in Fields \ {"images"} : [info EXCEPT !.images = k][g] = info[g]
  BY <1>1, CountedApart
<1>3. /\ [info EXCEPT !.partials = k] \in [Fields -> Int]
      /\ \A g \in Fields \ {"partials"} : [info EXCEPT !.partials = k][g] = info[g]
  BY <1>1, CountedApart
<1>4. /\ TokenFields \subseteq Fields \ {"images", "partials"}
      /\ {"inputText", "inputImage", "cachedText", "cachedImage"} \subseteq Fields \ {"images", "partials"}
  BY DEF Fields, TokenFields
<1> DEFINE v == WithImages(info, k)
           w == WithPartials(info, k)
<1> HIDE DEF v, w
<1>5. Reads(v, i, o, l, c, r, n)
  BY <1>2, <1>4 DEF Reads, TokenFields, v, WithImages
<1>6. Reads(w, i, o, l, c, r, n)
  BY <1>3, <1>4 DEF Reads, TokenFields, w, WithPartials
<1>7. Splits(info, x, y, z) => Splits(v, x, y, z)
  BY <1>2, <1>4 DEF Splits, v, WithImages
<1> QED BY <1>5, <1>6, <1>7 DEF v, w

\* The extractor of image requests: the split, where it is given, is one of
\* the input, and says which part of it was cached.
LEMMA ImagesSays ==
  ASSUME NEW t \in Truths, Lacks(t, "creation"), Lacks(t, "thoughts"),
         NEW split \in BOOLEAN, NEW m \in Int
  PROVE  LET next == Images(ImagesDoc(t, split, m))
         IN  /\ next \in Infos /\ Says(next, t)
             /\ InputOf(t) > 0 => next # NoUsage
             /\ next # NoUsage => \E x, y, z \in Int :
                  /\ Splits(next, x, y, z)
                  /\ (x = 0 /\ y = 0) \/ x + y = InputOf(t)
                  /\ z = 0 \/ z = t.cached
<1> DEFINE u == ImagesDoc(t, split, m)
<1>a. PICK i, o, l, c, r, n \in Int : Numbers(t, i, o, l, c, r, n)
  BY NumbersOf
<1>1. /\ i = InputOf(t) /\ o = OutputOf(t) /\ l = InputOf(t) + OutputOf(t) /\ l = i + o
      /\ c = t.cached /\ r = t.thoughts /\ n = t.creation /\ c + n <= i /\ r <= o /\ c <= i
      /\ i >= 0 /\ o >= 0 /\ l >= 0 /\ c >= 0 /\ r >= 0 /\ n >= 0
  BY <1>a, Zenon DEF Numbers
<1>2. PICK a \in Int : a = t.prompt /\ a >= 0
  BY DEF Truths, Counters
<1>3. PICK b \in Int : b = t.tool /\ b >= 0
  BY DEF Truths, Counters
<1>4. PICK x \in Int : x = (IF split THEN a + c ELSE 0)
  OBVIOUS
<1>5. PICK y \in Int : y = (IF split THEN b ELSE 0)
  OBVIOUS
<1>6. PICK z \in Int : z = (IF split THEN c ELSE 0)
  OBVIOUS
<1>7. i = a + c + b
  <2>1. t.creation = 0
    BY DEF Lacks
  <2>2. i = a + c + 0 + b
    BY <1>1, <1>2, <1>3, <2>1, Zenon DEF InputOf
  <2> QED BY <2>2
<1>8. /\ u.input_tokens = i /\ u.output_tokens = o /\ u.total_tokens = l
      /\ u.text_tokens = x /\ u.image_tokens = y /\ u.cached_tokens = c
      /\ u.cached_text_tokens = z /\ u.cached_image_tokens = 0 /\ u.images = m
  <2>1. u = [input_tokens |-> i, output_tokens |-> o, total_tokens |-> l, text_tokens |-> x,
             image_tokens |-> y, cached_tokens |-> c, cached_text_tokens |-> z,
             cached_image_tokens |-> 0, images |-> m]
    BY <1>1, <1>2, <1>3, <1>4, <1>5, <1>6, Zenon DEF ImagesDoc
  <2> HIDE DEF u
  <2> QED BY <2>1
<1> HIDE DEF u
<1>9. x >= 0 /\ y >= 0 /\ z >= 0 /\ ((x = 0 /\ y = 0) \/ x + y = i) /\ (z = 0 \/ z = c)
  <2>1. a >= 0 /\ b >= 0 /\ c >= 0 /\ i = a + c + b
    BY <1>1, <1>2, <1>3, <1>7
  <2> QED BY <2>1, <1>4, <1>5, <1>6
<1>10. /\ TokenCount(i) = i /\ TokenCount(o) = o /\ TokenCount(l) = l /\ TokenCount(c) = c
       /\ TokenCount(x) = x /\ TokenCount(y) = y /\ TokenCount(z) = z /\ TokenCount(0) = 0
  BY <1>1, <1>9, PlusIs
<1> DEFINE info == ImagesFill(i, o, l, x, y, c, z, m)
           one  == WithImages(info, 1)
<1>11. Reads(info, i, o, l, c, 0, 0) /\ Splits(info, x, y, z)
  BY ImagesFilled
<1>12. Images(u) = IF info.images # 0 THEN info ELSE IF HasTokens(info) THEN one ELSE NoUsage
  BY <1>8, <1>10, Zenon DEF Images, ImagesFill, WithImages
<1> HIDE DEF info
<1>13. Reads(one, i, o, l, c, 0, 0) /\ Splits(one, x, y, z)
  BY <1>11, ReadsApart
<1>14. HasTokens(info) <=> i # 0 \/ o # 0 \/ l # 0
  BY <1>11 DEF HasTokens, Reads
<1> HIDE DEF one
<1>15. ~HasTokens(info) <=> i = 0 /\ o = 0
  BY <1>1, <1>14
<1>16. \A v : Reads(v, i, o, l, c, 0, 0) => Says(v, t) /\ v \in Infos /\ v # NoUsage
  <2>1. t.creation = 0 /\ t.thoughts = 0
    BY DEF Lacks
  <2> QED BY <1>1, <2>1, SaysAll, Zenon
<1>17. i = 0 /\ o = 0 => Says(NoUsage, t) /\ NoUsage \in Infos
  BY <1>1, NothingSaid, Zenon DEF Infos
<1>18. i > 0 => ~(i = 0)
  OBVIOUS
<1>19. Images(u) \in Infos /\ Says(Images(u), t)
  BY <1>11, <1>12, <1>13, <1>15, <1>16, <1>17, Zenon
<1>20. InputOf(t) > 0 => Images(u) # NoUsage
  BY <1>1, <1>11, <1>12, <1>13, <1>15, <1>16, <1>18, Zenon
<1>21. Images(u) # NoUsage => Splits(Images(u), x, y, z)
  BY <1>11, <1>12, <1>13, Zenon
<1>22. ((x = 0 /\ y = 0) \/ x + y = InputOf(t)) /\ (z = 0 \/ z = t.cached)
  BY <1>1, <1>9, Zenon
<1> QED BY <1>19, <1>20, <1>21, <1>22, Zenon DEF u

-----------------------------------------------------------------------------
(* mergeUsageInfo *)

Later(a, b) == IF b # 0 THEN b ELSE a

\* The total of two documents, by the six numbers of the later one.
LaterTotal(i1, o1, l1, i2, o2, l2, c2, r2) ==
  LET sum == Wrap(Later(i1, i2) + Later(o1, o2))
  IN  IF l2 # 0 THEN IF i2 = 0 /\ o2 # 0 /\ i1 # 0 /\ l2 = o2 THEN sum ELSE l2
      ELSE IF i2 # 0 \/ o2 # 0 \/ r2 # 0 \/ c2 # 0 THEN sum ELSE l1

\* Every UsageInfo reads some numbers.
LEMMA ReadsSome ==
  ASSUME NEW info \in Infos, info # NoUsage
  PROVE  \E i, o, l, c, r, n \in Int : Reads(info, i, o, l, c, r, n)
<1>1. info \in [Fields -> Int]
  BY DEF Infos
<1>2. /\ info.input \in Int /\ info.output \in Int /\ info.total \in Int
      /\ info.cached \in Int /\ info.reasoning \in Int /\ info.creation \in Int
  BY <1>1 DEF Fields, TokenFields
<1>3. Reads(info, info.input, info.output, info.total, info.cached, info.reasoning, info.creation)
  BY <1>1 DEF Reads
<1> QED BY <1>2, <1>3, Zenon

\* A document without usage changes nothing, and the first with usage is taken
\* as it is.
LEMMA MergeNil ==
  ASSUME NEW info
  PROVE  Merge(info, NoUsage) = info /\ Merge(NoUsage, info) = info
BY DEF Merge

\* Every field is merged for itself, but for the total.
LEMMA MergeReads ==
  ASSUME NEW current, NEW next,
         NEW i1 \in Int, NEW o1 \in Int, NEW l1 \in Int, NEW c1 \in Int, NEW r1 \in Int, NEW n1 \in Int,
         NEW i2 \in Int, NEW o2 \in Int, NEW l2 \in Int, NEW c2 \in Int, NEW r2 \in Int, NEW n2 \in Int,
         Reads(current, i1, o1, l1, c1, r1, n1), Reads(next, i2, o2, l2, c2, r2, n2)
  PROVE  /\ Reads(Merge(current, next), Later(i1, i2), Later(o1, o2),
                  LaterTotal(i1, o1, l1, i2, o2, l2, c2, r2), Later(c1, c2), Later(r1, r2), Later(n1, n2))
         /\ \A x1, y1, z1, x2, y2, z2 :
              Splits(current, x1, y1, z1) /\ Splits(next, x2, y2, z2)
                => Splits(Merge(current, next), Later(x1, x2), Later(y1, y2), Later(z1, z2))
<1> DEFINE merged == [f \in DOMAIN Zero |-> IF next[f] # 0 THEN next[f] ELSE current[f]]
           sum   == Wrap(merged.input + merged.output)
           total == IF next.total # 0
                      THEN IF next.input = 0 /\ next.output # 0 /\ current.input # 0 /\ next.total = next.output
                             THEN sum ELSE next.total
                    ELSE IF \E f \in {"input", "output", "reasoning", "cached"} : next[f] # 0
                      THEN sum ELSE current.total
           count == current.partials + next.partials
           result == [merged EXCEPT !.partials = count, !.total = total]
<1>1. /\ current \in [Fields -> Int] /\ next \in [Fields -> Int]
      /\ current # NoUsage /\ next # NoUsage
  BY NotNil DEF Reads
<1>2. Merge(current, next) = result
  BY <1>1, Zenon DEF Merge
<1>3. /\ current.input = i1 /\ current.output = o1 /\ current.total = l1
      /\ current.cached = c1 /\ current.reasoning = r1 /\ current.creation = n1
      /\ next.input = i2 /\ next.output = o2 /\ next.total = l2
      /\ next.cached = c2 /\ next.reasoning = r2 /\ next.creation = n2
  BY DEF Reads
<1>4. /\ merged \in [Fields -> Int]
      /\ \A f \in Fields : merged[f] = Later(current[f], next[f])
  BY <1>1, ZeroIs DEF Later
<1>5. merged.input = Later(i1, i2) /\ merged.output = Later(o1, o2)
  BY <1>3, <1>4 DEF Fields, TokenFields
<1> HIDE DEF merged
<1>6. sum = Wrap(Later(i1, i2) + Later(o1, o2))
  BY <1>5
<1> HIDE DEF sum
<1>7. total = LaterTotal(i1, o1, l1, i2, o2, l2, c2, r2)
  BY <1>3, <1>6 DEF LaterTotal
<1>8. total \in Int /\ count \in Int
  <2>1. \A a, b \in Int : Later(a, b) \in Int
    BY DEF Later
  <2>2. sum \in Int
    <3>1. \A a \in Int : Wrap(a) \in Int
      BY WidthAssumption DEF Wrap
    <3>2. Later(i1, i2) + Later(o1, o2) \in Int
      <4>1. Later(i1, i2) \in Int /\ Later(o1, o2) \in Int
        BY <2>1
      <4> QED BY <4>1
    <3> QED BY <1>6, <3>1, <3>2, Zenon
  <2>3. LaterTotal(i1, o1, l1, i2, o2, l2, c2, r2) \in Int
    BY <1>6, <2>2 DEF LaterTotal
  <2>4. current.partials \in Int /\ next.partials \in Int
    BY <1>1 DEF Fields
  <2> QED BY <1>7, <2>3, <2>4
<1> HIDE DEF total, count
<1>9. /\ result \in [Fields -> Int] /\ result.total = total
      /\ \A f \in Fields \ {"partials", "total"} : result[f] = Later(current[f], next[f])
  BY <1>4, <1>8 DEF Fields, TokenFields
<1> HIDE DEF result
<1>10. {"input", "output", "cached", "reasoning", "creation", "inputText", "inputImage", "cachedText",
        "cachedImage"} \subseteq Fields \ {"partials", "total"}
  BY DEF Fields, TokenFields
<1>11. /\ result.input = Later(i1, i2) /\ result.output = Later(o1, o2) /\ result.cached = Later(c1, c2)
       /\ result.reasoning = Later(r1, r2) /\ result.creation = Later(n1, n2)
  BY <1>3, <1>9, <1>10
<1>12. ASSUME NEW x1, NEW y1, NEW z1, NEW x2, NEW y2, NEW z2,
              Splits(current, x1, y1, z1), Splits(next, x2, y2, z2)
       PROVE  Splits(result, Later(x1, x2), Later(y1, y2), Later(z1, z2))
  <2>1. Later(0, 0) = 0
    BY DEF Later
  <2> QED BY <1>9, <1>10, <1>12, <2>1 DEF Splits
<1>13. Reads(result, Later(i1, i2), Later(o1, o2), LaterTotal(i1, o1, l1, i2, o2, l2, c2, r2),
             Later(c1, c2), Later(r1, r2), Later(n1, n2))
  BY <1>7, <1>9, <1>11 DEF Reads
<1> QED BY <1>2, <1>12, <1>13, Zenon

\* What a UsageInfo says is what it reads.
LEMMA SaysReads ==
  ASSUME NEW info \in Infos, NEW t \in Truths, Says(info, t),
         NEW i, NEW o, NEW l, NEW c, NEW r, NEW n, Numbers(t, i, o, l, c, r, n)
  PROVE  IF info = NoUsage THEN i = 0 /\ o = 0 /\ l = 0 /\ c = 0 /\ r = 0 /\ n = 0
                           ELSE Reads(info, i, o, l, c, r, n)
<1>0. /\ i = InputOf(t) /\ o = OutputOf(t) /\ l = InputOf(t) + OutputOf(t)
      /\ c = t.cached /\ r = t.thoughts /\ n = t.creation
  BY DEF Numbers
<1>1. \A f \in TokenFields : Value(info, f) = Told(t)[f]
  BY DEF Says
<1>2. CASE info = NoUsage
  <2>1. \A f \in TokenFields : Told(t)[f] = 0
    BY <1>1, <1>2 DEF Value
  <2> QED BY <1>0, <1>2, <2>1 DEF Told, TokenFields
<1>3. CASE info # NoUsage
  <2>1. info \in [Fields -> Int] /\ \A f \in TokenFields : info[f] = Told(t)[f]
    BY <1>1, <1>3 DEF Value, Infos
  <2> QED BY <1>0, <1>3, <2>1 DEF Told, TokenFields, Reads
<1> QED BY <1>2, <1>3

\* t has counted at least what s had.
Grew(s, t) == \A c \in Counters : s[c] <= t[c]

\* And so tells at least as much.
LEMMA ToldGrows ==
  ASSUME NEW s \in Truths, NEW t \in Truths, Grew(s, t)
  PROVE  /\ InputOf(s) <= InputOf(t) /\ OutputOf(s) <= OutputOf(t)
         /\ s.cached <= t.cached /\ s.thoughts <= t.thoughts /\ s.creation <= t.creation
<1>1. /\ s.prompt \in Nat /\ s.cached \in Nat /\ s.creation \in Nat /\ s.tool \in Nat
      /\ s.answer \in Nat /\ s.thoughts \in Nat
      /\ t.prompt \in Nat /\ t.cached \in Nat /\ t.creation \in Nat /\ t.tool \in Nat
      /\ t.answer \in Nat /\ t.thoughts \in Nat
  BY DEF Truths, Counters
<1>2. /\ s.prompt <= t.prompt /\ s.cached <= t.cached /\ s.creation <= t.creation /\ s.tool <= t.tool
      /\ s.answer <= t.answer /\ s.thoughts <= t.thoughts
  BY DEF Grew, Counters
<1>3. \A a1, b1, c1, d1, a2, b2, c2, d2 \in Nat :
        a1 <= a2 /\ b1 <= b2 /\ c1 <= c2 /\ d1 <= d2 => a1 + b1 + c1 + d1 <= a2 + b2 + c2 + d2
  OBVIOUS
<1>4. \A a1, b1, a2, b2 \in Nat : a1 <= a2 /\ b1 <= b2 => a1 + b1 <= a2 + b2
  OBVIOUS
<1>5. InputOf(s) <= InputOf(t)
  <2>1. s.prompt + s.cached + s.creation + s.tool <= t.prompt + t.cached + t.creation + t.tool
    BY <1>1, <1>2, <1>3
  <2> QED BY <2>1, Zenon DEF InputOf
<1>6. OutputOf(s) <= OutputOf(t)
  BY <1>1, <1>2, <1>4, Zenon DEF OutputOf
<1> QED BY <1>2, <1>5, <1>6

\* A later document about all replaces what was said before: the counters only
\* grow, so that a field that it leaves at 0 was 0 before.
LEMMA MergeSays ==
  ASSUME NEW s \in Truths, NEW t \in Truths, Grew(s, t),
         NEW current \in Infos, NEW next \in Infos, Says(current, s), Says(next, t)
  PROVE  Merge(current, next) \in Infos /\ Says(Merge(current, next), t)
<1>a. PICK i1, o1, l1, c1, r1, n1 \in Int : Numbers(s, i1, o1, l1, c1, r1, n1)
  BY NumbersOf
<1>1. /\ i1 = InputOf(s) /\ o1 = OutputOf(s) /\ l1 = InputOf(s) + OutputOf(s) /\ l1 = i1 + o1
      /\ c1 = s.cached /\ r1 = s.thoughts /\ n1 = s.creation /\ c1 + n1 <= i1 /\ r1 <= o1 /\ c1 <= i1
      /\ i1 >= 0 /\ o1 >= 0 /\ l1 >= 0 /\ c1 >= 0 /\ r1 >= 0 /\ n1 >= 0
  BY <1>a, Zenon DEF Numbers
<1>b. PICK i2, o2, l2, c2, r2, n2 \in Int : Numbers(t, i2, o2, l2, c2, r2, n2)
  BY NumbersOf
<1>2. /\ i2 = InputOf(t) /\ o2 = OutputOf(t) /\ l2 = InputOf(t) + OutputOf(t) /\ l2 = i2 + o2
      /\ c2 = t.cached /\ r2 = t.thoughts /\ n2 = t.creation /\ c2 + n2 <= i2 /\ r2 <= o2 /\ c2 <= i2
      /\ i2 >= 0 /\ o2 >= 0 /\ l2 >= 0 /\ c2 >= 0 /\ r2 >= 0 /\ n2 >= 0
  BY <1>b, Zenon DEF Numbers
<1>3. i1 <= i2 /\ o1 <= o2 /\ c1 <= c2 /\ r1 <= r2 /\ n1 <= n2
  BY <1>1, <1>2, ToldGrows, Zenon
<1>4. IF current = NoUsage THEN i1 = 0 /\ o1 = 0 /\ l1 = 0 /\ c1 = 0 /\ r1 = 0 /\ n1 = 0
                           ELSE Reads(current, i1, o1, l1, c1, r1, n1)
  BY <1>a, SaysReads, Zenon
<1>5. IF next = NoUsage THEN i2 = 0 /\ o2 = 0 /\ l2 = 0 /\ c2 = 0 /\ r2 = 0 /\ n2 = 0
                        ELSE Reads(next, i2, o2, l2, c2, r2, n2)
  BY <1>b, SaysReads, Zenon
<1>6. CASE current = NoUsage
  BY <1>6, MergeNil, Zenon
<1>7. CASE next = NoUsage
  <2>1. i2 = 0 /\ o2 = 0 /\ l2 = 0 /\ c2 = 0 /\ r2 = 0 /\ n2 = 0
    BY <1>5, <1>7
  <2>2. i1 = i2 /\ o1 = o2 /\ l1 = l2 /\ c1 = c2 /\ r1 = r2 /\ n1 = n2
    <3>1. i1 >= 0 /\ o1 >= 0 /\ c1 >= 0 /\ r1 >= 0 /\ n1 >= 0 /\ l1 = i1 + o1
      BY <1>1
    <3> QED BY <3>1, <1>3, <2>1
  <2>3. CASE current = NoUsage
    BY <2>3, <1>6
  <2>4. CASE current # NoUsage
    <3>1. Reads(current, i2, o2, l2, c2, r2, n2)
      BY <2>4, <1>4, <2>2
    <3>2. Merge(current, next) = current
      BY <1>7, MergeNil
    <3> QED BY <3>1, <3>2, <1>b, ReadAsTold, Zenon
  <2> QED BY <2>3, <2>4
<1>8. CASE current # NoUsage /\ next # NoUsage
  <2>1. /\ Later(i1, i2) = i2 /\ Later(o1, o2) = o2 /\ Later(c1, c2) = c2
        /\ Later(r1, r2) = r2 /\ Later(n1, n2) = n2
    <3>1. i1 >= 0 /\ o1 >= 0 /\ c1 >= 0 /\ r1 >= 0 /\ n1 >= 0
      BY <1>1
    <3> QED BY <3>1, <1>3 DEF Later
  <2>2. LaterTotal(i1, o1, l1, i2, o2, l2, c2, r2) = l2
    <3>1. i1 >= 0 /\ o1 >= 0 /\ l1 = i1 + o1
      BY <1>1
    <3>2. l2 = i2 + o2 /\ r2 <= o2 /\ c2 <= i2 /\ i2 >= 0 /\ o2 >= 0 /\ r2 >= 0 /\ c2 >= 0
      BY <1>2
    <3>3. CASE l2 = 0
      <4>1. i2 = 0 /\ o2 = 0 /\ r2 = 0 /\ c2 = 0 /\ l1 = 0
        BY <3>1, <3>2, <3>3, <1>3
      <4> QED BY <3>3, <4>1 DEF LaterTotal
    <3>4. CASE l2 # 0
      <4>1. ~(i2 = 0 /\ i1 # 0)
        BY <3>1, <1>3
      <4> QED BY <3>4, <4>1 DEF LaterTotal
    <3> QED BY <3>3, <3>4
  <2>3. Reads(Merge(current, next), i2, o2, l2, c2, r2, n2)
    <3>1. Reads(current, i1, o1, l1, c1, r1, n1) /\ Reads(next, i2, o2, l2, c2, r2, n2)
      BY <1>4, <1>5, <1>8
    <3>2. Reads(Merge(current, next), Later(i1, i2), Later(o1, o2),
                  LaterTotal(i1, o1, l1, i2, o2, l2, c2, r2), Later(c1, c2), Later(r1, r2), Later(n1, n2))
      BY <3>1, MergeReads, Zenon
    <3> QED BY <3>2, <2>1, <2>2, Zenon
  <2> QED BY <2>3, <1>2, SaysAll, Zenon
<1> QED BY <1>6, <1>7, <1>8

SameInput(s, t) == InputOf(s) = InputOf(t) /\ s.cached = t.cached /\ s.creation = t.creation

\* A document about the output alone leaves the rest, and its total is not
\* the one of the response.
LEMMA MergeDelta ==
  ASSUME NEW s \in Truths, NEW t \in Truths, Grew(s, t), InRange(t),
         SameInput(s, t),
         Lacks(s, "thoughts"), Lacks(t, "thoughts"),
         NEW current \in Infos, Says(current, s)
  PROVE  LET merged == Merge(current, Anthropic(AnthropicDelta(t)))
         IN  merged \in Infos /\ Says(merged, t)
<1> DEFINE next == Anthropic(AnthropicDelta(t))
<1>a. PICK i1, o1, l1, c1, r1, n1 \in Int : Numbers(s, i1, o1, l1, c1, r1, n1)
  BY NumbersOf
<1>1. /\ i1 = InputOf(s) /\ o1 = OutputOf(s) /\ l1 = InputOf(s) + OutputOf(s) /\ l1 = i1 + o1
      /\ c1 = s.cached /\ r1 = s.thoughts /\ n1 = s.creation /\ c1 + n1 <= i1 /\ r1 <= o1 /\ c1 <= i1
      /\ i1 >= 0 /\ o1 >= 0 /\ l1 >= 0 /\ c1 >= 0 /\ r1 >= 0 /\ n1 >= 0
  BY <1>a, Zenon DEF Numbers
<1>b. PICK i2, o2, l2, c2, r2, n2 \in Int : Numbers(t, i2, o2, l2, c2, r2, n2)
  BY NumbersOf
<1>2. /\ i2 = InputOf(t) /\ o2 = OutputOf(t) /\ l2 = InputOf(t) + OutputOf(t) /\ l2 = i2 + o2
      /\ c2 = t.cached /\ r2 = t.thoughts /\ n2 = t.creation /\ c2 + n2 <= i2 /\ r2 <= o2 /\ c2 <= i2
      /\ i2 >= 0 /\ o2 >= 0 /\ l2 >= 0 /\ c2 >= 0 /\ r2 >= 0 /\ n2 >= 0
  BY <1>b, Zenon DEF Numbers
<1>3. i1 = i2 /\ o1 <= o2 /\ c1 = c2 /\ n1 = n2 /\ r1 = 0 /\ r2 = 0 /\ l2 <= MaxTokenCount
  <2>1. s.thoughts = 0 /\ t.thoughts = 0
    BY DEF Lacks
  <2>2. o1 <= o2
    BY <1>1, <1>2, ToldGrows, Zenon
  <2>3. l2 <= MaxTokenCount
    BY <1>2, Zenon DEF InRange
  <2> QED BY <1>1, <1>2, <2>1, <2>2, <2>3, Zenon DEF SameInput
<1>4. IF current = NoUsage THEN i1 = 0 /\ o1 = 0 /\ l1 = 0 /\ c1 = 0 /\ r1 = 0 /\ n1 = 0
                           ELSE Reads(current, i1, o1, l1, c1, r1, n1)
  BY <1>a, SaysReads, Zenon
<1>5. IF o2 = 0 THEN next = NoUsage ELSE Reads(next, 0, o2, o2, 0, 0, 0)
  BY <1>2, AnthropicDeltaReads, Zenon
<1> HIDE DEF next
<1>6. CASE current = NoUsage
  <2>1. i2 = 0 /\ c2 = 0 /\ n2 = 0 /\ l2 = o2
    <3>1. i2 = 0 /\ c2 = 0 /\ n2 = 0
      BY <1>3, <1>4, <1>6
    <3>2. l2 = i2 + o2
      BY <1>2
    <3> QED BY <3>1, <3>2
  <2>2. CASE o2 = 0
    BY <2>1, <2>2, <1>2, <1>5, <1>6, MergeNil, NothingSaid, Zenon DEF Infos, next
  <2>3. CASE o2 # 0
    <3>1. Reads(next, i2, o2, l2, c2, r2, n2)
      BY <2>1, <2>3, <1>3, <1>5, Zenon
    <3>2. Merge(current, next) = next
      BY <1>6, MergeNil, Zenon
    <3> QED BY <3>1, <3>2, <1>b, ReadAsTold, Zenon DEF next
  <2> QED BY <2>2, <2>3
<1>7. CASE current # NoUsage /\ o2 = 0
  <2>1. o1 = o2 /\ l1 = l2 /\ r1 = r2
    <3>1. o1 >= 0 /\ l1 = i1 + o1
      BY <1>1
    <3>2. l2 = i2 + o2
      BY <1>2
    <3> QED BY <3>1, <3>2, <1>3, <1>7
  <2>2. Reads(current, i2, o2, l2, c2, r2, n2)
    BY <1>3, <1>4, <1>7, <2>1, Zenon
  <2>3. Merge(current, next) = current
    BY <1>5, <1>7, MergeNil
  <2>4. current \in Infos /\ Says(current, t)
    BY <2>2, <1>2, SaysAll, Zenon
  <2> QED BY <2>3, <2>4, Zenon DEF next
<1>8. CASE current # NoUsage /\ o2 # 0
  <2>1. /\ Later(i1, 0) = i2 /\ Later(o1, o2) = o2 /\ Later(c1, 0) = c2
        /\ Later(r1, 0) = r2 /\ Later(n1, 0) = n2
    BY <1>3, <1>8 DEF Later
  <2>2. LaterTotal(i1, o1, l1, 0, o2, o2, 0, 0) = l2
    <3>1. Wrap(Later(i1, 0) + Later(o1, o2)) = l2
      <4>1. l2 = i2 + o2
        BY <1>2
      <4>2. Later(i1, 0) + Later(o1, o2) = l2
        BY <2>1, <4>1
      <4>3. ~(l2 > MaxTokenCount)
        BY <1>3, WidthAssumption
      <4> QED BY <4>2, <4>3, Zenon DEF Wrap
    <3>2. i1 = 0 => o2 = l2
      <4>1. l2 = i2 + o2
        BY <1>2
      <4> QED BY <4>1, <1>3
    <3> QED BY <3>1, <3>2, <1>8 DEF LaterTotal
  <2>3. Reads(Merge(current, next), i2, o2, l2, c2, r2, n2)
    <3>1. Reads(current, i1, o1, l1, c1, r1, n1) /\ Reads(next, 0, o2, o2, 0, 0, 0) /\ 0 \in Int
      BY <1>4, <1>5, <1>8
    <3>2. Reads(Merge(current, next), Later(i1, 0), Later(o1, o2),
                  LaterTotal(i1, o1, l1, 0, o2, o2, 0, 0), Later(c1, 0), Later(r1, 0), Later(n1, 0))
      BY <3>1, MergeReads, Zenon
    <3> QED BY <3>2, <2>1, <2>2, Zenon
  <2> QED BY <2>3, <1>2, SaysAll, Zenon DEF next
<1> QED BY <1>6, <1>7, <1>8

-----------------------------------------------------------------------------
(* The stream *)

\* The documents that tell of everything that was counted.
Whole(t) ==
  CASE provider = "chat"      -> {OpenAI(t)}
    [] provider = "responses" -> {ResponsesDoc(t)}
    [] provider = "anthropic" -> {AnthropicDoc(t)}
    [] provider = "gemini"    -> {GeminiDoc(t, m, total) : m \in Int, total \in BOOLEAN}
    [] provider = "images"    -> {ImagesDoc(t, split, 0) : split \in BOOLEAN}

NoCounts == [c \in Counters |-> 0]

\* Nothing that the provider does not have was counted.
Possible(t) == t \in Truths /\ \A c \in Counters \ Counted(provider) : t[c] = 0

\* The documents that may follow are such ones, a partial image or, after the
\* first of Anthropic's, one about the output.
LEMMA Documents ==
  ASSUME provider \in Providers, NEW t \in Truths, truth \in Truths
  PROVE  /\ provider \in {"chat", "gemini"} => Progress(t) \subseteq Whole(t)
         /\ provider = "anthropic" =>
              /\ Progress(t) \subseteq Whole(t) \cup {AnthropicDelta(t)}
              /\ events = <<>> => Progress(t) \subseteq Whole(t)
         /\ provider \in {"responses", "images"} =>
              Progress(t) = {PartialImage} /\ Final(t) = Whole(t)
         /\ provider \notin {"responses", "images"} => Final(t) = Progress(t)
<1>1. t.images - truth.images \in Int
  <2>1. t.images \in Nat /\ truth.images \in Nat
    BY DEF Truths, Counters
  <2>2. \A a, b \in Nat : a - b \in Int
    OBVIOUS
  <2> QED BY <2>1, <2>2, Zenon
<1>2. CASE provider = "chat"
  BY <1>2 DEF Progress, Whole, Final
<1>3. CASE provider = "responses"
  BY <1>3 DEF Progress, Whole, Final
<1>4. CASE provider = "anthropic"
  BY <1>4 DEF Progress, Whole, Final
<1>5. CASE provider = "gemini"
  <2>1. Progress(t) = {GeminiDoc(t, t.images - truth.images, total) : total \in BOOLEAN}
    BY <1>5 DEF Progress
  <2>2. Whole(t) = {GeminiDoc(t, m, total) : m \in Int, total \in BOOLEAN}
    BY <1>5 DEF Whole
  <2>3. Final(t) = Progress(t)
    BY <1>5 DEF Final
  <2>4. Progress(t) \subseteq Whole(t)
    <3> SUFFICES ASSUME NEW u \in Progress(t) PROVE u \in Whole(t)
      OBVIOUS
    <3>1. PICK m \in Int : m = t.images - truth.images
      BY <1>1
    <3>2. PICK total \in BOOLEAN : u = GeminiDoc(t, t.images - truth.images, total)
      BY <2>1
    <3>3. u = GeminiDoc(t, m, total)
      BY <3>1, <3>2
    <3> QED BY <2>2, <3>3
  <2> QED BY <1>5, <2>3, <2>4
<1>6. CASE provider = "images"
  BY <1>6 DEF Progress, Whole, Final
<1> QED BY <1>2, <1>3, <1>4, <1>5, <1>6 DEF Providers

\* None of them is a partial image.
LEMMA NotPartial ==
  ASSUME NEW t, NEW m, NEW b
  PROVE  /\ OpenAI(t) # PartialImage /\ ResponsesDoc(t) # PartialImage
         /\ AnthropicDoc(t) # PartialImage /\ AnthropicDelta(t) # PartialImage
         /\ GeminiDoc(t, m, b) # PartialImage /\ ImagesDoc(t, b, m) # PartialImage
<1>1. "input_tokens" \in DOMAIN OpenAI(t) /\ "input_tokens" \in DOMAIN ResponsesDoc(t)
  BY DEF OpenAI, ResponsesDoc
<1>2. "input_tokens" \in DOMAIN AnthropicDoc(t) /\ "input_tokens" \in DOMAIN AnthropicDelta(t)
  BY DEF AnthropicDoc, AnthropicDelta
<1>3. "images" \in DOMAIN GeminiDoc(t, m, b)
  BY DEF GeminiDoc
<1>4. "images" \in DOMAIN ImagesDoc(t, b, m)
  BY DEF ImagesDoc
<1>5. "input_tokens" \notin DOMAIN PartialImage /\ "images" \notin DOMAIN PartialImage
  BY DEF PartialImage
<1> QED BY <1>1, <1>2, <1>3, <1>4, <1>5

\* A document about everything is extracted to everything.
LEMMA ExtractWhole ==
  ASSUME provider \in Providers, NEW t, Possible(t), InRange(t), NEW u \in Whole(t)
  PROVE  /\ Extract(u) \in Infos /\ Says(Extract(u), t)
         /\ provider = "responses" => Extract(u) # NoUsage
         /\ provider = "images" /\ Extract(u) # NoUsage =>
              \E x, y, z \in Int :
                /\ Splits(Extract(u), x, y, z)
                /\ (x = 0 /\ y = 0) \/ x + y = InputOf(t)
                /\ z = 0 \/ z = t.cached
<1>1. t \in Truths /\ \A c \in Counters \ Counted(provider) : t[c] = 0
  BY DEF Possible
<1>2. CASE provider = "chat"
  <2>1. u = OpenAI(t) /\ Extract(u) = TryChat(u)
    BY <1>2, NotPartial DEF Whole, Extract
  <2>2. Lacks(t, "creation")
    BY <1>1, <1>2 DEF Counters, Counted, Lacks
  <2> QED BY <1>1, <1>2, <2>1, <2>2, ChatSays
<1>3. CASE provider = "responses"
  <2>1. u = ResponsesDoc(t) /\ Extract(u) = ResponsesInfo(u)
    BY <1>3, NotPartial DEF Whole, Extract
  <2>2. Lacks(t, "creation")
    BY <1>1, <1>3 DEF Counters, Counted, Lacks
  <2> QED BY <1>1, <1>3, <2>1, <2>2, ResponsesSays, NotNil DEF Infos
<1>4. CASE provider = "anthropic"
  <2>1. u = AnthropicDoc(t) /\ Extract(u) = Anthropic(u)
    BY <1>4, NotPartial DEF Whole, Extract
  <2>2. Lacks(t, "tool") /\ Lacks(t, "thoughts")
    BY <1>1, <1>4 DEF Counters, Counted, Lacks
  <2> QED BY <1>1, <1>4, <2>1, <2>2, AnthropicSays
<1>5. CASE provider = "gemini"
  <2>1. PICK m \in Int, total \in BOOLEAN : u = GeminiDoc(t, m, total)
    BY <1>5 DEF Whole
  <2>2. Extract(u) = Gemini(u)
    BY <1>5, <2>1, NotPartial DEF Extract
  <2>3. Lacks(t, "creation")
    BY <1>1, <1>5 DEF Counters, Counted, Lacks
  <2> QED BY <1>1, <1>5, <2>1, <2>2, <2>3, GeminiSays
<1>6. CASE provider = "images"
  <2>1. PICK split \in BOOLEAN : u = ImagesDoc(t, split, 0)
    BY <1>6 DEF Whole
  <2>2. Extract(u) = Images(u)
    BY <1>6, <2>1, NotPartial DEF Extract
  <2>3. Lacks(t, "creation") /\ Lacks(t, "thoughts")
    BY <1>1, <1>6 DEF Counters, Counted, Lacks
  <2> QED BY <1>1, <1>6, <2>1, <2>2, <2>3, ImagesSays
<1> QED BY <1>2, <1>3, <1>4, <1>5, <1>6 DEF Providers

\* A partial image brings no tokens.
LEMMA ExtractPartial ==
  /\ NoCounts \in Truths /\ Extract(PartialImage) \in Infos /\ Says(Extract(PartialImage), NoCounts)
  /\ Extract(PartialImage) # NoUsage /\ Splits(Extract(PartialImage), 0, 0, 0)
<1> DEFINE info == [Zero EXCEPT !.partials = 1]
<1>1. Extract(PartialImage) = info
  BY DEF Extract
<1>2. info \in [Fields -> Int]
  BY ZeroIs DEF Fields
<1>3. /\ info.input = 0 /\ info.output = 0 /\ info.total = 0
      /\ info.cached = 0 /\ info.reasoning = 0 /\ info.creation = 0
      /\ info.inputText = 0 /\ info.inputImage = 0 /\ info.cachedText = 0 /\ info.cachedImage = 0
  BY DEF Zero
<1> HIDE DEF info
<1>4. Reads(info, 0, 0, 0, 0, 0, 0) /\ Splits(info, 0, 0, 0)
  BY <1>2, <1>3 DEF Reads, Splits
<1>5. /\ NoCounts \in Truths /\ InputOf(NoCounts) = 0 /\ OutputOf(NoCounts) = 0
      /\ NoCounts.cached = 0 /\ NoCounts.thoughts = 0 /\ NoCounts.creation = 0
  BY DEF NoCounts, Truths, Counters, InputOf, OutputOf
<1>6. InputOf(NoCounts) + OutputOf(NoCounts) = 0
  BY <1>5
<1> QED BY <1>1, <1>4, <1>5, <1>6, SaysAll, Zenon

\* What the documents so far have told of: responses and images tell of tokens
\* at the end only.
Heard == IF events = <<>> \/ (~done /\ provider \in {"responses", "images"}) THEN NoCounts ELSE truth

\* The inductive invariant.  The merged usage says what was heard, and for an
\* image request how the input is split.
StreamInv ==
  /\ provider \in Providers /\ Possible(truth) /\ done \in BOOLEAN
  /\ events \in Seq(Range(events)) /\ (done => Len(events) > 0)
  /\ events = <<>> => usage = NoUsage

MergedInv == Fits => usage \in Infos /\ Says(usage, Heard)

SplitInv == Fits /\ provider = "images" /\ usage # NoUsage =>
  \E x, y, z \in Int :
    /\ Splits(usage, x, y, z)
    /\ done \/ (x = 0 /\ y = 0 /\ z = 0)
    /\ (x = 0 /\ y = 0) \/ x + y = InputOf(truth)
    /\ z = 0 \/ z = truth.cached

\* A Gemini stream ends with a document about everything.
GeminiLast == done /\ provider = "gemini" =>
  \E m \in Int, total \in BOOLEAN : events[Len(events)] = GeminiDoc(truth, m, total)

ExtractionInv == StreamInv /\ MergedInv /\ SplitInv /\ GeminiLast

\* The counters grow, what cannot be counted stays 0, and Anthropic counts its
\* input before it answers.
LEMMA GrownIs ==
  ASSUME StreamInv, NEW t \in Grown
  PROVE  /\ Possible(t) /\ Grew(truth, t)
         /\ provider = "anthropic" => SameInput(truth, t)
         /\ InRange(t) => Fits
<1>1. /\ truth \in Truths /\ \A c \in Counters \ Counted(provider) : truth[c] = 0
  BY DEF StreamInv, Possible
<1>2. /\ t \in [Counters -> 0..MaxCount]
      /\ \A c \in Counters : t[c] >= truth[c]
      /\ \A c \in Counters : c \in Inputs \/ c \notin Counted(provider) => t[c] = truth[c]
  BY DEF Grown
<1>3. t \in Truths
  <2>1. 0..MaxCount \subseteq Nat
    BY WidthAssumption
  <2> QED BY <1>2, <2>1 DEF Truths
<1>4. Possible(t)
  BY <1>1, <1>2, <1>3 DEF Possible
<1>5. Grew(truth, t)
  <2> SUFFICES ASSUME NEW c \in Counters PROVE truth[c] <= t[c]
    BY DEF Grew
  <2>1. truth[c] \in Nat /\ t[c] \in Nat /\ t[c] >= truth[c]
    BY <1>1, <1>2, <1>3 DEF Truths
  <2> QED BY <2>1
<1>6. provider = "anthropic" => SameInput(truth, t)
  <2> SUFFICES ASSUME provider = "anthropic" PROVE SameInput(truth, t)
    OBVIOUS
  <2>1. /\ t.prompt = truth.prompt /\ t.cached = truth.cached /\ t.creation = truth.creation
        /\ t.tool = truth.tool
    BY <1>2 DEF Inputs, Counted, Counters
  <2> QED BY <2>1 DEF SameInput, InputOf
<1>7. InRange(t) => Fits
  <2>1. InputOf(truth) <= InputOf(t) /\ OutputOf(truth) <= OutputOf(t)
    BY <1>1, <1>3, <1>5, ToldGrows
  <2>2. /\ InputOf(truth) \in Nat /\ OutputOf(truth) \in Nat /\ InputOf(t) \in Nat /\ OutputOf(t) \in Nat
    BY <1>1, <1>3, ToldIs
  <2>3. \A a, b, c, d \in Nat : a <= c /\ b <= d /\ c + d <= MaxTokenCount => a + b <= MaxTokenCount
    BY WidthAssumption
  <2> QED BY <2>1, <2>2, <2>3, Zenon DEF InRange, Fits
<1> QED BY <1>4, <1>5, <1>6, <1>7

\* What was heard is not more than what was counted.
LEMMA HeardGrew ==
  ASSUME StreamInv, NEW t \in Truths, Grew(truth, t)
  PROVE  Heard \in Truths /\ Grew(Heard, t) /\ (Heard = NoCounts \/ Heard = truth)
<1>1. NoCounts \in Truths
  BY ExtractPartial
<1>2. Grew(NoCounts, t)
  <2> SUFFICES ASSUME NEW c \in Counters PROVE NoCounts[c] <= t[c]
    BY DEF Grew
  <2>1. t[c] \in Nat /\ NoCounts[c] = 0
    BY DEF Truths, NoCounts
  <2> QED BY <2>1
<1> QED BY <1>1, <1>2 DEF Heard, StreamInv, Possible

\* The merge of a document that follows: of one about everything, of one about
\* the output alone, and of a partial image.
LEMMA MergedNext ==
  ASSUME StreamInv, MergedInv, SplitInv, NEW t \in Grown, InRange(t)
  PROVE  /\ \A u \in Whole(t) :
              LET merged == Merge(usage, Extract(u))
              IN  /\ merged \in Infos /\ Says(merged, t)
                  /\ provider = "images" /\ ~done /\ merged # NoUsage =>
                       \E x, y, z \in Int :
                         /\ Splits(merged, x, y, z)
                         /\ (x = 0 /\ y = 0) \/ x + y = InputOf(t)
                         /\ z = 0 \/ z = t.cached
         /\ provider = "anthropic" /\ events # <<>> =>
              LET merged == Merge(usage, Extract(AnthropicDelta(t)))
              IN  merged \in Infos /\ Says(merged, t)
         /\ Heard = NoCounts =>
              LET merged == Merge(usage, Extract(PartialImage))
              IN  /\ merged \in Infos /\ Says(merged, NoCounts)
                  /\ provider = "images" /\ ~done => Splits(merged, 0, 0, 0)
<1>1. /\ provider \in Providers /\ Possible(t) /\ t \in Truths /\ Grew(truth, t) /\ Fits
      /\ truth \in Truths /\ Possible(truth)
  BY GrownIs DEF StreamInv, Possible
<1>2. usage \in Infos /\ Says(usage, Heard) /\ Heard \in Truths /\ Grew(Heard, t)
  BY <1>1, HeardGrew DEF MergedInv
<1>3. provider = "images" /\ ~done /\ usage # NoUsage => Splits(usage, 0, 0, 0)
  BY <1>1, Zenon DEF SplitInv
<1>4. ASSUME NEW u \in Whole(t)
      PROVE  Merge(usage, Extract(u)) \in Infos /\ Says(Merge(usage, Extract(u)), t)
  BY <1>1, <1>2, ExtractWhole, MergeSays, Zenon
<1>5. ASSUME NEW next, NEW x \in Int, NEW y \in Int, NEW z \in Int, Splits(next, x, y, z), next \in Infos,
             provider = "images", ~done
      PROVE  next # NoUsage => Splits(Merge(usage, next), x, y, z)
  <2> SUFFICES ASSUME next # NoUsage PROVE Splits(Merge(usage, next), x, y, z)
    OBVIOUS
  <2>1. CASE usage = NoUsage
    BY <1>5, <2>1, MergeNil
  <2>2. CASE usage # NoUsage
    <3>1. PICK i1, o1, l1, c1, r1, n1 \in Int : Reads(usage, i1, o1, l1, c1, r1, n1)
      BY <1>2, <2>2, ReadsSome
    <3>2. PICK i2, o2, l2, c2, r2, n2 \in Int : Reads(next, i2, o2, l2, c2, r2, n2)
      BY <1>5, ReadsSome
    <3>3. Splits(Merge(usage, next), Later(0, x), Later(0, y), Later(0, z))
      BY <1>3, <1>5, <2>2, <3>1, <3>2, MergeReads, Zenon
    <3>4. Later(0, x) = x /\ Later(0, y) = y /\ Later(0, z) = z
      BY DEF Later
    <3> QED BY <3>3, <3>4, Zenon
  <2> QED BY <2>1, <2>2
<1>6. ASSUME NEW u \in Whole(t), provider = "images", ~done, Merge(usage, Extract(u)) # NoUsage
      PROVE  \E x, y, z \in Int :
               /\ Splits(Merge(usage, Extract(u)), x, y, z)
               /\ (x = 0 /\ y = 0) \/ x + y = InputOf(t)
               /\ z = 0 \/ z = t.cached
  <2>1. Extract(u) \in Infos
    BY <1>1, ExtractWhole
  <2>2. CASE Extract(u) = NoUsage
    <3>1. Merge(usage, Extract(u)) = usage /\ usage # NoUsage
      BY <1>6, <2>2, MergeNil
    <3>2. Splits(Merge(usage, Extract(u)), 0, 0, 0)
      BY <1>3, <1>6, <3>1, Zenon
    <3>3. 0 \in Int
      OBVIOUS
    <3> QED BY <3>2, <3>3, Zenon
  <2>3. CASE Extract(u) # NoUsage
    <3>1. PICK x, y, z \in Int :
             /\ Splits(Extract(u), x, y, z)
             /\ (x = 0 /\ y = 0) \/ x + y = InputOf(t)
             /\ z = 0 \/ z = t.cached
      BY <1>1, <1>6, <2>3, ExtractWhole, Zenon
    <3>2. Splits(Merge(usage, Extract(u)), x, y, z)
      BY <1>5, <1>6, <2>1, <2>3, <3>1, Zenon
    <3> QED BY <3>1, <3>2, Zenon
  <2> QED BY <2>2, <2>3
<1>7. ASSUME provider = "anthropic", events # <<>>
      PROVE  /\ Merge(usage, Extract(AnthropicDelta(t))) \in Infos
             /\ Says(Merge(usage, Extract(AnthropicDelta(t))), t)
  <2>1. Heard = truth
    BY <1>7 DEF Heard
  <2>2. Extract(AnthropicDelta(t)) = Anthropic(AnthropicDelta(t))
    BY <1>7, NotPartial DEF Extract
  <2>3. Lacks(truth, "thoughts") /\ Lacks(t, "thoughts")
    BY <1>1, <1>7 DEF Possible, Counters, Counted, Lacks
  <2>4. SameInput(truth, t)
    BY <1>7, GrownIs
  <2> QED BY <1>1, <1>2, <2>1, <2>2, <2>3, <2>4, MergeDelta, Zenon
<1>8. ASSUME Heard = NoCounts
      PROVE  /\ Merge(usage, Extract(PartialImage)) \in Infos
             /\ Says(Merge(usage, Extract(PartialImage)), NoCounts)
             /\ provider = "images" /\ ~done => Splits(Merge(usage, Extract(PartialImage)), 0, 0, 0)
  <2>1. NoCounts \in Truths /\ Grew(NoCounts, NoCounts)
    BY DEF NoCounts, Grew, Truths
  <2>2. 0 \in Int
    OBVIOUS
  <2> QED BY <1>2, <1>5, <1>8, <2>1, <2>2, ExtractPartial, MergeSays, Zenon
<1> QED BY <1>4, <1>6, <1>7, <1>8, Zenon

\* One document more.
LEMMA OneMore ==
  ASSUME StreamInv, NEW u
  PROVE  LET more == Append(events, u)
         IN  /\ more \in Seq(Range(more)) /\ Len(more) > 0 /\ more # <<>>
             /\ more[Len(more)] = u /\ Len(events) \in Int
<1> DEFINE more == Append(events, u)
<1>1. events \in Seq(Range(events))
  BY DEF StreamInv
<1>2. DEFINE S == Range(events) \cup {u}
<1>3. events \in Seq(S)
  BY <1>1
<1>4. /\ more \in Seq(S) /\ Len(more) = Len(events) + 1 /\ Len(events) \in Nat /\ more[Len(more)] = u
  BY <1>3
<1>5. more \in Seq(Range(more))
  <2>1. \A i \in 1..Len(more) : more[i] \in Range(more)
    BY <1>4 DEF Range
  <2> QED BY <1>4, <2>1
<1> QED BY <1>4, <1>5

\* Before the first document nothing was counted that a document may tell of.
LEMMA InitHolds == Init => ExtractionInv
<1> SUFFICES ASSUME Init PROVE ExtractionInv
  OBVIOUS
<1>1. /\ provider \in Providers /\ truth \in [Counters -> 0..MaxCount]
      /\ \A c \in Counters \ (Inputs \cap Counted(provider)) : truth[c] = 0
      /\ events = <<>> /\ usage = NoUsage /\ done = FALSE
  BY DEF Init
<1>2. 0..MaxCount \subseteq Nat
  BY WidthAssumption
<1>3. Possible(truth)
  BY <1>1, <1>2 DEF Possible, Truths
<1>4. events \in Seq(Range(events))
  BY <1>1
<1>5. InputOf(NoCounts) = 0 /\ OutputOf(NoCounts) = 0 /\ NoCounts \in Truths
  BY DEF NoCounts, Truths, Counters, InputOf, OutputOf
<1>6. Says(NoUsage, NoCounts)
  BY <1>5, NothingSaid
<1> QED BY <1>1, <1>3, <1>4, <1>6 DEF ExtractionInv, StreamInv, MergedInv, SplitInv, GeminiLast, Heard, Infos

\* The count of partial images is set and nothing that is said changes.
LEMMA SaysApart ==
  ASSUME NEW info \in Infos, info # NoUsage, NEW t \in Truths, Says(info, t), NEW k \in Int
  PROVE  /\ WithPartials(info, k) \in Infos /\ Says(WithPartials(info, k), t)
         /\ WithImages(info, k) \in Infos /\ Says(WithImages(info, k), t)
<1>1. PICK i, o, l, c, r, n \in Int : Reads(info, i, o, l, c, r, n)
  BY ReadsSome
<1>2. Reads(WithPartials(info, k), i, o, l, c, r, n) /\ Reads(WithImages(info, k), i, o, l, c, r, n)
  BY <1>1, ReadsApart
<1>3. /\ i = InputOf(t) /\ o = OutputOf(t) /\ l = InputOf(t) + OutputOf(t)
      /\ c = t.cached /\ r = t.thoughts /\ n = t.creation
  BY <1>1, SaysAll, Zenon
<1> QED BY <1>2, <1>3, SaysAll, Zenon

\* A document that is not the last one.
LEMMA ReportKeeps == ASSUME ExtractionInv, Report PROVE ExtractionInv'
<1>1. PICK t \in Grown : t = truth'
  BY DEF Report
<1>2. PICK u \in Progress(t) : events' = Append(events, u) /\ usage' = Merge(usage, Extract(u))
  BY <1>1 DEF Report
<1>3. ~done /\ provider' = provider /\ done' = done
  BY DEF Report
<1>4. StreamInv /\ MergedInv /\ SplitInv
  BY DEF ExtractionInv
<1>5. /\ provider \in Providers /\ Possible(t) /\ t \in Truths /\ truth \in Truths
  BY <1>4, GrownIs DEF StreamInv, Possible
<1>6. events' \in Seq(Range(events')) /\ Len(events') > 0 /\ events' # <<>>
  BY <1>2, <1>4, OneMore
<1>7. StreamInv'
  <2>1. Possible(truth)'
    BY <1>1, <1>3, <1>5 DEF Possible
  <2>2. provider' \in Providers /\ done' \in BOOLEAN
    BY <1>3, <1>4 DEF StreamInv
  <2> QED BY <1>6, <2>1, <2>2, Zenon DEF StreamInv
<1>8. Fits' => InRange(t)
  BY <1>1 DEF Fits, InRange
<1>9. Heard' = IF provider \in {"responses", "images"} THEN NoCounts ELSE t
  BY <1>1, <1>3, <1>6 DEF Heard, NoCounts
<1>10. provider \in {"responses", "images"} => u = PartialImage /\ Heard = NoCounts
  BY <1>2, <1>3, <1>5, Documents DEF Heard
<1>11. MergedInv'
  <2> SUFFICES ASSUME InRange(t)
               PROVE  Merge(usage, Extract(u)) \in Infos /\ Says(Merge(usage, Extract(u)), Heard')
    BY <1>2, <1>8 DEF MergedInv
  <2>1. CASE provider \in {"responses", "images"}
    BY <1>4, <1>9, <1>10, <2>1, MergedNext, Zenon
  <2>2. CASE provider \in {"chat", "gemini"}
    <3>1. u \in Whole(t) /\ Heard' = t
      BY <1>2, <1>5, <1>9, <2>2, Documents
    <3> QED BY <1>4, <3>1, MergedNext, Zenon
  <2>3. CASE provider = "anthropic"
    <3>1. (u \in Whole(t) \/ (u = AnthropicDelta(t) /\ events # <<>>)) /\ Heard' = t
      BY <1>2, <1>5, <1>9, <2>3, Documents
    <3> QED BY <1>4, <2>3, <3>1, MergedNext, Zenon
  <2> QED BY <1>5, <2>1, <2>2, <2>3 DEF Providers
<1>12. SplitInv'
  <2> SUFFICES ASSUME InRange(t), provider = "images"
               PROVE  Splits(Merge(usage, Extract(u)), 0, 0, 0)
    <3>1. 0 \in Int
      OBVIOUS
    <3> QED BY <1>2, <1>3, <1>8, <3>1, Zenon DEF SplitInv
  <2> QED BY <1>3, <1>4, <1>10, MergedNext
<1>13. GeminiLast'
  BY <1>3 DEF GeminiLast
<1> QED BY <1>7, <1>11, <1>12, <1>13 DEF ExtractionInv

\* The document that completes the response.
LEMMA CompleteKeeps == ASSUME ExtractionInv, Complete PROVE ExtractionInv'
<1>1. PICK t \in Grown : t = truth'
  BY DEF Complete
<1>2. PICK u \in Final(t) :
        /\ events' = Append(events, u)
        /\ usage' = IF provider = "responses"
                      THEN Merge(Merge(usage, Extract(u)), WithPartials(Extract(u), Len(events)))
                      ELSE Merge(usage, Extract(u))
  BY <1>1 DEF Complete, WithPartials
<1>3. ~done /\ provider' = provider /\ done' = TRUE
  BY DEF Complete
<1>4. StreamInv /\ MergedInv /\ SplitInv
  BY DEF ExtractionInv
<1>5. /\ provider \in Providers /\ Possible(t) /\ t \in Truths /\ truth \in Truths
  BY <1>4, GrownIs DEF StreamInv, Possible
<1>6. /\ events' \in Seq(Range(events')) /\ Len(events') > 0 /\ events' # <<>>
      /\ events'[Len(events')] = u /\ Len(events) \in Int
  BY <1>2, <1>4, OneMore
<1>7. StreamInv'
  <2>1. Possible(truth)'
    BY <1>1, <1>3, <1>5 DEF Possible
  <2>2. provider' \in Providers /\ done' \in BOOLEAN
    BY <1>3, <1>4 DEF StreamInv
  <2> QED BY <1>6, <2>1, <2>2, Zenon DEF StreamInv
<1>8. (Fits' => InRange(t)) /\ Heard' = t
  BY <1>1, <1>3, <1>6 DEF Fits, InRange, Heard
<1>9. \/ u \in Whole(t)
      \/ provider = "anthropic" /\ u = AnthropicDelta(t) /\ events # <<>>
  BY <1>2, <1>5, Documents DEF Providers
<1>10. provider # "anthropic" => u \in Whole(t)
  BY <1>9
<1>11. MergedInv'
  <2> SUFFICES ASSUME InRange(t) PROVE usage' \in Infos /\ Says(usage', t)
    BY <1>8 DEF MergedInv
  <2>1. Merge(usage, Extract(u)) \in Infos /\ Says(Merge(usage, Extract(u)), t)
    BY <1>4, <1>9, MergedNext, Zenon
  <2>2. CASE provider = "responses"
    <3>1. Extract(u) \in Infos /\ Extract(u) # NoUsage /\ Says(Extract(u), t)
      BY <1>5, <1>10, <2>2, ExtractWhole
    <3>2. WithPartials(Extract(u), Len(events)) \in Infos /\ Says(WithPartials(Extract(u), Len(events)), t)
      BY <1>5, <1>6, <3>1, SaysApart
    <3>3. Grew(t, t)
      <4>1. \A c \in Counters : t[c] \in Nat
        BY <1>5 DEF Truths
      <4> QED BY <4>1 DEF Grew
    <3> QED BY <1>2, <1>5, <2>1, <2>2, <3>2, <3>3, MergeSays, Zenon
  <2>3. CASE provider # "responses"
    BY <1>2, <2>1, <2>3
  <2> QED BY <2>2, <2>3
<1>12. SplitInv'
  <2> SUFFICES ASSUME InRange(t), provider = "images", usage' # NoUsage
               PROVE  \E x, y, z \in Int :
                        /\ Splits(usage', x, y, z)
                        /\ (x = 0 /\ y = 0) \/ x + y = InputOf(t)
                        /\ z = 0 \/ z = t.cached
    BY <1>1, <1>3, <1>8, Zenon DEF SplitInv
  <2>1. usage' = Merge(usage, Extract(u))
    BY <1>2
  <2> QED BY <1>3, <1>4, <1>10, <2>1, MergedNext, Zenon
<1>13. GeminiLast'
  <2> SUFFICES ASSUME provider = "gemini"
               PROVE  \E m \in Int, total \in BOOLEAN : u = GeminiDoc(t, m, total)
    BY <1>1, <1>3, <1>6, Zenon DEF GeminiLast
  <2> QED BY <1>10 DEF Whole
<1> QED BY <1>7, <1>11, <1>12, <1>13 DEF ExtractionInv

\* The invariant of the stream.
THEOREM StreamSays == Spec => []ExtractionInv
<1>1. ASSUME ExtractionInv, [Next]_vars PROVE ExtractionInv'
  <2>1. CASE Report
    BY <1>1, <2>1, ReportKeeps
  <2>2. CASE Complete
    BY <1>1, <2>2, CompleteKeeps
  <2>3. CASE UNCHANGED vars
    <3>1. UNCHANGED provider /\ UNCHANGED truth /\ UNCHANGED events /\ UNCHANGED usage /\ UNCHANGED done
      BY <2>3 DEF vars
    <3>2. StreamInv' /\ GeminiLast'
      BY <1>1, <3>1 DEF ExtractionInv, StreamInv, GeminiLast, Possible
    <3>3. Heard' = Heard /\ Fits' = Fits
      BY <3>1 DEF Heard, Fits
    <3>4. MergedInv' /\ SplitInv'
      BY <1>1, <3>1, <3>3 DEF ExtractionInv, MergedInv, SplitInv
    <3> QED BY <3>2, <3>4 DEF ExtractionInv
  <2> QED BY <1>1, <2>1, <2>2, <2>3 DEF Next
<1> QED BY InitHolds, <1>1, PTL DEF Spec

-----------------------------------------------------------------------------
(* What follows from it *)

\* Wherever a stream is cut off, cached input and cache creation are parts of
\* the input, reasoning is one of the output, and the total is the two together
\* (mergeUsageInfo).
THEOREM ConsistentUsage == Spec => []UsageIsConsistent
<1>1. ExtractionInv => UsageIsConsistent
  <2> SUFFICES ASSUME ExtractionInv, usage # NoUsage, Fits
               PROVE  /\ usage.cached + usage.creation <= usage.input
                      /\ usage.reasoning <= usage.output
                      /\ usage.total = usage.input + usage.output
    BY DEF UsageIsConsistent
  <2>1. usage \in Infos /\ Says(usage, Heard) /\ Heard \in Truths
    BY ExtractPartial DEF ExtractionInv, MergedInv, StreamInv, Possible, Heard
  <2>2. PICK h \in Truths : h = Heard
    BY <2>1
  <2>3. PICK i, o, l, c, r, n \in Int : Numbers(h, i, o, l, c, r, n)
    BY NumbersOf
  <2>4. Reads(usage, i, o, l, c, r, n)
    BY <2>1, <2>2, <2>3, SaysReads, Zenon
  <2>5. c + n <= i /\ r <= o /\ l = i + o
    BY <2>3, Zenon DEF Numbers
  <2>6. /\ usage.input = i /\ usage.output = o /\ usage.total = l
        /\ usage.cached = c /\ usage.reasoning = r /\ usage.creation = n
    BY <2>4, Zenon DEF Reads
  <2> QED BY <2>5, <2>6, Zenon
<1> QED BY StreamSays, <1>1, PTL

\* What is said decides the tokens.
LEMMA TokensAre ==
  ASSUME NEW info, NEW t, Says(info, t)
  PROVE  Tokens(info) = [f \in TokenFields |-> Told(t)[f]]
BY DEF Says, Value, Tokens

\* Whatever is written to the number of images.
LEMMA TokensApart ==
  ASSUME NEW info \in [Fields -> Int], NEW k
  PROVE  Tokens([info EXCEPT !.images = k]) = Tokens(info)
<1> DEFINE other == [info EXCEPT !.images = k]
<1>1. DOMAIN other = Fields /\ \A f \in TokenFields : other[f] = info[f]
  BY DEF Fields, TokenFields
<1>2. info # NoUsage /\ other # NoUsage
  <2>1. DOMAIN NoUsage = {"nil"} /\ "nil" \notin Fields
    BY DEF NoUsage, Fields, TokenFields
  <2> QED BY <1>1, <2>1, NotNil
<1> HIDE DEF other
<1>3. Tokens(other) = [f \in TokenFields |-> other[f]] /\ Tokens(info) = [f \in TokenFields |-> info[f]]
  BY <1>2 DEF Tokens
<1> QED BY <1>1, <1>3 DEF other

\* A Gemini stream that is complete has, as an array, the tokens of its last
\* document.
LEMMA ArrayTokens ==
  ASSUME NEW last, Gemini(last) \in [Fields -> Int], StreamInv, done, events[Len(events)] = last
  PROVE  Tokens(ExtractGeminiArray(events)) = Tokens(Gemini(last))
<1> DEFINE told == {i \in DOMAIN events : Gemini(events[i]) # NoUsage}
           n == Len(events)
<1>1. n \in Nat /\ n > 0 /\ DOMAIN events = 1..n
  BY DEF StreamInv
<1>2. Gemini(events[n]) = Gemini(last) /\ Gemini(last) # NoUsage
  BY NotNil, Zenon
<1>3. n \in told /\ \A i \in told : n >= i /\ i \in Int
  BY <1>1, <1>2
<1>4. Max(told) = n
  <2> HIDE DEF told, n
  <2>1. \A m \in told : (\A i \in told : m >= i) => m = n
    BY <1>1, <1>3
  <2> QED BY <1>3, <2>1 DEF Max
<1>5. \/ ExtractGeminiArray(events) = Gemini(last)
      \/ ExtractGeminiArray(events) = [Gemini(last) EXCEPT !.images = AllImages(events)]
  <2>1. told # {} /\ events[Max(told)] = last
    BY <1>3, <1>4
  <2> QED BY <2>1, Zenon DEF ExtractGeminiArray
<1> QED BY <1>5, TokensApart, Zenon

\* In each form and at each endpoint a whole response is extracted to all that
\* was counted.
LEMMA WholeSays ==
  ASSUME StreamInv, GeminiLast, done, Fits, InputOf(truth) > 0, NEW whole \in WholeForms
  PROVE  Tokens(whole) = [f \in TokenFields |-> Told(truth)[f]]
<1>1. PICK t \in Truths : t = truth /\ InRange(t) /\ InputOf(t) > 0
  BY DEF StreamInv, Possible, Fits, InRange
<1>2. provider \in Providers /\ \A c \in Counters \ Counted(provider) : t[c] = 0
  BY <1>1 DEF StreamInv, Possible
<1>3. CASE provider = "chat"
  <2>1. Lacks(t, "creation")
    BY <1>2, <1>3 DEF Counters, Counted, Lacks
  <2>2. /\ TryChat(OpenAI(t)) # NoUsage /\ Says(TryChat(OpenAI(t)), t)
        /\ TryResponses(OpenAI(t)) = NoUsage
    BY <1>1, <2>1, ChatSays, ResponsesSays
  <2>3. \A e \in {"chat", "responses"} : ExtractNonStreaming(OpenAI(t), e) = TryChat(OpenAI(t))
    BY <2>2 DEF ExtractNonStreaming
  <2>4. whole = TryChat(OpenAI(t))
    BY <1>1, <1>3, <2>3 DEF WholeForms
  <2> QED BY <1>1, <2>2, <2>4, TokensAre
<1>4. CASE provider = "responses"
  <2>1. Lacks(t, "creation")
    BY <1>2, <1>4 DEF Counters, Counted, Lacks
  <2>2. /\ TryChat(ResponsesDoc(t)) = NoUsage /\ TryResponses(ResponsesDoc(t)) # NoUsage
        /\ Says(TryResponses(ResponsesDoc(t)), t)
    BY <1>1, <2>1, ChatSays, ResponsesSays, NotNil
  <2>3. \A e \in {"chat", "responses"} :
          ExtractNonStreaming(ResponsesDoc(t), e) = TryResponses(ResponsesDoc(t))
    BY <2>2 DEF ExtractNonStreaming
  <2>4. whole = TryResponses(ResponsesDoc(t))
    BY <1>1, <1>4, <2>3 DEF WholeForms
  <2> QED BY <1>1, <2>2, <2>4, TokensAre
<1>5. CASE provider = "anthropic"
  <2>1. Lacks(t, "tool") /\ Lacks(t, "thoughts")
    BY <1>2, <1>5 DEF Counters, Counted, Lacks
  <2>2. whole = Anthropic(AnthropicDoc(t))
    BY <1>1, <1>5 DEF WholeForms
  <2> QED BY <1>1, <2>1, <2>2, AnthropicSays, TokensAre
<1>6. CASE provider = "gemini"
  <2>1. Lacks(t, "creation")
    BY <1>2, <1>6 DEF Counters, Counted, Lacks
  <2>2. ASSUME NEW m \in Int, NEW total \in BOOLEAN
        PROVE  /\ Gemini(GeminiDoc(t, m, total)) \in [Fields -> Int]
               /\ Tokens(Gemini(GeminiDoc(t, m, total))) = [f \in TokenFields |-> Told(t)[f]]
    BY <1>1, <2>1, GeminiSays, TokensAre DEF Infos
  <2>3. whole = Gemini(GeminiDoc(t, t.images, TRUE)) \/ whole = ExtractGeminiArray(events)
    BY <1>1, <1>6 DEF WholeForms
  <2>4. t.images \in Int
    BY DEF Truths, Counters
  <2>5. CASE whole = Gemini(GeminiDoc(t, t.images, TRUE))
    BY <1>1, <2>2, <2>4, <2>5
  <2>6. CASE whole = ExtractGeminiArray(events)
    <3>1. PICK m \in Int, total \in BOOLEAN : events[Len(events)] = GeminiDoc(t, m, total)
      BY <1>1, <1>6 DEF GeminiLast
    <3>2. Tokens(ExtractGeminiArray(events)) = Tokens(Gemini(GeminiDoc(t, m, total)))
      BY <2>2, <3>1, ArrayTokens
    <3> QED BY <1>1, <2>2, <2>6, <3>2, Zenon
  <2> QED BY <2>3, <2>5, <2>6
<1>7. CASE provider = "images"
  <2>1. Lacks(t, "creation") /\ Lacks(t, "thoughts")
    BY <1>2, <1>7 DEF Counters, Counted, Lacks
  <2>2. PICK split \in BOOLEAN : whole = Images(ImagesDoc(t, split, t.images))
    BY <1>1, <1>7 DEF WholeForms
  <2>3. t.images \in Int
    BY DEF Truths, Counters
  <2>4. Says(whole, t)
    BY <2>1, <2>2, <2>3, ImagesSays
  <2> QED BY <1>1, <2>4, TokensAre
<1> QED BY <1>2, <1>3, <1>4, <1>5, <1>6, <1>7 DEF Providers

\* However the provider spreads its counters over the documents of a stream,
\* the merged tokens are those of the whole response, as one document or as an
\* array, at either endpoint (mergeUsageInfo, ExtractNonStreaming).
THEOREM StreamedAsWhole == Spec => []StreamEqualsWhole
<1>1. ExtractionInv => StreamEqualsWhole
  <2> SUFFICES ASSUME ExtractionInv, done, Fits, InputOf(truth) > 0, NEW whole \in WholeForms
               PROVE  Tokens(usage) = Tokens(whole)
    BY DEF StreamEqualsWhole
  <2>1. Heard = truth
    BY DEF ExtractionInv, StreamInv, Heard
  <2>2. Tokens(usage) = [f \in TokenFields |-> Told(truth)[f]]
    BY <2>1, TokensAre DEF ExtractionInv, MergedInv
  <2>3. Tokens(whole) = [f \in TokenFields |-> Told(truth)[f]]
    BY WholeSays DEF ExtractionInv
  <2> QED BY <2>2, <2>3
<1> QED BY StreamSays, <1>1, PTL

\* Leaving out what is zero does not change an amount.
LEMMA NotZeroKeeps ==
  ASSUME NEW amount, NEW c \in DOMAIN amount
  PROVE  (IF c \in DOMAIN NotZero(amount) THEN NotZero(amount)[c] ELSE 0) = amount[c]
BY DEF NotZero

\* The amounts of buildImageDimensions, before those of zero are left out.
Amounts(info) == [c \in Channels \X Directions |->
  CASE c = <<"text", "input">>         -> info.inputText
    [] c = <<"image", "input">>        -> info.inputImage
    [] c = <<"mixed", "input">>        -> IF info.inputText = 0 /\ info.inputImage = 0 THEN info.input ELSE 0
    [] c = <<"text", "cached_input">>  -> info.cachedText
    [] c = <<"image", "cached_input">> -> info.cachedImage
    [] c = <<"mixed", "cached_input">> -> IF info.cachedText = 0 /\ info.cachedImage = 0 THEN info.cached ELSE 0
    [] c = <<"image", "output">>       -> info.output
    [] OTHER                           -> 0]

\* Nine cells, of which two are never filled.
LEMMA AmountsAre ==
  ASSUME NEW info
  PROVE  /\ Amounts(info)[<<"text", "input">>] = info.inputText
         /\ Amounts(info)[<<"image", "input">>] = info.inputImage
         /\ Amounts(info)[<<"mixed", "input">>] =
              IF info.inputText = 0 /\ info.inputImage = 0 THEN info.input ELSE 0
         /\ Amounts(info)[<<"text", "cached_input">>] = info.cachedText
         /\ Amounts(info)[<<"image", "cached_input">>] = info.cachedImage
         /\ Amounts(info)[<<"mixed", "cached_input">>] =
              IF info.cachedText = 0 /\ info.cachedImage = 0 THEN info.cached ELSE 0
         /\ Amounts(info)[<<"text", "output">>] = 0
         /\ Amounts(info)[<<"image", "output">>] = info.output
         /\ Amounts(info)[<<"mixed", "output">>] = 0
<1>1. \A a \in Channels, b \in Directions : <<a, b>> \in Channels \X Directions
  OBVIOUS
<1>2. {"text", "image", "mixed"} = Channels /\ {"input", "cached_input", "output"} = Directions
  BY DEF Channels, Directions
<1>3. Amounts(info)[<<"text", "input">>] = info.inputText
  BY <1>1, <1>2 DEF Amounts
<1>4. Amounts(info)[<<"image", "input">>] = info.inputImage
  BY <1>1, <1>2 DEF Amounts
<1>5. Amounts(info)[<<"mixed", "input">>] =
        IF info.inputText = 0 /\ info.inputImage = 0 THEN info.input ELSE 0
  BY <1>1, <1>2 DEF Amounts
<1>6. Amounts(info)[<<"text", "cached_input">>] = info.cachedText
  BY <1>1, <1>2 DEF Amounts
<1>7. Amounts(info)[<<"image", "cached_input">>] = info.cachedImage
  BY <1>1, <1>2 DEF Amounts
<1>8. Amounts(info)[<<"mixed", "cached_input">>] =
        IF info.cachedText = 0 /\ info.cachedImage = 0 THEN info.cached ELSE 0
  BY <1>1, <1>2 DEF Amounts
<1>9. Amounts(info)[<<"text", "output">>] = 0 /\ Amounts(info)[<<"mixed", "output">>] = 0
  BY <1>1, <1>2 DEF Amounts
<1>10. Amounts(info)[<<"image", "output">>] = info.output
  BY <1>1, <1>2 DEF Amounts
<1> QED BY <1>3, <1>4, <1>5, <1>6, <1>7, <1>8, <1>9, <1>10

\* The dimensions of an image request bill its input once: by channel when the
\* provider gave the split, as mixed when it did not, and never both
\* (buildImageDimensions).
THEOREM DimensionsBillOnce == Spec => []DimensionsAddUp
<1>1. ExtractionInv => DimensionsAddUp
  <2> SUFFICES ASSUME ExtractionInv, provider = "images", usage # NoUsage, Fits PROVE DimensionsAddUp
    BY DEF DimensionsAddUp
  <2> DEFINE d == BuildImageDimensions(usage)
             At(c) == IF c \in DOMAIN d THEN d[c] ELSE 0
  <2>1. \A c \in Channels \X Directions : At(c) = Amounts(usage)[c]
    <3>1. d = NotZero(Amounts(usage)) /\ DOMAIN Amounts(usage) = Channels \X Directions
      BY DEF BuildImageDimensions, Amounts
    <3> QED BY <3>1, NotZeroKeeps
  <2>2. \A a \in Channels, b \in Directions : <<a, b>> \in Channels \X Directions
    OBVIOUS
  <2>3. PICK x, y, z \in Int :
          /\ Splits(usage, x, y, z)
          /\ done \/ (x = 0 /\ y = 0 /\ z = 0)
          /\ (x = 0 /\ y = 0) \/ x + y = InputOf(truth)
          /\ z = 0 \/ z = truth.cached
    BY Zenon DEF ExtractionInv, SplitInv
  <2>4. PICK h \in Truths : h = Heard
    BY ExtractPartial DEF ExtractionInv, StreamInv, Possible, Heard
  <2>5. usage \in Infos /\ Says(usage, h)
    BY <2>4 DEF ExtractionInv, MergedInv
  <2>6. PICK i, o, l, c, r, n \in Int : Numbers(h, i, o, l, c, r, n)
    BY NumbersOf
  <2>7. Reads(usage, i, o, l, c, r, n)
    BY <2>5, <2>6, SaysReads, Zenon
  <2>8. (done => h = truth) /\ (~done => h = NoCounts)
    BY <2>4 DEF ExtractionInv, StreamInv, Heard
  <2>9. /\ (x = 0 /\ y = 0) \/ x + y = i
        /\ z = 0 \/ z = c
    <3>1. i = InputOf(h) /\ c = h.cached
      BY <2>6, Zenon DEF Numbers
    <3>2. CASE done
      BY <2>3, <2>8, <3>1, <3>2
    <3>3. CASE ~done
      BY <2>3, <3>3
    <3> QED BY <3>2, <3>3
  <2>10. /\ usage.input = i /\ usage.cached = c /\ usage.output = o
         /\ usage.inputText = x /\ usage.inputImage = y /\ usage.cachedText = z /\ usage.cachedImage = 0
    BY <2>3, <2>7, Zenon DEF Reads, Splits
  <2> DEFINE Of(direction) ==
               At(<<"text", direction>>) + At(<<"image", direction>>) + At(<<"mixed", direction>>)
  <2>11. /\ At(<<"text", "input">>) = x /\ At(<<"image", "input">>) = y
         /\ At(<<"mixed", "input">>) = IF x = 0 /\ y = 0 THEN i ELSE 0
         /\ At(<<"text", "cached_input">>) = z /\ At(<<"image", "cached_input">>) = 0
         /\ At(<<"mixed", "cached_input">>) = IF z = 0 /\ 0 = 0 THEN c ELSE 0
         /\ At(<<"text", "output">>) = 0 /\ At(<<"image", "output">>) = o /\ At(<<"mixed", "output">>) = 0
    <3> HIDE DEF At
    <3>1. \A a \in {"text", "image", "mixed"}, b \in {"input", "cached_input", "output"} :
            At(<<a, b>>) = Amounts(usage)[<<a, b>>]
      BY <2>1, <2>2 DEF Channels, Directions
    <3>2. \A a \in {"text", "image", "mixed"} :
            /\ At(<<a, "input">>) = Amounts(usage)[<<a, "input">>]
            /\ At(<<a, "cached_input">>) = Amounts(usage)[<<a, "cached_input">>]
            /\ At(<<a, "output">>) = Amounts(usage)[<<a, "output">>]
      BY <3>1
    <3> QED BY <2>10, <3>2, AmountsAre
  <2>12. /\ x + y + (IF x = 0 /\ y = 0 THEN i ELSE 0) = i
         /\ z + 0 + (IF z = 0 /\ 0 = 0 THEN c ELSE 0) = c /\ 0 + o + 0 = o
    BY <2>9
  <2>13. Of("input") = i /\ Of("cached_input") = c /\ Of("output") = o
    <3> HIDE DEF At
    <3> QED BY <2>11, <2>12, Zenon
  <2> QED BY <2>10, <2>13, Zenon DEF DimensionsAddUp
<1> QED BY StreamSays, <1>1, PTL

-----------------------------------------------------------------------------
(* The settings of the process                                              *)

\* The constants of the package are in order.
LEMMA Limits ==
  /\ MinQueueCapacity \in Nat \ {0} /\ MaxQueueCapacity \in Int /\ MinQueueCapacity <= MaxQueueCapacity
  /\ MaxBatchSize \in Int /\ 50 <= MaxBatchSize
  /\ DefaultSample \in Int /\ 1024 <= DefaultSample /\ MaxSample \in Int /\ DefaultSample <= MaxSample
  /\ MaxScan \in Int /\ 4096 <= MaxScan
BY SMT DEF MinQueueCapacity, MaxQueueCapacity, MaxBatchSize, DefaultSample, MaxSample, MaxScan

\* An accepted file has the sections that parseConfig makes of it.
LEMMA ConfigOf ==
  ASSUME NEW raw \in RawFiles, ParseConfig(raw) # Invalid
  PROVE  /\ ParseConfig(raw).gateway = Gateway(raw.gateway)
         /\ ParseConfig(raw).request_metadata = RequestMetadata(raw.request_metadata)
         /\ ParseConfig(raw).quota = Quota(raw.quota)
BY DEF ParseConfig

\* What module BatchWriter assumes of its constants: whatever file the process
\* accepts, the queue has room and a batch fits into it (parseConfig).
THEOREM WriterSettingsFit ==
  ASSUME NEW raw \in RawFiles, ParseConfig(raw) # Invalid
  PROVE  /\ ParseConfig(raw).gateway.queue_capacity \in Nat \ {0}
         /\ ParseConfig(raw).gateway.batch_size \in 1..ParseConfig(raw).gateway.queue_capacity
<1> DEFINE g == raw.gateway
<1>1. g.queue_capacity \in Int /\ g.batch_size \in Int
  BY DEF RawFiles
<1>2. QueueCapacity(g) \in MinQueueCapacity..MaxQueueCapacity
  BY <1>1, Limits DEF QueueCapacity, Clamp
<1>3. Clamp(g.batch_size, 1, 50, MaxBatchSize) \in 1..MaxBatchSize
  BY <1>1, Limits DEF Clamp
<1>4. QueueCapacity(g) \in Nat \ {0} /\ BatchSize(g) \in 1..QueueCapacity(g)
  BY <1>2, <1>3, Limits DEF BatchSize
<1>5. ParseConfig(raw).gateway = Gateway(g)
  BY ConfigOf
<1>6. Gateway(g).queue_capacity = QueueCapacity(g) /\ Gateway(g).batch_size = BatchSize(g)
  BY DEF Gateway
<1> QED BY <1>4, <1>5, <1>6

\* What modules ProxyRequest and QuotaPoller assume of theirs: the scan of a
\* request starts with at least a byte and never has a limit below it, the
\* response sample has room, and there is a slot to refresh in.
THEOREM ProxySettingsFit ==
  ASSUME NEW raw \in RawFiles, ParseConfig(raw) # Invalid
  PROVE  /\ ParseConfig(raw).request_metadata.initial_bytes \in Nat \ {0}
         /\ ParseConfig(raw).request_metadata.max_bytes
              \in ParseConfig(raw).request_metadata.initial_bytes..MaxScan
         /\ ParseConfig(raw).gateway.max_nonstream_sample_bytes \in 1024..MaxSample
         /\ ParseConfig(raw).quota.concurrency \in Nat \ {0}
<1> DEFINE m == raw.request_metadata
<1>1. m.initial_bytes \in Int /\ m.max_bytes \in Int
      /\ raw.gateway.max_nonstream_sample_bytes \in Int /\ raw.quota.concurrency \in Int
  BY DEF RawFiles
<1>2. InitialBytes(m) \in 1..MaxScan
  BY <1>1, Limits DEF InitialBytes, Clamp
<1>3. InitialBytes(m) \in Nat \ {0} /\ MaxBytes(m) \in InitialBytes(m)..MaxScan
  BY <1>1, <1>2, Limits DEF MaxBytes
<1>4. Gateway(raw.gateway).max_nonstream_sample_bytes \in 1024..MaxSample
  BY <1>1, Limits DEF Gateway, Clamp
<1>5. Quota(raw.quota).concurrency \in Nat \ {0}
  BY <1>1 DEF Quota, Positive
<1>6. /\ ParseConfig(raw).request_metadata = RequestMetadata(m)
      /\ ParseConfig(raw).gateway = Gateway(raw.gateway) /\ ParseConfig(raw).quota = Quota(raw.quota)
  BY ConfigOf
<1>7. RequestMetadata(m).initial_bytes = InitialBytes(m) /\ RequestMetadata(m).max_bytes = MaxBytes(m)
  BY DEF RequestMetadata
<1> QED BY <1>3, <1>4, <1>5, <1>6, <1>7

\* The transport's settings are clamped by parseConfig and then again by
\* buildTransport: the second time changes nothing, so that the proxy runs with
\* the values that were checked and shown.
THEOREM ClampedTwice ==
  ASSUME NEW raw \in [max_idle_conns : Int, max_idle_conns_per_host : Int, idle_conn_timeout : Int,
           tls_handshake_timeout : Int, expect_continue_timeout : Int, response_header_timeout : Int]
  PROVE  ProxyTransport(ProxyTransport(raw)) = ProxyTransport(raw)
<1>1. \A v, low, default, high \in Int :
        low <= default /\ default <= high =>
          Clamp(Clamp(v, low, default, high), low, default, high) = Clamp(v, low, default, high)
  BY DEF Clamp
<1>2. \A v, default \in Int : default >= 0 =>
        NotNegative(NotNegative(v, default), default) = NotNegative(v, default)
  BY DEF NotNegative
<1>3. /\ 90 * Second \in Int /\ 1 <= 90 * Second /\ 3600 * Second \in Int /\ 90 * Second <= 3600 * Second
      /\ 10 * Second \in Int /\ 1 <= 10 * Second /\ 300 * Second \in Int /\ 10 * Second <= 300 * Second
      /\ Second \in Int /\ Second >= 0
  BY SMT DEF Second
<1> QED BY <1>1, <1>2, <1>3 DEF ProxyTransport
=============================================================================
