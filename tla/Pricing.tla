------------------------------ MODULE Pricing ------------------------------
(***************************************************************************)
(* internal/pricing: what makes a price file valid, how a model name is     *)
(* resolved to a price, and what a bucket of usage costs.                   *)
(*                                                                          *)
(* A file is [pricing, multimodal_pricing], each a function from names to   *)
(* mappings.  A mapping is a function from the fields that are present, so  *)
(* that its DOMAIN is what the code collects as YAML presence and a missing *)
(* rate decodes as 0.  A null long_context or per_image_output is a mapping *)
(* without fields.  A name is the sequence of its parts between dashes; a   *)
(* rate is a price per token, a number below 0 stands for every value that  *)
(* is not a finite price.                                                   *)
(***************************************************************************)
EXTENDS Integers, Sequences, SequencesExt

CONSTANT Dates      \* the parts of a name that have the form of a date

Field(m, f)    == IF f \in DOMAIN m THEN m[f] ELSE 0
Aliases(entry) == IF "aliases" \in DOMAIN entry THEN entry.aliases ELSE <<>>

Sizes      == {"default", "1K", "2K"}
Modalities == {"text", "image", "audio", "audio_seconds"}
TextRates  == {"input", "cached_input", "output", "reasoning", "cache_creation"}
MediaRates == {"input", "cached_input", "output", "reasoning", "per_second",
  "input_per_second", "output_per_second", "per_minute", "input_per_minute",
  "output_per_minute", "per_image_input"}

-----------------------------------------------------------------------------
(* Validation *)

ValidRates(m, rates) == \A f \in rates \cap DOMAIN m : m[f] >= 0

BugDecodedFields(file) == TRUE

\* What must be written down, for a missing field would decode as a price of 0.
RequiredFields(file) == \A n \in DOMAIN file.pricing :
  LET e == file.pricing[n] IN
  /\ {"input", "output"} \subseteq DOMAIN e
  /\ "long_context" \in DOMAIN e =>
       {"threshold", "input", "output"} \subseteq DOMAIN e.long_context

ValidText(e) ==
  /\ ValidRates(e, TextRates)
  /\ "long_context" \in DOMAIN e =>
       e.long_context.threshold > 0 /\ ValidRates(e.long_context, TextRates)

ValidModality(m) ==
  /\ ValidRates(m, MediaRates)
  /\ "per_image_output" \in DOMAIN m =>
       /\ "default" \in DOMAIN m.per_image_output
       /\ DOMAIN m.per_image_output \subseteq Sizes
       /\ ValidRates(m.per_image_output, Sizes)

ValidAliases(e) ==
  /\ <<>> \notin Range(Aliases(e))
  /\ IsInjective(Aliases(e))

BugOnlyNames(table) == \A n \in DOMAIN table : Range(Aliases(table[n])) \cap DOMAIN table = {}

\* An alias is not the name of an entry, nor an alias of another entry.
ValidNamespace(table) ==
  /\ \A n \in DOMAIN table : Range(Aliases(table[n])) \cap DOMAIN table = {}
  /\ \A m, n \in DOMAIN table :
       m # n => Range(Aliases(table[m])) \cap Range(Aliases(table[n])) = {}

Valid(file) ==
  /\ RequiredFields(file)
  /\ \A n \in DOMAIN file.pricing :
       ValidText(file.pricing[n]) /\ ValidAliases(file.pricing[n])
  /\ \A n \in DOMAIN file.multimodal_pricing :
       LET e == file.multimodal_pricing[n] IN
       ValidAliases(e) /\ \A m \in Modalities \cap DOMAIN e : ValidModality(e[m])
  /\ ValidNamespace(file.pricing)
  /\ ValidNamespace(file.multimodal_pricing)

-----------------------------------------------------------------------------
(* Loading and looking up *)

\* The index is filled in the order in which the map is iterated, which is not
\* determined: each alias gets one of the entries that claim it.
AliasIndexes(table) ==
  LET claimed == UNION {Range(Aliases(table[n])) : n \in DOMAIN table} IN
  {ix \in [claimed -> DOMAIN table] : \A a \in claimed : a \in Range(Aliases(table[ix[a]]))}

Parse(file) == IF ~Valid(file) THEN {} ELSE
  {[text |-> file.pricing, media |-> file.multimodal_pricing, textAlias |-> t, mediaAlias |-> m] :
     t \in AliasIndexes(file.pricing), m \in AliasIndexes(file.multimodal_pricing)}

Canonicalize(name) ==
  IF Len(name) > 1 /\ Last(name) \in Dates THEN Front(name) ELSE name

\* The name of the entry a model resolves to: none, or one.
Resolve(table, index, model) ==
  IF model \in DOMAIN table THEN {model}
  ELSE IF model \in DOMAIN index THEN {index[model]}
  ELSE {Canonicalize(model)} \cap DOMAIN table

Lookup(p, model)           == {p.text[n] : n \in Resolve(p.text, p.textAlias, model)}
LookupMultimodal(p, model) == {p.media[n] : n \in Resolve(p.media, p.mediaAlias, model)}
HasMultimodal(p, model)    == LookupMultimodal(p, model) # {}
HasTextPricing(p, model)   == Lookup(p, model) # {}

Modality(e, m) == IF m \in DOMAIN e THEN e[m] ELSE <<>>

HasPerImagePricing(p, model) == \E e \in LookupMultimodal(p, model) :
  {"per_image_input", "per_image_output"} \cap DOMAIN Modality(e, "image") # {}

HasImageTokenPricing(p, model) == \E e \in LookupMultimodal(p, model) :
  \E m \in {"text", "image"}, f \in {"input", "cached_input", "output", "reasoning"} :
    Field(Modality(e, m), f) > 0

-----------------------------------------------------------------------------
(* Costs: the amount, and whether everything in it has a price *)

Unknown == [amount |-> 0, known |-> FALSE]
Known(a) == [amount |-> a, known |-> TRUE]

Least(a, b) == IF a < b THEN a ELSE b

InputBreakdown(input, cached, creation) ==
  LET c == Least(creation, input)
      h == Least(cached, input - c)
  IN  IF input <= 0 THEN [regular |-> 0, cached |-> cached, creation |-> creation]
                    ELSE [regular |-> input - c - h, cached |-> h, creation |-> c]

ResolveTextTier(e, requestInput) ==
  IF "long_context" \notin DOMAIN e THEN e
  ELSE IF requestInput < e.long_context.threshold THEN e ELSE e.long_context

ComputeCost(e, u) ==
  LET in       == InputBreakdown(u.input, u.cached, u.creation)
      creation == IF Field(e, "cache_creation") > 0 THEN e.cache_creation ELSE Field(e, "input")
      apart    == u.reasoning > 0 /\ Field(e, "reasoning") > 0
      regular  == IF apart THEN u.output - u.reasoning ELSE u.output
  IN  in.cached * Field(e, "cached_input") + in.regular * Field(e, "input") + in.creation * creation
         + (IF regular > 0 THEN regular * Field(e, "output") ELSE 0)
         + (IF apart THEN u.reasoning * e.reasoning ELSE 0)

CostText(p, model, u, requestInput) ==
  IF ~HasTextPricing(p, model) THEN Unknown
  ELSE LET e == CHOOSE x \in Lookup(p, model) : TRUE
       IN  Known(ComputeCost(ResolveTextTier(e, requestInput), u))

\* The mixed channel has the price of the modality that is asked for.
CostDimension(p, model, modality, channel, direction, amount) ==
  LET e    == CHOOSE x \in LookupMultimodal(p, model) : TRUE
      m    == IF channel \in {"text", "image", "audio"} THEN channel ELSE modality
      rate == Field(Modality(e, m), direction)
  IN  IF amount <= 0 THEN Known(0)
      ELSE IF ~HasMultimodal(p, model) THEN Unknown
      ELSE IF rate <= 0 THEN Unknown
      ELSE Known(amount * rate)

NormalizeImageSize(size) ==
  CASE size = "default"                      -> [key |-> "default", defaulted |-> FALSE]
    [] size \in {"1K", "1024x1024"}          -> [key |-> "1K", defaulted |-> FALSE]
    [] size \in {"2K", "2048x2048"}          -> [key |-> "2K", defaulted |-> FALSE]
    [] OTHER                                 -> [key |-> "default", defaulted |-> TRUE]

\* What is known stays in the amount when the other side has no price.
CostImages(p, model, inputs, outputs, size) ==
  LET e       == CHOOSE x \in LookupMultimodal(p, model) : TRUE
      m       == Modality(e, "image")
      key     == NormalizeImageSize(size).key
      inRate  == IF "per_image_input" \in DOMAIN m THEN {m.per_image_input} ELSE {}
      outRate == IF "per_image_output" \notin DOMAIN m THEN {}
                 ELSE {m.per_image_output[k] : k \in {key} \cap DOMAIN m.per_image_output}
      Side(n, rate) == IF n <= 0 THEN Known(0)
                       ELSE IF rate = {} THEN Unknown
                       ELSE Known(n * (CHOOSE x \in rate : TRUE))
      a == Side(inputs, inRate)
      b == Side(outputs, outRate)
  IN  IF inputs <= 0 /\ outputs <= 0 THEN Known(0)
      ELSE IF ~HasMultimodal(p, model) THEN Unknown
      ELSE [amount |-> a.amount + b.amount, known |-> a.known /\ b.known]
=============================================================================
