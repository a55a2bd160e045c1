----------------------------- MODULE CostReport -----------------------------
(***************************************************************************)
(* internal/db/cost.go, internal/report/cost.go and the reports built on    *)
(* them: the usage of a table of requests is folded into buckets within     *)
(* which every token has one price, the buckets are priced, and the result  *)
(* is grouped as the report asks.                                           *)
(*                                                                          *)
(* A table is a bag of request rows: no query below depends on the order of *)
(* the rows.  A row carries its children: image is empty or holds the one   *)
(* image_usage row with the token dimensions of the request, a function     *)
(* from pairs <<channel, direction>> that is 0 where there is no row;       *)
(* conflict says that a side-channel event matched to the row is marked     *)
(* conflict.                                                                *)
(***************************************************************************)
EXTENDS Pricing, FiniteSets, Bags

Blank        == ""
Unidentified == <<"unidentified">>
Confidences  == {"observed", "side_channel", "request_only", "missing_usage", "unsupported", "conflict"}
Channels     == {"text", "image", "mixed"}
Directions   == {"input", "cached_input", "output"}
Dimensions   == Channels \X Directions

\* The sum of a function, and of one that is given for a row of each kind.
Add(f)          == SumFunctionOnSet(f, DOMAIN f)
Sum(t, f)       == Add([r \in DOMAIN f |-> t[r] * f[r]])
Flag(b)         == IF b THEN 1 ELSE 0
IsImage(r)      == r.image # {}
ImageOf(r)      == CHOOSE i \in r.image : TRUE
Tokens(r, c, d) == IF IsImage(r) THEN ImageOf(r).tokens[<<c, d>>] ELSE 0

EffectiveModel(r) == IF r.returned # <<>> THEN r.returned
                     ELSE IF r.requested # <<>> THEN r.requested ELSE Unidentified
BugRawKey(r) == r.key
KeyName(r) == IF r.key = Blank THEN "unknown" ELSE r.key

-----------------------------------------------------------------------------
(* Buckets: filter is [since, key ("" is every key), imageOnly, by (the     *)
(* dimensions that are kept beside the model)]                              *)

InScope(t, filter) == {r \in BagToSet(t) :
  /\ r.at >= filter.since
  /\ filter.key \in {Blank, KeyName(r)}
  /\ filter.imageOnly => IsImage(r)}

Cell(r, filter) ==
  [bucket    |-> IF "bucket" \in filter.by THEN r.at ELSE -1,
   key       |-> IF "key" \in filter.by THEN KeyName(r) ELSE Blank,
   model     |-> EffectiveModel(r),
   operation |-> IF "operation" \notin filter.by THEN Blank
                 ELSE IF IsImage(r) THEN ImageOf(r).operation ELSE "unknown"]

\* Reported cache tokens are cut to the input they are part of, creation first.
Creation(r) == IF r.input > 0 THEN Least(r.creation, r.input) ELSE r.creation
Cached(r)   == IF r.input > 0 THEN Least(r.cached, r.input - Creation(r)) ELSE r.cached
Billable(r) == IF r.input > 0 THEN r.input ELSE Cached(r) + Creation(r)

Confidence(r, hasTokens) ==
  IF r.conflict THEN "conflict"
  ELSE IF r.source = "side_channel" THEN "side_channel"
  ELSE IF r.mode = "request_only" THEN "request_only"
  ELSE IF r.mode = "passthrough" THEN "unsupported"
  ELSE IF r.outcome = "captured" \/ (r.outcome = Blank /\ hasTokens) THEN "observed"
  ELSE "missing_usage"

TextConfidence(r)  == Confidence(r, Billable(r) + r.output + r.reasoning > 0)
ImageConfidence(r) == Confidence(r, \E d \in Dimensions : Tokens(r, d[1], d[2]) > 0)

TextCell(r, filter) == [cell |-> Cell(r, filter), requestInput |-> r.input, image |-> IsImage(r)]

TextBuckets(t, filter) ==
  LET S == InScope(t, filter) IN
  [b \in {TextCell(r, filter) : r \in S} |->
     LET B == {r \in S : TextCell(r, filter) = b} IN
     [requests  |-> Sum(t, [r \in B |-> 1]),
      withUsage |-> Sum(t, [r \in B |-> Flag(Billable(r) + r.output + r.reasoning > 0)]),
      input     |-> Sum(t, [r \in B |-> Billable(r)]),
      output    |-> Sum(t, [r \in B |-> r.output]),
      reasoning |-> Sum(t, [r \in B |-> r.reasoning]),
      cached    |-> Sum(t, [r \in B |-> Cached(r)]),
      creation  |-> Sum(t, [r \in B |-> Creation(r)]),
      counts    |-> [c \in Confidences |-> Sum(t, [r \in B |-> Flag(TextConfidence(r) = c)])]]]

\* Of an image request the cached tokens are taken out of the input they are part of.
Dimension(r, d) ==
  LET in == Tokens(r, d[1], "input")  hit == Tokens(r, d[1], "cached_input") IN
  CASE d[2] = "input"        -> in - Least(hit, in)
    [] d[2] = "cached_input" -> IF in > 0 THEN Least(hit, in) ELSE hit
    [] d[2] = "output"       -> Tokens(r, d[1], "output")

ImageCell(r, filter) == [cell |-> [Cell(r, filter) EXCEPT !.operation = ImageOf(r).operation],
                         size |-> ImageOf(r).size]

ImageBuckets(t, filter) ==
  LET S == {r \in InScope(t, filter) : IsImage(r)} IN
  [b \in {ImageCell(r, filter) : r \in S} |->
     LET B == {r \in S : ImageCell(r, filter) = b} IN
     [requests  |-> Sum(t, [r \in B |-> 1]),
      inputs    |-> Sum(t, [r \in B |-> ImageOf(r).inputs]),
      outputs   |-> Sum(t, [r \in B |-> ImageOf(r).outputs]),
      noOutput  |-> Sum(t, [r \in B |-> Flag(/\ r.status \in 200..399
                                             /\ r.mode # "request_only"
                                             /\ ImageOf(r).outputs <= 0)]),
      withUsage |-> Sum(t, [r \in B |-> Flag(\E d \in Dimensions : Dimension(r, d) > 0)]),
      tokens    |-> [d \in Dimensions |-> Sum(t, [r \in B |-> Dimension(r, d)])],
      counts    |-> [c \in Confidences |-> Sum(t, [r \in B |-> Flag(ImageConfidence(r) = c)])]]]

-----------------------------------------------------------------------------
(* Pricing the buckets: evaluateCostBuckets                                 *)

TextUsed(u)  == u.input + u.output + u.reasoning + u.cached + u.creation > 0
ImageUsed(u) == u.inputs + u.outputs > 0 \/ \E d \in Dimensions : u.tokens[d] > 0

CostGroup(cell, grouping) ==
  [bucket    |-> IF "bucket" \in grouping THEN cell.bucket ELSE -1,
   key       |-> IF "key" \in grouping THEN cell.key ELSE Blank,
   model     |-> IF "model" \in grouping THEN cell.model ELSE <<>>,
   operation |-> IF "operation" \in grouping THEN cell.operation ELSE Blank]

BugAlwaysText(p, b) == b.cell.model # <<>>

\* An image request whose model has a multimodal price is billed by its image
\* dimensions only.
BilledAsText(p, b) == ~(b.image /\ HasMultimodal(p, b.cell.model))

TextCost(p, b, u) == CostText(p, b.cell.model, u, b.requestInput)

ImageCosts(p, b, u) ==
  LET price(d) == CostDimension(p, b.cell.model, "image", d[1], d[2], u.tokens[d])
      priced == IF HasImageTokenPricing(p, b.cell.model) THEN Dimensions ELSE {}
      images == IF HasPerImagePricing(p, b.cell.model)
                THEN CostImages(p, b.cell.model, u.inputs, u.outputs, b.size) ELSE Known(0)
  IN  [amount   |-> Add([d \in priced |-> price(d).amount]) + images.amount,
       unpriced |-> \/ \E d \in priced : ~price(d).known
                    \/ ~images.known
                    \/ ImageUsed(u) /\ ~HasImageTokenPricing(p, b.cell.model) /\ ~HasPerImagePricing(p, b.cell.model)]

BugAnyUsage(expected, actual) == IF actual = 0 THEN expected ELSE 0

\* Requests that said they have usage and brought none: compared per model.
Shortfall(expected, actual) == IF actual < expected THEN expected - actual ELSE 0
Reported(u) == u.counts["observed"] + u.counts["side_channel"]

CostResult(p, text, images, T, I) ==
  LET media     == {b \in I : HasMultimodal(p, b.cell.model)}
      fallback  == {b.cell.model : b \in I \ media}
      tokenised == {b.cell.model : b \in {c \in media : HasImageTokenPricing(p, c.cell.model)}}
      ofText(m)  == {b \in T : b.image /\ b.cell.model = m}
      ofImage(m) == {b \in I : b.cell.model = m}
      missing == Add([m \in fallback |-> Shortfall(Add([b \in ofText(m) |-> Reported(text[b])]),
                                                    Add([b \in ofText(m) |-> text[b].withUsage]))])
                 + Add([m \in tokenised |-> Shortfall(Add([b \in ofImage(m) |-> Reported(images[b])]),
                                                       Add([b \in ofImage(m) |-> images[b].withUsage]))])
      billed  == {b \in T : BilledAsText(p, b)}
      textPriced == {b.cell.model : b \in {c \in billed : HasTextPricing(p, c.cell.model)}}
      unpriced == {b.cell.model : b \in {c \in billed : ~HasTextPricing(p, c.cell.model) /\ TextUsed(text[c])}}
                  \cup {b.cell.model : b \in {c \in I \ media : ImageUsed(images[c]) /\ c.cell.model \notin textPriced}}
                  \cup {b.cell.model : b \in {c \in media : ImageCosts(p, c, images[c]).unpriced}}
      counts == [c \in Confidences |-> Add([b \in T |-> text[b].counts[c]])]
      reasons == {c \in {"request_only", "missing_usage", "unsupported", "conflict"} : counts[c] > 0}
        \cup {c \in {"missing_usage"} : missing > 0}
        \cup {c \in {"unpriced_model"} : unpriced # {}}
        \cup {c \in {"image_count_missing"} : \E b \in I : images[b].noOutput > 0}
        \cup {c \in {"image_size_defaulted"} : \E b \in media :
                /\ HasPerImagePricing(p, b.cell.model) /\ images[b].outputs > 0
                /\ NormalizeImageSize(b.size).defaulted}
  IN  [amount  |-> Add([b \in billed |-> TextCost(p, b, text[b]).amount])
                   + Add([b \in media |-> ImageCosts(p, b, images[b]).amount]),
       state   |-> IF reasons = {} THEN "complete" ELSE "partial",
       reasons |-> reasons,
       unpriced |-> Cardinality(unpriced),
       counts  |-> counts,
       missing |-> counts["missing_usage"] + missing]

EvaluateCostBuckets(p, text, images, grouping) ==
  [g \in {CostGroup(b.cell, grouping) : b \in DOMAIN text \cup DOMAIN images} |->
     CostResult(p, text, images, {b \in DOMAIN text : CostGroup(b.cell, grouping) = g},
                {b \in DOMAIN images : CostGroup(b.cell, grouping) = g})]
=============================================================================
