------------------------------ MODULE Reports ------------------------------
(***************************************************************************)
(* The reports of the web interface beside a writer that goes on: a report  *)
(* runs its queries one after the other inside one read transaction of the  *)
(* read-only connection, and prices what it found with the price file that  *)
(* was loaded when the process started.                                     *)
(*                                                                          *)
(* The result of a query is a function of the table it ran on, so the       *)
(* reader keeps, for each of its queries, that table: every report that     *)
(* could have been asked for is then a function of reader.seen.             *)
(***************************************************************************)
EXTENDS CostReport

CONSTANTS
  Files,      \* the price files that may lie in the configuration directory
  Samples,    \* the request rows a flush may insert
  SideUsages, \* the usages a side-channel event may bring
  MaxRows     \* bound: rows in the table

\* The columns of a row.  The extractor makes no count negative; those of the
\* side channel are stored as CLIProxyAPI reports them, and it is taken to report
\* none either.  A request has at most one row in image_usage.
Sources     == {Blank, "http_response", "side_channel"}
ImageUsages == [operation : STRING, size : STRING, inputs : Nat, outputs : Nat,
                tokens : [Dimensions -> Nat]]
Requests    == [at : Int, key : STRING, requested : Seq(STRING), returned : Seq(STRING),
                status : Int, source : Sources, mode : STRING, outcome : STRING, conflict : BOOLEAN,
                input : Nat, output : Nat, reasoning : Nat, cached : Nat, creation : Nat,
                image : SUBSET ImageUsages]
Usages      == [input : Nat, output : Nat, reasoning : Nat, cached : Nat, creation : Nat,
                model : Seq(STRING)]

ASSUME SamplesAssumption == Samples \subseteq Requests /\ \A r \in Samples : \A i, j \in r.image : i = j
ASSUME UsagesAssumption  == SideUsages \subseteq Usages

\* A rate is a number, and so is one that is left out.
ASSUME FilesAssumption == \A f \in Files :
  /\ \A n \in DOMAIN f.pricing : \A rate \in TextRates :
       /\ Field(f.pricing[n], rate) \in Int
       /\ "long_context" \in DOMAIN f.pricing[n] => Field(f.pricing[n].long_context, rate) \in Int
  /\ \A n \in DOMAIN f.multimodal_pricing : \A m \in Modalities :
       LET e == Modality(f.multimodal_pricing[n], m) IN
       /\ \A rate \in MediaRates : Field(e, rate) \in Int
       /\ "per_image_output" \in DOMAIN e => \A k \in DOMAIN e.per_image_output : e.per_image_output[k] \in Int

VARIABLES
  file,       \* the price file of the running process
  prices,     \* what pricing.Load made of it
  table,      \* the committed rows of request_usage with their children
  reader      \* [pc, tx, seen]: the read transaction of the report handler

vars == <<file, prices, table, reader>>

Tables  == {"rows", "text", "image"}        \* the queries, in this order
Nothing == [q \in Tables |-> EmptyBag]
Idle    == [pc |-> "idle", tx |-> EmptyBag, seen |-> Nothing]

-----------------------------------------------------------------------------
(* What the handlers return, from one snapshot s = reader.seen              *)

Scope(since, key, by) == [since |-> since, key |-> key, imageOnly |-> FALSE, by |-> by]
Images(since) == [since |-> since, key |-> Blank, imageOnly |-> TRUE, by |-> {"operation"}]

UsageRows(t, filter, grouping) ==
  LET S == InScope(t, filter)
      Group(r) == CostGroup(Cell(r, [filter EXCEPT !.by = grouping]), grouping)
  IN  [g \in {Group(r) : r \in S} |->
         LET B == {r \in S : Group(r) = g} IN
         [requests |-> Sum(t, [r \in B |-> 1]),
          failed   |-> Sum(t, [r \in B |-> Flag(r.status >= 400)]),
          input    |-> Sum(t, [r \in B |-> r.input]),
          output   |-> Sum(t, [r \in B |-> r.output])]]

Snapshot(s, filter, grouping) ==
  [rows  |-> UsageRows(s["rows"], filter, grouping),
   text  |-> TextBuckets(s["text"], filter),
   image |-> ImageBuckets(s["image"], filter)]

ModelsReportSnapshot(s, since, key)     == Snapshot(s, Scope(since, key, {}), {"model"})
KeysReportSnapshot(s, since)            == Snapshot(s, Scope(since, Blank, {"key"}), {"key"})
TimeseriesReportSnapshot(s, since, key) == Snapshot(s, Scope(since, key, {"bucket"}), {"bucket"})
ModelAssetsReportSnapshot(s, since)     == Snapshot(s, Scope(since, Blank, {}), {"model"})
ImageReportSnapshot(s, since)           == Snapshot(s, Images(since), {"model", "operation"})

\* These return one row, even when no request is in scope.
SummaryReportSnapshot(s, since)  == Snapshot(s, Scope(since, Blank, {}), {})
OverviewReportSnapshot(s, since) == Snapshot(s, Scope(since, Blank, {}), {})

CompleteZeroCost == [amount |-> 0, state |-> "complete", reasons |-> {}, unpriced |-> 0,
                     counts |-> [c \in Confidences |-> 0], missing |-> 0]
NoUsage == [requests |-> 0, failed |-> 0, input |-> 0, output |-> 0]

OrElse(f, g, default) == IF g \in DOMAIN f THEN f[g] ELSE default

Everything == CostGroup([bucket |-> -1, key |-> Blank, model |-> <<>>, operation |-> Blank], {})

Priced(p, snap, grouping) ==
  LET costs == EvaluateCostBuckets(p, snap.text, snap.image, grouping) IN
  [g \in DOMAIN snap.rows |-> [usage |-> snap.rows[g], cost |-> OrElse(costs, g, CompleteZeroCost)]]

Whole(p, snap) ==
  [usage |-> OrElse(snap.rows, Everything, NoUsage),
   cost  |-> OrElse(EvaluateCostBuckets(p, snap.text, snap.image, {}), Everything, CompleteZeroCost)]

Models(p, s, since, key)     == Priced(p, ModelsReportSnapshot(s, since, key), {"model"})
KeysReport(p, s, since)      == Priced(p, KeysReportSnapshot(s, since), {"key"})
Timeseries(p, s, since, key) == Priced(p, TimeseriesReportSnapshot(s, since, key), {"bucket"})
ImageModels(p, s, since)     == Priced(p, ImageReportSnapshot(s, since), {"model", "operation"})
Summary(p, s, since)         == Whole(p, SummaryReportSnapshot(s, since))

ImageSummary(p, s, since) ==
  LET snap == ImageReportSnapshot(s, since)
      costs == EvaluateCostBuckets(p, snap.text, snap.image, {})
  IN  OrElse(costs, Everything, CompleteZeroCost)

Overview(p, s, since) ==
  LET whole == Whole(p, OverviewReportSnapshot(s, since)) IN
  [whole |-> whole, status |-> IF whole.cost.state = "partial" THEN "partial" ELSE "complete"]

\* A used model without any price makes the assets partial even when it has
\* brought no tokens yet.
ModelAssets(p, s, since) ==
  LET items == Priced(p, ModelAssetsReportSnapshot(s, since), {"model"})
      configured(g) == HasTextPricing(p, g.model) \/ HasMultimodal(p, g.model)
  IN  [items       |-> items,
       costPartial |-> \E g \in DOMAIN items : items[g].cost.state # "complete" \/ ~configured(g)]

-----------------------------------------------------------------------------
(* Steps *)

Init ==
  /\ file \in Files
  /\ prices \in Parse(file)
  /\ table = EmptyBag
  /\ reader = Idle

\* One commit of the batch writer: a row with its children.
InsertBatch(r) ==
  /\ BagCardinality(table) < MaxRows
  /\ table' = table (+) SetToBag({r})
  /\ UNCHANGED <<file, prices, reader>>

\* A side-channel event finds its request: usage is merged into a row that has
\* none, and into that row only; the children stay as they are.
MergeSideUsage(r, u) ==
  /\ BagIn(r, table)
  /\ r.input + r.output + r.reasoning + r.cached + r.creation = 0
  /\ table' = (table (-) SetToBag({r})) (+) SetToBag({
       [r EXCEPT !.source = "side_channel", !.input = u.input, !.output = u.output,
                 !.reasoning = u.reasoning, !.cached = u.cached, !.creation = u.creation,
                 !.returned = IF @ = <<>> THEN u.model ELSE @]})
  /\ UNCHANGED <<file, prices, reader>>

\* Usage that contradicts what the row has is marked and not merged.
MarkConflict(r) ==
  /\ BagIn(r, table) /\ ~r.conflict
  /\ r.input + r.output + r.reasoning + r.cached + r.creation > 0
  /\ r.source # "side_channel"
  /\ table' = (table (-) SetToBag({r})) (+) SetToBag({[r EXCEPT !.conflict = TRUE]})
  /\ UNCHANGED <<file, prices, reader>>

BeginTx ==
  /\ reader.pc = "idle"
  /\ reader' = [reader EXCEPT !.pc = "rows"]
  /\ UNCHANGED <<file, prices, table>>

\* The snapshot is taken by the first query of a deferred transaction.
FirstQuery ==
  /\ reader.pc = "rows"
  /\ reader' = [reader EXCEPT !.pc = "text", !.tx = table, !.seen["rows"] = table]
  /\ UNCHANGED <<file, prices, table>>

QueryTextCostBuckets ==
  /\ reader.pc = "text"
  /\ reader' = [reader EXCEPT !.pc = "image", !.seen["text"] = reader.tx]
  /\ UNCHANGED <<file, prices, table>>

BugQueryOutsideTx ==
  /\ reader.pc = "image"
  /\ reader' = [reader EXCEPT !.pc = "done", !.seen["image"] = table]
  /\ UNCHANGED <<file, prices, table>>

QueryImageCostBuckets ==
  /\ reader.pc = "image"
  /\ reader' = [reader EXCEPT !.pc = "done", !.seen["image"] = reader.tx]
  /\ UNCHANGED <<file, prices, table>>

\* The answer is sent, or a query or the commit failed and the request with it.
Finish ==
  /\ reader.pc # "idle"
  /\ reader' = Idle
  /\ UNCHANGED <<file, prices, table>>

\* The process is restarted on a price file; it does not come up on one that is
\* not valid.
Restart(f) ==
  /\ file' = f
  /\ prices' \in Parse(f)
  /\ reader' = Idle
  /\ UNCHANGED table

Next ==
  \/ \E r \in Samples : InsertBatch(r)
  \/ \E r \in BagToSet(table) : MarkConflict(r) \/ \E u \in SideUsages : MergeSideUsage(r, u)
  \/ BeginTx \/ FirstQuery \/ QueryTextCostBuckets \/ QueryImageCostBuckets \/ Finish
  \/ \E f \in Files : Restart(f)

Spec == Init /\ [][Next]_vars

-----------------------------------------------------------------------------
(* Properties                                                               *)

Answered == reader.pc = "done"
Sinces   == {r.at : r \in BagToSet(reader.tx)}
Totals(report, f)  == Add([g \in DOMAIN report |-> report[g].usage[f]])
CountOf(report, c) == Add([g \in DOMAIN report |-> report[g].cost.counts[c]])
AmountOf(report)   == Add([g \in DOMAIN report |-> report[g].cost.amount])

\* The reasoning of every request is a part of its output.
ReasoningIsInside == \A r \in BagToSet(reader.tx) : r.reasoning <= r.output

\* Every request of the scope is counted and billed once in each report,
\* whatever it groups by (blank keys, unnamed models and requests without usage
\* included), and a report narrowed to a key is that key's row of the Keys
\* report.  The amounts need ReasoningIsInside: computeCost clamps reasoning to
\* output for a bucket as a whole, and what one request has too much another
\* of its bucket may take.
PartsMakeTheWhole == Answered => \A since \in Sinces :
  LET s == reader.seen
      sum == Summary(prices, s, since)
      keys == KeysReport(prices, s, since)
      Same(report, row) ==
        /\ \A f \in {"requests", "failed", "input", "output"} : Totals(report, f) = row.usage[f]
        /\ \A c \in Confidences : CountOf(report, c) = row.cost.counts[c]
        /\ ReasoningIsInside => AmountOf(report) = row.cost.amount
  IN  /\ \A report \in {Models(prices, s, since, Blank), keys, Timeseries(prices, s, since, Blank)} :
           Same(report, sum)
      /\ Overview(prices, s, since).whole.usage.requests = Add(sum.cost.counts)
      /\ \A g \in DOMAIN keys :
           /\ Same(Models(prices, s, since, g.key), keys[g])
           /\ Same(Timeseries(prices, s, since, g.key), keys[g])

\* What one request costs, from its row alone.
RequestCost(p, r) ==
  LET m == EffectiveModel(r)
      i == ImageOf(r)
      Price(d) == CostDimension(p, m, "image", d[1], d[2], Dimension(r, d)).amount
  IN  IF ~IsImage(r) \/ ~HasMultimodal(p, m) THEN CostText(p, m, r, r.input).amount
      ELSE Add([d \in IF HasImageTokenPricing(p, m) THEN Dimensions ELSE {} |-> Price(d)])
           + (IF HasPerImagePricing(p, m)
              THEN CostImages(p, m, i.inputs, i.outputs, i.size).amount ELSE 0)

\* The total is the sum of what each request costs by itself: the buckets keep
\* tokens of different tiers and kinds apart, and an image request is not
\* billed a second time by its token summary.
EachRequestIsBilledOnce ==
  Answered /\ ReasoningIsInside => \A since \in Sinces :
  Summary(prices, reader.seen, since).cost.amount
    = Sum(reader.tx, [r \in {x \in BagToSet(reader.tx) : x.at >= since} |-> RequestCost(prices, r)])

\* A total is called complete only when it would be for each of its requests:
\* the surplus of one request does not hide the gap of another.
GapsAreNotMasked == Answered => \A since \in Sinces :
  (Summary(prices, reader.seen, since).cost.state = "complete")
    <=> \A r \in BagToSet(reader.tx) : r.at >= since =>
          Summary(prices, [q \in Tables |-> SetToBag({r})], since).cost.state = "complete"

\* Every rate for input, for output and for an image that is written down charges
\* something.
LongContext(e) == IF "long_context" \in DOMAIN e THEN {e.long_context} ELSE {}
WrittenRatesCharge(p) ==
  /\ \A n \in DOMAIN p.text : \A tier \in {p.text[n]} \cup LongContext(p.text[n]) :
       \A f \in {"input", "output"} \cap DOMAIN tier : tier[f] > 0
  /\ \A n \in DOMAIN p.media : LET m == Modality(p.media[n], "image") IN
       "per_image_output" \in DOMAIN m => \A k \in DOMAIN m.per_image_output : m.per_image_output[k] > 0

\* What a request has to pay for.  As text: tokens that did not come from a cache,
\* whose rate is optional.  As an image: tokens that were reported, be it without
\* their children, where the model has a price for them, and images.
MustPay(p, r) ==
  LET m == EffectiveModel(r) IN
  IF ~IsImage(r) \/ ~HasMultimodal(p, m) THEN Billable(r) - Cached(r) + r.output > 0
  ELSE \/ HasImageTokenPricing(p, m) /\ ImageConfidence(r) \in {"observed", "side_channel"}
       \/ HasPerImagePricing(p, m) /\ ImageOf(r).outputs > 0

\* A total that is called complete has charged every request that has to pay,
\* usage that came by the side channel included: price fields that were forgotten
\* and children that are missing do not make it free.
CompleteMeansCharged == Answered /\ WrittenRatesCharge(prices) => \A since \in Sinces :
  Summary(prices, reader.seen, since).cost.state = "complete" =>
    \A r \in BagToSet(reader.tx) :
      r.at >= since /\ MustPay(prices, r) => RequestCost(prices, r) > 0

\* The queries of a report have seen one table: each image bucket has its text
\* bucket, each row its cost, and the console's sections agree on the state.
ReportIsOneMoment == Answered => \A since \in Sinces :
  LET s == reader.seen
      snap == ModelsReportSnapshot(s, since, Blank)
      n(S, f) == Add([b \in S |-> f[b].requests])
  IN  /\ n({b \in DOMAIN snap.text : b.image}, snap.text) = n(DOMAIN snap.image, snap.image)
      /\ {g.model : g \in DOMAIN snap.rows} = {b.cell.model : b \in DOMAIN snap.text}
      /\ ReasoningIsInside => ImageSummary(prices, s, since).amount <= Summary(prices, s, since).cost.amount
      /\ Totals(ImageModels(prices, s, since), "requests") = n(DOMAIN snap.image, snap.image)
      /\ Overview(prices, s, since).status = "partial" => ModelAssets(prices, s, since).costPartial

\* A restart on the same price file prices everything as before: the index
\* does not depend on the order in which the entries of the file are visited.
PricesSurviveRestart == [][file' = file => prices' = prices]_vars
=============================================================================
