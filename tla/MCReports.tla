----------------------------- MODULE MCReports -----------------------------
(***************************************************************************)
(* Instances of Reports for TLC: price files, and request rows that between *)
(* them reach every class of usage and every way to be priced.              *)
(***************************************************************************)
EXTENDS Reports

Text    == <<"text">>
Dated   == <<"text", "DATE">>
Alias   == <<"alias">>
Other   == <<"other">>
Drawing == <<"drawing">>
Picture == <<"picture">>

TextPrice == [input |-> 2, cached_input |-> 1, output |-> 5, reasoning |-> 7, aliases |-> <<Alias>>,
  long_context |-> [threshold |-> 4, input |-> 3, cached_input |-> 2, output |-> 11]]
Media == (Drawing :> [text |-> [input |-> 1, cached_input |-> 1],
                      image |-> [input |-> 2, cached_input |-> 1, output |-> 3]])
         @@ (Picture :> [image |-> [per_image_input |-> 10,
                                    per_image_output |-> ("default" :> 20) @@ ("1K" :> 30)]])

Good      == [pricing |-> (Text :> TextPrice) @@ (Drawing :> [input |-> 1, output |-> 1]), multimodal_pricing |-> Media]
Forgotten == [pricing |-> (Text :> [input |-> 2]) , multimodal_pricing |-> Media]
Twice     == [pricing |-> (Text :> TextPrice) @@ (<<"t2">> :> [input |-> 1, output |-> 1, aliases |-> <<Alias>>]),
              multimodal_pricing |-> Media]
MCFiles == {Good, Forgotten, Twice}

Row == [at |-> 1, key |-> "k1", requested |-> Text, returned |-> Text, status |-> 200,
  source |-> "http_response", mode |-> "usage_metered", outcome |-> "captured", conflict |-> FALSE,
  input |-> 0, output |-> 0, reasoning |-> 0, cached |-> 0, creation |-> 0, image |-> {}]
Image(out, size, toks) == {[operation |-> "generation", size |-> size, inputs |-> 1, outputs |-> out, tokens |-> toks @@ [d \in Dimensions |-> 0]]}
Drawn == [Row EXCEPT !.requested = Drawing, !.returned = Drawing]
Pictured == [Row EXCEPT !.requested = Picture, !.returned = Picture, !.source = Blank]

Short    == [Row EXCEPT !.input = 2, !.cached = 1, !.output = 2, !.reasoning = 1]
Long     == [Row EXCEPT !.at = 2, !.input = 5, !.cached = 9, !.creation = 2, !.output = 1, !.returned = Dated]
CacheHit == [Row EXCEPT !.key = Blank, !.cached = 2, !.returned = Alias]
NoPrice  == [Row EXCEPT !.returned = <<>>, !.requested = Other, !.output = 1]
Lost     == [Row EXCEPT !.returned = <<>>, !.source = Blank, !.outcome = "failed"]
Refused  == [Row EXCEPT !.requested = <<>>, !.returned = <<>>, !.source = Blank, !.mode = "passthrough", !.outcome = "skipped", !.status = 500]
Counted  == [Pictured EXCEPT !.mode = "request_only", !.outcome = "skipped", !.image = Image(0, "1K", <<>>)]
Drew     == [Drawn EXCEPT !.input = 3, !.output = 4, !.image = Image(1, Blank,
              (<<"text", "input">> :> 2) @@ (<<"text", "cached_input">> :> 1) @@ (<<"mixed", "input">> :> 1) @@ (<<"image", "output">> :> 4))]
DrewLost == [Drawn EXCEPT !.source = Blank, !.outcome = "failed", !.image = Image(1, Blank, <<>>)]
Took     == [Pictured EXCEPT !.input = 2, !.output = 2, !.source = "http_response", !.image = Image(1, "1024x1024", <<>>)]
TookNone == [Pictured EXCEPT !.outcome = Blank, !.image = Image(0, "2K", <<>>)]
TookAny  == [Pictured EXCEPT !.input = 2, !.source = "http_response", !.image = Image(2, "640x480", <<>>)]
OldImage == [Row EXCEPT !.input = 1, !.output = 1, !.image = Image(1, Blank, <<>>)]
OldDrawn == [DrewLost EXCEPT !.outcome = Blank, !.input = 3, !.output = 4]
NoTokens == [Row EXCEPT !.source = Blank, !.image = Image(1, Blank, <<>>)]

MCSamples == {Short, Long, CacheHit, NoPrice, Lost, Refused, Counted, Drew, DrewLost, Took, TookNone,
  TookAny, OldImage, OldDrawn, NoTokens}
MCSideUsages == {[input |-> 3, output |-> 2, reasoning |-> 1, cached |-> 0, creation |-> 0, model |-> Text],
                 [input |-> 0, output |-> 2, reasoning |-> 0, cached |-> 0, creation |-> 0, model |-> Dated],
                 [input |-> 1, output |-> 1, reasoning |-> 3, cached |-> 0, creation |-> 0, model |-> Text]}
=============================================================================
