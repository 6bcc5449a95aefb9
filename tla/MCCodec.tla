------------------------------ MODULE MCCodec ------------------------------
(***************************************************************************)
(* How a forecast becomes text and text a forecast again, each its own     *)
(* component: the coder and its tables, the ladder of layouts, hours made  *)
(* periods, the cloud band, the columns of a message, the codec server's   *)
(* search and split, the box parts are pasted into, the screen, a bulletin *)
(* of the avalanche center, a request as made and as read, what is fetched  *)
(* for one, the account they all are under.                                *)
(* They share nothing; a behaviour is one of any, the others at rest.      *)
(***************************************************************************)
EXTENDS RansTables, Rans, Layout, Aggregate, CloudBand, WireBody, CodecServer, Parts, Screen,
        Bulletin, Request, Upstream, Account

CONSTANTS Slab, Loose, Glide  \* problem types

Summit == [lat |-> 4724417, lon |-> -12175684]
Valley == [lat |-> 6113906, lon |-> 1051123]
MCHours == {263, 264, 313}
MCZoneAt ==
  [c \in {Summit, Valley} |-> [h \in 0 .. 800 |-> IF c = Summit THEN -8 ELSE IF h < 264 THEN 1 ELSE 2]]
MCPins == {Valley}
MCFixes == {Summit}

Builder(device, mode, model, groups, day) ==
  [device |-> device, mode |-> mode, model |-> model, groups |-> groups, scale |-> "us",
   two |-> TRUE, day |-> day]
Satellite == Builder("i", "d", "eu", {"f", "a", "e", "w500"}, "today")
Internet == Builder("d", "r", "best", {"f", "c"}, NoWord)
MCSelections == {Satellite, Internet}
MCStarts == {<<Satellite, 0>>, <<Internet, 0>>, <<Internet, 400>>}
MCFooters == { << <<"https", "link">>, <<"footer", Valley>> >> }
-----------------------------------------------------------------------------

VARIABLE component
vars == <<component, tableVars, ransVars, layoutVars, aggregateVars, cloudVars, wireVars, codecVars,
          partsVars, screenVars, bulletinVars, requestVars, upstreamVars, accountVars>>

Init ==
  /\ component \in {"tables", "rans", "layout", "aggregate", "clouds", "wire", "server", "parts",
                    "screen", "bulletin", "request", "upstream", "account"}
  /\ TablesInit /\ RansInit /\ LayoutInit /\ AggregateInit /\ CloudInit
  /\ WireInit /\ CodecInit /\ PartsInit /\ ScreenInit /\ BulletinInit /\ RequestInit /\ UpstreamInit
  /\ AccountInit
  \* Where a request would start makes no difference to the others.
  /\ component # "request" => selection = Satellite /\ place.gps = NoFix

Next ==
  /\ UNCHANGED component
  /\ \/ /\ component = "tables" /\ TablesNext
        /\ UNCHANGED <<ransVars, layoutVars, aggregateVars, cloudVars,
                      wireVars, codecVars, partsVars, screenVars, bulletinVars, requestVars, upstreamVars,
                      accountVars>>
     \/ /\ component = "rans" /\ RansNext
        /\ UNCHANGED <<tableVars, layoutVars, aggregateVars, cloudVars,
                      wireVars, codecVars, partsVars, screenVars, bulletinVars, requestVars, upstreamVars,
                      accountVars>>
     \/ /\ component = "layout" /\ LayoutNext
        /\ UNCHANGED <<tableVars, ransVars, aggregateVars, cloudVars,
                      wireVars, codecVars, partsVars, screenVars, bulletinVars, requestVars, upstreamVars,
                      accountVars>>
     \/ /\ component = "aggregate" /\ AggregateNext
        /\ UNCHANGED <<tableVars, ransVars, layoutVars, cloudVars,
                      wireVars, codecVars, partsVars, screenVars, bulletinVars, requestVars, upstreamVars,
                      accountVars>>
     \/ /\ component = "clouds" /\ CloudNext
        /\ UNCHANGED <<tableVars, ransVars, layoutVars, aggregateVars,
                      wireVars, codecVars, partsVars, screenVars, bulletinVars, requestVars, upstreamVars,
                      accountVars>>
     \/ /\ component = "wire" /\ WireNext
        /\ UNCHANGED <<tableVars, ransVars, layoutVars, aggregateVars, cloudVars,
                      codecVars, partsVars, screenVars, bulletinVars, requestVars, upstreamVars,
                      accountVars>>
     \/ /\ component = "server" /\ CodecNext
        /\ UNCHANGED <<tableVars, ransVars, layoutVars, aggregateVars, cloudVars,
                      wireVars, partsVars, screenVars, bulletinVars, requestVars, upstreamVars,
                      accountVars>>
     \/ /\ component = "parts" /\ PartsNext
        /\ UNCHANGED <<tableVars, ransVars, layoutVars, aggregateVars, cloudVars,
                      wireVars, codecVars, screenVars, bulletinVars, requestVars, upstreamVars,
                      accountVars>>
     \/ /\ component = "screen" /\ ScreenNext
        /\ UNCHANGED <<tableVars, ransVars, layoutVars, aggregateVars, cloudVars,
                      wireVars, codecVars, partsVars, bulletinVars, requestVars, upstreamVars,
                      accountVars>>
     \/ /\ component = "bulletin" /\ BulletinNext
        /\ UNCHANGED <<tableVars, ransVars, layoutVars, aggregateVars, cloudVars,
                      wireVars, codecVars, partsVars, screenVars, requestVars, upstreamVars,
                      accountVars>>
     \/ /\ component = "request" /\ RequestNext
        /\ UNCHANGED <<tableVars, ransVars, layoutVars, aggregateVars, cloudVars,
                      wireVars, codecVars, partsVars, screenVars, bulletinVars, upstreamVars, accountVars>>
     \/ /\ component = "upstream" /\ UpstreamNext
        /\ UNCHANGED <<tableVars, ransVars, layoutVars, aggregateVars, cloudVars,
                      wireVars, codecVars, partsVars, screenVars, bulletinVars, requestVars, accountVars>>
     \/ /\ component = "account" /\ AccountNext
        /\ UNCHANGED <<tableVars, ransVars, layoutVars, aggregateVars, cloudVars,
                      wireVars, codecVars, partsVars, screenVars, bulletinVars, requestVars, upstreamVars>>

Spec == Init /\ [][Next]_vars

(* The account promises nothing once storage did not give back or let go of
   what it had. *)
Trusted == ~marred.failed

-----------------------------------------------------------------------------
MCTables == {BuildRansTable(f) : f \in {<<4>>, <<1, 3>>, <<2, 1, 1>>, <<1, 2, 1>>}}
MCRequestHours == 240 .. 263
MCOffsets == {-12, 5, 14}
-----------------------------------------------------------------------------
Asking(asked, hours, hour, offset, model, elevation, quota) ==
  [vars |-> asked, hours |-> hours, hour |-> hour, offset |-> offset, model |-> model,
   elevation |-> elevation, quota |-> quota]
Plain == [kind |-> "none", remaining |-> 0]
Left(n) == [kind |-> "free", remaining |-> n]
MCForecasts ==
  {Asking({"temp", "dewpoint", "freeze"}, <<1, 3, 6>>, 22, -7, "best", 3040, Left(5)),
   Asking({"dewpoint", "freeze", "rain"}, <<6, 6, 12>>, 0, 5, "EU", 120, Left(0)),
   Asking({"clouds"}, <<1, 3, 6>>, 6, 0, "CA", 3040, [kind |-> "over", remaining |-> 0]),
   Asking({"clouds"}, <<3, 3>>, 6, 0, "US", 8850, Plain),
   Asking({"clouds", "precip"}, <<6, 12>>, 6, 0, "US", 0, Plain),
   Asking({"precip", "snow"}, <<1, 3, 3>>, 12, 0, "best", 0, Plain),
   Asking({"aq_pm25", "aq_o3", "aqi"}, [p \in 1 .. 9 |-> 12], 0, 2, "DE", 0, Plain),
   Asking({"aq_no2", "aqi"}, <<3, 6>>, 0, 2, "DE", 0, Plain),
   Asking({"aqi_eu_o3", "aqi_eu_pm10", "aqi_eu"}, <<3, 6>>, 18, 2, "best", 0, Plain),
   Asking({"gust", "wind", "w500"}, <<1, 3, 6>>, 0, 0, "best", 0, Plain),
   Asking({"wind", "w300", "w700"}, <<6, 6, 12>>, 0, 0, "best", 0, Plain),
   Asking({"agreement"}, [p \in 1 .. 16 |-> 12], 0, 0, "CA", 0, Plain)}

(* A series takes the last of its three values for good. *)
Held(a, b, c, n) == [p \in 1 .. n |-> CASE p = 1 -> a [] p = 2 -> b [] OTHER -> c]
Of(v, n) == {Held(v[s[1]], v[s[2]], v[s[3]], n) :
               s \in {<<1, 2, 3>>, <<1, 3, 1>>, <<3, 1, 2>>, <<2, 2, 1>>, <<3, 2, 3>>}}
MCRaw(c, n) ==
  CASE c = "weathercode" -> {Held(61, 42, 66, n)}
    [] c = "temp" -> Of(<<-30, 0, 34>>, n)
    [] c = "dewpoint" -> Of(<<-45, -1, 20>>, n)
    [] c = "freeze" -> Of(<<-900, 30480, 200000>>, n)
    [] c = "clouds" -> {[p \in 1 .. n |-> [l \in 1 .. 9 |-> IF l % 2 = 0 THEN s[p] ELSE 7]] :
                          s \in Of(<<0, 55, 100>>, n)}
    [] c \in AqColumn -> Of(<<Unset, 12, 130>>, n)
    [] c \in Headline -> {[p \in 1 .. n |-> [index |-> s[p], dominant |-> IF p = 2 THEN Unset ELSE d]] :
                            s \in Of(<<Unset, 40, 510>>, n), d \in {1, 6}}
    [] c = "precip" -> Of(<<0, 30, 100>>, n)
    [] c \in {"snow", "rain"} -> Of(<<0, 3969, 99225>>, n)
    [] c \in WindColumn -> {[p \in 1 .. n |-> [kph |-> s[p], dir |-> d[p]]] :
                            s \in Of(<<0, 10, 250>>, n), d \in {Held(3, 3, 9, n), Held(7, 0, 2, n)}}
    [] c = "agreement" -> {[p \in 1 .. n |-> [m \in DOMAIN CenterHorizon |->
                              IF m = late /\ p > 3 THEN Unset ELSE IF m = "US" THEN s[p] ELSE 3]] :
                            s \in Of(<<0, 2, Unset>>, n), late \in {"EU", "DE"}}
-----------------------------------------------------------------------------
Hour(temp, code, rain, snow) ==
  [temp |-> temp, dew |-> IF temp = NoReading THEN NoReading ELSE temp - 3, code |-> code,
   rain |-> rain, snow |-> snow, above |-> FALSE, gust |-> rain]
Thirds ==
  {<<0, 1, 2>>, <<1, 1, 1>>, <<5, 0, 2>>, <<2, 4, 5>>, <<6, 5, -3>>, <<NoReading, 2, NoReading>>,
   <<-3, NoReading, 6>>, <<3, -1, 3>>}
Curves ==
  {[from |-> 18, offset |-> o, starts |-> <<18, 21, 24>>, lengths |-> <<3, 3, 3>>,
    hours |-> [i \in 1 .. 9 |-> Hour((a \o b \o c)[i], 3, 0, 0)]] :
     a \in Thirds, b \in Thirds, c \in Thirds, o \in {0, 3, -10}}
(* Upstream ends early: on the axis, or in nulls. *)
Ragged ==
  {[from |-> 21, offset |-> 5, starts |-> <<21, 24>>, lengths |-> <<3, 6>>,
    hours |-> [i \in 1 .. n |-> Hour(IF i > k THEN NoReading ELSE i, 3, 0, 0)]] :
     n \in {2, 3, 5, 9}, k \in 0 .. 9}
Kinds ==
  {Hour(20, 0, 0, 0), Hour(6, 3, 5, 0), Hour(6, 45, 0, 0), Hour(12, 51, 10, 0),
   Hour(12, 63, 250, 0), Hour(12, 81, 300, 0), Hour(-12, 73, 0, 350), Hour(2, 71, 15, 140),
   Hour(-2, 85, 0, 300), Hour(-6, 66, 50, 0), Hour(20, 95, 800, 0), Hour(-6, 61, 100, 0),
   Hour(NoReading, NoReading, 0, 0), [Hour(4, 82, 600, 0) EXCEPT !.above = TRUE]}
Wet ==
  {[from |-> 0, offset |-> 0, starts |-> <<0>>, lengths |-> <<n>>,
    hours |-> [i \in 1 .. n |-> IF i <= k THEN a ELSE b]] :
     a \in Kinds, b \in Kinds, n \in {1, 3, 6, 12}, k \in {1, 3, 7, 11}}
MCSkies == Curves \union Ragged \union Wet

Reading(excess) ==
  IF excess = Unset THEN Unset
  ELSE [excess |-> excess, cover |-> IF excess <= 0 THEN 0 ELSE (3 * excess) \div 2]
High == {<<-20, -5, -25>>, <<-2, -3, -4>>, <<20, -3, Unset>>, <<Unset, Unset, Unset>>, <<-6, -7, 4>>}
Middle == {<<-20, -9, -7, -30>>, <<Unset, -2, Unset, -3>>, <<-1, -2, -3, -4>>, <<-5, 30, -9, -9>>}
Low == {<<-3, -1, -2>>, <<-20, 4, -1>>, <<Unset, Unset, Unset>>}
Layered(low, mid, high) == [low |-> low, mid |-> mid, high |-> high]
Readings3 ==
  {[level |-> [l \in 1 .. 10 |-> Reading((h \o m \o w)[l])], layer |-> y] :
     h \in High, m \in Middle, w \in Low,
     y \in {Layered(0, 0, 0), Layered(7, 8, 10), Layered(40, 0, 100), Layered(8, 30, Unset),
            Layered(Unset, 10, 25)}}
Beside == {h \in Readings3 : h.layer.mid = 10 /\ h.level[8] = Unset /\ h.level[4] # Unset}
MCAirs ==
  {[elevation |-> e, hours |-> <<a>>] : e \in {0, 3040, 8850}, a \in Readings3}
    \union {[elevation |-> 3040, hours |-> <<a, b>>] : a \in Readings3, b \in Beside}
-----------------------------------------------------------------------------
Entry(seen, vocab, order, markers, contexts) ==
  [seen |-> seen, vocab |-> vocab, order |-> order, markers |-> markers, contexts |-> contexts]
At(key, tokens) == key :> tokens
Scale(seen, vocab, contexts) == Entry(seen, vocab, 1, {}, contexts)
W(s) == {<<w>> : w \in s}
Slabs == At(<<Slab>>, W({"wind", "storm"})) @@ At(<<Bos>>, W({"snow"}))
           @@ At(<<<<"wind">>>>, W({"slab", "snow"})) @@ At(<<<<"wind">>, Slab>>, W({"slab"}))
           @@ At(<<<<"storm">>, Slab>>, W({"slab"})) @@ At(<<<<"slab">>, <<"wind">>>>, W({"wind", "storm"}))
Said == At(<<Bos>>, W({"snow", "wind"})) @@ At(<<<<"snow">>>>, W({"wind", "snow"}))
          @@ At(<<<<"snow">>, Bos>>, W({"wind"}))
Prose(seen, order) == Entry(seen, W({"snow", "wind", "slab", "storm"}), order, {Slab, Loose}, {})
MCTrained ==
  [validity |-> Scale(At(<<Bos>>, {<<1440>>, <<2880>>}), {<<1440>>, <<2880>>}, {}),
   dayCount |-> Scale(At(<<Bos>>, {<<3>>, <<2>>}), {<<3>>, <<2>>}, {}),
   date |-> Scale(At(<<<<"issued", 0>>>>, {<<0>>}) @@ At(<<<<"issued", 23>>>>, {<<1>>}) @@ At(<<<<"next">>>>, {<<1>>}),
                  {<<0>>, <<1>>}, {<<"issued", 0>>, <<"issued", 23>>, <<"next">>}),
   rating |-> Scale(At(<<Bos>>, {<<2>>, <<3>>}) @@ At(<<<<"alp", <<3>>>>>>, {<<3>>})
                      @@ At(<<<<"tln", <<3>>>>>>, {<<3>>, <<2>>}),
                    {<<1>>, <<2>>, <<3>>}, {<<"alp", <<3>>>>, <<"tln", <<3>>>>, <<"btl", <<2>>>>}),
   confidenceRating |-> Scale(At(<<Bos>>, {<<2>>}), {<<1>>, <<2>>}, {}),
   problemCount |-> Scale(At(<<Bos>>, {<<2>>}), {<<1>>, <<2>>}, {}),
   type |-> Scale(At(<<Bos>>, {<<Slab>>}) @@ At(<<<<"type", <<Slab>>>>>>, {<<Loose>>, <<Slab>>}), {<<Slab>>, <<Loose>>},
                  {<<"type", <<Slab>>>>}),
   elevations |-> Scale(At(<<<<"type", <<Slab>>>>>>, {<<1>>}), {<<1>>, <<2>>}, {<<"type", <<Slab>>>>}),
   aspects |-> Scale(At(<<Unk>>, {<<1>>}), {<<1>>, <<2>>}, {<<"type", <<Slab>>>>}),
   likelihood |-> Scale(At(<<<<"type", <<Slab>>>>>>, {<<1>>}), {<<1>>, <<2>>}, {<<"type", <<Slab>>>>}),
   size |-> Scale(At(<<<<"type", <<Slab>>>>>>, {<<1>>}), {<<1>>, <<2>>}, {<<"type", <<Slab>>>>})]
  @@ ("problem" :> Prose(Slabs, 3)) @@ ("highlights" :> Prose(Said, 3)) @@ ("advice" :> Prose(Said, 2))
  @@ ("avalanche-summary" :> Prose(Said, 3)) @@ ("snowpack-summary" :> Prose(Slabs, 3))
  @@ ("weather-summary" :> Prose(Said, 3)) @@ ("confidence" :> Prose(Said, 3))
  @@ ("seps" :> Entry(At(<<End>>, {<<".">>, <<>>}) @@ At(<<<<"snow">>>>, {<<" ">>})
                        @@ At(<<<<"snow">>, <<"wind">>>>, {<<" ">>, <<".", " ">>})
                        @@ At(<<<<"wind">>, Bos>>, {<<>>}) @@ At(<<Unk>>, {<<" ">>}),
                      {<<" ">>, <<>>, <<".">>, <<".", " ">>}, 2, {}, {}))
MCNeighbors == W({"snow", "wind"})
MCChain ==
  (1 :> <<<<2, 1>>, <<3, 2>>, <<5, 3>>>>) @@ (2 :> <<<<3, 2>>, <<5, 3>>>>) @@ (3 :> <<<<5, 3>>>>)
    @@ (4 :> <<>>) @@ (5 :> <<>>)

Midnight == 20000 * 86400
At8(days) == Midnight + days * 86400 + 8 * 3600  \* midnight in a zone eight hours west
Bar(instant, weekday, a, t, b) ==
  [instant |-> instant, display |-> weekday, alp |-> a, tln |-> t, btl |-> b]
Problem(type, e, said) ==
  [type |-> type, elevations |-> e, aspects |-> e, likelihood |-> 1, size |-> e, description |-> said]
Heading(label, said) == [idle |-> FALSE, heading |-> TRUE, label |-> label, text |-> said]
Passage(said) == [idle |-> FALSE, heading |-> FALSE, label |-> <<>>, text |-> said]
Boilerplate == [idle |-> TRUE, heading |-> FALSE, label |-> <<>>, text |-> <<"Crust">>]
Sample ==
  [pieces |-> {1, 3, 5}, issued |-> Midnight, expires |-> Midnight + 86400, zone |-> -8,
   danger |-> <<Bar(At8(0), 1, 3, 3, 2), Bar(At8(1), 2, 2, 2, 1), Bar(At8(2), 3, 1, 3, 3)>>,
   confidence |-> 2,
   problems |-> <<Problem(Slab, 1, <<"wind", " ", "slab", ".", " ", "wind", ".">>), Problem(Loose, 2, <<>>)>>,
   bottomLine |-> <<"snow", " ", "wind">>, advice |-> <<>>, avalancheSummary |-> <<>>,
   snowpackSummary |-> <<"Crust", " ", "snow", ".">>, weather |-> <<>>, statements |-> <<>>]
Bare == [Sample EXCEPT !.pieces = {}, !.issued = Midnight + 1100, !.expires = Midnight + 86400, !.danger = <<>>,
                       !.problems = <<>>, !.bottomLine = <<>>, !.snowpackSummary = <<>>]

Today == [day |-> 20000, start |-> 0]
Covering(products) == {[asked |-> Today, product |-> p] : p \in products}
Said5 == {<<>>, <<"snow">>, <<"wind", ".", " ", "snow">>, <<" ", "slab", " ", "storm", ".">>,
          <<"Crust", " ", "Crust">>}
DayNames(z) ==
  LET start(d) == Midnight + d * 86400 - z * 3600 IN
  {<<Bar(start(0), 1, 3, 3, 3)>>, <<Bar(start(1), 2, 1, 2, 3), Bar(start(2), 3, 1, 2, 2)>>, <<>>}
Outlooks ==
  {<<>>,
   <<Passage(<<"snow">>), Heading(<<"wind">>, <<>>), Passage(<<"snow", ".">>), Boilerplate, Passage(<<"storm">>)>>,
   <<Heading(<<"snow">>, <<"wind">>), Heading(<<>>, <<>>), Heading(<<"wind", " ", "snow">>, <<"Crust">>)>>}
MCPublished ==
  {[asked |-> a, product |-> [Sample EXCEPT !.issued = Midnight + i, !.expires = e]] :
     a \in {Today, [day |-> NoContext, start |-> 20000 * 24 + 5]},
     i \in {-300, 7 * 3600 + 1, 23 * 3600 + 1799, 3 * 86400, -339 * 86400, -345 * 86400},
     e \in {NoContext, Midnight + 86400, Midnight + 2 * 86400 + 50}}
  \union Covering({Bare} \union {[Sample EXCEPT !.pieces = p] : p \in SUBSET (1 .. 5)})
  \union Covering(UNION {{[Sample EXCEPT !.zone = z, !.danger = d, !.problems = <<>>] : d \in DayNames(z)} :
                           z \in {-8, -3, 12}})
  \union Covering({[Sample EXCEPT !.problems =
                      [i \in DOMAIN ps |-> Problem(ps[i], i, IF i = 2 THEN d ELSE <<"wind", " ", "slab">>)]] :
                     d \in Said5, ps \in {<<Slab, Slab, Loose>>, <<Glide, Slab>>, <<Loose, Glide, Slab>>}})
  \union Covering({[Sample EXCEPT !.bottomLine = a, !.avalancheSummary = b, !.advice = <<b, a>>, !.weather = w,
                                  !.statements = IF a = b THEN <<>> ELSE <<a>>] :
                     a \in Said5, b \in Said5, w \in Outlooks})

-----------------------------------------------------------------------------
MCOrder(asked, models, starts, lengths) ==
  [vars |-> asked, models |-> models, offset |-> -7, starts |-> starts, lengths |-> lengths]
Halves(from, n) == [i \in 1 .. n |-> from + 12 * (i - 1)]
MCOrders ==
  {MCOrder({"temp", "dewpoint", "w500", "w700", "freeze", "clouds"}, {"EU"}, <<223, 226, 229>>, <<3, 3, 12>>),
   MCOrder({"temp", "rain", "snow", "agreement", "w300"}, {"EU"}, <<219, 225, 231>>, <<6, 6, 12>>),
   MCOrder({"temp", "freeze", "precip", "agreement"}, {"US", "DE"}, Halves(391, 3), <<12, 12, 12>>),
   MCOrder({"temp", "dewpoint", "gust", "wind", "aq_pm25", "aqi", "aqi_eu"}, {"BEST"}, Halves(343, 3), <<12, 12, 12>>),
   MCOrder({"temp", "freeze", "wind", "aqi_eu_o3", "aqi"}, {"CA"}, <<238, 241, 244>>, <<3, 3, 6>>),
   MCOrder({"temp", "rain", "w925", "aqi_eu_pm25"}, {"EU"}, <<214, 217, 223>>, <<3, 6, 12>>)}

Feeds == <<"best_match", "gfs_seamless", "gem_seamless", "ecmwf_ifs", "ecmwf_ifs025", "icon_seamless", "auto">>
IndexOf(feed) == CHOOSE i \in DOMAIN Feeds : Feeds[i] = feed
(* Hourly numbers no two feeds or hours of a day share throughout, in nulls
   where a feed has nothing. *)
MCObserved(feed, v, t) ==
  LET i == IndexOf(feed)
      wave == (7 * t + 11 * i + v.pressure) % 41
  IN  IF feed = "icon_seamless" /\ t > 240 + 164 THEN NoReading
      ELSE IF feed = "auto"
      THEN IF v.variable = "us_aqi_carbon_monoxide" /\ t % 24 > 18 THEN NoReading
           ELSE IF v.variable \in {"us_aqi_pm2p5", "european_aqi_ozone"} THEN wave + 9 ELSE wave
      ELSE
      CASE v.variable = "temperature" -> (wave % 17) - 8
        [] v.variable = "dew_point" -> IF t % 5 = 0 THEN NoReading ELSE (wave % 17) - 12
        [] v.variable = "weather_code" -> <<3, 61, 66, 71, 81>>[1 + (t % 5)]
        [] v.variable = "freezing_level_height" -> 50 * wave
        [] v.variable \in {"rain", "showers"} -> IF (t + 5 * i) % 29 < 8 THEN 40 + wave ELSE 0
        [] v.variable = "snowfall" -> IF (t + 3 * i) % 31 < 7 THEN 100 + wave ELSE 0
        [] v.variable = "wind_direction" -> 90 * (wave % 2)
        [] OTHER -> wave
MCHeight(feed) == 1000 + 100 * IndexOf(feed)

=============================================================================
