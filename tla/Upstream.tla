------------------------------ MODULE Upstream ------------------------------
(***************************************************************************)
(* What a forecast is made of (codec-server/forecast.ts, agreement.ts):    *)
(* the series a selection needs, each asked of the model or the service    *)
(* that has it, all at once; retried while the time they share between     *)
(* attempts lasts; laid side by side by the hour; and told period by       *)
(* period, how the other centers agree included.                           *)
(*                                                                         *)
(* A name is a quantity, where it is taken and in what unit that is said:  *)
(* <<"wind_speed", 500, "hPa">>.  Readings are numbers in the units of     *)
(* Aggregate; a null is NoReading, and so is a field that is left out.     *)
(* The cloud band is CloudBand's: here its series are only asked for.      *)
(***************************************************************************)
EXTENDS Layout, Aggregate, WireLadders

CONSTANTS
  Orders,            \* [vars, models, offset, starts, lengths] asked for
  Observed(_, _, _),  \* of a model, a quantity as the answer names it, an hour (external)
  SiteHeight(_),     \* of the ground, by a model
  FirstDay,          \* the hour the server's day began
  MaxTroubled        \* bound: calls past their first attempt at a time


VARIABLES
  wanted,     \* what is being fetched
  began,     \* the hour the server's day did
  calls,     \* by what they are for
  upstream,  \* idle, pending, gathered, unavailable, served
  hourly,    \* what was gathered
  periods    \* as told
upstreamVars == <<wanted, began, calls, upstream, hourly, periods>>

-----------------------------------------------------------------------------
Sources ==
  [BEST |-> [surface |-> "best_match", pressure |-> "best_match", freeze |-> TRUE],
   US |-> [surface |-> "gfs_seamless", pressure |-> "gfs_seamless", freeze |-> TRUE],
   CA |-> [surface |-> "gem_seamless", pressure |-> "gem_seamless", freeze |-> FALSE],
   EU |-> [surface |-> "ecmwf_ifs", pressure |-> "ecmwf_ifs025", freeze |-> FALSE],
   DE |-> [surface |-> "icon_seamless", pressure |-> "icon_seamless", freeze |-> TRUE]]

(* One model, the first in wire order of those asked for. *)
FirstModelKey(models) ==
  LET keys == <<"BEST", "US", "CA", "EU", "DE">>
      asked == {i \in DOMAIN keys : keys[i] \in models}
  IN  IF asked = {} THEN "BEST" ELSE keys[First(asked)]

Center(o) == FirstModelKey(o.models)
Split(o) == Sources[Center(o)].surface # Sources[Center(o)].pressure

Plainly(quantity) == <<quantity, 0, "">>
Metres(quantity, m) == <<quantity, m, "m">>
Aloft(quantity, hPa) == <<quantity, hPa, "hPa">>

WindAloft == [w300 |-> 300, w400 |-> 400, w500 |-> 500, w600 |-> 600, w700 |-> 700,
              w850 |-> 850, w925 |-> 925]
CloudHPa == {200, 250, 300, 400, 500, 600, 700, 850, 925, 1000}
CloudLayers == {Plainly(q) : q \in {"cloud_cover_high", "cloud_cover_mid", "cloud_cover_low"}}
Temperature == Metres("temperature", 2)
Dewpoint == Metres("dew_point", 2)
Gusts == Metres("wind_gusts", 10)
FreezingLevel == Plainly("freezing_level_height")
Rain == Plainly("rain")
Showers == Plainly("showers")
Snowfall == Plainly("snowfall")
WeatherCode == Plainly("weather_code")
PrecipChance == Plainly("precipitation_probability")
Speed(v) == IF v = "wind" THEN Metres("wind_speed", 10) ELSE Aloft("wind_speed", WindAloft[v])
Direction(v) == IF v = "wind" THEN Metres("wind_direction", 10) ELSE Aloft("wind_direction", WindAloft[v])

AqNames ==
  [aq_pm25 |-> Plainly("us_aqi_pm2_5"), aq_o3 |-> Plainly("us_aqi_ozone"),
   aq_pm10 |-> Plainly("us_aqi_pm10"), aq_no2 |-> Plainly("us_aqi_nitrogen_dioxide"),
   aq_so2 |-> Plainly("us_aqi_sulphur_dioxide"),
   aqi_eu_pm25 |-> Plainly("european_aqi_pm2_5"), aqi_eu_o3 |-> Plainly("european_aqi_ozone"),
   aqi_eu_pm10 |-> Plainly("european_aqi_pm10"),
   aqi_eu_no2 |-> Plainly("european_aqi_nitrogen_dioxide"),
   aqi_eu_so2 |-> Plainly("european_aqi_sulphur_dioxide"),
   aqi |-> Plainly("us_aqi"), aqi_eu |-> Plainly("european_aqi")]

Variable ==
  {"temp", "dewpoint", "precip", "rain", "snow", "freeze", "wind", "gust", "clouds", "agreement"}
    \union DOMAIN WindAloft \union DOMAIN AqNames

(* weatherVarsFor: what nothing shows or reads is not paid for. *)
SurfaceVars(o) ==
  {Temperature, WeatherCode, Snowfall, Rain, Showers}
    \union {n \in {FreezingLevel} : Sources[Center(o)].freeze}
    \union {n \in {Dewpoint} : "dewpoint" \in o.vars}
    \union {n \in {Speed("wind"), Direction("wind")} : "wind" \in o.vars}
    \union {n \in {Gusts} : "gust" \in o.vars}
    \union {n \in {PrecipChance} : "precip" \in o.vars}
    \union {n \in CloudLayers : "clouds" \in o.vars}
PressureVars(o) ==
  (UNION {{Speed(v), Direction(v)} : v \in o.vars \intersect DOMAIN WindAloft})
    \union {Aloft(q, l) : q \in {p \in {"relative_humidity", "geopotential_height"} : "clouds" \in o.vars},
                       l \in CloudHPa}

(* The constituents of a headline, in the order the wire counts them. *)
DominantSources ==
  [aqi |-> <<AqNames.aq_pm25, AqNames.aq_o3, AqNames.aq_pm10, AqNames.aq_no2, AqNames.aq_so2,
             Plainly("us_aqi_carbon_monoxide")>>,
   aqi_eu |-> <<AqNames.aqi_eu_pm25, AqNames.aqi_eu_o3, AqNames.aqi_eu_pm10, AqNames.aqi_eu_no2,
                AqNames.aqi_eu_so2>>]

AirQualityVarsFor(o) ==
  {AqNames[v] : v \in o.vars \intersect DOMAIN AqNames}
    \union UNION {ToSet(DominantSources[v]) : v \in o.vars \intersect DOMAIN DominantSources}

AgreementVars == {Temperature, Rain, Showers, Snowfall}
-----------------------------------------------------------------------------
(* One call a source; a center's, for agreement, unless it is the one that
   is served. *)
CallsFor(o) ==
  {"surface"}
    \union {c \in {"pressure"} : Split(o) /\ PressureVars(o) # {}}
    \union {c \in {"air"} : AirQualityVarsFor(o) # {}}
    \union {c \in ToSet(Centers) \ {Center(o)} : "agreement" \in o.vars}

ModelOf(o, c) ==
  CASE c \in {"surface", "pressure"} -> Sources[Center(o)][c]
    [] c = "air" -> "auto"
    [] OTHER -> Sources[c].surface

VarsOf(o, c) ==
  CASE c = "surface" -> SurfaceVars(o) \union (IF Split(o) THEN {} ELSE PressureVars(o))
    [] c = "pressure" -> PressureVars(o)
    [] c = "air" -> AirQualityVarsFor(o)
    [] OTHER -> AgreementVars

AirDays == 5
Axis(c, when) ==
  AxisStart(when) .. (IF c = "air" THEN when + 24 * AirDays ELSE AxisEnd(when)) - 1

(* How the answer names what it was asked for: an enumeration in which a
   point cannot be written, and the place apart. *)
Spelled(quantity) ==
  CASE quantity = "us_aqi_pm2_5" -> "us_aqi_pm2p5"
    [] quantity = "european_aqi_pm2_5" -> "european_aqi_pm2p5"
    [] OTHER -> quantity
Named(name) ==
  [variable |-> Spelled(name[1]),
   altitude |-> IF name[3] = "m" THEN name[2] ELSE 0,
   pressure |-> IF name[3] = "hPa" THEN name[2] ELSE 0]

Respelled(variable) ==
  CASE variable = "us_aqi_pm2p5" -> "us_aqi_pm2_5"
    [] variable = "european_aqi_pm2p5" -> "european_aqi_pm2_5"
    [] OTHER -> variable

CanonicalName(v) ==
  IF v.pressure # 0 THEN Aloft(Respelled(v.variable), v.pressure)
  ELSE IF v.altitude # 0 THEN Metres(Respelled(v.variable), v.altitude)
  ELSE Plainly(Respelled(v.variable))

(* A series for each name asked for, by the names of what came. *)
DecodeResponse(o, c) ==
  LET came == {Named(n) : n \in VarsOf(o, c)}
      named(n) == {v \in came : CanonicalName(v) = n}
  IN  [n \in VarsOf(o, c) |-> [t \in Axis(c, calls[c].day) |->
         IF named(n) = {} THEN NoReading
         ELSE Observed(ModelOf(o, c), CHOOSE v \in named(n) : TRUE, t)]]

(* A name that is there already is kept. *)
BadMergeHourly(onto, other) ==
  LET axis == DOMAIN onto[Temperature]
      behind == Min(axis)
      at(n, t) == t - behind + Min(DOMAIN other[n])
  IN  [n \in DOMAIN onto \union DOMAIN other |->
         IF n \in DOMAIN onto THEN onto[n]
         ELSE [t \in axis |-> IF at(n, t) \in DOMAIN other[n] THEN other[n][at(n, t)] ELSE NoReading]]

(* By the hour, on the axis of the first: either may reach further. *)
MergeHourly(onto, other) ==
  [n \in DOMAIN onto \union DOMAIN other |->
     IF n \in DOMAIN onto THEN onto[n]
     ELSE [t \in DOMAIN onto[Temperature] |-> IF t \in DOMAIN other[n] THEN other[n][t] ELSE NoReading]]

Merged(o) ==
  LET with(h, c) == IF c \in CallsFor(o) THEN MergeHourly(h, DecodeResponse(o, c)) ELSE h
  IN  with(with(DecodeResponse(o, "surface"), "pressure"), "air")
-----------------------------------------------------------------------------
At0(reading) == IF reading = NoReading THEN 0 ELSE reading

(* An hour as Aggregate has it. *)
HourOf(h, t, height) ==
  LET of(n) == IF n \in DOMAIN h THEN h[n][t] ELSE NoReading
  IN  [temp |-> of(Temperature), dew |-> of(Dewpoint), code |-> of(WeatherCode),
       rain |-> At0(of(Rain)) + At0(of(Showers)), snow |-> At0(of(Snowfall)),
       above |-> of(FreezingLevel) # NoReading /\ height >= of(FreezingLevel), gust |-> of(Gusts)]

(* The layout over the hours of some series, phase corrected. *)
Laid(o, h, height) ==
  LET from == Min(DOMAIN h[Temperature])
  IN  [from |-> from, offset |-> o.offset, starts |-> o.starts, lengths |-> o.lengths,
       hours |-> [i \in 1 .. Cardinality(DOMAIN h[Temperature]) |->
                    AdjustPrecipPhase(HourOf(h, from + i - 1, height))]]

(* Along the axes of the compass, the sum of what blew; then its eighth. *)
DominantDir(blown) ==
  LET sum(dir) == SumOf([i \in DOMAIN blown |-> IF At0(blown[i].dir) = dir THEN At0(blown[i].kph) ELSE 0])
      x == sum(0) - sum(180)
      y == sum(90) - sum(270)
      mostly(a, b) == 144 * b * b < 25 * a * a
  IN  IF x = 0 /\ y = 0 THEN 0
      ELSE IF mostly(x, y) THEN IF x > 0 THEN 0 ELSE 4
      ELSE IF mostly(y, x) THEN IF y > 0 THEN 2 ELSE 6
      ELSE IF y > 0 THEN IF x > 0 THEN 1 ELSE 3 ELSE IF x > 0 THEN 7 ELSE 5

(* What is told as the worst of a period's hours, and as calm, none or
   clear where none is known. *)
WorstNames ==
  [precip |-> PrecipChance, gust |-> Gusts, freeze |-> FreezingLevel]

Shown(o) == {v \in o.vars : /\ v = "freeze" => Sources[Center(o)].freeze
                            /\ v = "dewpoint" => "temp" \in o.vars
                            /\ v \notin {"clouds", "agreement"}}

(* toFullPeriod.  A missing dewpoint is told as saturated air; missing air
   quality is not told at all, nor is what leads a headline unless all its
   constituents are known. *)
ToFullPeriod(o, row, series, hours) ==
  LET of(n, i) == IF n \in DOMAIN series THEN series[n][hours[i]] ELSE NoReading
      worst(n) == MaxOf({of(n, i) : i \in DOMAIN hours})
      leads(v) == LET c == DominantSources[v] IN
                  IF \E i \in DOMAIN c : worst(c[i]) = NoReading THEN NoReading
                  ELSE First({i \in DOMAIN c : \A j \in DOMAIN c : worst(c[j]) <= worst(c[i])}) - 1
      told(v) ==
        CASE v \in DOMAIN WorstNames -> At0(worst(WorstNames[v]))
          [] v \in {"wind"} \union DOMAIN WindAloft ->
               [kph |-> At0(worst(Speed(v))),
                dir |-> DominantDir([i \in DOMAIN hours |-> [kph |-> of(Speed(v), i), dir |-> of(Direction(v), i)]])]
          [] v \in DOMAIN DominantSources -> [index |-> worst(AqNames[v]), dominant |-> leads(v)]
          [] v \in DOMAIN AqNames \ DOMAIN DominantSources -> worst(AqNames[v])
          [] v = "temp" -> At0(row.temp)
          [] v = "dewpoint" -> IF row.dew = NoReading THEN At0(row.temp) ELSE row.dew
          [] v = "rain" -> row.rain
          [] v = "snow" -> row.snow
          [] v = "weathercode" -> At0(row.code)
  IN  [v \in Shown(o) \union {"weathercode"} |-> told(v)]
-----------------------------------------------------------------------------
(* The categories of a period's precipitation: None on the wire, or by the
   water that fell in an hour (in thousandths of a centimetre of snow). *)
NoneTold(row) ==
  /\ Compand((3969 * row.rain) \div 100, Span.rain) = 0
  /\ Compand((3969 * row.snow) \div 1000, Span.snow) = 0
ByRate(water, hours) == IF water < 175 * hours THEN 2 ELSE IF water < 700 * hours THEN 3 ELSE 4
PrecipCategory(row, hours) ==
  IF NoneTold(row) THEN 1 ELSE ByRate(SnowPerRain * row.rain + row.snow, hours)

AgreementMatrix == <<<<3, 1, 0, 0>>, <<1, 3, 2, 1>>, <<0, 2, 3, 2>>, <<0, 1, 2, 3>>>>

AgreementLevel(a, b, hours) ==
  IF a.temp = NoReading \/ b.temp = NoReading THEN NoReading
  ELSE AgreementMatrix[PrecipCategory(a, hours)][PrecipCategory(b, hours)]

(* A center with no hour on some period says nothing of any. *)
ComputeAgreementLevels(win, told, p) ==
  [c \in ToSet(Centers) |->
     IF c \notin DOMAIN told \/ \E q \in DOMAIN win[c] : win[c][q] = <<>> THEN NoReading
     ELSE AgreementLevel(told["surface"][p], told[c][p], wanted.lengths[p])]

WirePeriodOf(win, told, p) ==
  LET site == hourly["surface"]
      full == ToFullPeriod(wanted, told["surface"][p], site.series,
                           [i \in DOMAIN win["surface"][p] |-> site.sky.from + win["surface"][p][i] - 1])
  IN  [v \in DOMAIN full \union (wanted.vars \intersect {"agreement"}) |->
         IF v \in DOMAIN full THEN full[v] ELSE ComputeAgreementLevels(win, told, p)]

-----------------------------------------------------------------------------
UpstreamInit ==
  /\ wanted = <<>> /\ began = FirstDay /\ calls = <<>> /\ upstream = "idle" /\ hourly = <<>> /\ periods = <<>>

Retries == 2

FetchForecast(o) ==
  /\ upstream = "idle" /\ upstream' = "pending"
  /\ wanted' = o
  /\ calls' = [c \in CallsFor(o) |-> [phase |-> "trying", attempt |-> 0, aborted |-> FALSE, day |-> 0]]
  /\ UNCHANGED <<began, hourly, periods>>

(* The server's midnight moves the axis of the calls that reach upstream
   after it. *)
NextDay ==
  /\ upstream = "pending" /\ began = FirstDay /\ began' = began + 24
  /\ UNCHANGED <<wanted, calls, upstream, hourly, periods>>

InCall(c, phase) == upstream = "pending" /\ c \in DOMAIN calls /\ calls[c].phase = phase

(* One failure fails the request; the other calls are not called off, and
   nobody waits for them. *)
FailCall(c) ==
  /\ calls' = [calls EXCEPT ![c].phase = "failed"] /\ upstream' = "unavailable"
  /\ UNCHANGED <<wanted, began, hourly, periods>>

Answered(c) ==
  /\ InCall(c, "trying")
  /\ calls' = [calls EXCEPT ![c] = [phase |-> "answered", attempt |-> 0, aborted |-> FALSE, day |-> began]]
  /\ UNCHANGED <<wanted, began, upstream, hourly, periods>>

(* No connection.  Out of attempts it is as any other error. *)
NetworkError(c) ==
  /\ InCall(c, "trying")
  /\ Cardinality({d \in DOMAIN calls : calls[d].attempt > 0} \union {c}) <= MaxTroubled
  /\ IF calls[c].attempt >= Retries THEN FailCall(c)
     ELSE /\ calls' = [calls EXCEPT ![c].phase = "waiting", ![c].attempt = @ + 1]
          /\ UNCHANGED <<wanted, began, upstream, hourly, periods>>

(* An error upstream reports, or an answer without what was asked. *)
Refused(c) == InCall(c, "trying") /\ FailCall(c)

(* The time all attempts share is up: at once for one under way, for one
   that is waited for when it is made. *)
OutOfTime(c) ==
  \/ InCall(c, "trying") /\ FailCall(c)
  \/ /\ InCall(c, "waiting") /\ ~calls[c].aborted
     /\ calls' = [calls EXCEPT ![c].aborted = TRUE]
     /\ UNCHANGED <<wanted, began, upstream, hourly, periods>>

Retry(c) ==
  /\ InCall(c, "waiting")
  /\ IF calls[c].aborted THEN FailCall(c)
     ELSE /\ calls' = [calls EXCEPT ![c].phase = "trying"]
          /\ UNCHANGED <<wanted, began, upstream, hourly, periods>>

(* fetchForecast has everything: merged and phase corrected. *)
Gather ==
  /\ upstream = "pending" /\ \A c \in DOMAIN calls : calls[c].phase = "answered"
  /\ \E series \in {[c \in DOMAIN calls \ {"pressure", "air"} |->
                        IF c = "surface" THEN Merged(wanted) ELSE DecodeResponse(wanted, c)]} :
       hourly' = [c \in DOMAIN series |->
                    [sky |-> Laid(wanted, series[c], SiteHeight(ModelOf(wanted, c))), series |-> series[c]]]
  /\ upstream' = "gathered"
  /\ UNCHANGED <<wanted, began, calls, periods>>

(* A layout some period of which upstream has nothing for is not served. *)
Build ==
  /\ upstream = "gathered"
  /\ \E win \in {[c \in DOMAIN hourly |-> WindowsFor(hourly[c].sky)]} :
       IF ~Covered(hourly["surface"].sky, hourly["surface"].sky.hours)
       THEN upstream' = "unavailable" /\ UNCHANGED periods
       ELSE /\ upstream' = "served"
            /\ \E told \in {[c \in DOMAIN hourly |->
                               RowsFromWindows(hourly[c].sky, hourly[c].sky.hours, win[c])]} :
                 periods' = [p \in DOMAIN wanted.starts |-> WirePeriodOf(win, told, p)]
  /\ hourly' = <<>>
  /\ UNCHANGED <<wanted, began, calls>>

UpstreamNext ==
  \/ \E o \in Orders : FetchForecast(o)
  \/ NextDay \/ Gather \/ Build
  \/ \E c \in DOMAIN calls :
       Answered(c) \/ NetworkError(c) \/ Refused(c) \/ OutOfTime(c) \/ Retry(c)

UpstreamSpec == UpstreamInit /\ [][UpstreamNext]_upstreamVars

(* The quantities are numbers where there are any, the amounts not negative,
   and every period has hours. *)
ASSUME UpstreamAssumption ==
  /\ FirstDay \in Nat /\ MaxTroubled \in Nat
  /\ NoReading \notin Int
  /\ \A o \in Orders :
       /\ o.vars \subseteq Variable /\ o.offset \in Int
       /\ o.starts \in Seq(Int) /\ o.lengths \in Seq(Nat \ {0}) /\ Len(o.starts) = Len(o.lengths)
       /\ \A c \in CallsFor(o) : \A n \in VarsOf(o, c) : \A t \in AxisStart(FirstDay) .. AxisEnd(FirstDay + 24) :
            /\ Observed(ModelOf(o, c), Named(n), t) \in Int \union {NoReading}
            /\ n \in {Rain, Showers, Snowfall} => Observed(ModelOf(o, c), Named(n), t) \in Nat \union {NoReading}
-----------------------------------------------------------------------------
(* What the call that is for a name was told of an hour. *)
SourceOf(n) ==
  IF n \in AirQualityVarsFor(wanted) THEN "air"
  ELSE IF n[3] = "hPa" /\ Split(wanted) THEN "pressure" ELSE "surface"
Given(c, n, t) ==
  IF t \in Axis(c, calls[c].day) THEN Observed(ModelOf(wanted, c), Named(n), t) ELSE NoReading
During(p, axis) == {t \in wanted.starts[p] .. wanted.starts[p] + wanted.lengths[p] - 1 : t \in axis}
HoursOf(p) == During(p, Axis("surface", calls["surface"].day))
WorstGiven(n, p) == MaxOf({Given(SourceOf(n), n, t) : t \in HoursOf(p)})

AsGiven(c) ==
  Laid(wanted, [n \in VarsOf(wanted, c) |-> [t \in Axis(c, calls[c].day) |-> Given(c, n, t)]],
       SiteHeight(ModelOf(wanted, c)))

(* What fell by a call's account, in whatever phase; and how much that is. *)
Water(c, p) ==
  LET fell(t) == SnowPerRain * (At0(Given(c, Rain, t)) + At0(Given(c, Showers, t))) + At0(Given(c, Snowfall, t))
  IN  SumOf([k \in 1 .. wanted.lengths[p] |-> fell(wanted.starts[p] + k - 1)])
Category(c, p, row) == IF NoneTold(row) THEN 1 ELSE ByRate(Water(c, p), wanted.lengths[p])
Knows(c, p) == \E t \in During(p, Axis(c, calls[c].day)) : Given(c, Temperature, t) # NoReading

LeadsAsGiven(names, shown, p) ==
  IF \E i \in DOMAIN names : WorstGiven(names[i], p) = NoReading THEN shown = NoReading
  ELSE /\ shown # NoReading
       /\ \A i \in DOMAIN names : WorstGiven(names[i], p) <= WorstGiven(names[shown + 1], p)

(* The periods as a call alone would have them told. *)
RowsAsGiven ==
  [c \in DOMAIN calls \ {"pressure", "air"} |->
     LET s == AsGiven(c) IN RowsFromWindows(s, s.hours, WindowsFor(s))]

AgreesAsGiven(own, c, shown, p) ==
  IF \/ c \notin DOMAIN calls
     \/ \E q \in DOMAIN periods : During(q, Axis(c, calls[c].day)) = {}
     \/ ~Knows(c, p)
  THEN shown = NoReading
  ELSE shown = AgreementMatrix[Category("surface", p, own["surface"][p])][Category(c, p, own[c][p])]

(***************************************************************************)
(* A forecast says of each of its hours what the source asked for it said  *)
(* of that hour, whichever calls the answers came from, in what order and  *)
(* on which side of midnight: a column that nobody fetched, that came      *)
(* under another name or slipped by an hour would be told as calm, clear   *)
(* or clean, which nothing downstream can tell from the truth ("a mismatch *)
(* here is silent").  Air quality that is not known is never told as       *)
(* clean; what leads a headline does, of all its constituents; and the     *)
(* other centers are scored by the water that fell, so that telling it as  *)
(* rain or as snow is no disagreement in itself; only what is too little   *)
(* for the wire to show counts as dry.                                     *)
(***************************************************************************)
ToldFromTheSource ==
  upstream = "served" =>
    \A asGiven \in {RowsAsGiven} : \A p \in DOMAIN periods :
          LET told == periods[p]
              site == asGiven["surface"]
          IN
          /\ Knows("surface", p) /\ told.weathercode = At0(site[p].code)
          /\ ("freeze" \in DOMAIN told) <=> ("freeze" \in wanted.vars /\ Center(wanted) \in {"BEST", "US", "DE"})
          /\ \A v \in DOMAIN told \intersect wanted.vars :
               CASE v = "temp" -> told.temp = site[p].temp
                 [] v = "dewpoint" -> told.dewpoint = IF site[p].dew = NoReading THEN site[p].temp ELSE site[p].dew
                 [] v = "rain" -> told.rain = site[p].rain
                 [] v = "snow" -> told.snow = site[p].snow
                 [] v \in DOMAIN WorstNames -> told[v] = At0(WorstGiven(WorstNames[v], p))
                 [] v \in {"wind"} \union DOMAIN WindAloft ->
                      told[v].kph = At0(WorstGiven(Speed(v), p))
                 [] v \in DOMAIN DominantSources ->
                      /\ told[v].index = WorstGiven(AqNames[v], p)
                      /\ LeadsAsGiven(DominantSources[v], told[v].dominant, p)
                 [] v \in DOMAIN AqNames \ DOMAIN DominantSources -> told[v] = WorstGiven(AqNames[v], p)
                 [] v = "agreement" ->
                      \A c \in DOMAIN told.agreement : AgreesAsGiven(asGiven, c, told.agreement[c], p)

=============================================================================
