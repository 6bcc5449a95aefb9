--------------------------- MODULE UpstreamProofs ---------------------------
(***************************************************************************)
(* A forecast tells of its hours what the source asked for it said.        *)
(*                                                                         *)
(* Steps only carry the calls, and what was gathered and told of them: the *)
(* work is in showing that of equal series.  Names are told apart by where *)
(* they are taken, so each is the answer of one call and reads back as it  *)
(* was asked for; an hour of a series is an hour of the axis, whichever    *)
(* axis it came on; and a window has the hours of its period.              *)
(***************************************************************************)
EXTENDS Upstream, CodecProofs

-----------------------------------------------------------------------------
(* Where a name is taken. *)
SurfaceNames ==
  {Temperature, WeatherCode, Snowfall, Rain, Showers, FreezingLevel, Dewpoint, Gusts, PrecipChance,
   Speed("wind"), Direction("wind")} \union CloudLayers
PressureNames ==
  {Aloft(q, l) : q \in {"wind_speed", "wind_direction", "relative_humidity", "geopotential_height"},
                 l \in {200, 250, 300, 400, 500, 600, 700, 850, 925, 1000}}
AirQuantities ==
  {"us_aqi_pm2_5", "us_aqi_ozone", "us_aqi_pm10", "us_aqi_nitrogen_dioxide", "us_aqi_sulphur_dioxide",
   "us_aqi_carbon_monoxide", "us_aqi", "european_aqi_pm2_5", "european_aqi_ozone", "european_aqi_pm10",
   "european_aqi_nitrogen_dioxide", "european_aqi_sulphur_dioxide", "european_aqi"}
AirNames == {Plainly(q) : q \in AirQuantities}

LEMMA CenterKnown ==
  ASSUME NEW o
  PROVE  /\ Center(o) \in {"BEST", "US", "CA", "EU", "DE"}
         /\ Sources[Center(o)].freeze = (Center(o) \in {"BEST", "US", "DE"})
<1> DEFINE keys == <<"BEST", "US", "CA", "EU", "DE">>
           asked == {i \in DOMAIN keys : keys[i] \in o.models}
<1>1. Center(o) = IF asked = {} THEN "BEST" ELSE keys[First(asked)]
  BY DEF Center, FirstModelKey
<1>2. asked \in SUBSET (1 .. 5)
  OBVIOUS
<1>3. \A i \in 1 .. 5 : keys[i] \in {"BEST", "US", "CA", "EU", "DE"}
  OBVIOUS
<1>4. Center(o) \in {"BEST", "US", "CA", "EU", "DE"}
  <2> HIDE DEF asked, keys
  <2>1. asked # {} => First(asked) \in 1 .. 5
    BY <1>2, FirstIs
  <2> QED BY <1>1, <1>3, <2>1
<1>5. /\ Sources["BEST"].freeze = TRUE /\ Sources["US"].freeze = TRUE /\ Sources["DE"].freeze = TRUE
      /\ Sources["CA"].freeze = FALSE /\ Sources["EU"].freeze = FALSE
  BY DEF Sources
<1>6. \A c \in {"BEST", "US", "CA", "EU", "DE"} : Sources[c].freeze = (c \in {"BEST", "US", "DE"})
  <2> SUFFICES ASSUME NEW c \in {"BEST", "US", "CA", "EU", "DE"}
               PROVE  Sources[c].freeze = (c \in {"BEST", "US", "DE"})
    OBVIOUS
  <2>1. CASE c \in {"BEST", "US", "DE"}
    <3>1. Sources[c].freeze = TRUE /\ (c \in {"BEST", "US", "DE"}) = TRUE
      BY <1>5, <2>1
    <3> QED BY <3>1, Zenon
  <2>2. CASE c \in {"CA", "EU"}
    <3>1. Sources[c].freeze = FALSE /\ (c \in {"BEST", "US", "DE"}) = FALSE
      BY <1>5, <2>2
    <3> QED BY <3>1, Zenon
  <2> QED BY <2>1, <2>2
<1> HIDE DEF asked, keys
<1> QED BY <1>4, <1>6

LEMMA SurfaceNamed == ASSUME NEW o PROVE SurfaceVars(o) \subseteq SurfaceNames
  BY DEF SurfaceVars, SurfaceNames

LEMMA PressureNamed ==
  ASSUME NEW o
  PROVE  PressureVars(o) \subseteq PressureNames /\ \A v \in o.vars \intersect DOMAIN WindAloft : Speed(v) \in PressureVars(o)
<1>1. DOMAIN WindAloft = {"w300", "w400", "w500", "w600", "w700", "w850", "w925"}
  BY DEF WindAloft
<1>2. \A v \in DOMAIN WindAloft : WindAloft[v] \in {300, 400, 500, 600, 700, 850, 925} /\ v # "wind"
  BY DEF WindAloft
<1>3. \A v \in DOMAIN WindAloft :
        /\ Speed(v) = Aloft("wind_speed", WindAloft[v])
        /\ Direction(v) = Aloft("wind_direction", WindAloft[v])
  BY <1>2 DEF Speed, Direction
<1>4. \A v \in DOMAIN WindAloft : Speed(v) \in PressureNames /\ Direction(v) \in PressureNames
  BY <1>2, <1>3 DEF PressureNames
<1>5. \A q \in {"relative_humidity", "geopotential_height"}, l \in CloudHPa : Aloft(q, l) \in PressureNames
  BY DEF PressureNames, CloudHPa
<1>6. PressureVars(o) =
        (UNION {{Speed(v), Direction(v)} : v \in o.vars \intersect DOMAIN WindAloft})
          \union {Aloft(q, l) : q \in {p \in {"relative_humidity", "geopotential_height"} : "clouds" \in o.vars},
                                l \in CloudHPa}
  BY DEF PressureVars
<1> DEFINE winds == {{Speed(v), Direction(v)} : v \in o.vars \intersect DOMAIN WindAloft}
           cells == {Aloft(q, l) : q \in {p \in {"relative_humidity", "geopotential_height"} : "clouds" \in o.vars},
                                    l \in CloudHPa}
<1>7. PressureVars(o) = (UNION winds) \union cells
  BY <1>6
<1>8. \A v \in o.vars \intersect DOMAIN WindAloft : {Speed(v), Direction(v)} \in winds
  OBVIOUS
<1>9. \A n \in cells : n \in PressureNames
  BY <1>5
<1>10. \A S \in winds : S \subseteq PressureNames
  BY <1>4
<1> HIDE DEF winds, cells
<1>11. \A v \in o.vars \intersect DOMAIN WindAloft : Speed(v) \in PressureVars(o)
  BY <1>7, <1>8
<1>12. PressureVars(o) \subseteq PressureNames
  BY <1>7, <1>9, <1>10
<1> QED BY <1>11, <1>12

LEMMA AirNamed ==
  ASSUME NEW o
  PROVE  /\ AirQualityVarsFor(o) \subseteq AirNames
         /\ \A v \in o.vars \intersect DOMAIN AqNames : AqNames[v] \in AirQualityVarsFor(o)
         /\ \A v \in o.vars \intersect DOMAIN DominantSources : \A i \in DOMAIN DominantSources[v] :
              DominantSources[v][i] \in AirQualityVarsFor(o)
<1>1. \A v \in DOMAIN AqNames : AqNames[v] \in AirNames
  BY DEF AqNames, AirNames, AirQuantities
<1>2. /\ DOMAIN DominantSources = {"aqi", "aqi_eu"}
      /\ DOMAIN DominantSources["aqi"] = 1 .. 6 /\ DOMAIN DominantSources["aqi_eu"] = 1 .. 5
  BY DEF DominantSources
<1>3. /\ \A i \in 1 .. 6 : DominantSources["aqi"][i] \in AirNames
      /\ \A i \in 1 .. 5 : DominantSources["aqi_eu"][i] \in AirNames
  BY DEF DominantSources, AqNames, AirNames, AirQuantities
<1>4. \A v \in DOMAIN DominantSources : ToSet(DominantSources[v]) = {DominantSources[v][i] : i \in DOMAIN DominantSources[v]}
  BY DEF ToSet
<1>5. AirQualityVarsFor(o) =
        {AqNames[v] : v \in o.vars \intersect DOMAIN AqNames}
          \union UNION {ToSet(DominantSources[v]) : v \in o.vars \intersect DOMAIN DominantSources}
  BY DEF AirQualityVarsFor
<1>6. \A v \in DOMAIN DominantSources : ToSet(DominantSources[v]) \subseteq AirNames
  BY <1>2, <1>3, <1>4
<1> QED BY <1>1, <1>4, <1>5, <1>6

PlainQuantities ==
  {"weather_code", "snowfall", "rain", "showers", "freezing_level_height", "precipitation_probability",
   "cloud_cover_high", "cloud_cover_mid", "cloud_cover_low"}
MetreQuantities == {"temperature", "dew_point", "wind_gusts", "wind_speed", "wind_direction"}

LEMMA SurfaceSpelled ==
  ASSUME NEW n \in SurfaceNames
  PROVE  (\E q \in PlainQuantities : n = <<q, 0, "">>) \/ (\E q \in MetreQuantities, m \in {2, 10} : n = <<q, m, "m">>)
<1>1. CASE n \in {WeatherCode, Snowfall, Rain, Showers, FreezingLevel, PrecipChance} \union CloudLayers
  BY <1>1 DEF PlainQuantities, CloudLayers, WeatherCode, Snowfall, Rain, Showers, FreezingLevel, PrecipChance, Plainly
<1>2. CASE n \in {Temperature, Dewpoint, Gusts, Speed("wind"), Direction("wind")}
  BY <1>2 DEF MetreQuantities, Temperature, Dewpoint, Gusts, Speed, Direction, Metres
<1> QED BY <1>1, <1>2 DEF SurfaceNames

LEMMA PressureSpelled ==
  ASSUME NEW n \in PressureNames
  PROVE  \E q \in {"wind_speed", "wind_direction", "relative_humidity", "geopotential_height"}, l \in Nat \ {0} :
           n = <<q, l, "hPa">>
  BY DEF PressureNames, Aloft

LEMMA AirSpelled == ASSUME NEW n \in AirNames PROVE \E q \in AirQuantities : n = <<q, 0, "">>
  BY DEF AirNames, Plainly

(* No two calls for the served forecast have a name in common. *)
LEMMA NamesApart ==
  /\ SurfaceNames \intersect PressureNames = {}
  /\ SurfaceNames \intersect AirNames = {}
  /\ PressureNames \intersect AirNames = {}
  /\ \A n \in PressureNames : n[3] = "hPa"
  /\ \A n \in SurfaceNames \union AirNames : n[3] # "hPa"
<1>1. \A n \in PressureNames : n[3] = "hPa"
  BY PressureSpelled
<1>2. ASSUME NEW n \in AirNames PROVE n[3] = "" /\ n[1] \in AirQuantities
  <2>1. PICK q \in AirQuantities : n = <<q, 0, "">>
    BY AirSpelled
  <2> QED BY <2>1
<1>3. ASSUME NEW n \in SurfaceNames PROVE n[3] # "hPa" /\ n[1] \notin AirQuantities
  <2>1. CASE \E q \in PlainQuantities : n = <<q, 0, "">>
    <3>1. PICK q \in PlainQuantities : n = <<q, 0, "">>
      BY <2>1
    <3>2. q \notin AirQuantities
      BY DEF PlainQuantities, AirQuantities
    <3> QED BY <3>1, <3>2
  <2>2. CASE \E q \in MetreQuantities, m \in {2, 10} : n = <<q, m, "m">>
    <3>1. PICK q \in MetreQuantities, m \in {2, 10} : n = <<q, m, "m">>
      BY <2>2
    <3>2. q \notin AirQuantities
      BY DEF MetreQuantities, AirQuantities
    <3> QED BY <3>1, <3>2
  <2> QED BY <2>1, <2>2, SurfaceSpelled
<1> QED BY <1>1, <1>2, <1>3

(* The names of an answer read back as what was asked for. *)
LEMMA PlainReadsBack ==
  ASSUME NEW q, Respelled(Spelled(q)) = q, NEW n, n = <<q, 0, "">>
  PROVE  CanonicalName(Named(n)) = n
<1>1. Named(n) = [variable |-> Spelled(q), altitude |-> 0, pressure |-> 0]
  BY DEF Named
<1>2. CanonicalName(Named(n)) = Plainly(Respelled(Spelled(q)))
  <2>1. PICK v : v = Named(n)
    OBVIOUS
  <2>2. v.variable = Spelled(q) /\ v.altitude = 0 /\ v.pressure = 0
    <3>1. v = [variable |-> Spelled(q), altitude |-> 0, pressure |-> 0]
      BY <1>1, <2>1, Zenon
    <3> QED BY <3>1
  <2>3. CanonicalName(v) = Plainly(Respelled(v.variable))
    BY <2>2 DEF CanonicalName
  <2> QED BY <2>1, <2>2, <2>3
<1> QED BY <1>2 DEF Plainly

LEMMA MetresReadBack ==
  ASSUME NEW q, Respelled(Spelled(q)) = q, NEW m \in Nat \ {0}, NEW n, n = <<q, m, "m">>
  PROVE  CanonicalName(Named(n)) = n
<1>1. Named(n) = [variable |-> Spelled(q), altitude |-> m, pressure |-> 0]
  BY DEF Named
<1>2. CanonicalName(Named(n)) = Metres(Respelled(Spelled(q)), m)
  <2>1. PICK v : v = Named(n)
    OBVIOUS
  <2>2. v.variable = Spelled(q) /\ v.altitude = m /\ v.pressure = 0
    BY <1>1, <2>1
  <2>3. CanonicalName(v) = Metres(Respelled(v.variable), v.altitude)
    BY <2>2 DEF CanonicalName
  <2> QED BY <2>1, <2>2, <2>3
<1> QED BY <1>2 DEF Metres

LEMMA AloftReadsBack ==
  ASSUME NEW q, Respelled(Spelled(q)) = q, NEW l \in Nat \ {0}, NEW n, n = <<q, l, "hPa">>
  PROVE  CanonicalName(Named(n)) = n
<1>1. Named(n) = [variable |-> Spelled(q), altitude |-> 0, pressure |-> l]
  BY DEF Named
<1>2. CanonicalName(Named(n)) = Aloft(Respelled(Spelled(q)), l)
  <2>1. PICK v : v = Named(n)
    OBVIOUS
  <2>2. v.variable = Spelled(q) /\ v.altitude = 0 /\ v.pressure = l
    BY <1>1, <2>1
  <2>3. CanonicalName(v) = Aloft(Respelled(v.variable), v.pressure)
    BY <2>2 DEF CanonicalName
  <2> QED BY <2>1, <2>2, <2>3
<1> QED BY <1>2 DEF Aloft

LEMMA ReadsBack ==
  ASSUME NEW n \in SurfaceNames \union PressureNames \union AirNames
  PROVE  CanonicalName(Named(n)) = n
<1>1. CASE n \in SurfaceNames
  <2>1. \A q \in PlainQuantities \union MetreQuantities : Respelled(Spelled(q)) = q
    BY DEF Spelled, Respelled, PlainQuantities, MetreQuantities
  <2>2. CASE \E q \in PlainQuantities : n = <<q, 0, "">>
    BY <2>1, <2>2, PlainReadsBack
  <2>3. CASE \E q \in MetreQuantities, m \in {2, 10} : n = <<q, m, "m">>
    <3>1. PICK q \in MetreQuantities, m \in {2, 10} : n = <<q, m, "m">>
      BY <2>3
    <3>2. m \in Nat \ {0} /\ Respelled(Spelled(q)) = q
      BY <2>1
    <3> QED BY <3>1, <3>2, MetresReadBack
  <2> QED BY <1>1, <2>2, <2>3, SurfaceSpelled
<1>2. CASE n \in PressureNames
  <2>1. PICK q \in {"wind_speed", "wind_direction", "relative_humidity", "geopotential_height"}, l \in Nat \ {0} :
          n = <<q, l, "hPa">>
    BY <1>2, PressureSpelled
  <2>2. Respelled(Spelled(q)) = q
    BY DEF Spelled, Respelled
  <2> QED BY <2>1, <2>2, AloftReadsBack
<1>3. CASE n \in AirNames
  <2>1. PICK q \in AirQuantities : n = <<q, 0, "">>
    BY <1>3, AirSpelled
  <2>2. Respelled(Spelled(q)) = q
    BY DEF Spelled, Respelled, AirQuantities
  <2> QED BY <2>1, <2>2, PlainReadsBack
<1> QED BY <1>1, <1>2, <1>3


-----------------------------------------------------------------------------
(* Every call is answered, on the one day or the other. *)
IsFetched ==
  /\ wanted \in Orders /\ DOMAIN calls = CallsFor(wanted)
  /\ \A c \in DOMAIN calls : calls[c].day \in {FirstDay, FirstDay + 24}

LEMMA CallsAre ==
  ASSUME NEW o, NEW c \in CallsFor(o)
  PROVE  /\ c \in {"surface", "pressure", "air", "US", "CA", "EU", "DE"}
         /\ VarsOf(o, c) \subseteq SurfaceNames \union PressureNames \union AirNames
         /\ c \notin {"pressure", "air"} => Temperature \in VarsOf(o, c)
<1>1. ToSet(Centers) = {"US", "CA", "EU", "DE"}
  <2>1. DOMAIN Centers = 1 .. 4 /\ Centers[1] = "US" /\ Centers[2] = "CA" /\ Centers[3] = "EU" /\ Centers[4] = "DE"
    BY DEF Centers
  <2> QED BY <2>1 DEF ToSet
<1>2. c \in {"surface", "pressure", "air", "US", "CA", "EU", "DE"}
  BY <1>1 DEF CallsFor
<1>3. /\ SurfaceVars(o) \subseteq SurfaceNames /\ PressureVars(o) \subseteq PressureNames
      /\ AirQualityVarsFor(o) \subseteq AirNames
  BY SurfaceNamed, PressureNamed, AirNamed
<1>4. Temperature \in SurfaceVars(o) /\ Temperature \in AgreementVars /\ AgreementVars \subseteq SurfaceNames
  BY DEF SurfaceVars, AgreementVars, SurfaceNames
<1>5. /\ VarsOf(o, "surface") = SurfaceVars(o) \union (IF Split(o) THEN {} ELSE PressureVars(o))
      /\ VarsOf(o, "pressure") = PressureVars(o) /\ VarsOf(o, "air") = AirQualityVarsFor(o)
      /\ c \in {"US", "CA", "EU", "DE"} => VarsOf(o, c) = AgreementVars
  BY DEF VarsOf
<1> QED BY <1>2, <1>3, <1>4, <1>5

(* An answer is, by the name that was asked for, what was said of it. *)
LEMMA Decoded ==
  ASSUME IsFetched, NEW c \in CallsFor(wanted)
  PROVE  DecodeResponse(wanted, c) =
           [n \in VarsOf(wanted, c) |-> [t \in Axis(c, calls[c].day) |-> Given(c, n, t)]]
<1> DEFINE names == VarsOf(wanted, c)
           axis == Axis(c, calls[c].day)
           came == {Named(n) : n \in names}
           named(n) == {v \in came : CanonicalName(v) = n}
<1>1. ASSUME NEW n \in names PROVE named(n) = {Named(n)}
  <2>1. \A m \in names : CanonicalName(Named(m)) = m
    BY CallsAre, ReadsBack
  <2> QED BY <2>1
<1>2. ASSUME NEW n \in names, NEW t \in axis
      PROVE  (IF named(n) = {} THEN NoReading ELSE Observed(ModelOf(wanted, c), CHOOSE v \in named(n) : TRUE, t))
               = Given(c, n, t)
  <2>1. named(n) # {} /\ (CHOOSE v \in named(n) : TRUE) = Named(n)
    BY <1>1
  <2>2. Given(c, n, t) = Observed(ModelOf(wanted, c), Named(n), t)
    BY DEF Given
  <2> HIDE DEF named
  <2> QED BY <2>1, <2>2
<1>3. DecodeResponse(wanted, c) =
        [n \in names |-> [t \in axis |->
           IF named(n) = {} THEN NoReading ELSE Observed(ModelOf(wanted, c), CHOOSE v \in named(n) : TRUE, t)]]
  BY DEF DecodeResponse
<1> HIDE DEF named, names, axis
<1> QED BY <1>2, <1>3 DEF names, axis

(* Series beside series, by the hour. *)
Beside(merged, onto, other, axis) ==
  /\ DOMAIN merged = DOMAIN onto \union DOMAIN other
  /\ \A n \in DOMAIN onto : merged[n] = onto[n]
  /\ \A n \in DOMAIN other \ DOMAIN onto :
       /\ DOMAIN merged[n] = axis
       /\ \A t \in axis : merged[n][t] = IF t \in DOMAIN other[n] THEN other[n][t] ELSE NoReading

LEMMA MergedOne ==
  ASSUME NEW onto, NEW other, NEW axis, DOMAIN onto[Temperature] = axis
  PROVE  Beside(MergeHourly(onto, other), onto, other, axis)
  BY DEF MergeHourly, Beside

FetchedNames(o) == SurfaceVars(o) \union PressureVars(o) \union AirQualityVarsFor(o)

LEMMA GivenOff == ASSUME NEW c, NEW n, NEW t, t \notin Axis(c, calls[c].day) PROVE Given(c, n, t) = NoReading
  BY DEF Given

(* What was merged is, hour by hour, what the call for each name was told. *)
LEMMA MergedIs ==
  ASSUME IsFetched, NEW axis, axis = Axis("surface", calls["surface"].day)
  PROVE  /\ DOMAIN Merged(wanted) = FetchedNames(wanted)
         /\ \A n \in FetchedNames(wanted) :
              DOMAIN Merged(wanted)[n] = axis /\ \A t \in axis : Merged(wanted)[n][t] = Given(SourceOf(n), n, t)
<1> DEFINE o == wanted
           S == DecodeResponse(o, "surface")
           P == DecodeResponse(o, "pressure")
           A == DecodeResponse(o, "air")
           H == IF "pressure" \in CallsFor(o) THEN MergeHourly(S, P) ELSE S
           Told(f, c, n) == DOMAIN f = axis /\ \A t \in axis : f[t] = Given(c, n, t)
<1>1. "surface" \in CallsFor(o)
  BY DEF CallsFor
<1>2. /\ "pressure" \in CallsFor(o) <=> Split(o) /\ PressureVars(o) # {}
      /\ "air" \in CallsFor(o) <=> AirQualityVarsFor(o) # {}
  <2>1. ToSet(Centers) = {"US", "CA", "EU", "DE"}
    <3>1. DOMAIN Centers = 1 .. 4 /\ Centers[1] = "US" /\ Centers[2] = "CA" /\ Centers[3] = "EU" /\ Centers[4] = "DE"
      BY DEF Centers
    <3> QED BY <3>1 DEF ToSet
  <2> QED BY <2>1 DEF CallsFor
<1>3. /\ VarsOf(o, "surface") = SurfaceVars(o) \union (IF Split(o) THEN {} ELSE PressureVars(o))
      /\ VarsOf(o, "pressure") = PressureVars(o) /\ VarsOf(o, "air") = AirQualityVarsFor(o)
      /\ Temperature \in SurfaceVars(o)
  BY DEF VarsOf, SurfaceVars
<1>4. /\ SurfaceVars(o) \subseteq SurfaceNames /\ PressureVars(o) \subseteq PressureNames
      /\ AirQualityVarsFor(o) \subseteq AirNames
  BY SurfaceNamed, PressureNamed, AirNamed
<1>5. /\ \A n \in SurfaceVars(o) : SourceOf(n) = "surface"
      /\ \A n \in PressureVars(o) : SourceOf(n) = IF Split(o) THEN "pressure" ELSE "surface"
      /\ \A n \in AirQualityVarsFor(o) : SourceOf(n) = "air"
  BY <1>4, NamesApart DEF SourceOf
<1>6. S = [n \in VarsOf(o, "surface") |-> [t \in axis |-> Given("surface", n, t)]]
  BY <1>1, Decoded
<1> HIDE DEF S
<1>7. /\ DOMAIN S = SurfaceVars(o) \union (IF Split(o) THEN {} ELSE PressureVars(o))
      /\ \A n \in DOMAIN S : Told(S[n], "surface", n)
      /\ DOMAIN S[Temperature] = axis
  BY <1>3, <1>6
<1> HIDE DEF Told
<1>8. /\ DOMAIN H = SurfaceVars(o) \union PressureVars(o)
      /\ \A n \in DOMAIN H : Told(H[n], SourceOf(n), n)
  <2>1. CASE "pressure" \in CallsFor(o)
    <3>1. P = [n \in PressureVars(o) |-> [t \in Axis("pressure", calls["pressure"].day) |-> Given("pressure", n, t)]]
      BY <1>3, <2>1, Decoded
    <3> HIDE DEF P
    <3>2. /\ DOMAIN P = PressureVars(o)
          /\ \A n \in DOMAIN P : DOMAIN P[n] = Axis("pressure", calls["pressure"].day)
          /\ \A n \in DOMAIN P : \A t \in DOMAIN P[n] : P[n][t] = Given("pressure", n, t)
      BY <3>1
    <3>3. PICK h : h = H /\ h = MergeHourly(S, P)
      BY <2>1
    <3> HIDE DEF H
    <3>4. /\ DOMAIN h = DOMAIN S \union DOMAIN P
          /\ \A n \in DOMAIN S : h[n] = S[n]
          /\ \A n \in DOMAIN P \ DOMAIN S :
               /\ DOMAIN h[n] = axis
               /\ \A t \in axis : h[n][t] = IF t \in DOMAIN P[n] THEN P[n][t] ELSE NoReading
      <4>1. DOMAIN S[Temperature] = axis
        BY <1>7
      <4>2. Beside(MergeHourly(S, P), S, P, axis)
        BY <4>1, MergedOne
      <4> QED BY <3>3, <4>2 DEF Beside
    <3>5. DOMAIN S = SurfaceVars(o)
      BY <1>2, <1>7, <2>1
    <3>6. ASSUME NEW n \in DOMAIN P \ DOMAIN S PROVE Told(h[n], "pressure", n)
      <4>1. \A t \in axis : (IF t \in DOMAIN P[n] THEN P[n][t] ELSE NoReading) = Given("pressure", n, t)
        BY <3>2, GivenOff
      <4> QED BY <3>4, <4>1 DEF Told
    <3> QED BY <1>2, <1>5, <1>7, <2>1, <3>2, <3>3, <3>4, <3>5, <3>6
  <2>2. CASE "pressure" \notin CallsFor(o)
    <3>1. H = S /\ DOMAIN S = SurfaceVars(o) \union PressureVars(o)
      BY <1>2, <1>7, <2>2
    <3>2. \A n \in DOMAIN S : SourceOf(n) = "surface"
      BY <1>2, <1>5, <2>2, <3>1
    <3> QED BY <1>7, <3>1, <3>2
  <2> QED BY <2>1, <2>2
<1>9. Merged(o) = IF "air" \in CallsFor(o) THEN MergeHourly(H, A) ELSE H
  BY DEF Merged, S
<1> HIDE DEF H
<1>10. DOMAIN H[Temperature] = axis
  BY <1>3, <1>8 DEF Told
<1>11. /\ DOMAIN Merged(o) = FetchedNames(o)
       /\ \A n \in FetchedNames(o) : Told(Merged(o)[n], SourceOf(n), n)
  <2>1. CASE "air" \in CallsFor(o)
    <3>1. A = [n \in AirQualityVarsFor(o) |-> [t \in Axis("air", calls["air"].day) |-> Given("air", n, t)]]
      BY <1>3, <2>1, Decoded
    <3> HIDE DEF A
    <3>2. /\ DOMAIN A = AirQualityVarsFor(o)
          /\ \A n \in DOMAIN A : DOMAIN A[n] = Axis("air", calls["air"].day)
          /\ \A n \in DOMAIN A : \A t \in DOMAIN A[n] : A[n][t] = Given("air", n, t)
      BY <3>1
    <3>3. PICK m : m = Merged(o) /\ m = MergeHourly(H, A)
      BY <1>9, <2>1
    <3>4. /\ DOMAIN m = DOMAIN H \union DOMAIN A
          /\ \A n \in DOMAIN H : m[n] = H[n]
          /\ \A n \in DOMAIN A \ DOMAIN H :
               /\ DOMAIN m[n] = axis
               /\ \A t \in axis : m[n][t] = IF t \in DOMAIN A[n] THEN A[n][t] ELSE NoReading
      <4>1. Beside(MergeHourly(H, A), H, A, axis)
        BY <1>10, MergedOne
      <4> QED BY <3>3, <4>1 DEF Beside
    <3>5. ASSUME NEW n \in DOMAIN A \ DOMAIN H PROVE Told(m[n], "air", n)
      <4>1. \A t \in axis : (IF t \in DOMAIN A[n] THEN A[n][t] ELSE NoReading) = Given("air", n, t)
        BY <3>2, GivenOff
      <4> QED BY <3>4, <4>1 DEF Told
    <3> QED BY <1>5, <1>8, <3>2, <3>3, <3>4, <3>5 DEF FetchedNames
  <2>2. CASE "air" \notin CallsFor(o)
    BY <1>2, <1>8, <1>9, <2>2 DEF FetchedNames
  <2> QED BY <2>1, <2>2
<1> QED BY <1>11 DEF Told

-----------------------------------------------------------------------------
(* The hours of some series are those of others that say the same of the
   names an hour is made of. *)
HourNames == {Temperature, Dewpoint, WeatherCode, Rain, Showers, Snowfall, FreezingLevel, Gusts}

Said(h, n, t) == IF n \in DOMAIN h THEN h[n][t] ELSE NoReading

LEMMA HourIs ==
  ASSUME NEW h, NEW t, NEW height
  PROVE  HourOf(h, t, height) =
           [temp |-> Said(h, Temperature, t), dew |-> Said(h, Dewpoint, t), code |-> Said(h, WeatherCode, t),
            rain |-> At0(Said(h, Rain, t)) + At0(Said(h, Showers, t)), snow |-> At0(Said(h, Snowfall, t)),
            above |-> Said(h, FreezingLevel, t) # NoReading /\ height >= Said(h, FreezingLevel, t),
            gust |-> Said(h, Gusts, t)]
  BY Zenon DEF HourOf, Said

LEMMA AxisIs ==
  ASSUME NEW a \in Int, NEW n \in Nat \ {0}
  PROVE  Min(a .. a + n - 1) = a /\ Cardinality(a .. a + n - 1) = n
<1>1. a \in a .. a + n - 1 /\ a .. a + n - 1 \in SUBSET Int /\ \A t \in a .. a + n - 1 : a <= t
  OBVIOUS
<1>2. Min(a .. a + n - 1) = a
  BY <1>1, MinIs
<1>3. Cardinality(a .. a + n - 1) = n
  <2>1. a + n - 1 \in Int /\ a <= a + n - 1 /\ (a + n - 1) - a + 1 = n
    OBVIOUS
  <2> QED BY <2>1, FS_Interval
<1> QED BY <1>2, <1>3

IsLaid(s, o, h, a, n, height) ==
  /\ s.from = a /\ s.offset = o.offset /\ s.starts = o.starts /\ s.lengths = o.lengths
  /\ s.hours = [i \in 1 .. n |-> AdjustPrecipPhase(HourOf(h, a + i - 1, height))]
  /\ s = [from |-> s.from, offset |-> s.offset, starts |-> s.starts, lengths |-> s.lengths, hours |-> s.hours]

LEMMA LaidIs ==
  ASSUME NEW o, NEW h, NEW a \in Int, NEW n \in Nat \ {0}, DOMAIN h[Temperature] = a .. a + n - 1, NEW height
  PROVE  IsLaid(Laid(o, h, height), o, h, a, n, height)
<1>1. Min(DOMAIN h[Temperature]) = a /\ Cardinality(DOMAIN h[Temperature]) = n
  BY AxisIs
<1>2. PICK s : s = Laid(o, h, height)
  OBVIOUS
<1>3. s = [from |-> a, offset |-> o.offset, starts |-> o.starts, lengths |-> o.lengths,
           hours |-> [i \in 1 .. n |-> AdjustPrecipPhase(HourOf(h, a + i - 1, height))]]
  BY <1>1, <1>2 DEF Laid
<1> QED BY <1>2, <1>3 DEF IsLaid

LEMMA SameLaid ==
  ASSUME NEW o, NEW h, NEW g, NEW a \in Int, NEW n \in Nat \ {0}, NEW height,
         DOMAIN h[Temperature] = a .. a + n - 1, DOMAIN g[Temperature] = a .. a + n - 1,
         \A m \in HourNames : \A t \in a .. a + n - 1 : Said(h, m, t) = Said(g, m, t)
  PROVE  Laid(o, h, height) = Laid(o, g, height)
<1>1. ASSUME NEW i \in 1 .. n PROVE HourOf(h, a + i - 1, height) = HourOf(g, a + i - 1, height)
  <2>1. PICK t \in a .. a + n - 1 : t = a + i - 1
    OBVIOUS
  <2>2. \A m \in HourNames : Said(h, m, t) = Said(g, m, t)
    OBVIOUS
  <2>3. /\ Said(h, Temperature, t) = Said(g, Temperature, t) /\ Said(h, Dewpoint, t) = Said(g, Dewpoint, t)
        /\ Said(h, WeatherCode, t) = Said(g, WeatherCode, t) /\ Said(h, Rain, t) = Said(g, Rain, t)
        /\ Said(h, Showers, t) = Said(g, Showers, t) /\ Said(h, Snowfall, t) = Said(g, Snowfall, t)
        /\ Said(h, FreezingLevel, t) = Said(g, FreezingLevel, t) /\ Said(h, Gusts, t) = Said(g, Gusts, t)
    BY <2>2, Zenon DEF HourNames
  <2>4. HourOf(h, t, height) = HourOf(g, t, height)
    BY <2>3, HourIs, Zenon
  <2> QED BY <2>1, <2>4
<1>2. PICK s : s = Laid(o, h, height)
  OBVIOUS
<1>3. PICK u : u = Laid(o, g, height)
  OBVIOUS
<1>4. /\ s.from = a /\ s.offset = o.offset /\ s.starts = o.starts /\ s.lengths = o.lengths
      /\ s.hours = [i \in 1 .. n |-> AdjustPrecipPhase(HourOf(h, a + i - 1, height))]
      /\ s = [from |-> s.from, offset |-> s.offset, starts |-> s.starts, lengths |-> s.lengths, hours |-> s.hours]
  <2>1. IsLaid(Laid(o, h, height), o, h, a, n, height)
    BY LaidIs
  <2>2. IsLaid(s, o, h, a, n, height)
    BY <1>2, <2>1
  <2> QED BY <2>2 DEF IsLaid
<1>5. /\ u.from = a /\ u.offset = o.offset /\ u.starts = o.starts /\ u.lengths = o.lengths
      /\ u.hours = [i \in 1 .. n |-> AdjustPrecipPhase(HourOf(g, a + i - 1, height))]
      /\ u = [from |-> u.from, offset |-> u.offset, starts |-> u.starts, lengths |-> u.lengths, hours |-> u.hours]
  <2>1. IsLaid(Laid(o, g, height), o, g, a, n, height)
    BY LaidIs
  <2>2. IsLaid(u, o, g, a, n, height)
    BY <1>3, <2>1
  <2> QED BY <2>2 DEF IsLaid
<1>6. s.hours = u.hours
  BY <1>1, <1>4, <1>5
<1>7. s = u
  BY <1>4, <1>5, <1>6, Zenon
<1> QED BY <1>2, <1>3, <1>7

(* The calls that are told of as periods: of the site and of the centers. *)
Tellers == DOMAIN calls \ {"pressure", "air"}
Reach == 384
Earliest(c) == AxisStart(calls[c].day)

LEMMA AxisOf ==
  ASSUME IsFetched, NEW c \in DOMAIN calls
  PROVE  /\ Earliest(c) \in Int
         /\ c # "air" => Axis(c, calls[c].day) = Earliest(c) .. Earliest(c) + Reach - 1
         /\ Axis(c, calls[c].day) \subseteq AxisStart(FirstDay) .. AxisEnd(FirstDay + 24)
         /\ Axis(c, calls[c].day) \subseteq Int
<1>1. PICK d \in Int : d = calls[c].day /\ (d = FirstDay \/ d = FirstDay + 24)
  BY UpstreamAssumption DEF IsFetched
<1>2. AxisStart(d) = d - 24 /\ AxisEnd(d) = d + 360 /\ FirstDay \in Nat
      /\ AxisStart(FirstDay) = FirstDay - 24 /\ AxisEnd(FirstDay + 24) = FirstDay + 384
  BY <1>1, UpstreamAssumption DEF AxisStart, AxisEnd, FillSlots
<1>3. c # "air" => Axis(c, d) = (d - 24) .. (d + 359)
  <2>1. c # "air" => Axis(c, d) = (d - 24) .. (d + 360) - 1
    BY <1>2 DEF Axis
  <2>2. (d + 360) - 1 = d + 359
    OBVIOUS
  <2> QED BY <2>1, <2>2, Zenon
<1>4. c = "air" => Axis(c, d) = (d - 24) .. (d + 119)
  <2>1. c = "air" => Axis(c, d) = (d - 24) .. (d + 24 * 5) - 1
    BY <1>2 DEF Axis, AirDays
  <2>2. (d + 24 * 5) - 1 = d + 119
    OBVIOUS
  <2> QED BY <2>1, <2>2, Zenon
<1>5. (d - 24) + Reach - 1 = d + 359
  BY DEF Reach
<1>6. Axis(c, d) \subseteq (d - 24) .. (d + 359)
  BY <1>3, <1>4
<1>7. Earliest(c) = d - 24 /\ Earliest(c) \in Int
  BY <1>1, <1>2 DEF Earliest
<1>8. c # "air" => Axis(c, d) = Earliest(c) .. Earliest(c) + Reach - 1
  BY <1>3, <1>5, <1>7, Zenon
<1>9. (d - 24) .. (d + 359) \subseteq AxisStart(FirstDay) .. AxisEnd(FirstDay + 24)
  BY <1>1, <1>2
<1>10. Axis(c, d) \subseteq AxisStart(FirstDay) .. AxisEnd(FirstDay + 24) /\ Axis(c, d) \subseteq Int
  BY <1>6, <1>9
<1> QED BY <1>1, <1>7, <1>8, <1>10, Zenon

LEMMA GivenKind ==
  ASSUME IsFetched, NEW c \in DOMAIN calls, NEW n \in VarsOf(wanted, c), NEW t
  PROVE  /\ Given(c, n, t) \in Int \union {NoReading}
         /\ n \in {Rain, Showers, Snowfall} => Given(c, n, t) \in Nat \union {NoReading}
<1>1. CASE t \in Axis(c, calls[c].day)
  <2>1. t \in AxisStart(FirstDay) .. AxisEnd(FirstDay + 24)
    BY <1>1, AxisOf
  <2>2. Given(c, n, t) = Observed(ModelOf(wanted, c), Named(n), t)
    BY <1>1 DEF Given
  <2>3. wanted \in Orders /\ c \in CallsFor(wanted)
    BY DEF IsFetched
  <2> QED BY <2>1, <2>2, <2>3, UpstreamAssumption
<1>2. CASE t \notin Axis(c, calls[c].day)
  BY <1>2, GivenOff
<1> QED BY <1>1, <1>2

(* What a call was told, as series. *)
Answer(c) == [n \in VarsOf(wanted, c) |-> [t \in Axis(c, calls[c].day) |-> Given(c, n, t)]]
SeriesFor(c) == IF c = "surface" THEN Merged(wanted) ELSE DecodeResponse(wanted, c)

LEMMA AnswerSaid ==
  ASSUME NEW c, NEW n, NEW t \in Axis(c, calls[c].day)
  PROVE  Said(Answer(c), n, t) = IF n \in VarsOf(wanted, c) THEN Given(c, n, t) ELSE NoReading
  BY DEF Said, Answer

(* The hours gathered for a teller are its own call's. *)
LEMMA GatheredIs ==
  ASSUME IsFetched, NEW c \in Tellers
  PROVE  Laid(wanted, SeriesFor(c), SiteHeight(ModelOf(wanted, c))) = AsGiven(c)
<1>1. c \in CallsFor(wanted) /\ c \in DOMAIN calls /\ c \notin {"pressure", "air"}
  BY DEF Tellers, IsFetched
<1>2. AsGiven(c) = Laid(wanted, Answer(c), SiteHeight(ModelOf(wanted, c)))
  BY DEF AsGiven, Answer
<1>3. CASE c # "surface"
  <2>1. SeriesFor(c) = Answer(c)
    BY <1>1, <1>3, Decoded DEF SeriesFor, Answer
  <2> QED BY <1>2, <2>1
<1>4. CASE c = "surface"
  <2>1. PICK a \in Int : Axis("surface", calls["surface"].day) = a .. a + Reach - 1
    BY <1>1, <1>4, AxisOf
  <2> DEFINE axis == a .. a + Reach - 1
  <2>2. PICK m : m = Merged(wanted)
    OBVIOUS
  <2>3. PICK g : g = Answer("surface")
    OBVIOUS
  <2>4. /\ DOMAIN m = FetchedNames(wanted)
        /\ \A n \in FetchedNames(wanted) : DOMAIN m[n] = axis /\ \A t \in axis : m[n][t] = Given(SourceOf(n), n, t)
    BY <2>1, <2>2, MergedIs
  <2>5. /\ SurfaceVars(wanted) \subseteq SurfaceNames /\ PressureVars(wanted) \subseteq PressureNames
        /\ AirQualityVarsFor(wanted) \subseteq AirNames
    BY SurfaceNamed, PressureNamed, AirNamed
  <2>6. HourNames \subseteq SurfaceNames /\ Temperature \in SurfaceVars(wanted)
    BY DEF HourNames, SurfaceNames, SurfaceVars
  <2>7. VarsOf(wanted, "surface") = SurfaceVars(wanted) \union (IF Split(wanted) THEN {} ELSE PressureVars(wanted))
    BY DEF VarsOf
  <2>8. ASSUME NEW n \in HourNames
        PROVE  /\ n \in FetchedNames(wanted) <=> n \in VarsOf(wanted, "surface")
               /\ n \in FetchedNames(wanted) => SourceOf(n) = "surface"
    <3>1. n \notin PressureNames /\ n \notin AirNames /\ n[3] # "hPa"
      BY <2>6, NamesApart
    <3>2. n \notin PressureVars(wanted) /\ n \notin AirQualityVarsFor(wanted)
      BY <2>5, <3>1
    <3> QED BY <2>7, <3>1, <3>2 DEF FetchedNames, SourceOf
  <2>9. ASSUME NEW n \in HourNames, NEW t \in axis PROVE Said(m, n, t) = Said(g, n, t)
    <3>1. Said(g, n, t) = IF n \in VarsOf(wanted, "surface") THEN Given("surface", n, t) ELSE NoReading
      BY <2>1, <2>3, AnswerSaid
    <3>2. Said(m, n, t) = IF n \in FetchedNames(wanted) THEN Given(SourceOf(n), n, t) ELSE NoReading
      BY <2>4 DEF Said
    <3> QED BY <2>8, <3>1, <3>2
  <2>10. DOMAIN m[Temperature] = axis
    BY <2>4, <2>6 DEF FetchedNames
  <2>11. DOMAIN g[Temperature] = axis
    BY <2>1, <2>3, <2>6, <2>7 DEF Answer
  <2>12. Reach \in Nat \ {0}
    BY DEF Reach
  <2> DEFINE height == SiteHeight(ModelOf(wanted, "surface"))
  <2> HIDE DEF height
  <2>13. Laid(wanted, m, height) = Laid(wanted, g, height)
    <3>1. DOMAIN m[Temperature] = a .. a + Reach - 1 /\ DOMAIN g[Temperature] = a .. a + Reach - 1
      BY <2>10, <2>11
    <3>2. \A n \in HourNames : \A t \in a .. a + Reach - 1 : Said(m, n, t) = Said(g, n, t)
      BY <2>9
    <3> HIDE DEF axis
    <3> QED BY <2>12, <3>1, <3>2, SameLaid
  <2> QED BY <1>2, <1>4, <2>2, <2>3, <2>13 DEF SeriesFor, height
<1> QED BY <1>3, <1>4

LEMMA OrdersAre ==
  ASSUME IsFetched
  PROVE  /\ wanted.offset \in Int
         /\ Len(wanted.starts) \in Nat /\ DOMAIN wanted.starts = 1 .. Len(wanted.starts)
         /\ DOMAIN wanted.lengths = DOMAIN wanted.starts
         /\ \A p \in DOMAIN wanted.starts : wanted.starts[p] \in Int /\ wanted.lengths[p] \in Nat \ {0}
<1>1. /\ wanted.offset \in Int /\ wanted.starts \in Seq(Int) /\ wanted.lengths \in Seq(Nat \ {0})
      /\ Len(wanted.starts) = Len(wanted.lengths)
  BY UpstreamAssumption DEF IsFetched
<1>2. /\ Len(wanted.starts) \in Nat /\ DOMAIN wanted.starts = 1 .. Len(wanted.starts)
      /\ \A p \in 1 .. Len(wanted.starts) : wanted.starts[p] \in Int
  BY <1>1, SequenceOf
<1>3. /\ DOMAIN wanted.lengths = 1 .. Len(wanted.starts)
      /\ \A p \in 1 .. Len(wanted.starts) : wanted.lengths[p] \in Nat \ {0}
  <2>1. PICK q \in Seq(Nat \ {0}) : q = wanted.lengths
    BY <1>1
  <2>2. DOMAIN q = 1 .. Len(q) /\ \A i \in 1 .. Len(q) : q[i] \in Nat \ {0}
    BY <2>1, SequenceOf
  <2> QED BY <1>1, <2>1, <2>2
<1> QED BY <1>1, <1>2, <1>3

(* An hour as a teller's call had it, and what was kept of it. *)
Was(c, t, h) ==
  /\ h \in Readings /\ h.temp = Given(c, Temperature, t)
  /\ h.rain = At0(Given(c, Rain, t)) + At0(Given(c, Showers, t)) /\ h.snow = At0(Given(c, Snowfall, t))

LEMMA GivenSky ==
  ASSUME IsFetched, NEW c \in Tellers, NEW s, s = AsGiven(c)
  PROVE  /\ s.from = Earliest(c) /\ s.from \in Int /\ s.offset \in Int
         /\ s.starts = wanted.starts /\ s.lengths = wanted.lengths
         /\ DOMAIN s.hours = 1 .. Reach /\ Len(s.hours) = Reach
         /\ \A i \in 1 .. Reach : \E h : Was(c, s.from + i - 1, h) /\ s.hours[i] = AdjustPrecipPhase(h)
<1>1. c \in CallsFor(wanted) /\ c \in DOMAIN calls /\ c \notin {"pressure", "air"}
  BY DEF Tellers, IsFetched
<1>2. PICK a \in Int : a = Earliest(c) /\ Axis(c, calls[c].day) = a .. a + Reach - 1
  BY <1>1, AxisOf
<1>3. PICK g : g = Answer(c)
  OBVIOUS
<1>4. Reach \in Nat \ {0}
  BY DEF Reach
<1>5. /\ {Temperature, Rain, Showers, Snowfall} \subseteq VarsOf(wanted, c)
  <2>1. {Temperature, Rain, Showers, Snowfall} \subseteq SurfaceVars(wanted)
    BY DEF SurfaceVars
  <2>2. c = "surface" \/ c \in {"US", "CA", "EU", "DE"}
    BY <1>1, CallsAre
  <2> QED BY <2>1, <2>2 DEF VarsOf, AgreementVars
<1>6. DOMAIN g[Temperature] = a .. a + Reach - 1
  BY <1>2, <1>3, <1>5 DEF Answer
<1> DEFINE height == SiteHeight(ModelOf(wanted, c))
<1> HIDE DEF height
<1>7. s = Laid(wanted, g, height)
  BY <1>3 DEF AsGiven, Answer, height
<1>8. /\ s.from = a /\ s.offset = wanted.offset /\ s.starts = wanted.starts /\ s.lengths = wanted.lengths
      /\ s.hours = [i \in 1 .. Reach |-> AdjustPrecipPhase(HourOf(g, a + i - 1, height))]
  <2>1. IsLaid(Laid(wanted, g, height), wanted, g, a, Reach, height)
    BY <1>4, <1>6, LaidIs
  <2>2. IsLaid(s, wanted, g, a, Reach, height)
    BY <1>7, <2>1
  <2> QED BY <2>2 DEF IsLaid
<1>9. ASSUME NEW t \in a .. a + Reach - 1 PROVE Was(c, t, HourOf(g, t, height))
  <2>1. \A n : Said(g, n, t) = IF n \in VarsOf(wanted, c) THEN Given(c, n, t) ELSE NoReading
    BY <1>2, <1>3, AnswerSaid
  <2>2. \A n : Said(g, n, t) \in Int \union {NoReading}
    BY <1>1, <2>1, GivenKind
  <2>3. /\ Said(g, Temperature, t) = Given(c, Temperature, t) /\ Said(g, Rain, t) = Given(c, Rain, t)
        /\ Said(g, Showers, t) = Given(c, Showers, t) /\ Said(g, Snowfall, t) = Given(c, Snowfall, t)
    BY <1>5, <2>1
  <2>4. \A n \in {Rain, Showers, Snowfall} : Given(c, n, t) \in Nat \union {NoReading}
    BY <1>1, <1>5, GivenKind
  <2>5. At0(Given(c, Rain, t)) \in Nat /\ At0(Given(c, Showers, t)) \in Nat /\ At0(Given(c, Snowfall, t)) \in Nat
    BY <2>4 DEF At0
  <2>6. PICK rain \in Nat : rain = At0(Given(c, Rain, t)) + At0(Given(c, Showers, t))
    BY <2>5
  <2>7. PICK snow \in Nat : snow = At0(Given(c, Snowfall, t))
    BY <2>5
  <2>8. PICK above \in BOOLEAN :
          above = (Said(g, FreezingLevel, t) # NoReading /\ height >= Said(g, FreezingLevel, t))
    BY Zenon
  <2>9. HourOf(g, t, height) =
          [temp |-> Said(g, Temperature, t), dew |-> Said(g, Dewpoint, t), code |-> Said(g, WeatherCode, t),
           rain |-> rain, snow |-> snow, above |-> above, gust |-> Said(g, Gusts, t)]
    BY <2>3, <2>6, <2>7, <2>8, HourIs, Zenon
  <2> HIDE DEF Said
  <2>10. HourOf(g, t, height) \in Readings
    BY <2>2, <2>9 DEF Readings
  <2>11. PICK h : h = HourOf(g, t, height)
    OBVIOUS
  <2>12. h.temp = Said(g, Temperature, t) /\ h.rain = rain /\ h.snow = snow
    BY <2>9, <2>11
  <2> QED BY <2>3, <2>6, <2>7, <2>10, <2>11, <2>12 DEF Was
<1>10. ASSUME NEW i \in 1 .. Reach
       PROVE  \E h : Was(c, s.from + i - 1, h) /\ s.hours[i] = AdjustPrecipPhase(h)
  <2>1. a + i - 1 \in a .. a + Reach - 1
    BY <1>4
  <2>2. s.hours[i] = AdjustPrecipPhase(HourOf(g, a + i - 1, height))
    BY <1>8
  <2> QED BY <1>8, <1>9, <2>1, <2>2
<1>11. DOMAIN s.hours = 1 .. Reach /\ Len(s.hours) = Reach
  BY <1>4, <1>8
<1>12. wanted.offset \in Int
  BY OrdersAre
<1> QED BY <1>2, <1>8, <1>10, <1>11, <1>12

(* A window runs over the hours of its period that are on the axis. *)
Runs(w, f, m, n) ==
  /\ w \in Seq(Int) /\ Len(w) = m /\ DOMAIN w = 1 .. m
  /\ \A k \in 1 .. m : w[k] = f + k - 1 /\ w[k] \in 1 .. n
(* from the a-th hour on; the period starts at hour start and has l. *)
Overlaps(f, m, n, a, start, l) ==
  \A i \in 1 .. n : (f <= i /\ i <= f + m - 1) <=> (start <= a + i - 1 /\ a + i - 1 <= start + l - 1)

IsWindow(w, s, p, n, a, start, l) ==
  w = WindowsFor(s)[p] /\ n = Len(s.hours) /\ a = s.from /\ start = s.starts[p] /\ l = s.lengths[p]

LEMMA Overlap ==
  ASSUME NEW n \in Nat, NEW first \in Int, NEW last \in Int, NEW f \in Int, NEW b \in Int, NEW m \in Nat,
         1 <= f, first <= f, f = 1 \/ f = first, b <= n, b <= last, b = n \/ b = last,
         m = b - f + 1 \/ (m = 0 /\ b - f + 1 < 0), NEW i \in 1 .. n
  PROVE  (f <= i /\ i <= f + m - 1) <=> (first <= i /\ i <= last)
  OBVIOUS

LEMMA WindowOf ==
  ASSUME NEW s, NEW p \in DOMAIN s.starts, NEW n \in Nat, NEW a \in Int, NEW start \in Int, NEW l \in Int,
         NEW w, IsWindow(w, s, p, n, a, start, l)
  PROVE  \E f \in Nat \ {0}, m \in Nat : Runs(w, f, m, n) /\ Overlaps(f, m, n, a, start, l)
<1>1. PICK first \in Int : first = start - a + 1
  OBVIOUS
<1>2. PICK last \in Int : last = first + l - 1
  BY <1>1
<1>3. PICK f \in Int : f = Max({1, first}) /\ 1 <= f /\ first <= f /\ (f = 1 \/ f = first)
  <2>1. {1, first} \in SUBSET Int
    OBVIOUS
  <2>2. CASE first >= 1
    <3>1. \A t \in {1, first} : t <= first
      BY <2>2
    <3>2. Max({1, first}) = first
      BY <2>1, <3>1, MaxIs
    <3> QED BY <2>2, <3>2
  <2>3. CASE first < 1
    <3>1. \A t \in {1, first} : t <= 1
      BY <2>3
    <3>2. Max({1, first}) = 1
      BY <2>1, <3>1, MaxIs
    <3> QED BY <2>3, <3>2
  <2>4. first >= 1 \/ first < 1
    OBVIOUS
  <2> QED BY <2>2, <2>3, <2>4, Zenon
<1>4. PICK b \in Int : b = Min({n, last}) /\ b <= n /\ b <= last /\ (b = n \/ b = last)
  <2>1. {n, last} \in SUBSET Int
    OBVIOUS
  <2>2. CASE last <= n
    <3>1. \A t \in {n, last} : last <= t
      BY <2>2
    <3>2. Min({n, last}) = last
      BY <2>1, <3>1, MinIs
    <3> QED BY <2>2, <3>2
  <2>3. CASE last > n
    <3>1. \A t \in {n, last} : n <= t
      BY <2>3
    <3>2. Min({n, last}) = n
      BY <2>1, <3>1, MinIs
    <3> QED BY <2>3, <3>2
  <2>4. last <= n \/ last > n
    OBVIOUS
  <2> QED BY <2>2, <2>3, <2>4, Zenon
<1>5. w = [k \in 1 .. b - f + 1 |-> f + k - 1]
  BY <1>1, <1>2, <1>3, <1>4 DEF WindowsFor, IsWindow
<1>6. PICK m \in Nat : 1 .. b - f + 1 = 1 .. m /\ (m = b - f + 1 \/ (m = 0 /\ b - f + 1 < 0))
  <2>1. PICK z \in Int : z = b - f + 1
    OBVIOUS
  <2>2. CASE z >= 0
    <3>1. z \in Nat
      BY <2>2
    <3> QED BY <2>1, <3>1
  <2>3. CASE z < 0
    <3>1. 1 .. z = 1 .. 0
      BY <2>3
    <3> QED BY <2>1, <2>3, <3>1
  <2>4. z >= 0 \/ z < 0
    OBVIOUS
  <2> QED BY <2>2, <2>3, <2>4, Zenon
<1>7. w = [k \in 1 .. m |-> f + k - 1]
  BY <1>5, <1>6
<1>8. ASSUME NEW k \in 1 .. m PROVE f + k - 1 \in 1 .. n
  <2>1. 1 <= k /\ k <= m /\ k \in Int
    OBVIOUS
  <2>2. m = b - f + 1
    BY <1>6, <2>1
  <2>3. 1 <= f /\ b <= n
    BY <1>3, <1>4
  <2> QED BY <2>1, <2>2, <2>3
<1>9. w \in Seq(Int) /\ Len(w) = m /\ DOMAIN w = 1 .. m /\ \A k \in 1 .. m : w[k] = f + k - 1
  BY <1>7
<1>10. Runs(w, f, m, n)
  <2>1. \A k \in 1 .. m : w[k] = f + k - 1 /\ w[k] \in 1 .. n
    BY <1>8, <1>9
  <2> QED BY <1>9, <2>1, Zenon DEF Runs
<1>11. ASSUME NEW i \in 1 .. n
       PROVE  (f <= i /\ i <= f + m - 1) <=> (start <= a + i - 1 /\ a + i - 1 <= start + l - 1)
  <2>1. (f <= i /\ i <= f + m - 1) <=> (first <= i /\ i <= last)
    <3>1. 1 <= f /\ first <= f /\ (f = 1 \/ f = first)
      BY <1>3
    <3>2. b <= n /\ b <= last /\ (b = n \/ b = last)
      BY <1>4
    <3>3. m = b - f + 1 \/ (m = 0 /\ b - f + 1 < 0)
      BY <1>6
    <3> QED BY <3>1, <3>2, <3>3, Overlap
  <2>2. (first <= i /\ i <= last) <=> (start <= a + i - 1 /\ a + i - 1 <= start + l - 1)
    BY <1>1, <1>2
  <2> QED BY <2>1, <2>2, Zenon
<1>12. f \in Nat \ {0}
  BY <1>3
<1>13. Overlaps(f, m, n, a, start, l)
  BY <1>11 DEF Overlaps
<1> QED BY <1>10, <1>12, <1>13

(* The same of a teller's. *)
Spans(c, p, w, f, m) ==
  Runs(w, f, m, Reach) /\ Overlaps(f, m, Reach, Earliest(c), wanted.starts[p], wanted.lengths[p])

LEMMA HoursOfWindow ==
  ASSUME IsFetched, NEW c \in Tellers, NEW s, s = AsGiven(c), NEW p \in DOMAIN wanted.starts, NEW w, w = WindowsFor(s)[p]
  PROVE  \E f \in Nat \ {0}, m \in Nat : Spans(c, p, w, f, m)
<1>1. /\ s.from = Earliest(c) /\ s.from \in Int /\ s.starts = wanted.starts /\ s.lengths = wanted.lengths
      /\ Len(s.hours) = Reach
  BY GivenSky
<1>2. PICK start \in Int : start = wanted.starts[p]
  BY OrdersAre
<1>3. PICK l \in Int : l = wanted.lengths[p]
  BY OrdersAre
<1>4. PICK n \in Nat : n = Reach
  BY DEF Reach
<1>5. PICK a \in Int : a = s.from
  BY <1>1
<1>6. \E f \in Nat \ {0}, m \in Nat : Runs(w, f, m, n) /\ Overlaps(f, m, n, a, start, l)
  <2>1. IsWindow(w, s, p, n, a, start, l) /\ p \in DOMAIN s.starts
    BY <1>1, <1>2, <1>3, <1>4, <1>5 DEF IsWindow
  <2> QED BY <2>1, WindowOf
<1> QED BY <1>1, <1>2, <1>3, <1>4, <1>5, <1>6 DEF Spans

LEMMA AxisFrom ==
  ASSUME IsFetched, NEW c \in Tellers
  PROVE  Earliest(c) \in Int /\ Axis(c, calls[c].day) = Earliest(c) .. Earliest(c) + Reach - 1
<1>1. c \in DOMAIN calls /\ c # "air"
  BY DEF Tellers
<1> QED BY <1>1, AxisOf

(* A window's hours are those of its period that the call has. *)
OfPeriod(c, p, w) ==
  /\ {Earliest(c) + w[k] - 1 : k \in DOMAIN w} = During(p, Axis(c, calls[c].day))
  /\ w = <<>> <=> During(p, Axis(c, calls[c].day)) = {}
  /\ \A k \in DOMAIN w : w[k] \in 1 .. Reach /\ Earliest(c) + w[k] - 1 \in Axis(c, calls[c].day)

LEMMA WindowIsDuring ==
  ASSUME IsFetched, NEW c \in Tellers, NEW s, s = AsGiven(c), NEW p \in DOMAIN wanted.starts
  PROVE  OfPeriod(c, p, WindowsFor(s)[p])
<1>0. PICK w : w = WindowsFor(s)[p]
  OBVIOUS
<1>1. PICK f \in Nat \ {0}, m \in Nat : Spans(c, p, w, f, m)
  BY <1>0, HoursOfWindow
<1>2. PICK a \in Int : a = Earliest(c) /\ Axis(c, calls[c].day) = a .. a + Reach - 1
  BY AxisFrom
<1>3. PICK start \in Int : start = wanted.starts[p]
  BY OrdersAre
<1>4. PICK l \in Int : l = wanted.lengths[p]
  BY OrdersAre
<1>5. PICK axis : axis = Axis(c, calls[c].day)
  OBVIOUS
<1>6. During(p, axis) = {t \in start .. start + l - 1 : t \in axis}
  BY <1>3, <1>4 DEF During
<1>7. Reach \in Nat
  BY DEF Reach
<1>8. /\ DOMAIN w = 1 .. m /\ w \in Seq(Int) /\ Len(w) = m
      /\ \A k \in 1 .. m : w[k] = f + k - 1 /\ w[k] \in 1 .. Reach
  BY <1>1 DEF Spans, Runs
<1>9. \A i \in 1 .. Reach : (f <= i /\ i <= f + m - 1) <=> (start <= a + i - 1 /\ a + i - 1 <= start + l - 1)
  BY <1>1, <1>2, <1>3, <1>4 DEF Spans, Overlaps
<1>10. ASSUME NEW k \in 1 .. m PROVE a + w[k] - 1 \in During(p, axis) /\ a + w[k] - 1 \in axis /\ w[k] \in 1 .. Reach
  <2>1. PICK i \in 1 .. Reach : i = w[k] /\ f <= i /\ i <= f + m - 1
    BY <1>8
  <2>2. start <= a + i - 1 /\ a + i - 1 <= start + l - 1
    BY <1>9, <2>1
  <2>3. a + i - 1 \in axis
    BY <1>2, <1>5, <1>7
  <2> QED BY <1>6, <2>1, <2>2, <2>3
<1>11. ASSUME NEW t \in During(p, axis) PROVE \E k \in 1 .. m : t = a + w[k] - 1
  <2>1. t \in Int /\ start <= t /\ t <= start + l - 1 /\ a <= t /\ t <= a + Reach - 1
    BY <1>2, <1>5, <1>6, <1>7
  <2>2. PICK i \in 1 .. Reach : i = t - a + 1 /\ t = a + i - 1
    BY <1>7, <2>1
  <2>3. f <= i /\ i <= f + m - 1
    BY <1>9, <2>1, <2>2
  <2>4. PICK k \in 1 .. m : k = i - f + 1 /\ f + k - 1 = i
    BY <2>3
  <2> QED BY <1>8, <2>2, <2>4
<1>12. {a + w[k] - 1 : k \in DOMAIN w} = During(p, axis)
  <2> DEFINE told == {a + w[k] - 1 : k \in DOMAIN w}
  <2>1. \A t \in told : t \in During(p, axis)
    BY <1>8, <1>10
  <2>2. \A t \in During(p, axis) : t \in told
    BY <1>8, <1>11
  <2> HIDE DEF told
  <2>3. told = During(p, axis)
    BY <2>1, <2>2
  <2> QED BY <2>3 DEF told
<1>13. w = <<>> <=> m = 0
  BY <1>8, EmptySeq
<1>14. m = 0 <=> During(p, axis) = {}
  BY <1>8, <1>10, <1>11
<1>15. \A k \in DOMAIN w : w[k] \in 1 .. Reach /\ a + w[k] - 1 \in axis
  BY <1>8, <1>10
<1>16. w = <<>> <=> During(p, axis) = {}
  BY <1>13, <1>14, Zenon
<1> QED BY <1>0, <1>2, <1>5, <1>12, <1>15, <1>16, Zenon DEF OfPeriod

(* The hours a teller's periods are told of. *)
LEMMA GivenTemps ==
  ASSUME IsFetched, NEW c \in Tellers, NEW s, s = AsGiven(c)
  PROVE  /\ Temps(s.hours, Reach) /\ LaidOver(WindowsFor(s), Reach)
         /\ DOMAIN WindowsFor(s) = DOMAIN wanted.starts
         /\ \A i \in 1 .. Reach : s.hours[i].temp = Given(c, Temperature, s.from + i - 1)
<1>1. \A i \in 1 .. Reach : \E h : Was(c, s.from + i - 1, h) /\ s.hours[i] = AdjustPrecipPhase(h)
  BY GivenSky
<1>2. ASSUME NEW h \in Readings PROVE AdjustPrecipPhase(h).temp = h.temp /\ h.temp \in Int \union {NoReading}
  BY DEF AdjustPrecipPhase, Readings
<1>3. \A i \in 1 .. Reach : /\ s.hours[i].temp = Given(c, Temperature, s.from + i - 1)
                            /\ s.hours[i].temp \in Int \union {NoReading}
  BY <1>1, <1>2 DEF Was
<1>4. DOMAIN WindowsFor(s) = DOMAIN wanted.starts
  BY GivenSky DEF WindowsFor
<1>5. ASSUME NEW p \in DOMAIN wanted.starts PROVE \E m \in Nat : WindowsFor(s)[p] \in [1 .. m -> 1 .. Reach]
  <2>1. PICK w : w = WindowsFor(s)[p]
    OBVIOUS
  <2>2. PICK f \in Nat \ {0}, m \in Nat : Runs(w, f, m, Reach)
    BY <2>1, HoursOfWindow DEF Spans
  <2>3. w \in [1 .. m -> 1 .. Reach]
    <3>1. w \in Seq(Int) /\ Len(w) = m /\ \A k \in 1 .. m : w[k] \in 1 .. Reach
      BY <2>2 DEF Runs
    <3> QED BY <3>1
  <2> QED BY <2>1, <2>3
<1>6. LaidOver(WindowsFor(s), Reach)
  <2>1. Len(wanted.starts) \in Nat /\ DOMAIN wanted.starts = 1 .. Len(wanted.starts)
    BY OrdersAre
  <2> QED BY <1>4, <1>5, <2>1 DEF LaidOver
<1> QED BY <1>3, <1>4, <1>6 DEF Temps

(* A period has a temperature where its call has one in it. *)
LEMMA DataKnown ==
  ASSUME IsFetched, NEW c \in Tellers, NEW s, s = AsGiven(c), NEW p \in DOMAIN wanted.starts, NEW w, w = WindowsFor(s)[p]
  PROVE  HasData(s.hours, w) <=> Knows(c, p)
<1>1. /\ {s.from + w[k] - 1 : k \in DOMAIN w} = During(p, Axis(c, calls[c].day))
      /\ \A k \in DOMAIN w : w[k] \in 1 .. Reach
  <2>1. OfPeriod(c, p, w)
    BY WindowIsDuring
  <2>2. s.from = Earliest(c)
    BY GivenSky
  <2> QED BY <2>1, <2>2 DEF OfPeriod
<1>2. \A i \in 1 .. Reach : s.hours[i].temp = Given(c, Temperature, s.from + i - 1)
  BY GivenTemps
<1>3. \A k \in DOMAIN w : s.hours[w[k]].temp = Given(c, Temperature, s.from + w[k] - 1)
  BY <1>1, <1>2
<1> QED BY <1>1, <1>3 DEF HasData, Knows

LEMMA RowKnown ==
  ASSUME IsFetched, NEW c \in Tellers, NEW s, s = AsGiven(c), NEW p \in DOMAIN wanted.starts,
         NEW told, told = RowsFromWindows(s, s.hours, WindowsFor(s))
  PROVE  told[p].temp # NoReading <=> Knows(c, p)
<1>1. PICK win : win = WindowsFor(s)
  OBVIOUS
<1>2. PICK hours : hours = s.hours
  OBVIOUS
<1>3. PICK n \in Nat : n = Reach
  BY DEF Reach
<1>4. Temps(hours, n) /\ LaidOver(win, n) /\ p \in DOMAIN win
  BY <1>1, <1>2, <1>3, GivenTemps
<1>5. HasData(hours, win[p]) <=> Knows(c, p)
  BY <1>1, <1>2, DataKnown
<1>6. told = RowsFromWindows(s, hours, win)
  BY <1>1, <1>2
<1>7. CASE ~HasData(hours, win[p])
  <2>1. RepresentativeTempIndices(s, hours, win)[p] = NoReading
    BY <1>4, <1>7 DEF RepresentativeTempIndices
  <2>2. told[p].temp = NoReading
    BY <1>4, <1>6, <2>1, RowUnknown
  <2> QED BY <1>5, <1>7, <2>2
<1>8. CASE HasData(hours, win[p])
  <2>1. PICK day \in DaysOf(s, hours, win) : p \in day
    BY <1>4, <1>8, DaysPart
  <2>2. /\ day \in SUBSET DOMAIN win /\ day # {} /\ \A q \in day : HasData(hours, win[q])
        /\ RepresentativeTempIndices(s, hours, win)[p] = TellsAt(hours, win, day, p)
    BY <2>1, DaysPart
  <2>3. TellsAt(hours, win, day, p) \in Readable(hours, win[p])
    BY <1>4, <2>1, <2>2, DayTold
  <2>4. PICK m \in Nat : win[p] \in [1 .. m -> 1 .. n]
    BY <1>4 DEF LaidOver
  <2>5. ToSet(win[p]) \subseteq 1 .. n
    BY <2>4 DEF ToSet
  <2>6. PICK i \in 1 .. n : i = TellsAt(hours, win, day, p) /\ hours[i].temp # NoReading
    BY <2>3, <2>5 DEF Readable
  <2>7. i # NoReading
    BY UpstreamAssumption
  <2>8. RepresentativeTempIndices(s, hours, win)[p] = i
    BY <2>1, <2>2, <2>6
  <2>9. told[p].temp = hours[i].temp
    BY <1>4, <1>6, <2>7, <2>8, RowIs
  <2> QED BY <1>5, <1>8, <2>6, <2>9
<1> QED BY <1>7, <1>8

-----------------------------------------------------------------------------
(* A sum with nothing before and after is the sum. *)
Padded(v, u, d, m, e) ==
  /\ v \in [1 .. d + m + e -> Nat]
  /\ \A k \in 1 .. m : v[d + k] = u[k]
  /\ \A k \in 1 .. d + m + e : k <= d \/ k > d + m => v[k] = 0

LEMMA SumPadded ==
  ASSUME NEW m \in Nat, NEW u \in [1 .. m -> Nat], NEW d \in Nat, NEW e \in Nat, NEW v, Padded(v, u, d, m, e)
  PROVE  SumOf(v) = SumOf(u)
<1>0. /\ v \in [1 .. d + m + e -> Nat]
      /\ \A k \in 1 .. m : v[d + k] = u[k]
      /\ \A k \in 1 .. d + m + e : k <= d \/ k > d + m => v[k] = 0
  BY DEF Padded
<1>1. PICK n \in Nat : n = d + m + e
  OBVIOUS
<1> DEFINE f == Sums(v)
           g == Sums(u)
           S == {k \in 0 .. n : f[k] = IF k <= d THEN 0 ELSE IF k <= d + m THEN g[k - d] ELSE g[m]}
<1>2. SumOf(v) = f[n] /\ f[0] = 0 /\ \A k \in 1 .. n : f[k] = f[k - 1] + v[k]
  BY <1>0, <1>1, SumOfIs
<1>3. SumOf(u) = g[m] /\ g[0] = 0 /\ g \in [0 .. m -> Nat] /\ \A k \in 1 .. m : g[k] = g[k - 1] + u[k]
  BY SumOfIs
<1> HIDE DEF f, g
<1>4. 0 \in S
  BY <1>2
<1>5. ASSUME NEW k \in 0 .. n - 1, k \in S PROVE k + 1 \in S
  <2>1. k + 1 \in 1 .. n /\ (k + 1) - 1 = k /\ k + 1 \in 0 .. n
    OBVIOUS
  <2>2. f[k + 1] = f[k] + v[k + 1]
    <3>1. f[k + 1] = f[(k + 1) - 1] + v[k + 1]
      BY <1>2, <2>1, Zenon
    <3> QED BY <2>1, <3>1, Zenon
  <2>3. f[k] = IF k <= d THEN 0 ELSE IF k <= d + m THEN g[k - d] ELSE g[m]
    BY <1>5
  <2>4. CASE k + 1 <= d
    <3>1. v[k + 1] = 0
      BY <1>0, <1>1, <2>1, <2>4
    <3>2. f[k + 1] = 0
      BY <2>2, <2>3, <2>4, <3>1
    <3> QED BY <2>1, <2>4, <3>2
  <2>5. CASE d < k + 1 /\ k + 1 <= d + m
    <3>1. PICK j \in 1 .. m : j = k + 1 - d /\ d + j = k + 1
      BY <2>5
    <3>2. v[k + 1] = u[j] /\ u[j] \in Nat
      BY <1>0, <3>1
    <3>3. f[k] = g[j - 1] /\ g[j - 1] \in Nat
      <4>1. CASE k = d
        <5>1. j = 1 /\ f[k] = 0 /\ j - 1 = 0
          BY <2>3, <3>1, <4>1
        <5> QED BY <1>3, <5>1
      <4>2. CASE k # d
        <5>1. ~(k <= d) /\ k <= d + m /\ k - d = j - 1
          BY <2>5, <3>1, <4>2
        <5>2. j - 1 \in 0 .. m
          BY <3>1
        <5> QED BY <1>3, <2>3, <5>1, <5>2
      <4> QED BY <4>1, <4>2
    <3>4. g[j] = g[j - 1] + u[j]
      BY <1>3, <3>1
    <3>5. f[k + 1] = g[j]
      BY <2>2, <3>2, <3>3, <3>4
    <3>6. ~(k + 1 <= d) /\ k + 1 <= d + m /\ (k + 1) - d = j
      BY <2>5, <3>1
    <3> QED BY <2>1, <3>5, <3>6
  <2>6. CASE k + 1 > d + m
    <3>1. v[k + 1] = 0
      BY <1>0, <1>1, <2>1, <2>6
    <3>2. g[m] \in Nat /\ f[k] = g[m]
      <4>1. g[m] \in Nat
        BY <1>3
      <4>2. CASE k > d + m
        BY <2>3, <4>1, <4>2
      <4>3. CASE k = d + m /\ m # 0
        <5>1. ~(k <= d) /\ k <= d + m /\ k - d = m
          BY <4>3
        <5> QED BY <2>3, <4>1, <5>1
      <4>4. CASE k = d + m /\ m = 0
        BY <1>3, <2>3, <4>1, <4>4
      <4> QED BY <2>6, <4>2, <4>3, <4>4
    <3>3. f[k + 1] = g[m]
      BY <2>2, <3>1, <3>2
    <3>4. ~(k + 1 <= d) /\ ~(k + 1 <= d + m)
      BY <2>6
    <3> QED BY <2>1, <3>3, <3>4
  <2> QED BY <2>4, <2>5, <2>6
<1> HIDE DEF S
<1>6. \A k \in 0 .. n : k \in S
  BY <1>4, <1>5, OneByOne
<1>7. f[n] = IF n <= d THEN 0 ELSE IF n <= d + m THEN g[n - d] ELSE g[m]
  BY <1>6 DEF S
<1>8. f[n] = g[m]
  <2>1. CASE e # 0
    <3>1. ~(n <= d) /\ ~(n <= d + m)
      BY <1>1, <2>1
    <3> QED BY <1>7, <3>1
  <2>2. CASE e = 0 /\ m # 0
    <3>1. ~(n <= d) /\ n <= d + m /\ n - d = m
      BY <1>1, <2>2
    <3> QED BY <1>7, <3>1
  <2>3. CASE e = 0 /\ m = 0
    BY <1>1, <1>3, <1>7, <2>3
  <2> QED BY <2>1, <2>2, <2>3
<1> QED BY <1>2, <1>3, <1>8

(* What fell in an hour, by a call's account. *)
Fell(c, t) == 7 * (At0(Given(c, Rain, t)) + At0(Given(c, Showers, t))) + At0(Given(c, Snowfall, t))

LEMMA FellOff == ASSUME NEW c, NEW t, t \notin Axis(c, calls[c].day) PROVE Fell(c, t) = 0
<1>1. At0(Given(c, Rain, t)) = 0 /\ At0(Given(c, Showers, t)) = 0 /\ At0(Given(c, Snowfall, t)) = 0
  BY GivenOff DEF At0
<1> QED BY <1>1 DEF Fell

LEMMA HourFell ==
  ASSUME IsFetched, NEW c \in Tellers, NEW s, s = AsGiven(c), NEW i \in 1 .. Reach
  PROVE  /\ s.hours[i].rain \in Nat /\ s.hours[i].snow \in Nat
         /\ Fell(c, s.from + i - 1) = 7 * s.hours[i].rain + s.hours[i].snow
<1>1. PICK h : Was(c, s.from + i - 1, h) /\ s.hours[i] = AdjustPrecipPhase(h)
  BY GivenSky
<1>2. h \in Readings
  BY <1>1 DEF Was
<1>3. PICK g : g = AdjustPrecipPhase(h) /\ g = s.hours[i]
  BY <1>1
<1>4. g.rain \in Nat /\ g.snow \in Nat /\ 7 * g.rain + g.snow = 7 * h.rain + h.snow
  BY <1>2, <1>3, HourCorrected
<1>5. Fell(c, s.from + i - 1) = 7 * h.rain + h.snow
  BY <1>1 DEF Was, Fell
<1> QED BY <1>3, <1>4, <1>5

LEMMA WaterIs ==
  ASSUME NEW c, NEW p
  PROVE  Water(c, p) = SumOf([k \in 1 .. wanted.lengths[p] |-> Fell(c, wanted.starts[p] + k - 1)])
  BY DEF Water, Fell, SnowPerRain

(* What a period's row tells of water is what fell, over all its hours. *)
LEMMA WaterTold ==
  ASSUME IsFetched, NEW c \in Tellers, NEW s, s = AsGiven(c), NEW p \in DOMAIN wanted.starts,
         NEW told, told = RowsFromWindows(s, s.hours, WindowsFor(s))
  PROVE  7 * told[p].rain + told[p].snow = Water(c, p)
<1>1. PICK w : w = WindowsFor(s)[p]
  OBVIOUS
<1>2. PICK f \in Nat \ {0}, m \in Nat : Spans(c, p, w, f, m)
  BY <1>1, HoursOfWindow
<1>3. DOMAIN w = 1 .. m /\ \A k \in 1 .. m : w[k] = f + k - 1 /\ w[k] \in 1 .. Reach
  BY <1>2 DEF Spans, Runs
<1>4. PICK a \in Int : a = s.from /\ a = Earliest(c) /\ Axis(c, calls[c].day) = a .. a + Reach - 1
  BY AxisFrom, GivenSky
<1>5. PICK start \in Int : start = wanted.starts[p]
  BY OrdersAre
<1>6. PICK l \in Nat \ {0} : l = wanted.lengths[p]
  BY OrdersAre
<1>7. /\ Reach \in Nat
      /\ \A i \in 1 .. Reach : (f <= i /\ i <= f + m - 1) <=> (start <= a + i - 1 /\ a + i - 1 <= start + l - 1)
  <2>1. Overlaps(f, m, Reach, Earliest(c), wanted.starts[p], wanted.lengths[p])
    BY <1>2 DEF Spans
  <2>2. Overlaps(f, m, Reach, a, start, l)
    BY <1>4, <1>5, <1>6, <2>1
  <2>3. Reach \in Nat
    BY DEF Reach
  <2> QED BY <2>2, <2>3, Zenon DEF Overlaps
<1> DEFINE r == [k \in 1 .. m |-> s.hours[w[k]].rain]
           n == [k \in 1 .. m |-> s.hours[w[k]].snow]
           u == [k \in 1 .. m |-> Fell(c, a + w[k] - 1)]
           v == [k \in 1 .. l |-> Fell(c, start + k - 1)]
<1>8. told[p].rain = SumOf(r) /\ told[p].snow = SumOf(n)
  <2>1. p \in DOMAIN WindowsFor(s)
    BY GivenTemps
  <2>2. told[p].snow = SnowOf(s.hours, w) /\ told[p].rain = RainOf(s.hours, w)
    BY <1>1, <2>1, RowIs
  <2> QED BY <1>3, <2>2 DEF SnowOf, RainOf
<1>9. ASSUME NEW k \in 1 .. m
      PROVE  /\ s.hours[w[k]].rain \in Nat /\ s.hours[w[k]].snow \in Nat
             /\ Fell(c, a + w[k] - 1) = 7 * s.hours[w[k]].rain + s.hours[w[k]].snow
             /\ Fell(c, a + w[k] - 1) \in Nat
  <2>1. PICK i \in 1 .. Reach : i = w[k]
    BY <1>3
  <2>2. /\ s.hours[i].rain \in Nat /\ s.hours[i].snow \in Nat
        /\ Fell(c, s.from + i - 1) = 7 * s.hours[i].rain + s.hours[i].snow
    BY HourFell
  <2>3. /\ s.hours[w[k]].rain \in Nat /\ s.hours[w[k]].snow \in Nat
        /\ Fell(c, a + w[k] - 1) = 7 * s.hours[w[k]].rain + s.hours[w[k]].snow
    BY <1>4, <2>1, <2>2
  <2> QED BY <2>3
<1>10. r \in [1 .. m -> Nat] /\ n \in [1 .. m -> Nat] /\ u \in [1 .. m -> Nat]
       /\ \A k \in 1 .. m : u[k] = 7 * r[k] + n[k]
  BY <1>9
<1>11. SumOf(u) = 7 * SumOf(r) + SumOf(n)
  <2> HIDE DEF r, n, u
  <2> QED BY <1>3, <1>10, SumsTogether
<1>12. Water(c, p) = SumOf(v)
  BY <1>5, <1>6, WaterIs
<1>13. ASSUME NEW t, t \in start .. start + l - 1, \A k \in 1 .. m : t # a + w[k] - 1 PROVE Fell(c, t) = 0
  <2>1. SUFFICES ASSUME t \in Axis(c, calls[c].day) PROVE FALSE
    BY FellOff
  <2>2. PICK i \in 1 .. Reach : i = t - a + 1 /\ t = a + i - 1
    BY <1>4, <1>7, <2>1
  <2>3. f <= i /\ i <= f + m - 1
    <3>1. t \in start .. start + l - 1
      BY <1>13, Zenon
    <3>2. start <= t /\ t <= start + l - 1
      BY <3>1
    <3>3. start <= a + i - 1 /\ a + i - 1 <= start + l - 1
      BY <2>2, <3>2
    <3> QED BY <1>7, <2>2, <3>3, Zenon
  <2>4. PICK k \in 1 .. m : k = i - f + 1 /\ f + k - 1 = i
    BY <1>3, <2>3
  <2> QED BY <1>3, <1>13, <2>2, <2>4
<1>14. SumOf(v) = SumOf(u)
  <2>1. CASE m = 0
    <3>1. \A k \in 1 .. l : v[k] = 0
      BY <1>13, <2>1
    <3>2. v \in [1 .. l -> Nat]
      BY <3>1
    <3>3. u \in [1 .. 0 -> Nat] /\ \A k \in 1 .. 0 : u[k] = 0
      BY <1>10, <2>1
    <3> HIDE DEF u, v
    <3>4. SumOf(v) = 0 /\ SumOf(u) = 0
      BY <3>1, <3>2, <3>3, SumOfNone
    <3> QED BY <3>4
  <2>2. CASE m # 0
    <3>1. 1 \in 1 .. m /\ m \in 1 .. m /\ w[1] = f /\ w[m] = f + m - 1 /\ f \in 1 .. Reach /\ f + m - 1 \in 1 .. Reach
      BY <1>3, <2>2
    <3>2. start <= a + f - 1 /\ a + (f + m - 1) - 1 <= start + l - 1
      <4>1. PICK y \in 1 .. Reach : y = f
        BY <3>1
      <4>2. PICK z \in 1 .. Reach : z = f + m - 1
        BY <3>1
      <4>3. f <= y /\ y <= f + m - 1 /\ f <= z /\ z <= f + m - 1
        BY <2>2, <4>1, <4>2
      <4>4. start <= a + y - 1 /\ a + z - 1 <= start + l - 1
        BY <1>7, <4>3
      <4> QED BY <4>1, <4>2, <4>4
    <3>3. PICK d \in Nat : d = a + f - 1 - start
      BY <3>2
    <3>4. PICK e \in Nat : d + m + e = l
      <4>1. l - d - m \in Nat /\ d + m + (l - d - m) = l
        BY <3>2, <3>3
      <4> QED BY <4>1
    <3>5. ASSUME NEW k \in 1 .. m PROVE v[d + k] = u[k]
      <4>1. d + k \in 1 .. l /\ start + (d + k) - 1 = a + w[k] - 1
        <5>1. w[k] = f + k - 1
          BY <1>3
        <5> QED BY <3>3, <3>4, <5>1
      <4> QED BY <4>1
    <3>6. ASSUME NEW k \in 1 .. l, k <= d \/ k > d + m PROVE v[k] = 0
      <4>1. PICK t : t = start + k - 1
        OBVIOUS
      <4>2. t \in start .. start + l - 1
        BY <4>1
      <4>3. ASSUME NEW j \in 1 .. m PROVE t # a + w[j] - 1
        <5>1. w[j] = f + j - 1
          BY <1>3
        <5>2. k # d + j
          BY <3>6
        <5> QED BY <3>3, <4>1, <5>1, <5>2
      <4> QED BY <1>13, <4>1, <4>2, <4>3
    <3>7. ASSUME NEW k \in 1 .. l PROVE v[k] \in Nat
      <4>1. CASE k <= d \/ k > d + m
        BY <3>6, <4>1
      <4>2. CASE ~(k <= d \/ k > d + m)
        <5>1. PICK j \in 1 .. m : j = k - d /\ d + j = k
          BY <3>3, <4>2
        <5>2. v[k] = u[j] /\ u[j] \in Nat
          BY <1>10, <3>5, <5>1
        <5> QED BY <5>2
      <4> QED BY <4>1, <4>2
    <3>8. v \in [1 .. d + m + e -> Nat]
      BY <3>4, <3>7
    <3>9. \A k \in 1 .. d + m + e : k <= d \/ k > d + m => v[k] = 0
      BY <3>4, <3>6
    <3> HIDE DEF u, v
    <3>10. Padded(v, u, d, m, e)
      BY <3>5, <3>8, <3>9 DEF Padded
    <3>11. u \in [1 .. m -> Nat]
      BY <1>10
    <3> QED BY <3>10, <3>11, SumPadded
  <2> QED BY <2>1, <2>2
<1> HIDE DEF r, n, u, v
<1> QED BY <1>8, <1>11, <1>12, <1>14

LEMMA ScoredAsGiven ==
  ASSUME IsFetched, NEW c \in Tellers, NEW s, s = AsGiven(c), NEW p \in DOMAIN wanted.starts,
         NEW told, told = RowsFromWindows(s, s.hours, WindowsFor(s))
  PROVE  PrecipCategory(told[p], wanted.lengths[p]) = Category(c, p, told[p])
<1>1. SnowPerRain * told[p].rain + told[p].snow = Water(c, p)
  BY WaterTold DEF SnowPerRain
<1> QED BY <1>1 DEF PrecipCategory, Category

-----------------------------------------------------------------------------
(* What a period is told of, column by column. *)
WorstIn(n, series, hours) ==
  MaxOf({IF n \in DOMAIN series THEN series[n][hours[i]] ELSE NoReading : i \in DOMAIN hours})
Leads(names, series, hours) ==
  IF \E i \in DOMAIN names : WorstIn(names[i], series, hours) = NoReading THEN NoReading
  ELSE First({i \in DOMAIN names :
                \A j \in DOMAIN names : WorstIn(names[j], series, hours) <= WorstIn(names[i], series, hours)}) - 1
Blows(v, series, hours) ==
  [kph |-> At0(WorstIn(Speed(v), series, hours)),
   dir |-> DominantDir([i \in DOMAIN hours |->
             [kph |-> IF Speed(v) \in DOMAIN series THEN series[Speed(v)][hours[i]] ELSE NoReading,
              dir |-> IF Direction(v) \in DOMAIN series THEN series[Direction(v)][hours[i]] ELSE NoReading]])]

LEMMA ColumnsAre ==
  /\ DOMAIN WorstNames = {"precip", "gust", "freeze"}
  /\ DOMAIN WindAloft = {"w300", "w400", "w500", "w600", "w700", "w850", "w925"}
  /\ DOMAIN DominantSources = {"aqi", "aqi_eu"}
  /\ DOMAIN AqNames = {"aq_pm25", "aq_o3", "aq_pm10", "aq_no2", "aq_so2", "aqi_eu_pm25", "aqi_eu_o3", "aqi_eu_pm10",
                       "aqi_eu_no2", "aqi_eu_so2", "aqi", "aqi_eu"}
  /\ DOMAIN DominantSources["aqi"] = 1 .. 6 /\ DOMAIN DominantSources["aqi_eu"] = 1 .. 5
  BY DEF WorstNames, WindAloft, DominantSources, AqNames

ToldOf(full, row, series, hours, v) ==
  /\ v \in {"precip", "gust", "freeze"} => full[v] = At0(WorstIn(WorstNames[v], series, hours))
  /\ v \in {"wind"} \union DOMAIN WindAloft => full[v] = Blows(v, series, hours)
  /\ v \in {"aqi", "aqi_eu"} =>
       full[v] = [index |-> WorstIn(AqNames[v], series, hours), dominant |-> Leads(DominantSources[v], series, hours)]
  /\ v \in DOMAIN AqNames \ {"aqi", "aqi_eu"} => full[v] = WorstIn(AqNames[v], series, hours)
  /\ v = "temp" => full[v] = At0(row.temp)
  /\ v = "dewpoint" => full[v] = IF row.dew = NoReading THEN At0(row.temp) ELSE row.dew
  /\ v = "rain" => full[v] = row.rain
  /\ v = "snow" => full[v] = row.snow
  /\ v = "weathercode" => full[v] = At0(row.code)

LEMMA FullIs ==
  ASSUME NEW o, NEW row, NEW series, NEW hours, NEW full, full = ToFullPeriod(o, row, series, hours)
  PROVE  /\ DOMAIN full = Shown(o) \union {"weathercode"}
         /\ \A v \in DOMAIN full : ToldOf(full, row, series, hours, v)
<1> DEFINE told(v) ==
       CASE v \in DOMAIN WorstNames -> At0(WorstIn(WorstNames[v], series, hours))
         [] v \in {"wind"} \union DOMAIN WindAloft -> Blows(v, series, hours)
         [] v \in DOMAIN DominantSources ->
              [index |-> WorstIn(AqNames[v], series, hours), dominant |-> Leads(DominantSources[v], series, hours)]
         [] v \in DOMAIN AqNames \ DOMAIN DominantSources -> WorstIn(AqNames[v], series, hours)
         [] v = "temp" -> At0(row.temp)
         [] v = "dewpoint" -> IF row.dew = NoReading THEN At0(row.temp) ELSE row.dew
         [] v = "rain" -> row.rain
         [] v = "snow" -> row.snow
         [] v = "weathercode" -> At0(row.code)
<1>1. full = [v \in Shown(o) \union {"weathercode"} |-> told(v)]
  BY Zenon DEF ToFullPeriod, WorstIn, Leads, Blows
<1>2. ASSUME NEW v
      PROVE  /\ v \in {"precip", "gust", "freeze"} => told(v) = At0(WorstIn(WorstNames[v], series, hours))
             /\ v \in {"wind"} \union DOMAIN WindAloft => told(v) = Blows(v, series, hours)
             /\ v \in {"aqi", "aqi_eu"} =>
                  told(v) = [index |-> WorstIn(AqNames[v], series, hours),
                             dominant |-> Leads(DominantSources[v], series, hours)]
             /\ v \in DOMAIN AqNames \ {"aqi", "aqi_eu"} => told(v) = WorstIn(AqNames[v], series, hours)
             /\ v = "temp" => told(v) = At0(row.temp)
             /\ v = "dewpoint" => told(v) = IF row.dew = NoReading THEN At0(row.temp) ELSE row.dew
             /\ v = "rain" => told(v) = row.rain
             /\ v = "snow" => told(v) = row.snow
             /\ v = "weathercode" => told(v) = At0(row.code)
  BY ColumnsAre
<1> HIDE DEF told
<1>3. \A v \in DOMAIN full : full[v] = told(v)
  BY <1>1
<1>4. ASSUME NEW v \in DOMAIN full PROVE ToldOf(full, row, series, hours, v)
  <2>1. full[v] = told(v)
    BY <1>3
  <2> QED BY <1>2, <2>1, Zenon DEF ToldOf
<1> QED BY <1>1, <1>4

(* Each name was fetched by the call that is for it. *)
LEMMA SourceFetches ==
  ASSUME IsFetched, NEW n \in FetchedNames(wanted)
  PROVE  SourceOf(n) \in DOMAIN calls /\ n \in VarsOf(wanted, SourceOf(n))
<1> DEFINE o == wanted
<1>1. DOMAIN calls = CallsFor(o)
  BY DEF IsFetched
<1>2. /\ "surface" \in CallsFor(o)
      /\ Split(o) /\ PressureVars(o) # {} => "pressure" \in CallsFor(o)
      /\ AirQualityVarsFor(o) # {} => "air" \in CallsFor(o)
  BY DEF CallsFor
<1>3. /\ VarsOf(o, "surface") = SurfaceVars(o) \union (IF Split(o) THEN {} ELSE PressureVars(o))
      /\ VarsOf(o, "pressure") = PressureVars(o) /\ VarsOf(o, "air") = AirQualityVarsFor(o)
  BY DEF VarsOf
<1>4. /\ SurfaceVars(o) \subseteq SurfaceNames /\ PressureVars(o) \subseteq PressureNames
      /\ AirQualityVarsFor(o) \subseteq AirNames
  BY SurfaceNamed, PressureNamed, AirNamed
<1>5. CASE n \in AirQualityVarsFor(o)
  <2>1. SourceOf(n) = "air"
    BY <1>5 DEF SourceOf
  <2> QED BY <1>1, <1>2, <1>3, <1>5, <2>1
<1>6. CASE n \notin AirQualityVarsFor(o) /\ n \in PressureVars(o)
  <2>1. n[3] = "hPa"
    BY <1>4, <1>6, NamesApart
  <2>2. SourceOf(n) = IF Split(o) THEN "pressure" ELSE "surface"
    BY <1>6, <2>1 DEF SourceOf
  <2> QED BY <1>1, <1>2, <1>3, <1>6, <2>2
<1>7. CASE n \notin AirQualityVarsFor(o) /\ n \in SurfaceVars(o)
  <2>1. n[3] # "hPa"
    BY <1>4, <1>7, NamesApart
  <2>2. SourceOf(n) = "surface"
    BY <1>7, <2>1 DEF SourceOf
  <2> QED BY <1>1, <1>2, <1>3, <1>7, <2>2
<1> QED BY <1>5, <1>6, <1>7 DEF FetchedNames

(* The hours of the site's periods. *)
HoursTold(p) ==
  [i \in DOMAIN WindowsFor(AsGiven("surface"))[p] |->
     AsGiven("surface").from + WindowsFor(AsGiven("surface"))[p][i] - 1]

LEMMA SurfaceTells == ASSUME IsFetched PROVE "surface" \in Tellers
  BY DEF IsFetched, Tellers, CallsFor

LEMMA HoursToldAre ==
  ASSUME IsFetched, NEW p \in DOMAIN wanted.starts, NEW hours, hours = HoursTold(p)
  PROVE  \E m \in Nat : /\ DOMAIN hours = 1 .. m
                        /\ {hours[i] : i \in DOMAIN hours} = HoursOf(p)
                        /\ \A i \in DOMAIN hours : hours[i] \in Axis("surface", calls["surface"].day)
<1>1. PICK s : s = AsGiven("surface")
  OBVIOUS
<1>2. PICK w : w = WindowsFor(s)[p]
  OBVIOUS
<1>3. "surface" \in Tellers
  BY SurfaceTells
<1>4. OfPeriod("surface", p, w)
  BY <1>1, <1>2, <1>3, WindowIsDuring
<1>5. PICK f \in Nat \ {0}, m \in Nat : Spans("surface", p, w, f, m)
  BY <1>1, <1>2, <1>3, HoursOfWindow
<1>6. DOMAIN w = 1 .. m
  BY <1>5 DEF Spans, Runs
<1>7. s.from = Earliest("surface")
  BY <1>1, <1>3, GivenSky
<1>8. hours = [i \in DOMAIN w |-> Earliest("surface") + w[i] - 1]
  BY <1>1, <1>2, <1>7 DEF HoursTold
<1>9. \A i \in DOMAIN w : hours[i] \in Axis("surface", calls["surface"].day)
  BY <1>4, <1>8 DEF OfPeriod
<1>10. {hours[i] : i \in DOMAIN hours} = HoursOf(p)
  <2>1. {hours[i] : i \in DOMAIN hours} = {Earliest("surface") + w[k] - 1 : k \in DOMAIN w}
    BY <1>8
  <2> QED BY <1>4, <2>1 DEF OfPeriod, HoursOf
<1> QED BY <1>6, <1>8, <1>9, <1>10

(* The worst of some readings, if there is one. *)
LEMMA WorstOne ==
  ASSUME NEW m \in Nat, NEW v, \A i \in 1 .. m : v[i] \in Int \union {NoReading}
  PROVE  MaxOf({v[i] : i \in 1 .. m}) \in Int \union {NoReading}
<1> DEFINE R == {v[i] : i \in 1 .. m}
           S == {i \in 1 .. m : v[i] # NoReading}
           T == {v[i] : i \in S}
<1>1. R \ {NoReading} = T
  OBVIOUS
<1>2. CASE R \subseteq {NoReading}
  BY <1>2 DEF MaxOf
<1>3. CASE ~(R \subseteq {NoReading})
  <2>1. S # {} /\ S \in SUBSET (1 .. m) /\ \A i \in S : v[i] \in Int
    BY <1>3
  <2>2. T \subseteq Int
    BY <2>1
  <2>3. MaxOf(R) = Max(T)
    BY <1>1, <1>3 DEF MaxOf
  <2>4. Max(T) \in T
    <3> HIDE DEF S
    <3> QED BY <2>1, MaxIsOne
  <2> QED BY <2>2, <2>3, <2>4
<1> QED BY <1>2, <1>3

LEMMA WorstTold ==
  ASSUME IsFetched, NEW p \in DOMAIN wanted.starts, NEW hours, hours = HoursTold(p), NEW n \in FetchedNames(wanted)
  PROVE  /\ WorstIn(n, Merged(wanted), hours) = WorstGiven(n, p)
         /\ WorstGiven(n, p) \in Int \union {NoReading}
<1>1. PICK m \in Nat : /\ DOMAIN hours = 1 .. m
                       /\ {hours[i] : i \in DOMAIN hours} = HoursOf(p)
                       /\ \A i \in DOMAIN hours : hours[i] \in Axis("surface", calls["surface"].day)
  BY HoursToldAre
<1>2. PICK h : h = Merged(wanted)
  OBVIOUS
<1>3. /\ n \in DOMAIN h
      /\ \A t \in Axis("surface", calls["surface"].day) : h[n][t] = Given(SourceOf(n), n, t)
  BY <1>2, MergedIs
<1> DEFINE v == [i \in 1 .. m |-> Given(SourceOf(n), n, hours[i])]
<1>4. \A i \in 1 .. m : (IF n \in DOMAIN h THEN h[n][hours[i]] ELSE NoReading) = v[i]
  BY <1>1, <1>3
<1>5. {(IF n \in DOMAIN h THEN h[n][hours[i]] ELSE NoReading) : i \in DOMAIN hours} = {v[i] : i \in 1 .. m}
  <2> HIDE DEF v
  <2> QED BY <1>1, <1>4
<1>6. {v[i] : i \in 1 .. m} = {Given(SourceOf(n), n, t) : t \in HoursOf(p)}
  <2>1. {v[i] : i \in 1 .. m} = {Given(SourceOf(n), n, hours[i]) : i \in 1 .. m}
    OBVIOUS
  <2>2. \A t \in HoursOf(p) : \E i \in 1 .. m : t = hours[i]
    BY <1>1
  <2>3. \A i \in 1 .. m : hours[i] \in HoursOf(p)
    BY <1>1
  <2> QED BY <2>1, <2>2, <2>3
<1>7. \A i \in 1 .. m : v[i] \in Int \union {NoReading}
  BY SourceFetches, GivenKind
<1>8. MaxOf({v[i] : i \in 1 .. m}) \in Int \union {NoReading}
  <2> HIDE DEF v
  <2> QED BY <1>7, WorstOne
<1>9. WorstGiven(n, p) = MaxOf({v[i] : i \in 1 .. m})
  BY <1>6 DEF WorstGiven
<1>10. WorstIn(n, h, hours) = MaxOf({v[i] : i \in 1 .. m})
  BY <1>5 DEF WorstIn
<1> QED BY <1>2, <1>8, <1>9, <1>10

(* What leads a headline leads it. *)
LEMMA LeadsTold ==
  ASSUME NEW names, NEW k \in Nat \ {0}, DOMAIN names = 1 .. k, NEW series, NEW hours, NEW p,
         \A i \in 1 .. k : /\ WorstIn(names[i], series, hours) = WorstGiven(names[i], p)
                           /\ WorstGiven(names[i], p) \in Int \union {NoReading}
  PROVE  LeadsAsGiven(names, Leads(names, series, hours), p)
<1> DEFINE f == [i \in 1 .. k |-> WorstGiven(names[i], p)]
           top == {i \in 1 .. k : \A j \in 1 .. k : f[j] <= f[i]}
<1>1. CASE \E i \in 1 .. k : WorstGiven(names[i], p) = NoReading
  <2>1. Leads(names, series, hours) = NoReading
    BY <1>1 DEF Leads
  <2> QED BY <1>1, <2>1 DEF LeadsAsGiven
<1>2. CASE \A i \in 1 .. k : WorstGiven(names[i], p) # NoReading
  <2>1. \A i \in 1 .. k : f[i] \in Int
    BY <1>2
  <2>2. \E l, h \in 1 .. k : \A q \in 1 .. k : f[l] <= f[q] /\ f[q] <= f[h]
    <3>1. 1 .. k \in SUBSET (1 .. k) /\ 1 .. k # {} /\ k \in Nat
      OBVIOUS
    <3> HIDE DEF f
    <3> QED BY <2>1, <3>1, SomeExtremes
  <2>3. top # {} /\ top \in SUBSET (1 .. k)
    BY <2>2
  <2>4. First(top) \in top
    <3> HIDE DEF top
    <3> QED BY <2>3, FirstIs
  <2>5. PICK h \in 1 .. k : h = First(top) /\ \A j \in 1 .. k : f[j] <= f[h]
    BY <2>4
  <2>6. top = {i \in DOMAIN names :
                 \A j \in DOMAIN names : WorstIn(names[j], series, hours) <= WorstIn(names[i], series, hours)}
    OBVIOUS
  <2> HIDE DEF top
  <2>7. Leads(names, series, hours) = h - 1
    BY <1>2, <2>5, <2>6 DEF Leads
  <2>8. h - 1 # NoReading /\ (h - 1) + 1 = h
    BY UpstreamAssumption
  <2>9. \A i \in DOMAIN names : WorstGiven(names[i], p) <= WorstGiven(names[h], p)
    BY <2>5
  <2> QED BY <1>2, <2>7, <2>8, <2>9 DEF LeadsAsGiven
<1> QED BY <1>1, <1>2

-----------------------------------------------------------------------------
(* The inductive invariant: what was gathered and what is told, in what the
   calls were told.  Nothing is left of the hours once they are told. *)
GatheredAs == [c \in Tellers |-> [sky |-> AsGiven(c), series |-> SeriesFor(c)]]
CoveredAs == Covered(AsGiven("surface"), AsGiven("surface").hours)
LevelsAs(p) ==
  [c \in ToSet(Centers) |->
     IF c \notin Tellers \/ \E q \in DOMAIN wanted.starts : WindowsFor(AsGiven(c))[q] = <<>> THEN NoReading
     ELSE AgreementLevel(RowsAsGiven["surface"][p], RowsAsGiven[c][p], wanted.lengths[p])]
FullAs(p) == ToFullPeriod(wanted, RowsAsGiven["surface"][p], Merged(wanted), HoursTold(p))
MadeOf(p) ==
  [v \in DOMAIN FullAs(p) \union (wanted.vars \intersect {"agreement"}) |->
     IF v \in DOMAIN FullAs(p) THEN FullAs(p)[v] ELSE LevelsAs(p)]
MadeAs == [p \in DOMAIN wanted.starts |-> MadeOf(p)]

Calling == [phase : {"trying", "waiting", "answered", "failed"}, attempt : Int, aborted : BOOLEAN, day : Int]
UpInv ==
  /\ began \in {FirstDay, FirstDay + 24}
  /\ upstream # "idle" =>
       /\ wanted \in Orders /\ DOMAIN calls = CallsFor(wanted)
       /\ \A c \in DOMAIN calls : /\ calls[c] \in Calling
                                  /\ calls[c].phase = "answered" => calls[c].day \in {FirstDay, FirstDay + 24}
  /\ upstream \in {"gathered", "served"} => \A c \in DOMAIN calls : calls[c].phase = "answered"
  /\ upstream = "gathered" => hourly = GatheredAs
  /\ upstream = "served" => CoveredAs /\ periods = MadeAs

LEMMA Kept ==
  ASSUME wanted' = wanted, calls' = calls
  PROVE  GatheredAs' = GatheredAs /\ CoveredAs' = CoveredAs /\ MadeAs' = MadeAs
<1>1. \A c : AsGiven(c)' = AsGiven(c)
  BY DEF AsGiven, Given
<1>2. Merged(wanted)' = Merged(wanted)
  BY DEF Merged, DecodeResponse
<1>3. \A c : SeriesFor(c)' = SeriesFor(c)
  BY <1>2 DEF SeriesFor, DecodeResponse
<1>4. Tellers' = Tellers
  BY DEF Tellers
<1>5. GatheredAs' = GatheredAs /\ CoveredAs' = CoveredAs
  BY <1>1, <1>3, <1>4 DEF GatheredAs, CoveredAs
<1>6. RowsAsGiven' = RowsAsGiven
  BY <1>1 DEF RowsAsGiven
<1>7. \A p : HoursTold(p)' = HoursTold(p)
  BY <1>1 DEF HoursTold
<1>8. \A p : FullAs(p)' = FullAs(p)
  BY <1>2, <1>6, <1>7 DEF FullAs
<1>9. \A p : LevelsAs(p)' = LevelsAs(p)
  BY <1>1, <1>4, <1>6 DEF LevelsAs
<1>10. \A p : MadeOf(p)' = MadeOf(p)
  BY <1>8, <1>9 DEF MadeOf
<1>11. MadeAs' = MadeAs
  BY <1>10 DEF MadeAs
<1> QED BY <1>5, <1>11

LEMMA AllFetched == ASSUME UpInv, upstream \in {"gathered", "served"} PROVE IsFetched
  BY DEF UpInv, IsFetched

(* Nothing but what is pending changes what the calls were told. *)
LEMMA StillPending ==
  ASSUME UpInv, upstream = "pending", wanted' = wanted, began' = began, upstream' \in {"pending", "unavailable"},
         NEW c \in DOMAIN calls, NEW call \in Calling, call.phase = "answered" => call.day = began,
         calls' = [calls EXCEPT ![c] = call]
  PROVE  UpInv'
  BY DEF UpInv

LEMMA UpStart == UpstreamInit => UpInv
  BY DEF UpstreamInit, UpInv

LEMMA UpFetch == ASSUME UpInv, NEW o \in Orders, FetchForecast(o) PROVE UpInv'
<1> DEFINE fresh == [phase |-> "trying", attempt |-> 0, aborted |-> FALSE, day |-> 0]
<1>1. calls' = [c \in CallsFor(o) |-> fresh] /\ wanted' = o /\ began' = began /\ upstream' = "pending"
  BY DEF FetchForecast
<1>2. fresh \in Calling /\ fresh.phase = "trying"
  BY DEF Calling
<1> HIDE DEF fresh
<1> QED BY <1>1, <1>2 DEF UpInv

LEMMA UpDay == ASSUME UpInv, NextDay PROVE UpInv'
<1>1. began \in Int /\ FirstDay \in Int
  BY UpstreamAssumption DEF UpInv
<1> QED BY <1>1 DEF UpInv, NextDay

LEMMA UpFails == ASSUME UpInv, upstream = "pending", NEW c \in DOMAIN calls, FailCall(c) PROVE UpInv'
<1>1. calls[c] \in Calling
  BY DEF UpInv
<1>2. PICK call : call = [calls[c] EXCEPT !.phase = "failed"]
  OBVIOUS
<1>3. call \in Calling /\ call.phase = "failed"
  BY <1>1, <1>2 DEF Calling
<1>4. calls' = [calls EXCEPT ![c] = call]
  BY <1>2 DEF FailCall
<1> QED BY <1>3, <1>4, StillPending DEF FailCall

LEMMA UpCalls ==
  ASSUME UpInv, NEW c \in DOMAIN calls, Answered(c) \/ NetworkError(c) \/ Refused(c) \/ OutOfTime(c) \/ Retry(c)
  PROVE  UpInv'
<1>1. upstream = "pending" /\ calls[c].phase \in {"trying", "waiting"}
  BY DEF Answered, NetworkError, Refused, OutOfTime, Retry, InCall
<1>2. calls[c] \in Calling
  BY <1>1 DEF UpInv
<1>3. CASE FailCall(c)
  BY <1>1, <1>3, UpFails
<1>4. CASE Answered(c)
  <2>1. PICK call : call = [phase |-> "answered", attempt |-> 0, aborted |-> FALSE, day |-> began]
    OBVIOUS
  <2>2. began \in Int
    BY UpstreamAssumption DEF UpInv
  <2>3. call \in Calling /\ call.day = began
    BY <2>1, <2>2 DEF Calling
  <2>4. calls' = [calls EXCEPT ![c] = call] /\ UNCHANGED <<wanted, began, upstream>>
    BY <1>4, <2>1 DEF Answered
  <2> QED BY <1>1, <2>3, <2>4, StillPending
<1>5. CASE NetworkError(c) /\ ~FailCall(c)
  <2>1. PICK call : call = [[calls[c] EXCEPT !.phase = "waiting"] EXCEPT !.attempt = calls[c].attempt + 1]
    OBVIOUS
  <2>2. call \in Calling /\ call.phase = "waiting"
    <3>1. PICK next \in Int : next = calls[c].attempt + 1
      BY <1>2 DEF Calling
    <3>2. PICK waits : waits = [calls[c] EXCEPT !.phase = "waiting"]
      OBVIOUS
    <3>3. waits \in Calling /\ waits.phase = "waiting"
      BY <1>2, <3>2 DEF Calling
    <3>4. call = [waits EXCEPT !.attempt = next]
      BY <2>1, <3>1, <3>2
    <3> QED BY <3>1, <3>3, <3>4 DEF Calling
  <2>3. calls' = [calls EXCEPT ![c] = call] /\ UNCHANGED <<wanted, began, upstream>>
    BY <1>2, <1>5, <2>1 DEF NetworkError, Calling
  <2> QED BY <1>1, <2>2, <2>3, StillPending
<1>6. CASE Refused(c)
  BY <1>3, <1>6 DEF Refused
<1>7. CASE OutOfTime(c) /\ ~FailCall(c)
  <2>1. PICK call : call = [calls[c] EXCEPT !.aborted = TRUE]
    OBVIOUS
  <2>2. call \in Calling /\ call.phase = "waiting"
    BY <1>2, <1>7, <2>1 DEF Calling, OutOfTime, InCall
  <2>3. calls' = [calls EXCEPT ![c] = call] /\ UNCHANGED <<wanted, began, upstream>>
    BY <1>7, <2>1 DEF OutOfTime
  <2> QED BY <1>1, <2>2, <2>3, StillPending
<1>8. CASE Retry(c) /\ ~FailCall(c)
  <2>1. PICK call : call = [calls[c] EXCEPT !.phase = "trying"]
    OBVIOUS
  <2>2. call \in Calling /\ call.phase = "trying"
    BY <1>2, <2>1 DEF Calling
  <2>3. calls' = [calls EXCEPT ![c] = call] /\ UNCHANGED <<wanted, began, upstream>>
    BY <1>8, <2>1 DEF Retry
  <2> QED BY <1>1, <2>2, <2>3, StillPending
<1> QED BY <1>3, <1>4, <1>5, <1>6, <1>7, <1>8

LEMMA UpGather == ASSUME UpInv, Gather PROVE UpInv'
<1>1. IsFetched /\ \A c \in DOMAIN calls : calls[c].phase = "answered"
  BY DEF Gather, UpInv, IsFetched
<1>2. PICK series : /\ series = [c \in Tellers |-> SeriesFor(c)]
                    /\ hourly' = [c \in DOMAIN series |->
                         [sky |-> Laid(wanted, series[c], SiteHeight(ModelOf(wanted, c))), series |-> series[c]]]
  BY DEF Gather, Tellers, SeriesFor
<1>3. hourly' = [c \in Tellers |->
                   [sky |-> Laid(wanted, SeriesFor(c), SiteHeight(ModelOf(wanted, c))), series |-> SeriesFor(c)]]
  BY <1>2
<1>4. hourly' = GatheredAs
  BY <1>1, <1>3, GatheredIs DEF GatheredAs
<1>5. GatheredAs' = GatheredAs
  BY Kept DEF Gather
<1> QED BY <1>1, <1>4, <1>5 DEF UpInv, Gather

LEMMA UpBuild == ASSUME UpInv, Build PROVE UpInv'
<1>1. IsFetched /\ hourly = GatheredAs /\ \A c \in DOMAIN calls : calls[c].phase = "answered"
  BY AllFetched DEF Build, UpInv
<1>2. CoveredAs' = CoveredAs /\ MadeAs' = MadeAs
  BY Kept DEF Build
<1>3. /\ DOMAIN hourly = Tellers /\ "surface" \in Tellers
      /\ \A c \in Tellers : hourly[c].sky = AsGiven(c) /\ hourly[c].series = SeriesFor(c)
  BY <1>1, SurfaceTells DEF GatheredAs
<1>4. CASE upstream' = "unavailable"
  BY <1>1, <1>4 DEF UpInv, Build
<1>5. CASE upstream' # "unavailable"
  <2>1. PICK win : /\ win = [c \in DOMAIN hourly |-> WindowsFor(hourly[c].sky)]
                   /\ Covered(hourly["surface"].sky, hourly["surface"].sky.hours) /\ upstream' = "served"
                   /\ \E told \in {[c \in DOMAIN hourly |-> RowsFromWindows(hourly[c].sky, hourly[c].sky.hours, win[c])]} :
                        periods' = [p \in DOMAIN wanted.starts |-> WirePeriodOf(win, told, p)]
    BY <1>5 DEF Build
  <2>2. PICK told : /\ told = [c \in DOMAIN hourly |-> RowsFromWindows(hourly[c].sky, hourly[c].sky.hours, win[c])]
                    /\ periods' = [p \in DOMAIN wanted.starts |-> WirePeriodOf(win, told, p)]
    BY <2>1
  <2>3. CoveredAs
    BY <1>3, <2>1 DEF CoveredAs
  <2>4. \A c \in Tellers : win[c] = WindowsFor(AsGiven(c))
    BY <1>3, <2>1
  <2>5. told = RowsAsGiven
    <3>1. told = [c \in Tellers |-> RowsFromWindows(AsGiven(c), AsGiven(c).hours, WindowsFor(AsGiven(c)))]
      BY <1>3, <2>2, <2>4
    <3> QED BY <3>1 DEF RowsAsGiven, Tellers
  <2>6. ASSUME NEW p \in DOMAIN wanted.starts PROVE WirePeriodOf(win, told, p) = MadeOf(p)
    <3>1. [i \in DOMAIN win["surface"][p] |-> hourly["surface"].sky.from + win["surface"][p][i] - 1] = HoursTold(p)
      BY <1>3, <2>4 DEF HoursTold
    <3>2. hourly["surface"].series = Merged(wanted)
      BY <1>3 DEF SeriesFor
    <3>3. PICK full : full = FullAs(p)
      OBVIOUS
    <3>4. ToFullPeriod(wanted, told["surface"][p], hourly["surface"].series,
            [i \in DOMAIN win["surface"][p] |-> hourly["surface"].sky.from + win["surface"][p][i] - 1]) = full
      BY <2>5, <3>1, <3>2, <3>3, Zenon DEF FullAs
    <3>5. ComputeAgreementLevels(win, told, p) = LevelsAs(p)
      <4>1. DOMAIN told = Tellers
        BY <1>3, <2>2
      <4>2. \A c \in Tellers : DOMAIN win[c] = DOMAIN wanted.starts
        BY <1>1, <2>4, GivenTemps
      <4> QED BY <2>4, <2>5, <4>1, <4>2 DEF ComputeAgreementLevels, LevelsAs
    <3> QED BY <3>3, <3>4, <3>5, Zenon DEF WirePeriodOf, MadeOf
  <2>7. periods' = MadeAs
    BY <2>2, <2>6 DEF MadeAs
  <2> QED BY <1>1, <1>2, <2>1, <2>3, <2>7 DEF UpInv, Build
<1> QED BY <1>4, <1>5

LEMMA UpStays == ASSUME UpInv, UNCHANGED upstreamVars PROVE UpInv'
<1>1. GatheredAs' = GatheredAs /\ CoveredAs' = CoveredAs /\ MadeAs' = MadeAs
  BY Kept DEF upstreamVars
<1> QED BY <1>1 DEF UpInv, upstreamVars

LEMMA UpSteps == UpInv /\ [UpstreamNext]_upstreamVars => UpInv'
<1> SUFFICES ASSUME UpInv, [UpstreamNext]_upstreamVars PROVE UpInv'
  OBVIOUS
<1>1. CASE \E o \in Orders : FetchForecast(o)
  BY <1>1, UpFetch
<1>2. CASE NextDay
  BY <1>2, UpDay
<1>3. CASE Gather
  BY <1>3, UpGather
<1>4. CASE Build
  BY <1>4, UpBuild
<1>5. CASE \E c \in DOMAIN calls : Answered(c) \/ NetworkError(c) \/ Refused(c) \/ OutOfTime(c) \/ Retry(c)
  BY <1>5, UpCalls
<1>6. CASE UNCHANGED upstreamVars
  BY <1>6, UpStays
<1> QED BY <1>1, <1>2, <1>3, <1>4, <1>5, <1>6 DEF UpstreamNext

-----------------------------------------------------------------------------
(* Every column that is shown was fetched. *)
LEMMA ShownFetched ==
  ASSUME NEW o, NEW v \in Shown(o)
  PROVE  /\ v \in {"precip", "gust", "freeze"} => WorstNames[v] \in FetchedNames(o)
         /\ v \in {"wind"} \union DOMAIN WindAloft => Speed(v) \in FetchedNames(o)
         /\ v \in DOMAIN AqNames => AqNames[v] \in FetchedNames(o)
         /\ v \in {"aqi", "aqi_eu"} => \A i \in DOMAIN DominantSources[v] : DominantSources[v][i] \in FetchedNames(o)
<1>1. v \in o.vars /\ (v = "freeze" => Sources[Center(o)].freeze)
  BY DEF Shown
<1>2. v \in {"precip", "gust", "freeze"} => WorstNames[v] \in SurfaceVars(o)
  BY <1>1 DEF SurfaceVars, WorstNames
<1>3. v = "wind" => Speed(v) \in SurfaceVars(o)
  BY <1>1 DEF SurfaceVars
<1>4. v \in DOMAIN WindAloft => Speed(v) \in PressureVars(o)
  BY <1>1 DEF PressureVars
<1>5. v \in DOMAIN AqNames => AqNames[v] \in AirQualityVarsFor(o)
  BY <1>1 DEF AirQualityVarsFor
<1>6. v \in {"aqi", "aqi_eu"} => \A i \in DOMAIN DominantSources[v] : DominantSources[v][i] \in AirQualityVarsFor(o)
  BY <1>1, ColumnsAre DEF AirQualityVarsFor, ToSet
<1> QED BY <1>2, <1>3, <1>4, <1>5, <1>6 DEF FetchedNames

(* What is told of a period, column by column, as the calls were told it. *)
ColumnAs(told, row, p, v) ==
  /\ v = "temp" => told = row.temp
  /\ v = "dewpoint" => told = IF row.dew = NoReading THEN row.temp ELSE row.dew
  /\ v = "rain" => told = row.rain
  /\ v = "snow" => told = row.snow
  /\ v \in {"precip", "gust", "freeze"} => told = At0(WorstGiven(WorstNames[v], p))
  /\ v \in {"wind"} \union DOMAIN WindAloft => told.kph = At0(WorstGiven(Speed(v), p))
  /\ v \in {"aqi", "aqi_eu"} => told.index = WorstGiven(AqNames[v], p) /\ LeadsAsGiven(DominantSources[v], told.dominant, p)
  /\ v \in DOMAIN AqNames \ {"aqi", "aqi_eu"} => told = WorstGiven(AqNames[v], p)

LEMMA ColumnTold ==
  ASSUME IsFetched, NEW p \in DOMAIN wanted.starts, RowsAsGiven["surface"][p].temp # NoReading,
         NEW v \in Shown(wanted)
  PROVE  ColumnAs(FullAs(p)[v], RowsAsGiven["surface"][p], p, v)
<1>1. PICK row : row = RowsAsGiven["surface"][p]
  OBVIOUS
<1>2. PICK series : series = Merged(wanted)
  OBVIOUS
<1>3. PICK hours : hours = HoursTold(p)
  OBVIOUS
<1>4. PICK full : full = FullAs(p)
  OBVIOUS
<1>5. v \in DOMAIN full /\ ToldOf(full, row, series, hours, v)
  BY <1>1, <1>2, <1>3, <1>4, FullIs DEF FullAs
<1>6. \A n \in FetchedNames(wanted) : /\ WorstIn(n, series, hours) = WorstGiven(n, p)
                                      /\ WorstGiven(n, p) \in Int \union {NoReading}
  BY <1>2, <1>3, WorstTold
<1>7. /\ v = "temp" => full[v] = row.temp
      /\ v = "dewpoint" => full[v] = IF row.dew = NoReading THEN row.temp ELSE row.dew
      /\ v = "rain" => full[v] = row.rain
      /\ v = "snow" => full[v] = row.snow
  BY <1>1, <1>5 DEF ToldOf, At0
<1>8. v \in {"precip", "gust", "freeze"} => full[v] = At0(WorstGiven(WorstNames[v], p))
  BY <1>5, <1>6, ShownFetched DEF ToldOf
<1>9. v \in {"wind"} \union DOMAIN WindAloft => full[v].kph = At0(WorstGiven(Speed(v), p))
  <2>1. v \in {"wind"} \union DOMAIN WindAloft => full[v] = Blows(v, series, hours)
    BY <1>5, Zenon DEF ToldOf
  <2>2. Blows(v, series, hours).kph = At0(WorstIn(Speed(v), series, hours))
    BY DEF Blows
  <2> QED BY <1>6, <2>1, <2>2, ShownFetched
<1>10. v \in {"aqi", "aqi_eu"} => /\ full[v].index = WorstGiven(AqNames[v], p)
                                  /\ LeadsAsGiven(DominantSources[v], full[v].dominant, p)
  <2> SUFFICES ASSUME v \in {"aqi", "aqi_eu"}
               PROVE  /\ full[v].index = WorstGiven(AqNames[v], p)
                      /\ LeadsAsGiven(DominantSources[v], full[v].dominant, p)
    OBVIOUS
  <2>1. full[v] = [index |-> WorstIn(AqNames[v], series, hours), dominant |-> Leads(DominantSources[v], series, hours)]
    BY <1>5, Zenon DEF ToldOf
  <2>2. full[v].index = WorstIn(AqNames[v], series, hours) /\ full[v].dominant = Leads(DominantSources[v], series, hours)
    BY <2>1
  <2>3. AqNames[v] \in FetchedNames(wanted)
    BY ShownFetched, ColumnsAre
  <2>4. PICK names : names = DominantSources[v]
    OBVIOUS
  <2>5. PICK k \in Nat \ {0} : DOMAIN names = 1 .. k
    <3>1. DOMAIN names = 1 .. 6 \/ DOMAIN names = 1 .. 5
      BY <2>4, ColumnsAre
    <3>2. 6 \in Nat \ {0} /\ 5 \in Nat \ {0}
      OBVIOUS
    <3> QED BY <3>1, <3>2
  <2>6. \A i \in 1 .. k : names[i] \in FetchedNames(wanted)
    BY <2>4, <2>5, ShownFetched
  <2>7. LeadsAsGiven(names, Leads(names, series, hours), p)
    BY <1>6, <2>5, <2>6, LeadsTold
  <2> QED BY <1>6, <2>2, <2>3, <2>4, <2>7
<1>11. v \in DOMAIN AqNames \ {"aqi", "aqi_eu"} => full[v] = WorstGiven(AqNames[v], p)
  BY <1>5, <1>6, ShownFetched, Zenon DEF ToldOf
<1> QED BY <1>1, <1>4, <1>7, <1>8, <1>9, <1>10, <1>11, Zenon DEF ColumnAs

(* How a center agrees, as the calls were told it. *)
LEMMA CenterAgrees ==
  ASSUME IsFetched, NEW p \in DOMAIN wanted.starts, Knows("surface", p), DOMAIN periods = DOMAIN wanted.starts,
         NEW c \in ToSet(Centers)
  PROVE  AgreesAsGiven(RowsAsGiven, c, LevelsAs(p)[c], p)
<1>1. c \notin {"pressure", "air"}
  <2>1. DOMAIN Centers = 1 .. 4 /\ Centers[1] = "US" /\ Centers[2] = "CA" /\ Centers[3] = "EU" /\ Centers[4] = "DE"
    BY DEF Centers
  <2> QED BY <2>1 DEF ToSet
<1>2. c \in Tellers <=> c \in DOMAIN calls
  BY <1>1 DEF Tellers
<1>3. PICK shown : shown = LevelsAs(p)[c]
  OBVIOUS
<1>4. shown = IF c \notin Tellers \/ \E q \in DOMAIN wanted.starts : WindowsFor(AsGiven(c))[q] = <<>> THEN NoReading
              ELSE AgreementLevel(RowsAsGiven["surface"][p], RowsAsGiven[c][p], wanted.lengths[p])
  BY <1>3 DEF LevelsAs
<1>5. CASE c \notin DOMAIN calls
  <2>1. shown = NoReading
    BY <1>2, <1>4, <1>5
  <2> QED BY <1>3, <1>5, <2>1 DEF AgreesAsGiven
<1>6. CASE c \in DOMAIN calls
  <2>1. c \in Tellers /\ "surface" \in Tellers
    BY <1>2, <1>6, SurfaceTells
  <2>2. \A q \in DOMAIN wanted.starts : WindowsFor(AsGiven(c))[q] = <<>> <=> During(q, Axis(c, calls[c].day)) = {}
    BY <2>1, WindowIsDuring DEF OfPeriod
  <2>3. ASSUME NEW d \in Tellers
        PROVE  /\ RowsAsGiven[d][p].temp # NoReading <=> Knows(d, p)
               /\ PrecipCategory(RowsAsGiven[d][p], wanted.lengths[p]) = Category(d, p, RowsAsGiven[d][p])
    <3>1. RowsAsGiven[d] = RowsFromWindows(AsGiven(d), AsGiven(d).hours, WindowsFor(AsGiven(d)))
      BY DEF RowsAsGiven, Tellers
    <3> QED BY <3>1, RowKnown, ScoredAsGiven
  <2>4. CASE \E q \in DOMAIN periods : During(q, Axis(c, calls[c].day)) = {}
    <3>1. shown = NoReading
      BY <1>4, <2>2, <2>4
    <3> QED BY <1>3, <2>4, <3>1 DEF AgreesAsGiven
  <2>5. CASE ~\E q \in DOMAIN periods : During(q, Axis(c, calls[c].day)) = {}
    <3>1. shown = AgreementLevel(RowsAsGiven["surface"][p], RowsAsGiven[c][p], wanted.lengths[p])
      BY <1>4, <2>1, <2>2, <2>5
    <3>2. CASE ~Knows(c, p)
      <4>1. shown = NoReading
        BY <2>1, <2>3, <3>1, <3>2 DEF AgreementLevel
      <4> QED BY <1>3, <3>2, <4>1 DEF AgreesAsGiven
    <3>3. CASE Knows(c, p)
      <4>1. shown = AgreementMatrix[Category("surface", p, RowsAsGiven["surface"][p])][Category(c, p, RowsAsGiven[c][p])]
        BY <2>1, <2>3, <3>1, <3>3 DEF AgreementLevel
      <4> QED BY <1>3, <1>6, <2>5, <3>3, <4>1, Zenon DEF AgreesAsGiven
    <3> QED BY <3>2, <3>3
  <2> QED BY <2>4, <2>5
<1> QED BY <1>5, <1>6

LEMMA ServedIs ==
  ASSUME UpInv, upstream = "served", NEW p \in DOMAIN periods
  PROVE  /\ IsFetched /\ DOMAIN periods = DOMAIN wanted.starts /\ periods[p] = MadeOf(p)
         /\ Knows("surface", p) /\ RowsAsGiven["surface"][p].temp # NoReading
<1>1. IsFetched /\ CoveredAs /\ periods = MadeAs
  BY AllFetched DEF UpInv
<1>2. DOMAIN periods = DOMAIN wanted.starts /\ periods[p] = MadeOf(p)
  BY <1>1 DEF MadeAs
<1>3. PICK s : s = AsGiven("surface")
  OBVIOUS
<1>4. DOMAIN WindowsFor(s) = DOMAIN wanted.starts
  BY <1>1, <1>3, SurfaceTells, GivenTemps
<1>5. HasData(s.hours, WindowsFor(s)[p])
  BY <1>1, <1>2, <1>3, <1>4 DEF CoveredAs, Covered
<1>6. Knows("surface", p)
  BY <1>1, <1>2, <1>3, <1>5, SurfaceTells, DataKnown
<1>7. RowsAsGiven["surface"] = RowsFromWindows(s, s.hours, WindowsFor(s))
  BY <1>1, <1>3, SurfaceTells DEF RowsAsGiven, Tellers
<1>8. RowsAsGiven["surface"][p].temp # NoReading
  BY <1>1, <1>2, <1>3, <1>6, <1>7, SurfaceTells, RowKnown
<1> QED BY <1>1, <1>2, <1>6, <1>8

LEMMA UpTells == UpInv => ToldFromTheSource
<1> SUFFICES ASSUME UpInv, upstream = "served", NEW asGiven, asGiven = RowsAsGiven, NEW p \in DOMAIN periods,
                    NEW told, told = periods[p], NEW row, row = asGiven["surface"][p]
             PROVE  /\ Knows("surface", p) /\ told.weathercode = At0(row.code)
                    /\ ("freeze" \in DOMAIN told) <=> ("freeze" \in wanted.vars /\ Center(wanted) \in {"BEST", "US", "DE"})
                    /\ \A v \in DOMAIN told \intersect wanted.vars :
                         CASE v = "temp" -> told.temp = row.temp
                           [] v = "dewpoint" -> told.dewpoint = IF row.dew = NoReading THEN row.temp ELSE row.dew
                           [] v = "rain" -> told.rain = row.rain
                           [] v = "snow" -> told.snow = row.snow
                           [] v \in DOMAIN WorstNames -> told[v] = At0(WorstGiven(WorstNames[v], p))
                           [] v \in {"wind"} \union DOMAIN WindAloft -> told[v].kph = At0(WorstGiven(Speed(v), p))
                           [] v \in DOMAIN DominantSources ->
                                /\ told[v].index = WorstGiven(AqNames[v], p)
                                /\ LeadsAsGiven(DominantSources[v], told[v].dominant, p)
                           [] v \in DOMAIN AqNames \ DOMAIN DominantSources -> told[v] = WorstGiven(AqNames[v], p)
                           [] v = "agreement" ->
                                \A c \in DOMAIN told.agreement : AgreesAsGiven(asGiven, c, told.agreement[c], p)
  BY ZenonT(60) DEF ToldFromTheSource
<1>1. /\ IsFetched /\ DOMAIN periods = DOMAIN wanted.starts /\ told = MadeOf(p)
      /\ Knows("surface", p) /\ row.temp # NoReading /\ row = RowsAsGiven["surface"][p]
  BY ServedIs
<1>2. PICK full : full = FullAs(p)
  OBVIOUS
<1>3. /\ DOMAIN full = Shown(wanted) \union {"weathercode"}
      /\ full.weathercode = At0(row.code)
  <2>1. /\ DOMAIN full = Shown(wanted) \union {"weathercode"}
        /\ \A v \in DOMAIN full : ToldOf(full, row, Merged(wanted), HoursTold(p), v)
    BY <1>1, <1>2, FullIs DEF FullAs
  <2>2. ToldOf(full, row, Merged(wanted), HoursTold(p), "weathercode")
    BY <2>1
  <2>3. full["weathercode"] = At0(row.code)
    BY <2>2, Zenon DEF ToldOf
  <2> QED BY <2>1, <2>3
<1>4. "agreement" \notin DOMAIN full /\ "clouds" \notin DOMAIN full /\ Shown(wanted) \subseteq wanted.vars
  BY <1>3 DEF Shown
<1>5. /\ DOMAIN told = DOMAIN full \union (wanted.vars \intersect {"agreement"})
      /\ \A v \in DOMAIN full : told[v] = full[v]
      /\ "agreement" \in wanted.vars => told.agreement = LevelsAs(p)
  BY <1>1, <1>2, <1>4 DEF MadeOf
<1>6. told.weathercode = At0(row.code)
  BY <1>3, <1>5
<1>7. ("freeze" \in DOMAIN told) <=> ("freeze" \in wanted.vars /\ Center(wanted) \in {"BEST", "US", "DE"})
  <2>1. "freeze" \in DOMAIN told <=> "freeze" \in wanted.vars /\ Sources[Center(wanted)].freeze
    BY <1>3, <1>5 DEF Shown
  <2>2. Sources[Center(wanted)].freeze <=> Center(wanted) \in {"BEST", "US", "DE"}
    BY CenterKnown DEF Sources
  <2> QED BY <2>1, <2>2
<1>8. ASSUME NEW v \in DOMAIN told \intersect wanted.vars
      PROVE  CASE v = "temp" -> told.temp = row.temp
               [] v = "dewpoint" -> told.dewpoint = IF row.dew = NoReading THEN row.temp ELSE row.dew
               [] v = "rain" -> told.rain = row.rain
               [] v = "snow" -> told.snow = row.snow
               [] v \in DOMAIN WorstNames -> told[v] = At0(WorstGiven(WorstNames[v], p))
               [] v \in {"wind"} \union DOMAIN WindAloft -> told[v].kph = At0(WorstGiven(Speed(v), p))
               [] v \in DOMAIN DominantSources ->
                    /\ told[v].index = WorstGiven(AqNames[v], p)
                    /\ LeadsAsGiven(DominantSources[v], told[v].dominant, p)
               [] v \in DOMAIN AqNames \ DOMAIN DominantSources -> told[v] = WorstGiven(AqNames[v], p)
               [] v = "agreement" ->
                    \A c \in DOMAIN told.agreement : AgreesAsGiven(asGiven, c, told.agreement[c], p)
  <2>1. v \in Variable /\ v \notin {"weathercode", "clouds"}
    <3>1. wanted.vars \subseteq Variable
      BY <1>1, UpstreamAssumption DEF IsFetched
    <3>2. "weathercode" \notin Variable
      BY ColumnsAre DEF Variable
    <3>3. v # "clouds"
      BY <1>4, <1>5
    <3> QED BY <3>1, <3>2, <3>3
  <2>2. CASE v = "agreement"
    <3>1. told.agreement = LevelsAs(p) /\ DOMAIN LevelsAs(p) = ToSet(Centers)
      BY <1>5, <2>2 DEF LevelsAs
    <3>2. \A c \in DOMAIN told.agreement : AgreesAsGiven(asGiven, c, told.agreement[c], p)
      BY <1>1, <3>1, CenterAgrees
    <3> QED BY <2>2, <3>2, ColumnsAre
  <2>3. CASE v # "agreement"
    <3>1. v \in Shown(wanted) /\ told[v] = full[v]
      BY <1>3, <1>5, <2>1, <2>3
    <3>2. ColumnAs(told[v], row, p, v)
      BY <1>1, <1>2, <3>1, ColumnTold
    <3>3. v \in Variable \ {"clouds", "agreement"}
      BY <2>1, <2>3
    <3>4. v \in {"temp", "dewpoint", "precip", "rain", "snow", "freeze", "wind", "gust"}
                  \union DOMAIN WindAloft \union DOMAIN AqNames
      BY <3>3 DEF Variable
    <3>5. CASE v \in {"temp", "dewpoint", "rain", "snow"}
      BY <3>2, <3>5, ColumnsAre DEF ColumnAs
    <3>6. CASE v \in {"precip", "gust", "freeze"}
      BY <3>2, <3>6, ColumnsAre DEF ColumnAs
    <3>7. CASE v \in {"wind"} \union DOMAIN WindAloft
      BY <3>2, <3>7, ColumnsAre DEF ColumnAs
    <3>8. CASE v \in {"aqi", "aqi_eu"}
      BY <3>2, <3>8, ColumnsAre DEF ColumnAs
    <3>9. CASE v \in DOMAIN AqNames \ {"aqi", "aqi_eu"}
      BY <3>2, <3>9, ColumnsAre DEF ColumnAs
    <3> QED BY <3>4, <3>5, <3>6, <3>7, <3>8, <3>9
  <2> QED BY <2>2, <2>3
<1> QED BY <1>1, <1>6, <1>7, <1>8

(***************************************************************************)
(* A forecast says of each of its hours what the source asked for it said  *)
(* of that hour: for any selection, whatever upstream answers, in whatever *)
(* order and on whichever side of midnight the calls were answered (what   *)
(* codec-server/forecast.ts makes of what it fetched).                     *)
(***************************************************************************)
THEOREM ForecastsTold == UpstreamSpec => []ToldFromTheSource
<1>1. UpstreamInit => UpInv
  BY UpStart
<1>2. UpInv /\ [UpstreamNext]_upstreamVars => UpInv'
  BY UpSteps
<1>3. UpInv => ToldFromTheSource
  BY UpTells
<1> QED BY <1>1, <1>2, <1>3, PTL DEF UpstreamSpec

=============================================================================
