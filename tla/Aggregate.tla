----------------------------- MODULE Aggregate ------------------------------
(***************************************************************************)
(* How hours become periods (codec-server/forecast.ts, weathercode.ts):    *)
(* each hour's precipitation is put in the phase the site's height calls   *)
(* for, a layout's periods are laid over the hours, and each period is     *)
(* told in one temperature, one weather code and its amounts.              *)
(*                                                                         *)
(* Temperatures are in half degrees, rain in hundredths of a millimetre    *)
(* (rain and showers together), snow in thousandths of a centimetre, in    *)
(* which one of rain makes seven of snow.  The gust stands for every       *)
(* column that only takes the worst hour.                                  *)
(***************************************************************************)
EXTENDS Integers, Sequences, FiniteSets, SequencesExt

CONSTANTS
  Skies,     \* upstream's hours and the layout asked of them
  NoReading  \* null

(* A layout over hours of upstream's numbers, any of which may be null but
   the amounts. *)
ASSUME SkiesAssumption ==
  /\ NoReading \notin Int
  /\ \A s \in Skies :
       /\ s.from \in Int /\ s.offset \in Int
       /\ s.starts \in Seq(Int) /\ s.lengths \in Seq(Int) /\ Len(s.starts) = Len(s.lengths)
       /\ s.hours \in Seq([temp : Int \union {NoReading}, dew : Int \union {NoReading},
                            code : Int \union {NoReading}, rain : Nat, snow : Nat, above : BOOLEAN,
                            gust : Int \union {NoReading}])

VARIABLES
  sky,       \* [from, offset, starts, lengths, hours], as fetched
  adjusted,  \* the hours after the phase correction
  rows,
  aggregation  \* idle, fetched, adjusted, done, unservable
aggregateVars == <<sky, adjusted, rows, aggregation>>

-----------------------------------------------------------------------------
Thunder == {95, 96, 99}
Freezing == {56, 57, 66, 67}
SnowCont == {71, 73, 75, 77}
SnowShwr == {85, 86}
RainCont == {61, 63, 65}
RainShwr == {80, 81, 82}
Drizzle == {51, 53, 55}
Fog == {45, 48}
MixLight == 68
MixHeavy == 69

SnowPerRain == 7
PhaseTempMax == -4

LiquidToSnow(code) ==
  CASE code \in {51, 61} -> 71 [] code \in {53, 63} -> 73 [] code \in {55, 65} -> 75
    [] code \in {80, 81} -> 85 [] code = 82 -> 86 [] OTHER -> code

Snowy(hour) == hour.above \/ (hour.temp # NoReading /\ hour.temp <= PhaseTempMax)

BadAdjustPrecipPhase(hour) ==
  IF ~Snowy(hour) \/ hour.code \in Freezing THEN hour
  ELSE [hour EXCEPT !.rain = 0, !.snow = @ + SnowPerRain * hour.rain]

(* Never the other way, and never what the model calls supercooled. *)
AdjustPrecipPhase(hour) ==
  IF ~Snowy(hour) \/ hour.code \in Freezing THEN hour
  ELSE [hour EXCEPT !.rain = 0, !.snow = @ + SnowPerRain * hour.rain,
                    !.code = LiquidToSnow(@)]

-----------------------------------------------------------------------------
(* The hours of each period that are on the fetched axis, which has no gaps. *)
WindowsFor(s) ==
  [p \in DOMAIN s.starts |->
     LET first == s.starts[p] - s.from + 1
         from == Max({1, first})
         to == Min({Len(s.hours), first + s.lengths[p] - 1})
     IN  [k \in 1 .. to - from + 1 |-> from + k - 1]]

HasData(s, w) == \E k \in DOMAIN w : s[w[k]].temp # NoReading

Covered(s, hours) ==
  \A p \in DOMAIN WindowsFor(s) : WindowsFor(s)[p] # <<>> /\ HasData(hours, WindowsFor(s)[p])

-----------------------------------------------------------------------------
Degree(t) == (t + 1) \div 2
Readable(hours, w) == {i \in ToSet(w) : hours[i].temp # NoReading}

(* First in time on a tie. *)
LoAt(hours, w) ==
  CHOOSE i \in Readable(hours, w) : \A j \in Readable(hours, w) :
    hours[i].temp < hours[j].temp \/ (hours[i].temp = hours[j].temp /\ i <= j)
HiAt(hours, w) ==
  CHOOSE i \in Readable(hours, w) : \A j \in Readable(hours, w) :
    hours[i].temp > hours[j].temp \/ (hours[i].temp = hours[j].temp /\ i <= j)

(* The reading nearest the middle of the window, the earlier of two. *)
MidSample(hours, w) ==
  LET mid == Len(w) \div 2 + 1
      away(k) == IF k < mid THEN 2 * (mid - k) - 1 ELSE 2 * (k - mid)
      full == {k \in DOMAIN w : hours[w[k]].temp # NoReading}
  IN  IF full = {} THEN NoReading
      ELSE w[CHOOSE k \in full : \A j \in full : away(k) <= away(j)]

First(S) == CHOOSE p \in S : \A q \in S : p <= q

BadApart(pMin, pMax) ==
  LET pm == First(pMin) IN [min |-> pm, max |-> IF pMax = {pm} THEN pm ELSE First(pMax \ {pm})]

(* Two windows, for a day's coldest and its warmest. *)
Apart(pMin, pMax) ==
  LET pm == First(IF pMin \ pMax # {} THEN pMin \ pMax ELSE pMin)
  IN  [min |-> pm, max |-> First(pMax \ {pm})]

(* The windows of a day that do not report their middle, and what they do.
   Where both extremes fall in one window it keeps the one that the others
   patch worse. *)
DayChoice(hours, win, day) ==
  LET lo(p) == hours[LoAt(hours, win[p])].temp
      hi(p) == hours[HiAt(hours, win[p])].temp
      dayMin == Degree(lo(CHOOSE p \in day : \A q \in day : lo(p) <= lo(q)))
      dayMax == Degree(hi(CHOOSE p \in day : \A q \in day : hi(p) >= hi(q)))
      pMin == {p \in day : Degree(lo(p)) = dayMin}
      pMax == {p \in day : Degree(hi(p)) = dayMax}
      Report(min, max) == [p \in min \union max |->
                             IF p \in max THEN HiAt(hours, win[p]) ELSE LoAt(hours, win[p])]
  IN  IF dayMin = dayMax THEN <<>>
      ELSE IF Cardinality(pMin) > 1 \/ Cardinality(pMax) > 1 \/ pMin # pMax
      THEN LET a == Apart(pMin, pMax) IN Report({a.min}, {a.max})
      ELSE LET others == day \ pMin
               poMin == First({p \in others : \A q \in others : lo(p) <= lo(q)})
               poMax == First({p \in others : \A q \in others : hi(p) >= hi(q)})
           IN  IF others = {} THEN Report({}, pMin)
               ELSE IF Degree(lo(poMin)) - dayMin <= dayMax - Degree(hi(poMax))
               THEN Report({poMin}, pMin) ELSE Report(pMin, {poMax})

LocalDay(s, w) == (s.from + w[1] - 1 + s.offset) \div 24

(* Windows with data of each local day, by the day of their first hour. *)
DaysOf(s, hours, win) ==
  {{p \in DOMAIN win : HasData(hours, win[p]) /\ LocalDay(s, win[p]) = LocalDay(s, win[q])} :
     q \in {r \in DOMAIN win : HasData(hours, win[r])}}

RepresentativeTempIndices(s, hours, win) ==
  [p \in DOMAIN win |->
     IF ~HasData(hours, win[p]) THEN NoReading
     ELSE LET day == CHOOSE d \in DaysOf(s, hours, win) : p \in d
              choice == DayChoice(hours, win, day)
          IN  IF p \in DOMAIN choice THEN choice[p] ELSE MidSample(hours, win[p])]

-----------------------------------------------------------------------------
(* One code for a window, of its hours' codes, by hour: FORM from how much of
   it was wet, INTENSITY from what fell, in an hour of it. *)
Count(codes, family) == Cardinality({k \in DOMAIN codes : codes[k] \in family})

DrySkyCode(codes) ==
  LET cover(c) == CASE c = 0 -> 0 [] c = 1 -> 25 [] c = 2 -> 55 [] c = 3 -> 95
                   [] c \in Fog -> 90 [] OTHER -> 85
      sum == SumFunction([k \in DOMAIN codes |-> cover(codes[k])])
      known == Cardinality(DOMAIN codes)
  IN  IF 4 * Count(codes, Fog) >= known THEN IF Count(codes, {48}) > 0 THEN 48 ELSE 45
      ELSE IF 2 * sum < 25 * known THEN 0
      ELSE IF sum < 40 * known THEN 1 ELSE IF sum < 75 * known THEN 2 ELSE 3

(* By the codes of the hours, each of which can name one phase only, or by
   water: a quarter of either, above a trace. *)
Mixed(nSnow, nLiquid, snow, rain) ==
  LET water == SnowPerRain * rain
      minority == IF water < snow THEN water ELSE snow
  IN  \/ 4 * nSnow >= nSnow + nLiquid /\ 4 * nLiquid >= nSnow + nLiquid
      \/ minority >= SnowPerRain * 20 /\ 4 * minority >= water + snow

Graded(amount, cuts, codes) ==
  codes[1 + Cardinality({k \in DOMAIN cuts : amount >= cuts[k]})]

AggregateWeathercode(codes, snow, rain) ==
  LET nSnow == Count(codes, SnowCont \union SnowShwr)
      nRain == Count(codes, RainCont \union RainShwr)
      nLiquid == nRain + Count(codes, Drizzle)
      nWet == nSnow + nLiquid
      sparse == 2 * nWet < Cardinality(DOMAIN codes)
      worst(family) == Max(Range(codes) \intersect family)
  IN  IF Count(codes, Thunder) > 0 THEN worst(Thunder)
      ELSE IF Count(codes, Freezing) > 0 THEN worst(Freezing)
      ELSE IF nWet = 0 THEN DrySkyCode(codes)
      ELSE IF Mixed(nSnow, nLiquid, snow, rain)
      THEN Graded(SnowPerRain * rain + snow, <<350 * nWet>>, <<MixLight, MixHeavy>>)
      ELSE IF nSnow > nLiquid
      THEN IF sparse \/ Count(codes, SnowCont) = 0
           THEN Graded(snow, <<500 * nSnow>>, <<85, 86>>)
           ELSE Graded(snow, <<100 * nSnow, 500 * nSnow>>, <<71, 73, 75>>)
      ELSE IF nRain = 0 THEN Graded(rain, <<50 * nLiquid, 100 * nLiquid>>, <<51, 53, 55>>)
      ELSE Graded(rain, <<200 * nLiquid, 500 * nLiquid>>,
                  IF sparse \/ Count(codes, RainCont) = 0 THEN <<80, 81, 82>> ELSE <<61, 63, 65>>)

-----------------------------------------------------------------------------
MaxOf(readings) == IF readings \subseteq {NoReading} THEN NoReading ELSE Max(readings \ {NoReading})

SumOf(values) ==
  LET upTo[k \in 0 .. Len(values)] == IF k = 0 THEN 0 ELSE upTo[k - 1] + values[k]
  IN  upTo[Len(values)]

RowsFromWindows(s, hours, win) ==
  LET rep == RepresentativeTempIndices(s, hours, win)
      row(p) ==
        LET hour(k) == hours[win[p][k]]
            codes == [k \in {j \in DOMAIN win[p] : hour(j).code # NoReading} |-> hour(k).code]
            snow == SumOf([k \in DOMAIN win[p] |-> hour(k).snow])
            rain == SumOf([k \in DOMAIN win[p] |-> hour(k).rain])
            told == IF rep[p] = NoReading THEN [temp |-> NoReading, dew |-> NoReading] ELSE hours[rep[p]]
        IN  [temp |-> told.temp, dew |-> told.dew,
             gust |-> MaxOf({hours[i].gust : i \in ToSet(win[p])}),
             code |-> IF DOMAIN codes = {} THEN NoReading ELSE AggregateWeathercode(codes, snow, rain),
             snow |-> snow, rain |-> rain]
  IN  [p \in DOMAIN win |-> row(p)]

-----------------------------------------------------------------------------
AggregateInit == sky = <<>> /\ adjusted = <<>> /\ rows = <<>> /\ aggregation = "idle"

FetchHourly ==
  /\ aggregation = "idle"
  /\ sky' \in Skies /\ aggregation' = "fetched"
  /\ UNCHANGED <<adjusted, rows>>

Adjust ==
  /\ aggregation = "fetched"
  /\ adjusted' = [i \in DOMAIN sky.hours |-> AdjustPrecipPhase(sky.hours[i])]
  /\ aggregation' = "adjusted"
  /\ UNCHANGED <<sky, rows>>

(* A period upstream has no hour or no temperature for: the rung above is
   not servable. *)
BuildLayoutMessage ==
  /\ aggregation = "adjusted"
  /\ IF Covered(sky, adjusted)
     THEN rows' = RowsFromWindows(sky, adjusted, WindowsFor(sky)) /\ aggregation' = "done"
     ELSE aggregation' = "unservable" /\ UNCHANGED rows
  /\ UNCHANGED <<sky, adjusted>>

AggregateNext == FetchHourly \/ Adjust \/ BuildLayoutMessage

AggregateSpec == AggregateInit /\ [][AggregateNext]_aggregateVars

-----------------------------------------------------------------------------
(* How far a day's reported temperatures miss its extremes, at the degree. *)
Miss(day, temps, reported) ==
  LET far(S, T) == LET d == {Degree(t) : t \in S}
                       e == {Degree(t) : t \in T}
                   IN  (Min(e) - Min(d)) + (Max(d) - Max(e))
  IN  far(temps, reported)

(***************************************************************************)
(* A reader recovers a local day's extremes from the temperatures of its   *)
(* periods as well as one reading per period can tell them: no other       *)
(* choice of readings comes closer.  Each is a reading of its own period,  *)
(* with the dewpoint of the same hour.                                     *)
(***************************************************************************)
DailyExtremes ==
  aggregation = "done" =>
    LET win == WindowsFor(sky)
        readings(p) == {sky.hours[i].temp : i \in Readable(sky.hours, win[p])}
    IN  /\ \A p \in DOMAIN rows : \E i \in ToSet(win[p]) :
             rows[p].temp = sky.hours[i].temp /\ rows[p].dew = sky.hours[i].dew /\ rows[p].temp # NoReading
        /\ \A day \in DaysOf(sky, sky.hours, win) :
             LET temps == UNION {readings(p) : p \in day}
             IN  \A choice \in [day -> temps] :
                   (\A p \in day : choice[p] \in readings(p)) =>
                     Miss(day, temps, {rows[p].temp : p \in day})
                       <= Miss(day, temps, {choice[p] : p \in day})

(***************************************************************************)
(* A period's code agrees with the amounts shipped beside it and with the  *)
(* site: no water is lost on the way to them; where every hour was too     *)
(* cold for rain none is told; one phase alone is told only where one is   *)
(* less than a quarter of the water, or a trace; and it is dry, showers    *)
(* or no thunder only if its hours were.                                   *)
(***************************************************************************)
SummaryAgrees ==
  aggregation = "done" =>
    \A p \in DOMAIN rows :
      LET hours == {sky.hours[i] : i \in ToSet(WindowsFor(sky)[p])}
          water(h) == SnowPerRain * h.rain + h.snow
          codes == {h.code : h \in hours}
          wet == Drizzle \union RainCont \union RainShwr \union SnowCont \union SnowShwr
          uneven(a, b) == \/ Min({a, b}) < SnowPerRain * 20 \/ 3 * Min({a, b}) < Max({a, b})
          liquid == Drizzle \union RainCont \union RainShwr \union {MixLight, MixHeavy}
          row == rows[p]
      IN  /\ water(row) = SumOf([k \in DOMAIN WindowsFor(sky)[p] |-> water(sky.hours[WindowsFor(sky)[p][k]])])
          /\ (\A h \in hours : Snowy(h) /\ h.code \notin Freezing)
               => row.rain = 0 /\ row.code \notin liquid
          /\ row.code \in wet => uneven(SnowPerRain * row.rain, row.snow)
          /\ row.code \in RainCont \union SnowCont => codes \intersect (RainCont \union SnowCont \union Drizzle) # {}
          /\ codes \intersect Thunder # {} => row.code \in Thunder
          /\ row.code \in {0, 1, 2, 3} \union Fog => codes \intersect wet = {}

(***************************************************************************)
(* What a period is told in says what its hours were: the day's extremes   *)
(* are there, and code and amounts agree.                                  *)
(***************************************************************************)
PeriodsTell == DailyExtremes /\ SummaryAgrees

=============================================================================
