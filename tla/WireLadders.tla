---------------------------- MODULE WireLadders ----------------------------
(***************************************************************************)
(* The scales a message carries and the contexts its symbols are coded in  *)
(* (protocol/wire.ts, entropy.ts, bits.ts).  The columns that use them are *)
(* in WireBody.                                                            *)
(*                                                                         *)
(* Which frequencies a book holds is in Rans; here a book is its name, the *)
(* key its table is looked up by.  Numbers are whole: a height is in       *)
(* decimetres, an accumulation in 1/3969 of its unit (63^2), where         *)
(* companding and expanding are exact; a wind midpoint drops its half.     *)
(***************************************************************************)
EXTENDS Integers, Sequences, FiniteSets, SequencesExt

CONSTANT Unset     \* null, or a field left out

-----------------------------------------------------------------------------
ClampTo(v, low, high) == IF v < low THEN low ELSE IF v > high THEN high ELSE v

(* The position of a value on a ladder: how many of its edges it reaches. *)
Reached(v, edges) == Cardinality({i \in DOMAIN edges : v >= edges[i]})

WmoCodes == <<0, 1, 2, 3, 45, 48, 51, 53, 55, 56, 57, 61, 63, 65, 66, 67, 71, 73, 75, 77,
              80, 81, 82, 85, 86, 95, 96, 99, 68, 69>>

WeathercodeClass == <<0, 0, 0, 0, 0, 0, 1, 1, 1, 2, 2, 1, 1, 1, 2, 2, 3, 3, 3, 3,
                      1, 1, 1, 3, 3, 1, 1, 1, 3, 3>>

(* Symbols count from 0; an unknown code is written as clear. *)
WmoIndex(code) ==
  IF \E i \in DOMAIN WmoCodes : WmoCodes[i] = code
  THEN (CHOOSE i \in DOMAIN WmoCodes : WmoCodes[i] = code) - 1 ELSE 0

TempOffset == 100
QuantTemp(celsius) == ClampTo(celsius + TempOffset, 0, 255)

FreezeStep == 3048
QuantFreeze(dm) == ClampTo(dm \div FreezeStep, 0, 31)

QuantCover(pct) == ClampTo((14 * pct + 100) \div 200, 0, 7)
CoverOf(step) == (200 * step + 7) \div 14

QuantPrecip(pct) == ClampTo((14 * pct + 100) \div 200, 0, 7)
PrecipOf(v) == (200 * v + 7) \div 14

AccumMax == 63
Span == [snow |-> 200, rain |-> 144]
Compand(x, span) ==
  Cardinality({s \in 1 .. AccumMax : (2 * s - 1) * (2 * s - 1) * span <= 4 * x})
Expand(v, span) == v * v * span

-----------------------------------------------------------------------------
AqiLower ==
  [us |-> <<0, 5, 10, 15, 20, 25, 30, 35, 40, 45, 50, 60, 70, 80, 90, 100, 120, 140,
            160, 180, 200, 250, 300, 400, 500>>,
   eu |-> <<0, 4, 8, 12, 16, 20, 24, 28, 32, 36, 40, 45, 50, 55, 60, 70, 80, 90, 100,
            120, 150, 200, 300, 400, 500>>]
AqiNoData == 0
AqiMax == 25

QuantAqi(v, scale) ==
  IF v = Unset THEN AqiNoData ELSE 1 + Reached(v, Tail(AqiLower[scale]))

BadAqiMid(s, scale) ==
  IF s > AqiMax THEN Unset
  ELSE IF s = AqiMax THEN AqiLower[scale][s]
  ELSE IF s <= AqiNoData THEN AqiLower[scale][1]
  ELSE (AqiLower[scale][s] + AqiLower[scale][s + 1] + 1) \div 2

AqiMid(s, scale) ==
  IF s <= AqiNoData \/ s > AqiMax THEN Unset
  ELSE IF s = AqiMax THEN AqiLower[scale][s]
  ELSE (AqiLower[scale][s] + AqiLower[scale][s + 1] + 1) \div 2

BeaufortLower == <<0, 1, 6, 12, 20, 29, 39, 50, 62, 75, 89, 103, 118, 134, 150, 167, 184, 202>>
BeaufortMax == 17
CalmMax == 1
QuantWind(kph) == Reached(kph, Tail(BeaufortLower))
BeaufortMid(f) ==
  IF f <= 0 THEN 0 ELSE IF f >= BeaufortMax THEN 211
  ELSE (BeaufortLower[f + 1] + BeaufortLower[f + 2]) \div 2

-----------------------------------------------------------------------------
(* The clamps both sides derive.  Elevations of the band's levels on the   *)
(* standard atmosphere, 200 hPa first, in metres.                          *)
ElevationStep == 100
QuantElevation(m) == ClampTo((m + ElevationStep \div 2) \div ElevationStep, 0, 127) * ElevationStep

LevelMetres == <<11784, 10363, 9164, 7185, 5574, 4206, 3012, 1457, 762, 111>>
CapIndex == 2
MinLevels == 6

BadCloudRun(m) ==
  LET above == Cardinality({i \in DOMAIN LevelMetres : LevelMetres[i] > m})
      bottom == ClampTo(above + 2, 0, Len(LevelMetres))
      start == ClampTo(bottom - MinLevels, 0, CapIndex)
  IN  [start |-> start, count |-> bottom - start]

CloudRun(m) ==
  LET above == Cardinality({i \in DOMAIN LevelMetres : LevelMetres[i] > QuantElevation(m)})
      bottom == ClampTo(above + 2, 0, Len(LevelMetres))
      start == ClampTo(bottom - MinLevels, 0, CapIndex)
  IN  [start |-> start, count |-> bottom - start]

CloudBandMaxHours == 3
CloudPeriods(hours) ==
  Cardinality({p \in DOMAIN hours : \A k \in 1 .. p : hours[k] <= CloudBandMaxHours})

StartOf(hours, p) == FoldLeft(+, 0, SubSeq(hours, 1, p - 1))
PeriodsWithin(hours, horizon) == Cardinality({p \in DOMAIN hours : StartOf(hours, p) < horizon})
AqHorizonHours == 96

Centers == <<"US", "CA", "EU", "DE">>
CenterHorizon == [US |-> 384, CA |-> 240, EU |-> 360, DE |-> 180]
AgreementNoData == 4
LeadEdges == <<48, 120, 240>>

ResRow == [h \in {12, 6, 3, 1} |-> CASE h = 12 -> 0 [] h = 6 -> 1 [] h = 3 -> 2 [] h = 1 -> 3]
(* The three hours of the local day a period's middle falls in. *)
TodBucket(localHalfHours) == (localHalfHours % 48) \div 6

-----------------------------------------------------------------------------
DeltaMin == -32
DeltaMax == 31
CoreRadius == 7
EscapeSym == 2 * CoreRadius + 1

DeltaBucket(d) == Reached(d, <<-1, 0, 1, 2>>)
UpperBucket(d) == ClampTo(d, -2, 2) + 2
AccumBucket(v) == Reached(v, <<1, 4, 10, 21>>)
DepressionBucket(d) == Reached(d, <<1, 3, 6, 11>>)
GapClass(gap) == ClampTo(gap, 1, 3) - 1

(* Books, by the key their table is chosen by. *)
WeathercodeBook(prev) == IF prev = Unset THEN <<"weathercode">> ELSE <<"weathercode", prev>>
TempBook(res, tod, prev) ==
  IF prev = Unset THEN <<"temp">> ELSE <<"temp", res, DeltaBucket(prev), tod>>
DewpointBook(res, step, depression) ==
  <<"dewpoint", res, ClampTo(step, -CoreRadius, CoreRadius), DepressionBucket(depression)>>
FreezeBook(res, step) ==
  IF step = Unset THEN <<"freeze", res>> ELSE <<"freeze", res, DeltaBucket(step)>>
CloudBook(level, prev) == <<"clouds", ClampTo(level - CapIndex, 0, 7), prev>>
Diurnal == {"aq_o3", "aq_no2", "aqi_eu_o3", "aqi_eu_no2", "aqi", "aqi_eu"}
AqBook(c, res, tod, prev) ==
  <<c, res, DeltaBucket(IF prev = Unset THEN 0 ELSE prev), IF c \in Diurnal THEN tod ELSE Unset>>
ResidualBook(c, res, carried) == <<c, carried, res>>
DominantBook(c, prev) == IF prev = Unset THEN <<c>> ELSE <<c, prev>>
ValueBook(c, res, class, prev) ==
  IF prev = Unset THEN <<c>>
  ELSE <<c, res, IF c = "precip" THEN prev ELSE AccumBucket(prev), class>>
LevelBook(res, level, step, gap) ==
  IF step = Unset THEN <<"speed", res, level>> ELSE <<"upper", res, GapClass(gap), UpperBucket(step)>>
SurfaceBook(res, gust) ==
  IF gust = Unset THEN <<"speed", res, 0>> ELSE <<"surface", res, UpperBucket(gust)>>
GustBook(res) == <<"gust", res>>
DirBook(res, prev, upper, gap) ==
  IF prev = Unset THEN <<"dir">>
  ELSE IF upper = Unset THEN <<"dir", res, prev>>
  ELSE <<"dir", res, GapClass(gap), prev, upper>>
AgreementBook(start, prev) == <<"agreement", Reached(start, LeadEdges), prev>>
=============================================================================
