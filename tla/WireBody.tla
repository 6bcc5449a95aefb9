------------------------------ MODULE WireBody ------------------------------
(***************************************************************************)
(* How a forecast is written and read (protocol/wire.ts): a header, then   *)
(* one column per variable, each symbol coded under a book that depends on *)
(* what was coded before it.  Nothing in a body says what is in it.  The   *)
(* reader knows the request and the layout and has to come, symbol by      *)
(* symbol, to the book the writer used; where it does not it goes on with  *)
(* plausible garbage.                                                      *)
(*                                                                         *)
(* A body is the sequence of symbols given to the coder, each with its     *)
(* book (Rans has the coder itself).  A reply carries one model, so the    *)
(* loops over models are gone.                                             *)
(***************************************************************************)
EXTENDS WireLadders, TLC

CONSTANTS
  Forecasts,     \* what is asked and where: vars, hours, hour, offset, model, elevation, quota
  RawOf(_, _)    \* series a column may hold, of a length

VARIABLES
  sent,        \* the request a reply is written to
  wirePhase,   \* idle, write, read, done
  columns,     \* yet to be written, or read
  header,
  body,
  kept,        \* what the writer remembers of the columns written
  reader,      \* the body left, and whether it was ever asked for under the wrong book
  known,       \* what the reader remembers of the columns read
  forecast     \* what it makes of them
wireVars == <<sent, wirePhase, columns, header, body, kept, reader, known, forecast>>

-----------------------------------------------------------------------------
AqScale ==
  [c \in {"aq_pm25", "aq_o3", "aq_pm10", "aq_no2", "aq_so2", "aqi"} |-> "us"] @@
  [c \in {"aqi_eu_pm25", "aqi_eu_o3", "aqi_eu_pm10", "aqi_eu_no2", "aqi_eu_so2", "aqi_eu"} |-> "eu"]
Headline == {"aqi", "aqi_eu"}
AqColumn == DOMAIN AqScale \ Headline
ValueColumn == {"precip", "snow", "rain"}
Level == [w300 |-> 0, w400 |-> 1, w500 |-> 2, w600 |-> 3, w700 |-> 4, w850 |-> 5, w925 |-> 6]
WindColumn == {"gust", "wind"} \cup DOMAIN Level

ColumnOrder ==
  <<"weathercode", "temp", "dewpoint", "freeze", "clouds",
    "aq_pm25", "aq_o3", "aq_pm10", "aq_no2", "aq_so2",
    "aqi_eu_pm25", "aqi_eu_o3", "aqi_eu_pm10", "aqi_eu_no2", "aqi_eu_so2",
    "aqi", "aqi_eu", "precip", "snow", "rain",
    "gust", "wind", "w300", "w400", "w500", "w600", "w700", "w850", "w925", "agreement">>

ColumnsOf(r) ==
  SelectSeq(ColumnOrder, LAMBDA c : \/ c = "weathercode"
                                    \/ c \in r.vars /\ (c = "dewpoint" => "temp" \in r.vars))

-----------------------------------------------------------------------------
Periods(r) == 1 .. Len(r.hours)
UpTo(n) == [i \in 1 .. n |-> i]
FromTo(a, b) == [i \in 1 .. (b - a + 1) |-> a + i - 1]
Res(r, p) == ResRow[r.hours[p]]
Tod(r, p) == TodBucket((r.hour + r.offset + StartOf(r.hours, p)) * 2 + r.hours[p])
NAq(r) == PeriodsWithin(r.hours, AqHorizonHours)

Before(s, p) == IF p = 1 THEN Unset ELSE s[p - 1]
StepTo(s, p) == s[p] - s[p - 1]
StepBefore(s, p) == IF p = 2 THEN Unset ELSE StepTo(s, p - 1)

(* Writing: symbols under books. *)
Put(book, s) == <<[book |-> book, sym |-> s]>>
RawBook(bits) == <<"raw", bits>>
PutStep(book, d, radius) ==
  IF radius # CoreRadius \/ d \in -radius .. radius THEN Put(book, d + radius)
  ELSE Put(book, EscapeSym) \o Put(RawBook(6), d + 32)

WriteValues(Book(_, _), s, n) == FlattenSeq([p \in 1 .. n |-> Put(Book(s, p), s[p])])
WriteSteps(bits, Book(_, _), s, radius) ==
  Put(RawBook(bits), s[1])
    \o FlattenSeq([i \in 1 .. Len(s) - 1 |-> PutStep(Book(s, i + 1), StepTo(s, i + 1), radius)])

(* Reading: a symbol is asked for under the book the reader derives. *)
Take(rd, book) ==
  LET hit == rd.left # <<>> /\ Head(rd.left).book = book
  IN  [left   |-> IF hit THEN Tail(rd.left) ELSE rd.left,
       astray |-> rd.astray \/ ~hit,
       val    |-> IF hit THEN Head(rd.left).sym ELSE 0]
TakeStep(rd, book, radius) ==
  LET a == Take(rd, book) IN
  IF radius = CoreRadius /\ a.val = EscapeSym
  THEN LET b == Take(a, RawBook(6)) IN [b EXCEPT !.val = @ - 32]
  ELSE [a EXCEPT !.val = @ - radius]

ReadValues(rd, Book(_, _), s0, ps) ==
  FoldLeft(LAMBDA a, p : LET t == Take(a.rd, Book(a.s, p)) IN [rd |-> t, s |-> Append(a.s, t.val)],
           [rd |-> rd, s |-> s0], ps)
ReadSteps(rd, bits, Book(_, _), n, radius) ==
  LET first == Take(rd, RawBook(bits)) IN
  FoldLeft(LAMBDA a, p : LET t == TakeStep(a.rd, Book(a.s, p), radius)
                         IN  [rd |-> t, s |-> Append(a.s, Last(a.s) + t.val)],
           [rd |-> first, s |-> <<first.val>>], FromTo(2, n))

-----------------------------------------------------------------------------
(* The keys each column's books are looked up by, from what its side has   *)
(* of the column so far and of the columns before it.                      *)
WeathercodeKey(s, p) == WeathercodeBook(Before(s, p))
TempKey(r, s, p) == TempBook(Res(r, p), Tod(r, p), StepBefore(s, p))
DewpointKey(r, t, s, p) == DewpointBook(Res(r, p), StepTo(t, p), t[p - 1] - s[p - 1])
FreezeKey(r, k, p) ==
  FreezeBook(Res(r, p), IF "temp" \in r.vars THEN StepTo(k["temp"], p) ELSE Unset)
AqKey(r, c, s, p) == AqBook(c, Res(r, p), Tod(r, p), StepBefore(s, p))
ValueKey(r, c, k, s, p) ==
  ValueBook(c, Res(r, p), WeathercodeClass[k["weathercode"][p] + 1], Before(s, p))
AgreementKey(r, s, p) == AgreementBook(StartOf(r.hours, p), Before(s, p))

(* Which of the three constituents that lead an index the reply carries,   *)
(* and the selections for which the index is a residual over their worst.  *)
Leading(h) == IF h = "aqi" THEN [pm25 |-> "aq_pm25", o3 |-> "aq_o3", pm10 |-> "aq_pm10"]
              ELSE [pm25 |-> "aqi_eu_pm25", o3 |-> "aqi_eu_o3", pm10 |-> "aqi_eu_pm10"]
Carried(r, h) == {v \in DOMAIN Leading(h) : Leading(h)[v] \in r.vars}
Residual(r, h) ==
  Carried(r, h) \in {{"pm25", "o3"}, {"pm25", "o3", "pm10"}}
                      \cup (IF h = "aqi" THEN {} ELSE {{"o3", "pm10"}})
Base(r, h, k, p) == Max({0} \cup {k[Leading(h)[v]][p] : v \in Carried(r, h)})

Dominants == [aqi |-> 6, aqi_eu |-> 5]     \* the symbol after the last is: unknown
Readings(recon) == SelectSeq(UpTo(Len(recon)), LAMBDA p : recon[p] # AqiNoData)

(* The column a wind column leans on: gust for the surface, the nearest    *)
(* level asked for above for a level.                                      *)
LevelsAbove(r, c) == {u \in DOMAIN Level \cap r.vars : Level[u] < Level[c]}
Upper(r, c) ==
  CASE c = "gust" -> Unset
    [] c = "wind" -> IF "gust" \in r.vars THEN "gust" ELSE Unset
    [] OTHER -> IF LevelsAbove(r, c) = {} THEN Unset
                ELSE CHOOSE u \in LevelsAbove(r, c) : \A v \in LevelsAbove(r, c) : Level[v] <= Level[u]
Gap(r, c) == IF c \in DOMAIN Level /\ Upper(r, c) # Unset THEN Level[c] - Level[Upper(r, c)] ELSE 0

SpeedKey(r, c, k, p) ==
  LET u == Upper(r, c)
      step == IF u = Unset THEN Unset ELSE StepTo(k[u].spd, p)
  IN  CASE c = "gust" -> GustBook(Res(r, p))
        [] c = "wind" -> SurfaceBook(Res(r, p), step)
        [] OTHER -> LevelBook(Res(r, p), 1 + Level[c], step, Gap(r, c))

Windy(spd) == SelectSeq(UpTo(Len(spd)), LAMBDA p : spd[p] > CalmMax)
DirKey(r, c, k, windy, dirs, i) ==
  LET u == Upper(r, c) IN
  DirBook(Res(r, windy[i]), Before(dirs, i),
          IF u \in DOMAIN Level THEN k[u].disp[windy[i]] ELSE Unset, Gap(r, c))
(* Shown in a calm: the last direction there was. *)
Displayed(windy, dirs, n) ==
  [p \in 1 .. n |-> LET past == {i \in DOMAIN windy : windy[i] <= p}
                    IN  IF past = {} THEN 0 ELSE dirs[Max(past)]]

Pairs(r) == SelectSeq(Centers, LAMBDA c : c # r.model)
NAgreement(r, c) == PeriodsWithin(r.hours, CenterHorizon[c])
-----------------------------------------------------------------------------
(* A column written: its symbols, and what is remembered of it.            *)
WriteWeathercode(r, raw) ==
  LET wc == [p \in Periods(r) |-> WmoIndex(raw[p])]
  IN  [out |-> WriteValues(WeathercodeKey, wc, Len(wc)), keep |-> wc]

StepWritten(from, to) == ClampTo(to - from, DeltaMin, DeltaMax)

(* The temperatures the reader will have: each is reached from the last,   *)
(* so a jump too long for the field is made up over the next periods.      *)
Reconstructed(first, q) ==
  FoldLeft(LAMBDA s, v : Append(s, Last(s) + StepWritten(Last(s), v)), <<first>>, Tail(q))

WriteTemp(r, raw) ==
  LET q == [p \in Periods(r) |-> QuantTemp(raw[p])]
      s == Reconstructed(q[1], q)
  IN  [out |-> WriteSteps(8, LAMBDA t, p : TempKey(r, t, p), s, CoreRadius), keep |-> s]

WriteDewpoint(r, raw, k) ==
  LET t == k["temp"]
      q == [p \in Periods(r) |-> QuantTemp(raw[p])]
      depression == ClampTo(t[1] - q[1], 0, 63)
      s == Reconstructed(t[1] - depression, q)
      steps == WriteSteps(8, LAMBDA d, p : DewpointKey(r, t, d, p), s, CoreRadius)
  IN  [out |-> Put(RawBook(6), depression) \o Tail(steps), keep |-> s]

WriteFreeze(r, raw, k) ==
  LET q == [p \in Periods(r) |-> QuantFreeze(raw[p])]
  IN  [out |-> WriteSteps(5, LAMBDA s, p : FreezeKey(r, k, p), q, 31), keep |-> q]

(* Level by level; an anchor, then each step under the one before it.      *)
WriteClouds(r, raw) ==
  LET n == CloudPeriods(r.hours)
      run == CloudRun(r.elevation)
      steps == [l \in 1 .. (IF n > 0 THEN run.count ELSE 0) |->
                  [p \in 1 .. n |-> IF l \in DOMAIN raw[p] THEN QuantCover(raw[p][l]) ELSE 0]]
      key(l, s, p) == IF p = 1 THEN RawBook(3) ELSE CloudBook(run.start + l - 1, s[p - 1])
  IN  [out |-> FlattenSeq([l \in DOMAIN steps |->
                             WriteValues(LAMBDA s, p : key(l, s, p), steps[l], n)]),
       keep |-> steps]

WriteAq(r, c, raw) ==
  LET q == [p \in 1 .. NAq(r) |-> QuantAqi(raw[p], AqScale[c])]
  IN  [out |-> WriteSteps(5, LAMBDA s, p : AqKey(r, c, s, p), q, CoreRadius), keep |-> q]

(* An index below its worst constituent is read back as the constituent;   *)
(* whether a pollutant is named depends on what will be read, not on what  *)
(* the index was.                                                          *)
WriteHeadline(r, c, raw, k) ==
  LET q == [p \in 1 .. NAq(r) |-> QuantAqi(raw[p].index, AqScale[c])]
      over == [p \in 1 .. NAq(r) |-> ClampTo(q[p] - Base(r, c, k, p), 0, AqiMax)]
      recon == IF Residual(r, c) THEN [p \in 1 .. NAq(r) |-> Base(r, c, k, p) + over[p]] ELSE q
      readings == Readings(recon)
      said == [i \in DOMAIN readings |->
                 LET d == raw[readings[i]].dominant
                 IN  IF d = Unset THEN Dominants[c] ELSE ClampTo(d, 0, Dominants[c])]
  IN  [out |-> (IF Residual(r, c)
                THEN WriteValues(LAMBDA s, p : ResidualBook(c, Res(r, p), Carried(r, c)), over, NAq(r))
                ELSE WriteSteps(5, LAMBDA s, p : AqKey(r, c, s, p), q, CoreRadius))
               \o WriteValues(LAMBDA s, i : DominantBook(c, Before(s, i)), said, Len(said)),
       keep |-> [recon |-> recon, said |-> said]]

QuantValue(c, v) == IF c = "precip" THEN QuantPrecip(v) ELSE Compand(v, Span[c])
WriteValue(r, c, raw, k) ==
  LET s == [p \in Periods(r) |-> QuantValue(c, raw[p])]
  IN  [out |-> WriteValues(LAMBDA v, p : ValueKey(r, c, k, v, p), s, Len(s)), keep |-> s]

WriteWind(r, c, raw, k) ==
  LET spd == [p \in Periods(r) |-> QuantWind(raw[p].kph)]
      windy == IF c = "gust" THEN <<>> ELSE Windy(spd)
      dirs == [i \in DOMAIN windy |-> raw[windy[i]].dir % 8]
  IN  [out |-> WriteSteps(5, LAMBDA s, p : SpeedKey(r, c, k, p), spd, BeaufortMax)
               \o WriteValues(LAMBDA s, i : DirKey(r, c, k, windy, s, i), dirs, Len(dirs)),
       keep |-> [spd |-> spd, disp |-> Displayed(windy, dirs, Len(spd))]]

WriteAgreement(r, raw) ==
  LET said == [c \in {Pairs(r)[i] : i \in DOMAIN Pairs(r)} |-> [p \in 1 .. NAgreement(r, c) |->
                 IF raw[p][c] = Unset THEN AgreementNoData ELSE ClampTo(raw[p][c], 0, 3)]]
  IN  [out |-> FlattenSeq([i \in DOMAIN Pairs(r) |-> LET s == said[Pairs(r)[i]] IN
                 WriteValues(LAMBDA v, p : AgreementKey(r, v, p), s, Len(s))]),
       keep |-> said]

Written(r, c, raw, k) ==
  CASE c = "weathercode" -> WriteWeathercode(r, raw)
    [] c = "temp" -> WriteTemp(r, raw)
    [] c = "dewpoint" -> WriteDewpoint(r, raw, k)
    [] c = "freeze" -> WriteFreeze(r, raw, k)
    [] c = "clouds" -> WriteClouds(r, raw)
    [] c \in AqColumn -> WriteAq(r, c, raw)
    [] c \in Headline -> WriteHeadline(r, c, raw, k)
    [] c \in ValueColumn -> WriteValue(r, c, raw, k)
    [] c \in WindColumn -> WriteWind(r, c, raw, k)
    [] c = "agreement" -> WriteAgreement(r, raw)

-----------------------------------------------------------------------------
(* A column read: the body left, what is remembered of it, and what the    *)
(* forecast shows.                                                         *)
ReadWeathercode(r, rd) ==
  LET a == ReadValues(rd, WeathercodeKey, <<>>, UpTo(Len(r.hours)))
  IN  [rd |-> a.rd, keep |-> a.s, shown |-> [p \in Periods(r) |-> WmoCodes[a.s[p] + 1]]]

ReadTemp(r, rd) ==
  LET a == ReadSteps(rd, 8, LAMBDA s, p : TempKey(r, s, p), Len(r.hours), CoreRadius)
  IN  [rd |-> a.rd, keep |-> a.s, shown |-> [p \in Periods(r) |-> a.s[p] - TempOffset]]

ReadDewpoint(r, rd, k) ==
  LET t == k["temp"]
      depression == Take(rd, RawBook(6))
      a == FoldLeft(LAMBDA b, p :
             LET d == TakeStep(b.rd, DewpointKey(r, t, b.s, p), CoreRadius)
             IN  [rd |-> d, s |-> Append(b.s, Last(b.s) + d.val)],
             [rd |-> depression, s |-> <<t[1] - depression.val>>], FromTo(2, Len(r.hours)))
  IN  [rd |-> a.rd, keep |-> a.s, shown |-> [p \in Periods(r) |-> a.s[p] - TempOffset]]

ReadFreeze(r, rd, k) ==
  LET a == ReadSteps(rd, 5, LAMBDA s, p : FreezeKey(r, k, p), Len(r.hours), 31)
  IN  [rd |-> a.rd, keep |-> a.s, shown |-> [p \in Periods(r) |-> a.s[p] * FreezeStep]]

ReadClouds(r, rd) ==
  LET n == CloudPeriods(r.hours)
      run == CloudRun(r.elevation)
      key(l, s, p) == IF p = 1 THEN RawBook(3) ELSE CloudBook(run.start + l - 1, s[p - 1])
      a == FoldLeft(LAMBDA b, l :
             LET v == ReadValues(b.rd, LAMBDA s, p : key(l, s, p), <<>>, UpTo(n))
             IN  [rd |-> v.rd, steps |-> Append(b.steps, v.s)],
             [rd |-> rd, steps |-> <<>>], UpTo(IF n > 0 THEN run.count ELSE 0))
  IN  [rd |-> a.rd, keep |-> a.steps,
       shown |-> [p \in Periods(r) |->
                    IF p > n THEN <<>> ELSE [l \in DOMAIN a.steps |-> CoverOf(a.steps[l][p])]]]

ReadAq(r, c, rd) ==
  LET a == ReadSteps(rd, 5, LAMBDA s, p : AqKey(r, c, s, p), NAq(r), CoreRadius)
  IN  [rd |-> a.rd, keep |-> a.s,
       shown |-> [p \in Periods(r) |-> IF p > NAq(r) THEN Unset ELSE AqiMid(a.s[p], AqScale[c])]]

ReadHeadline(r, c, rd, k) ==
  LET a == IF Residual(r, c)
           THEN ReadValues(rd, LAMBDA s, p : ResidualBook(c, Res(r, p), Carried(r, c)), <<>>, UpTo(NAq(r)))
           ELSE ReadSteps(rd, 5, LAMBDA s, p : AqKey(r, c, s, p), NAq(r), CoreRadius)
      recon == IF Residual(r, c) THEN [p \in 1 .. NAq(r) |-> Base(r, c, k, p) + a.s[p]] ELSE a.s
      readings == Readings(recon)
      b == ReadValues(a.rd, LAMBDA s, i : DominantBook(c, Before(s, i)), <<>>, UpTo(Len(readings)))
      named(p) == {i \in DOMAIN readings : readings[i] = p /\ b.s[i] # Dominants[c]}
  IN  [rd |-> b.rd, keep |-> [recon |-> recon, said |-> b.s],
       shown |-> [p \in Periods(r) |->
         [index    |-> IF p > NAq(r) THEN Unset ELSE AqiMid(recon[p], AqScale[c]),
          dominant |-> IF named(p) = {} THEN Unset ELSE b.s[Max(named(p))]]]]

ReadValue(r, c, rd, k) ==
  LET a == ReadValues(rd, LAMBDA v, p : ValueKey(r, c, k, v, p), <<>>, UpTo(Len(r.hours)))
  IN  [rd |-> a.rd, keep |-> a.s,
       shown |-> [p \in Periods(r) |->
                    IF c = "precip" THEN PrecipOf(a.s[p]) ELSE Expand(a.s[p], Span[c])]]

ReadWind(r, c, rd, k) ==
  LET a == ReadSteps(rd, 5, LAMBDA s, p : SpeedKey(r, c, k, p), Len(r.hours), BeaufortMax)
      windy == IF c = "gust" THEN <<>> ELSE Windy(a.s)
      b == ReadValues(a.rd, LAMBDA s, i : DirKey(r, c, k, windy, s, i), <<>>, UpTo(Len(windy)))
      disp == Displayed(windy, b.s, Len(a.s))
  IN  [rd |-> b.rd, keep |-> [spd |-> a.s, disp |-> disp],
       shown |-> [p \in Periods(r) |-> [kph |-> BeaufortMid(a.s[p]), dir |-> disp[p]]]]

ReadAgreement(r, rd) ==
  LET a == FoldLeft(LAMBDA b, c :
             LET v == ReadValues(b.rd, LAMBDA s, p : AgreementKey(r, s, p), <<>>, UpTo(NAgreement(r, c)))
             IN  [rd |-> v.rd, said |-> b.said @@ (c :> v.s)],
             [rd |-> rd, said |-> <<>>], Pairs(r))
  IN  [rd |-> a.rd, keep |-> a.said,
       shown |-> [p \in Periods(r) |-> [c \in DOMAIN CenterHorizon |->
         IF c = r.model \/ p > NAgreement(r, c) \/ a.said[c][p] = AgreementNoData
         THEN Unset ELSE a.said[c][p]]]]

ReadBack(r, c, rd, k) ==
  CASE c = "weathercode" -> ReadWeathercode(r, rd)
    [] c = "temp" -> ReadTemp(r, rd)
    [] c = "dewpoint" -> ReadDewpoint(r, rd, k)
    [] c = "freeze" -> ReadFreeze(r, rd, k)
    [] c = "clouds" -> ReadClouds(r, rd)
    [] c \in AqColumn -> ReadAq(r, c, rd)
    [] c \in Headline -> ReadHeadline(r, c, rd, k)
    [] c \in ValueColumn -> ReadValue(r, c, rd, k)
    [] c \in WindColumn -> ReadWind(r, c, rd, k)
    [] c = "agreement" -> ReadAgreement(r, rd)

-----------------------------------------------------------------------------
(* The header: elevation in steps, and what is left of the month's free    *)
(* forecasts in three bits.                                                *)
FreeForecasts == 5
QuotaField(q) ==
  CASE q.kind = "none" -> 0 [] q.kind = "over" -> 7 [] OTHER -> FreeForecasts + 1 - q.remaining
QuotaOf(f) ==
  [kind |-> CASE f = 0 -> "none" [] f = 7 -> "over" [] OTHER -> "free",
   remaining |-> IF f \in {0, 7} THEN 0 ELSE FreeForecasts + 1 - f]
HeaderFor(r) == [elevation |-> QuantElevation(r.elevation) \div ElevationStep,
                 quota |-> QuotaField(r.quota)]
(* What the reader starts from: its own request, and the header.           *)
Resolved(r, h) == [r EXCEPT !.elevation = h.elevation * ElevationStep, !.quota = QuotaOf(h.quota)]

WireInit ==
  /\ sent = Unset /\ wirePhase = "idle"
  /\ columns = <<>> /\ header = Unset /\ body = <<>>
  /\ kept = <<>> /\ known = <<>> /\ forecast = <<>>
  /\ reader = [left |-> <<>>, astray |-> FALSE, val |-> 0]

Compose ==
  /\ wirePhase = "idle" /\ wirePhase' = "write"
  /\ sent' \in Forecasts
  /\ columns' = ColumnsOf(sent') /\ header' = HeaderFor(sent')
  /\ UNCHANGED <<body, kept, reader, known, forecast>>

WriteColumn ==
  /\ wirePhase = "write" /\ columns # <<>>
  /\ \E raw \in RawOf(Head(columns), Len(sent.hours)) :
       \E w \in {Written(sent, Head(columns), raw, kept)} :
       /\ body' = body \o w.out
       /\ kept' = kept @@ (Head(columns) :> w.keep)
  /\ columns' = Tail(columns)
  /\ UNCHANGED <<sent, wirePhase, header, reader, known, forecast>>

Deliver ==
  /\ wirePhase = "write" /\ columns = <<>>
  /\ wirePhase' = "read"
  /\ columns' = ColumnsOf(sent)
  /\ reader' = [reader EXCEPT !.left = body]
  /\ UNCHANGED <<sent, header, body, kept, known, forecast>>

ReadColumn ==
  /\ wirePhase = "read" /\ columns # <<>>
  /\ \E r \in {Resolved(sent, header)} : \E d \in {ReadBack(r, Head(columns), reader, known)} :
       /\ reader' = d.rd
       /\ known' = known @@ (Head(columns) :> d.keep)
       /\ forecast' = forecast @@ (Head(columns) :> d.shown)
  /\ columns' = Tail(columns)
  /\ UNCHANGED <<sent, wirePhase, header, body, kept>>

ReadDone ==
  /\ wirePhase = "read" /\ columns = <<>>
  /\ wirePhase' = "done"
  /\ UNCHANGED <<sent, columns, header, body, kept, reader, known, forecast>>

WireNext == Compose \/ WriteColumn \/ Deliver \/ ReadColumn \/ ReadDone

WireSpec == WireInit /\ [][WireNext]_wireVars

-----------------------------------------------------------------------------
AlphabetOf(book) ==
  CASE book[1] = "raw" -> 0 .. 2 ^ book[2] - 1
    [] book[1] = "weathercode" -> 0 .. Len(WmoCodes) - 1
    [] book[1] \in {"temp", "dewpoint"} -> 0 .. EscapeSym
    [] book[1] = "freeze" -> 0 .. 62
    [] book[1] \in {"speed", "upper", "surface", "gust"} -> 0 .. 34
    [] book[1] \in {"clouds", "precip", "dir"} -> 0 .. 7
    [] book[1] \in {"snow", "rain"} -> 0 .. AccumMax
    [] book[1] = "agreement" -> 0 .. AgreementNoData
    [] OTHER -> 0 .. AqiMax

(* The reader asks for every symbol under the book it was coded under and, *)
(* when the columns are read, has read the whole body and nothing else     *)
(* (decodeBody mirrors buildBody, assertDone); and no symbol falls outside *)
(* its book, a jump too long for its field least of all.                   *)
InStep ==
  /\ ~reader.astray
  /\ wirePhase = "done" =>
       /\ reader.left = <<>>
       /\ \A i \in DOMAIN body : body[i].sym \in AlphabetOf(body[i].book)

Rewritten(r) ==
  FoldLeft(LAMBDA a, c : LET w == Written(r, c, forecast[c], a.kept)
                         IN  [out |-> a.out \o w.out, kept |-> a.kept @@ (c :> w.keep)],
           [out |-> <<>>, kept |-> <<>>], ColumnsOf(r)).out

(* What was read says what was written: the decoded message, written       *)
(* again, is the same message, header and body (wire.ts claims it of the   *)
(* cloud band; the quantized scales of every column are to have it), and   *)
(* the quota told is the one the server meant.                             *)
Reencodes ==
  wirePhase = "done" =>
    LET r == Resolved(sent, header) IN
    /\ HeaderFor(r) = header /\ r.quota = sent.quota
    /\ Rewritten(r) = body

(* The reader stays in step with the body, and what it makes of it is what *)
(* was written.                                                            *)
BodyReadsBack == InStep /\ Reencodes
=============================================================================
