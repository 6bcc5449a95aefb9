----------------------------- MODULE CloudBand ------------------------------
(***************************************************************************)
(* The cloud band of a period (codec-server/forecast.ts): per hour, cover  *)
(* is diagnosed from each pressure level's humidity; where that sees       *)
(* nothing, the cover the model gives its low, middle and high layers as a *)
(* whole is placed on levels by humidity; then the worst hour of a period  *)
(* is taken per level, levels nobody served are bridged, and the run of    *)
(* levels a message carries at the site's elevation is cut out.            *)
(*                                                                         *)
(* Levels count from 200 hPa down and stand at the standard atmosphere's   *)
(* heights.  A level's reading is how far its humidity is above where      *)
(* cloud forms, in points, and the cover diagnosed from that; a level      *)
(* without one has no height either (they ride the same request).          *)
(***************************************************************************)
EXTENDS WireLadders

CONSTANT Airs   \* elevation, and hours of readings and layer covers

VARIABLES
  air,       \* what was fetched
  filled,    \* cover of each level, hour by hour, after the fill
  band,      \* cover of each carried level, of the period
  clouds     \* idle, fetched, filled, done
cloudVars == <<air, filled, band, clouds>>

-----------------------------------------------------------------------------
LevelsHPa == <<200, 250, 300, 400, 500, 600, 700, 850, 925, 1000>>
Ladders == DOMAIN LevelsHPa
Layers == {"low", "mid", "high"}
LowTop == 3000
MidTop == 8000
LayerOf(l) ==
  IF LevelMetres[l] < LowTop THEN "low" ELSE IF LevelMetres[l] <= MidTop THEN "mid" ELSE "high"

ScoreWindow == 5

(* A reading is whole or none; a site stands on the ground, so that the third
   level is carried ("always in the carried run for real terrain"). *)
ASSUME AirsAssumption ==
  /\ Unset \notin Int
  /\ \A a \in Airs :
       /\ a.elevation \in Int /\ a.elevation <= 9000
       /\ a.hours \in Seq(Range(a.hours))
       /\ \A i \in DOMAIN a.hours :
            /\ \A l \in Ladders : a.hours[i].level[l] # Unset =>
                 a.hours[i].level[l].excess \in Int /\ a.hours[i].level[l].cover \in Int
            /\ \A b \in Layers : a.hours[i].layer[b] \in Int \union {Unset}

BadMembers(hour, elevation, b) ==
  {l \in Ladders : LayerOf(l) = b /\ hour.level[l] # Unset}

(* A high layer is placed on levels the message will carry, never on those
   the elevation crops; a layer cropped from below is under the ground. *)
Members(hour, elevation, b) ==
  {l \in Ladders : /\ LayerOf(l) = b /\ hour.level[l] # Unset
                   /\ b = "high" => l > CloudRun(elevation).start}

(* The step a cover comes to when m levels overlapping at random are to
   make it up together, and the cover in the middle of that step. *)
SpreadStep(cover, m) ==
  Cardinality({s \in 1 .. 7 : (100 - cover) * 14^m <= 100 * (15 - 2 * s)^m})
Spread(cover, m) == IF m = 1 THEN cover ELSE CoverOf(SpreadStep(cover, m))

Outranks(hour, j, l) ==
  \/ hour.level[j].excess > hour.level[l].excess
  \/ hour.level[j].excess = hour.level[l].excess /\ j < l

(* As many of the most humid levels as are close to the best of them, less
   the weakest for as long as the split would come to nothing. *)
Place(hour, members, cover) ==
  LET rank(l) == Cardinality({j \in members : Outranks(hour, j, l)})
      close == {l \in members : \A j \in members :
                  hour.level[l].excess >= hour.level[j].excess - ScoreWindow}
      k == CHOOSE n \in 1 .. Cardinality(close) :
             /\ n = 1 \/ QuantCover(Spread(cover, n)) > 0
             /\ \A m \in n + 1 .. Cardinality(close) : QuantCover(Spread(cover, m)) = 0
  IN  [l \in {j \in members : rank(j) < k} |-> Spread(cover, k)]

(* What the layers' own covers make of the levels they decide. *)
Placed(hour, elevation, b) ==
  LET members == Members(hour, elevation, b)
      cover == ClampTo(hour.layer[b], 0, 100)
      none == [l \in {} |-> 0]
      lit == IF QuantCover(cover) = 0 THEN none ELSE Place(hour, members, cover)
  IN  IF members = {} \/ hour.layer[b] = Unset THEN none
      ELSE IF b = "high" THEN [l \in members |-> IF l \in DOMAIN lit THEN lit[l] ELSE 0]
      ELSE IF \E l \in members : QuantCover(hour.level[l].cover) > 0 THEN none ELSE lit

FillCloudBand(hour, elevation) ==
  LET made == [b \in Layers |-> Placed(hour, elevation, b)]
      placed(l) == l \in DOMAIN made[LayerOf(l)]
  IN  [l \in Ladders |-> IF placed(l) THEN made[LayerOf(l)][l]
                         ELSE IF hour.level[l] = Unset THEN Unset ELSE hour.level[l].cover]

-----------------------------------------------------------------------------
WorstHour(hours, l) ==
  LET served == {hours[i][l] : i \in DOMAIN hours} \ {Unset}
  IN  IF served = {} THEN Unset ELSE Max(served)

(* Linear in pressure between the nearest levels served (what is bridged
   first lies on the same line), and level beyond the last of them. *)
RepairCloudBand(vals) ==
  LET served == {l \in Ladders : vals[l] # Unset}
      above(l) == {j \in served : j < l}
      below(l) == {j \in served : j > l}
      P(l) == LevelsHPa[l]
      between(l, lo, hi) ==
        (2 * (vals[lo] * (P(hi) - P(l)) + vals[hi] * (P(l) - P(lo))) + P(hi) - P(lo))
          \div (2 * (P(hi) - P(lo)))
  IN  [l \in Ladders |->
         IF l \in served THEN vals[l]
         ELSE IF served = {} THEN 0
         ELSE IF above(l) = {} THEN vals[Min(below(l))]
         ELSE IF below(l) = {} THEN vals[Max(above(l))]
         ELSE between(l, Max(above(l)), Min(below(l)))]

-----------------------------------------------------------------------------
CloudInit == air = <<>> /\ filled = <<>> /\ band = <<>> /\ clouds = "idle"

FetchClouds ==
  /\ clouds = "idle"
  /\ air' \in Airs /\ clouds' = "fetched"
  /\ UNCHANGED <<filled, band>>

FillHours ==
  /\ clouds = "fetched"
  /\ filled' = [i \in DOMAIN air.hours |-> FillCloudBand(air.hours[i], air.elevation)]
  /\ clouds' = "filled"
  /\ UNCHANGED <<air, band>>

ToWirePeriod ==
  /\ clouds = "filled"
  /\ LET run == CloudRun(air.elevation)
         whole == RepairCloudBand([l \in Ladders |-> WorstHour(filled, l)])
     IN  band' = SubSeq(whole, run.start + 1, run.start + run.count)
  /\ clouds' = "done"
  /\ UNCHANGED <<air, filled>>

CloudNext == FetchClouds \/ FillHours \/ ToWirePeriod

CloudSpec == CloudInit /\ [][CloudNext]_cloudVars

-----------------------------------------------------------------------------
(* Levels of a layer that an hour has a reading for and a message carries. *)
Showing(hour, b) ==
  LET run == CloudRun(air.elevation)
  IN  {l \in Ladders : LayerOf(l) = b /\ hour.level[l] # Unset
                         /\ l \in run.start + 1 .. run.start + run.count}

Step(l) == QuantCover(band[l - CloudRun(air.elevation).start])

(***************************************************************************)
(* A high layer the model reports in an hour of the period shows in the    *)
(* message, on a level it carries; so does a low or middle one whose       *)
(* levels are all carried.  A level shows high cloud only if the layer has *)
(* some in an hour of the period.                                          *)
(***************************************************************************)
LayerShows ==
  clouds = "done" =>
    /\ \A i \in DOMAIN air.hours, b \in Layers :
         LET hour == air.hours[i]
             have == {l \in Ladders : LayerOf(l) = b /\ hour.level[l] # Unset}
         IN  /\ hour.layer[b] # Unset /\ QuantCover(hour.layer[b]) > 0
             /\ Showing(hour, b) # {}
             /\ b # "high" => have = Showing(hour, b)
             => \E l \in Showing(hour, b) : Step(l) > 0
    /\ (\A i \in DOMAIN air.hours :
          air.hours[i].layer["high"] # Unset /\ QuantCover(air.hours[i].layer["high"]) = 0)
       => \A i \in DOMAIN air.hours : \A l \in Showing(air.hours[i], "high") : Step(l) = 0

=============================================================================
