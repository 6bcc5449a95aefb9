------------------------------- MODULE Layout -------------------------------
(***************************************************************************)
(* What a reply covers (protocol/layout.ts).  A priority mode is a ladder  *)
(* of layouts, each the one before it with one more day at 12 hours or one *)
(* day a rung finer; the message carries only how far up it is, and the    *)
(* phone derives the periods as the server did.  A behaviour is one        *)
(* request walked up its ladder.                                           *)
(***************************************************************************)
EXTENDS Integers, Sequences, FiniteSets, SequencesExt

CONSTANTS
  Modes,         \* of "detail", "auto", "range"
  Models,        \* of "best", "CA", "DE"
  RequestHours,  \* UTC epoch hours at which requests are made
  Offsets        \* of the places asked about, in hours

ASSUME LayoutAssumption ==
  /\ Modes \subseteq {"detail", "auto", "range"} /\ Models \subseteq {"best", "CA", "DE"}
  /\ RequestHours \subseteq Nat /\ Offsets \subseteq -12 .. 14

VARIABLES
  request,   \* what was asked, once it was
  profile,   \* the resolution of each day covered
  seq
layoutVars == <<request, profile, seq>>

-----------------------------------------------------------------------------
ResolutionHours == <<12, 6, 3, 1>>
FillSlots == 13
SeqBits == 8

Rep(r, n) == [i \in 1 .. n |-> r]

Anchors ==
  [detail |->
     << <<1>>, <<1, 1, 1>>, <<4, 2, 1>>, <<4, 4, 4, 1, 1>>,
        <<4, 4, 4, 3, 3, 2, 2, 2, 1, 1, 1>>, <<4, 4, 4, 3, 3, 2, 2, 2, 1, 1, 1, 1, 1>>,
        Rep(4, 5) \o Rep(3, 5) \o Rep(2, 3), Rep(4, 8) \o Rep(3, 5) >>,
   auto |->
     << <<1>>, <<1, 1, 1>>, Rep(1, 7), Rep(2, 5) \o <<1, 1>>, Rep(3, 5) \o <<1, 1>>,
        Rep(3, 5) \o Rep(1, 5), <<4>> \o Rep(3, 4) \o Rep(1, 5),
        <<4, 4>> \o Rep(3, 5) \o Rep(2, 3) \o Rep(1, 3), Rep(4, 6) \o Rep(3, 7) >>,
   range |->
     << <<1>>, <<1, 1, 1>>, Rep(1, FillSlots), Rep(2, FillSlots), Rep(3, FillSlots),
        Rep(4, 3) \o Rep(3, 10) >>]

FillReachHours == [CA |-> 221, DE |-> 164]

BadFillSlotsFor(model, hour, offset) ==
  IF model \notin DOMAIN FillReachHours THEN FillSlots
  ELSE Min({FillSlots, (((hour + offset) % 24) + FillReachHours[model]) \div 24 + 1})

(* fillSlotsFor: the days whose end the model is sure to reach. *)
FillSlotsFor(model, hour, offset) ==
  IF model \notin DOMAIN FillReachHours THEN FillSlots
  ELSE Min({FillSlots, Max({1, (((hour + offset) % 24) + FillReachHours[model]) \div 24})})

(* pathFor: an anchor of a capped ladder is the anchor cut to the cap. *)
Ladder(mode, slots) ==
  [a \in DOMAIN Anchors[mode] |->
     SubSeq(Anchors[mode][a], 1, Min({Len(Anchors[mode][a]), slots}))]

Behind(p, anchor) == {i \in DOMAIN anchor : i > Len(p) \/ p[i] < anchor[i]}

Raised(p, i) == IF i > Len(p) THEN Append(p, 1) ELSE [p EXCEPT ![i] = @ + 1]

BadSlotPeriods(req, d, h) ==
  LET local == req.hour + req.offset
      start == (local \div 24) * 24 + 24 * (d - 1)
      first == IF d = 1 THEN local ELSE start
  IN  [k \in 1 .. (start + 24 - first + h - 1) \div h |->
         [start |-> first + (k - 1) * h - req.offset, hours |-> h]]

(* A day's periods: the request day's from the one the request is in, any
   other's from local midnight. *)
SlotPeriods(req, d, h) ==
  LET local == req.hour + req.offset
      start == (local \div 24) * 24 + 24 * (d - 1)
      first == IF d = 1 THEN start + ((local - start) \div h) * h ELSE start
  IN  [k \in 1 .. (start + 24 - first + h - 1) \div h |->
         [start |-> first + (k - 1) * h - req.offset, hours |-> h]]

LayoutFor(req, p) == FlattenSeq([d \in DOMAIN p |-> SlotPeriods(req, d, ResolutionHours[p[d]])])

-----------------------------------------------------------------------------
NoRequest == <<>>

LayoutInit == request = NoRequest /\ profile = <<>> /\ seq = 0

Ask(mode, model, hour, offset) ==
  /\ request = NoRequest
  /\ request' = [mode |-> mode, hour |-> hour, offset |-> offset, model |-> model,
                 slots |-> FillSlotsFor(model, hour, offset)]
  /\ profile' = Ladder(mode, FillSlotsFor(model, hour, offset))[1]
  /\ seq' = 1

(* interpolate: the leftmost day behind the next anchor gives way first. *)
Climb ==
  /\ request # NoRequest
  /\ LET ladder == Ladder(request.mode, request.slots)
     IN  \E a \in DOMAIN ladder :
           /\ Behind(profile, ladder[a]) # {}
           /\ \A b \in 1 .. a - 1 : Behind(profile, ladder[b]) = {}
           /\ \E i \in Behind(profile, ladder[a]) :
                /\ \A j \in Behind(profile, ladder[a]) : i <= j
                /\ profile' = Raised(profile, i)
  /\ seq' = seq + 1
  /\ UNCHANGED request

LayoutNext ==
  \/ \E mode \in Modes, model \in Models, hour \in RequestHours, offset \in Offsets :
       Ask(mode, model, hour, offset)
  \/ Climb

LayoutSpec == LayoutInit /\ [][LayoutNext]_layoutVars

-----------------------------------------------------------------------------
(* The hours fetchForecast has: yesterday's first in UTC, and days more than
   the ladder's from today's. *)
AxisStart(today) == today - 24
AxisEnd(today) == today + 24 * (FillSlots + 2)

RequestWindow(hour, today) ==
  CASE hour < AxisStart(today) -> "stale"
    [] hour >= AxisEnd(today)  -> "future"
    [] OTHER -> "ok"

Days == {24 * (hour \div 24) + 24 * k : hour \in RequestHours, k \in -(FillSlots + 3) .. 2}

OnAxis(p, today) == p.start + p.hours > AxisStart(today) /\ p.start < AxisEnd(today)

-----------------------------------------------------------------------------
(***************************************************************************)
(* On every rung the periods start with the one the request hour is in and *)
(* run without a gap or an overlap to a local midnight, never finer after  *)
(* coarser; and the header's bits can say the rung.                        *)
(***************************************************************************)
WindowTiled ==
  request # NoRequest =>
    LET ps == LayoutFor(request, profile)
        local == request.hour + request.offset
    IN  /\ ps[1].start <= request.hour /\ request.hour < ps[1].start + ps[1].hours
        /\ \A i \in 1 .. Len(ps) - 1 : /\ ps[i + 1].start = ps[i].start + ps[i].hours
                                       /\ ps[i + 1].hours >= ps[i].hours
        /\ ps[Len(ps)].start + ps[Len(ps)].hours + request.offset
             = 24 * (local \div 24) + 24 * Len(profile)
        /\ seq <= 2^SeqBits

(***************************************************************************)
(* No rung of a capped ladder asks a model for hours past its guaranteed   *)
(* reach; and whatever day it is when a request the server accepts gets    *)
(* there, its first period has an hour on the axis that is fetched, and    *)
(* every period has unless the request is from more than a day ahead.      *)
(***************************************************************************)
Servable ==
  request # NoRequest =>
    LET ps == LayoutFor(request, profile)
    IN  /\ request.model \in DOMAIN FillReachHours =>
             ps[Len(ps)].start + ps[Len(ps)].hours <= request.hour + FillReachHours[request.model]
        /\ \A today \in Days : RequestWindow(request.hour, today) = "ok" =>
             /\ OnAxis(ps[1], today)
             /\ request.hour < today + 48 => \A i \in DOMAIN ps : OnAxis(ps[i], today)

(***************************************************************************)
(* Every rung can be told and served: its periods tile the local days, and *)
(* lie where there is data.                                                *)
(***************************************************************************)
RungsServe == WindowTiled /\ Servable

=============================================================================
