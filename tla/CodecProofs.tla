---------------------------- MODULE CodecProofs ----------------------------
(***************************************************************************)
(* The codec server, its periods and their cloud band, the entropy coder   *)
(* its messages are written with and the coder's tables.                   *)
(* What holds of a served request for every ladder, however long, every    *)
(* number of messages asked for and every device: the search returns the   *)
(* largest layout that fits, and the reply costs no more than was asked.   *)
(* What holds of the coder for every interval, every table that codes and  *)
(* every message: the decoder undoes the encoder.  And of the tables, for  *)
(* every precision and all weights: they are fair, and they code.  And of  *)
(* the band, for any readings: the layers the model reports show in it.    *)
(* And of a layout's periods, over any hours: each tells what its hours    *)
(* were.                                                                   *)
(***************************************************************************)
EXTENDS CodecServer, Rans, RansTables, CloudBand, Aggregate, SequenceTheorems, FiniteSetTheorems,
        WellFoundedInduction, TLAPS

Lengthy == {n \in Nat : n > HeaderChars}
Costings == [1 .. MaxSeq -> Lengthy \union {Unservable}]
Askings == [device : Devices, kind : {"weather", "avalanche"}, messages : 1 .. MaxMessages]

\* Where the search is: all it has passed fit, none it has cut off does.
SearchKnows ==
  /\ ask.kind = "weather" /\ ladder \in Costings
  /\ lo \in 1 .. MaxSeq + 1 /\ hi \in 0 .. MaxSeq /\ lo <= hi + 1
  /\ best \in 1 .. MaxSeq /\ ladder[best] # Unservable
  /\ lo = 1 => best = 1
  /\ lo > 1 => best = lo - 1 /\ Fits(ladder[best])
  /\ Growing => \A j \in 1 .. MaxSeq : Fits(ladder[j]) => j <= hi

ServedKnows ==
  \/ SearchKnows /\ lo > hi /\ reply = SplitReplyFor(ask.device, ladder[best])
  \/ /\ ask.kind = "avalanche" /\ Len(reply) <= MaxParts
     /\ \E length \in Lengthy : reply = SplitReplyFor(ask.device, length)

IInv == /\ serving # "idle" => ask \in Askings
        /\ serving = "searching" => SearchKnows
        /\ Served => ServedKnows

LEMMA DeviceNames == Devices \subseteq {"i", "s", "z", "d", "g", "none"}
  BY CodecServerAssumption

LEMMA Budgets ==
  /\ TransportChars["i"] = 50 /\ TransportChars["s"] = 160 /\ TransportChars["z"] = 240
  /\ TransportChars["g"] = 160 /\ TransportChars["d"] = 1000000
  /\ PartBodyChars("i") = 43 /\ PartBodyChars("z") = 231 /\ PartBodyChars("g") = 151
  BY DEF TransportChars, Uncapped, PartBodyChars, BubbleBytes, PartLabelChars, HeaderChars, WideCharBytes

LEMMA SomeLengths ==
  ASSUME NEW device \in Devices, NEW n \in 1 .. MaxMessages
  PROVE  /\ Lengths(device, n) \subseteq Lengthy
         /\ MaxCharsFor(device, n) \in Nat
<1> DEFINE budget == MaxCharsFor(device, n)
           one == TransportChars[Route(device)]
<1>1. one \in {50, 160, 240, 1000000}
  BY DeviceNames, Budgets DEF Route
<1>2. budget \in Nat /\ budget > HeaderChars
  <2>1. n = 1 \/ n = 2 \/ n = 3 \/ n = 4
    BY DEF MaxMessages
  <2>2. CASE device \in {"i", "z", "g"}
    BY <2>1, <2>2, Budgets DEF MaxCharsFor, Route, Splits, HeaderChars, Uncapped
  <2>3. CASE device \in {"s", "none", "d"}
    BY <2>1, <2>3, Budgets DEF MaxCharsFor, Route, Splits, HeaderChars, ConcatSegment, Uncapped
  <2>4. QED
    BY <2>2, <2>3, DeviceNames
<1>3. QED
  BY <1>1, <1>2 DEF Lengths, Lengthy, HeaderChars

LEMMA SomeBulletins ==
  ASSUME NEW device \in Devices
  PROVE  BulletinLengths(device) \subseteq Lengthy
<1>1. CASE Splits(device)
  <2>1. PartBodyChars(device) \in {43, 231, 151}
    BY <1>1, Budgets DEF Splits
  <2>2. QED
    BY <1>1, <2>1 DEF BulletinLengths, Lengthy, HeaderChars
<1>2. CASE ~Splits(device)
  <2>1. TransportChars[Route(device)] \in {160, 1000000}
    BY <1>2, DeviceNames, Budgets DEF Route, Splits
  <2>2. MaxCharsFor(device, 9) \in {1000000, 9 * 153}
    BY <1>2, DeviceNames DEF MaxCharsFor, Route, Splits, Uncapped, ConcatSegment
  <2>3. QED
    BY <1>2, <2>1, <2>2 DEF BulletinLengths, Lengths, Lengthy, HeaderChars
<1>3. QED
  BY <1>1, <1>2

\* A reply cut into messages has as many as its body takes.
LEMMA HowManyMessages ==
  ASSUME NEW device \in Devices, NEW length \in Lengthy, Splits(device),
         length > TransportChars[device]
  PROVE  LET parts == (length - HeaderChars + PartBodyChars(device) - 1) \div PartBodyChars(device)
         IN  parts \in Nat /\ Len(SplitReplyFor(device, length)) = parts
<1> DEFINE body == PartBodyChars(device)
           parts == (length - HeaderChars + body - 1) \div body
           part(k) == PartLabelChars + HeaderChars
                        + (IF k < parts THEN body ELSE length - HeaderChars - (parts - 1) * body)
<1>1. body \in {43, 231, 151} /\ TransportChars[device] \in {50, 240, 160}
      /\ length \in Nat /\ length > 5
  BY Budgets DEF Splits, Lengthy, HeaderChars
<1>2. SplitReplyFor(device, length) = [k \in 1 .. parts |-> part(k)]
  BY <1>1 DEF SplitReplyFor
<1> HIDE DEF body
<1>3. parts \in Nat
  BY <1>1 DEF HeaderChars
<1> HIDE DEF parts, part
<1>4. Len(SplitReplyFor(device, length)) = parts
  BY <1>2, <1>3
<1>5. QED
  BY <1>3, <1>4 DEF parts, body

LEMMA CountType ==
  ASSUME NEW device \in Devices, NEW length \in Lengthy
  PROVE  Len(SplitReplyFor(device, length)) \in Nat
<1>1. CASE Splits(device) /\ length > TransportChars[device]
  BY <1>1, HowManyMessages
<1>2. CASE ~(Splits(device) /\ length > TransportChars[device])
  <2>1. Splits(device) => TransportChars[device] \in Nat /\ length \in Nat
    BY Budgets DEF Splits, Lengthy
  <2>2. SplitReplyFor(device, length) = <<length>>
    BY <1>2, <2>1 DEF SplitReplyFor
  <2>3. QED
    BY <2>2
<1>3. QED
  BY <1>1, <1>2

----------------------------------------------------------------------------
LEMMA InitInv == CodecInit => IInv
  BY DEF CodecInit, Idle, IInv, Served

LEMMA AskInv ==
  ASSUME IInv, NEW device \in Devices, NEW n \in AskedFor,
         \/ \E code \in {400, 422} : Refuse(device, n, code)
         \/ \E kind \in {"weather", "avalanche"} : Accept(device, n, kind)
  PROVE  IInv'
<1>1. Clamped(n) \in 1 .. MaxMessages
  BY CodecServerAssumption DEF Clamped, MaxMessages
<1>2. CASE \E code \in {400, 422} : Refuse(device, n, code)
  BY <1>1, <1>2 DEF Refuse, Respond, IInv, Askings, Served
<1>3. CASE \E kind \in {"weather", "avalanche"} : Accept(device, n, kind)
  BY <1>1, <1>3 DEF Accept, IInv, Askings, Served
<1>4. QED
  BY <1>2, <1>3

LEMMA FailInv == ASSUME IInv, UpstreamFails \/ NoBulletin PROVE IInv'
  BY DEF UpstreamFails, NoBulletin, Respond, IInv, Served

LEMMA BulletinInv ==
  ASSUME IInv, NEW length \in BulletinLengths(ask.device), ServeBulletin(length)
  PROVE  IInv'
<1>1. ask \in Askings /\ ask' = ask /\ ask.kind = "avalanche" /\ serving' = "done"
  BY DEF IInv, ServeBulletin, Respond
<1>2. length \in Lengthy
  BY <1>1, SomeBulletins DEF Askings
<1>3. CASE Len(SplitReplyFor(ask.device, length)) > MaxParts
  BY <1>1, <1>3 DEF ServeBulletin, Respond, IInv, Served
<1>4. CASE ~(Len(SplitReplyFor(ask.device, length)) > MaxParts)
  <2>1. reply' = SplitReplyFor(ask.device, length)
    BY <1>4 DEF ServeBulletin, Respond
  <2>2. Len(reply') <= MaxParts
    BY <1>1, <1>2, <1>4, <2>1, CountType DEF Askings, MaxParts
  <2>3. QED
    BY <1>1, <1>2, <2>1, <2>2 DEF IInv, ServedKnows
<1>5. QED
  BY <1>3, <1>4

LEMMA FetchedInv ==
  ASSUME IInv, Fetched(ladder'),
         ladder' \in [1 .. MaxSeq -> Lengths(ask.device, ask.messages) \union {Unservable}]
  PROVE  IInv'
<1>1. ask \in Askings /\ ask' = ask /\ ask.kind = "weather"
  BY DEF IInv, Fetched
<1>2. ladder' \in Costings
  BY <1>1, SomeLengths DEF Costings, Askings
<1>3. CASE ladder'[1] = Unservable
  BY <1>1, <1>3 DEF Fetched, Respond, IInv, Served
<1>4. CASE ladder'[1] # Unservable
  <2>1. serving' = "searching" /\ lo' = 1 /\ hi' = MaxSeq /\ best' = 1
    BY <1>4 DEF Fetched
  <2>2. SearchKnows'
    BY <1>1, <1>2, <1>4, <2>1, CodecServerAssumption DEF SearchKnows
  <2>3. QED
    BY <1>1, <2>1, <2>2 DEF IInv, Served
<1>5. QED
  BY <1>3, <1>4

----------------------------------------------------------------------------
(***************************************************************************)
(* One probe of the search.  A probe that fits raises lo past it and is    *)
(* kept; one that does not cuts off all that lies above it, as far as the  *)
(* ladder grows.                                                           *)
(***************************************************************************)
LEMMA SearchInv == ASSUME IInv, Search PROVE IInv'
<1> DEFINE mid == (lo + hi) \div 2
<1>1. /\ ask \in Askings /\ ask' = ask /\ ladder' = ladder
      /\ serving = "searching" /\ serving' = "searching"
  BY DEF IInv, Search
<1>2. SearchKnows /\ lo <= hi
  BY <1>1 DEF IInv, Search
<1>3. mid \in lo .. hi /\ mid \in 1 .. MaxSeq
  BY <1>2, CodecServerAssumption DEF SearchKnows
<1>4. \A n : Fits(n)' = Fits(n)
  BY <1>1 DEF Fits
<1>5. Growing' = Growing
  BY <1>1, <1>4 DEF Growing
<1>6. CASE Fits(ladder[mid])
  <2>1. best' = mid /\ lo' = mid + 1 /\ hi' = hi
    BY <1>6 DEF Search, Keep
  <2>2. ladder[mid] # Unservable
    BY <1>6 DEF Fits
  <2>3. Fits(ladder[best])'
    BY <1>1, <1>6, <2>1 DEF Fits
  <2>4. SearchKnows'
    BY <1>1, <1>2, <1>3, <1>4, <1>5, <2>1, <2>2, <2>3, CodecServerAssumption DEF SearchKnows
  <2>5. QED
    BY <1>1, <2>4 DEF IInv, Served
<1>7. CASE ~Fits(ladder[mid])
  <2>1. best' = best /\ lo' = lo /\ hi' = mid - 1
    BY <1>7 DEF Search, Keep
  <2>2. ASSUME Growing, NEW j \in 1 .. MaxSeq, Fits(ladder[j]) PROVE j <= mid - 1
    <3>1. DOMAIN ladder = 1 .. MaxSeq
      BY <1>2 DEF SearchKnows, Costings
    <3>2. ~(mid < j)
      BY <1>3, <1>7, <2>2, <3>1 DEF Growing
    <3>3. QED
      BY <1>3, <1>7, <2>2, <3>2
  <2>3. Fits(ladder[best])' = Fits(ladder[best])
    BY <1>1, <2>1 DEF Fits
  <2>4. SearchKnows'
    BY <1>1, <1>2, <1>3, <1>4, <1>5, <2>1, <2>2, <2>3, CodecServerAssumption DEF SearchKnows
  <2>5. QED
    BY <1>1, <2>4 DEF IInv, Served
<1>8. QED
  BY <1>6, <1>7

LEMMA ServeInv == ASSUME IInv, Serve PROVE IInv'
<1>1. /\ SearchKnows /\ lo > hi /\ ask \in Askings
      /\ UNCHANGED <<ask, ladder, lo, hi, best>>
      /\ reply' = SplitReplyFor(ask.device, ladder[best]) /\ serving' = "done"
  BY DEF IInv, Serve, Respond
<1>2. SearchKnows'
  BY <1>1 DEF SearchKnows, Growing, Fits
<1>3. QED
  BY <1>1, <1>2 DEF IInv, ServedKnows

LEMMA NextInv == IInv /\ [CodecNext]_codecVars => IInv'
<1> SUFFICES ASSUME IInv, [CodecNext]_codecVars PROVE IInv'
  OBVIOUS
<1>1. CASE \E device \in Devices, n \in AskedFor :
             \/ \E code \in {400, 422} : Refuse(device, n, code)
             \/ \E kind \in {"weather", "avalanche"} : Accept(device, n, kind)
  BY <1>1, AskInv
<1>2. CASE UpstreamFails \/ NoBulletin
  BY <1>2, FailInv
<1>3. CASE Search \/ Serve
  BY <1>3, SearchInv, ServeInv
<1>4. CASE \E length \in BulletinLengths(ask.device) : ServeBulletin(length)
  BY <1>4, BulletinInv
<1>5. CASE \E lengths \in [1 .. MaxSeq -> Lengths(ask.device, ask.messages) \union {Unservable}] :
             Fetched(lengths)
  <2>1. Fetched(ladder')
        /\ ladder' \in [1 .. MaxSeq -> Lengths(ask.device, ask.messages) \union {Unservable}]
    BY <1>5 DEF Fetched
  <2>2. QED
    BY <2>1, FetchedInv
<1>6. CASE UNCHANGED codecVars
  BY <1>6 DEF codecVars, IInv, Served, ServedKnows, SearchKnows, Growing, Fits
<1>7. QED
  BY <1>1, <1>2, <1>3, <1>4, <1>5, <1>6 DEF CodecNext

----------------------------------------------------------------------------
(***************************************************************************)
(* The messages of a reply.                                                *)
(***************************************************************************)
LEMMA OneMessage ==
  ASSUME NEW device \in Devices, NEW length \in Lengthy, ~Splits(device)
  PROVE  SplitReplyFor(device, length) = <<length>>
  BY DEF SplitReplyFor

\* On a route that splits, every message is one the transport carries.
LEMMA EachCarried ==
  ASSUME NEW device \in Devices, NEW length \in Lengthy, Splits(device),
         NEW i \in DOMAIN SplitReplyFor(device, length)
  PROVE  LET messages == SplitReplyFor(device, length)
         IN  Cost(device, messages[i], Len(messages) > 1) <= MessageLimit(device)
<1> DEFINE body == PartBodyChars(device)
           parts == (length - HeaderChars + body - 1) \div body
           messages == SplitReplyFor(device, length)
<1>1. /\ device \in {"i", "z", "g"}
      /\ device = "i" => body = 43 /\ TransportChars[device] = 50
      /\ device = "z" => body = 231 /\ TransportChars[device] = 240
      /\ device = "g" => body = 151 /\ TransportChars[device] = 160
      /\ length \in Nat /\ length > 5
  BY Budgets DEF Splits, Lengthy, HeaderChars
<1> HIDE DEF body
<1>2. CASE length <= TransportChars[device]
  <2>1. messages = <<length>>
    BY <1>2 DEF SplitReplyFor
  <2>2. Len(messages) = 1 /\ messages[i] = length
    BY <2>1
  <2>3. QED
    BY <1>1, <1>2, <2>2 DEF Cost, MessageLimit, HeaderChars, WideCharBytes, BubbleBytes
<1>3. CASE length > TransportChars[device]
  <2>1. /\ parts \in Nat /\ parts > 1
        /\ parts * body >= length - 5 /\ (parts - 1) * body < length - 5
    BY <1>1, <1>3 DEF HeaderChars
  <2> HIDE DEF parts
  <2>2. messages = [k \in 1 .. parts |->
                      9 + (IF k < parts THEN body ELSE length - 5 - (parts - 1) * body)]
    BY <1>1, <1>3 DEF SplitReplyFor, parts, body, PartLabelChars, HeaderChars
  <2>3. Len(messages) = parts /\ i \in 1 .. parts
    BY <2>1, <2>2
  <2>4. messages[i] \in 9 .. 9 + body
    BY <1>1, <2>1, <2>2, <2>3
  <2>5. QED
    BY <1>1, <2>1, <2>3, <2>4
       DEF Cost, MessageLimit, HeaderChars, PartLabelChars, WideCharBytes, BubbleBytes
<1>4. QED
  BY <1>1, <1>2, <1>3, Budgets

\* Within the budget of n messages there are no more than n.
LEMMA AtMostAsked ==
  ASSUME NEW device \in Devices, NEW length \in Lengthy, NEW n \in 1 .. MaxMessages,
         length <= MaxCharsFor(device, n)
  PROVE  /\ Splits(device) => Len(SplitReplyFor(device, length)) <= n
         /\ Route(device) = "s" => Segments(length) <= n
<1>1. n \in {1, 2, 3, 4} /\ length \in Nat /\ length > 5
  BY DEF MaxMessages, Lengthy, HeaderChars
<1>2. ASSUME Splits(device) PROVE Len(SplitReplyFor(device, length)) <= n
  <2> DEFINE body == PartBodyChars(device)
             parts == (length - HeaderChars + body - 1) \div body
  <2>1. /\ device \in {"i", "z", "g"} /\ Route(device) = device
        /\ body \in {43, 231, 151} /\ TransportChars[device] \in {50, 240, 160}
    BY <1>2, Budgets DEF Splits, Route
  <2> HIDE DEF body
  <2>2. CASE length <= TransportChars[device]
    <3>1. SplitReplyFor(device, length) = <<length>>
      BY <2>2 DEF SplitReplyFor
    <3>2. QED
      BY <1>1, <3>1
  <2>3. CASE length > TransportChars[device]
    <3>1. n > 1 /\ length <= 5 + n * body
      BY <1>1, <1>2, <2>1, <2>3 DEF MaxCharsFor, HeaderChars, body
    <3>2. parts <= n
      BY <1>1, <2>1, <3>1 DEF HeaderChars
    <3>3. Len(SplitReplyFor(device, length)) = parts
      BY <1>2, <2>3, HowManyMessages DEF body
    <3>4. QED
      BY <3>2, <3>3
  <2>4. QED
    BY <1>1, <2>1, <2>2, <2>3
<1>3. ASSUME Route(device) = "s" PROVE Segments(length) <= n
  <2>1. length <= IF n = 1 THEN 160 ELSE n * 153
    BY <1>1, <1>3, Budgets DEF MaxCharsFor, Splits, ConcatSegment
  <2>2. QED
    BY <1>1, <2>1 DEF Segments, ConcatSegment
<1>4. QED
  BY <1>2, <1>3

LEMMA ServedWithin == IInv => WithinWhatWasAsked
<1> SUFFICES ASSUME IInv, Served PROVE WithinWhatWasAsked
  BY DEF WithinWhatWasAsked
<1>1. ask \in Askings /\ ServedKnows
  BY DEF IInv, Served
<1>2. ask.device \in Devices /\ ask.messages \in 1 .. MaxMessages
  BY <1>1 DEF Askings
<1>3. CASE SearchKnows /\ reply = SplitReplyFor(ask.device, ladder[best])
  <2>1. ladder[best] \in Lengthy
    BY <1>3 DEF SearchKnows, Costings
  <2>2. Fits(ladder[best]) => ladder[best] <= MaxCharsFor(ask.device, ask.messages)
    BY DEF Fits
  <2>3. ask.kind = "weather"
    BY <1>3 DEF SearchKnows
  <2>4. CASE Splits(ask.device)
    BY <1>2, <1>3, <2>1, <2>2, <2>3, <2>4, EachCarried, AtMostAsked DEF WithinWhatWasAsked
  <2>5. CASE ~Splits(ask.device)
    <3>1. reply = <<ladder[best]>>
      BY <1>2, <1>3, <2>1, <2>5, OneMessage
    <3>2. Len(reply) = 1 /\ reply[1] = ladder[best]
      BY <3>1
    <3>3. QED
      BY <1>2, <2>1, <2>2, <2>3, <2>5, <3>2, AtMostAsked DEF WithinWhatWasAsked
  <2>6. QED
    BY <2>4, <2>5
<1>4. CASE /\ ask.kind = "avalanche" /\ Len(reply) <= MaxParts
           /\ \E length \in Lengthy : reply = SplitReplyFor(ask.device, length)
  <2>1. PICK length \in Lengthy : reply = SplitReplyFor(ask.device, length)
    BY <1>4
  <2>2. CASE Splits(ask.device)
    BY <1>2, <1>4, <2>1, <2>2, EachCarried DEF WithinWhatWasAsked
  <2>3. CASE ~Splits(ask.device)
    <3>1. reply = <<length>>
      BY <1>2, <2>1, <2>3, OneMessage
    <3>2. QED
      BY <1>4, <2>3, <3>1 DEF WithinWhatWasAsked
  <2>4. QED
    BY <2>2, <2>3
<1>5. QED
  BY <1>1, <1>3, <1>4 DEF ServedKnows

LEMMA ServedLargest == IInv => LargestThatFits
<1> SUFFICES ASSUME IInv, Served, ask.kind = "weather" PROVE LargestThatFits
  BY DEF LargestThatFits
<1>1. SearchKnows /\ lo > hi
  BY DEF IInv, ServedKnows
<1>2. DOMAIN ladder = 1 .. MaxSeq
  BY <1>1 DEF SearchKnows, Costings
<1>3. hi <= best /\ (best # 1 => Fits(ladder[best]))
  BY <1>1, CodecServerAssumption DEF SearchKnows
<1>4. Growing => \A j \in DOMAIN ladder : Fits(ladder[j]) => j <= best
  BY <1>1, <1>2, <1>3, CodecServerAssumption DEF SearchKnows
<1>5. QED
  BY <1>1, <1>3, <1>4 DEF LargestThatFits, SearchKnows

----------------------------------------------------------------------------
\* The strengthened invariant, from which the rest follows.
THEOREM CodecInv == CodecSpec => []IInv
  BY InitInv, NextInv, PTL DEF CodecSpec

\* However long the ladder, the search serves the largest layout that fits
\* the budget, where the ladder grows as the search takes it to (fitFillToBudget).
THEOREM CodecLargestThatFits == CodecSpec => []LargestThatFits
  BY CodecInv, ServedLargest, PTL

\* For every device and number of messages asked for, a reply that fits its
\* budget goes out as no more messages than that, each of which the transport
\* carries whole (maxCharsFor, splitReplyFor).
THEOREM CodecWithinWhatWasAsked == CodecSpec => []WithinWhatWasAsked
  BY CodecInv, ServedWithin, PTL

-----------------------------------------------------------------------------
(***************************************************************************)
(* The entropy coder.  The decoder is right because it goes back up the    *)
(* very states the encoder came down through; those are no part of the     *)
(* model's state, so the invariant says that there are some: a trail of    *)
(* states and of counts of words emitted, from the seed to where the       *)
(* encoder is, along which the decoder returns.                            *)
(***************************************************************************)
(* Products and quotients of naturals. *)
LEMMA MulMono == \A a, b, c \in Nat : a <= b => a * c <= b * c /\ c * a <= c * b
  OBVIOUS
LEMMA MulType == \A a, b \in Nat : a * b \in Nat
  OBVIOUS
LEMMA Distributes == \A a, b, c \in Nat : a * (b + c) = a * b + a * c /\ (b + c) * a = b * a + c * a
  OBVIOUS
LEMMA Commutes == \A a, b \in Nat : a * b = b * a
  OBVIOUS
LEMMA Division ==
  \A a \in Nat, b \in Nat \ {0} : /\ a = b * (a \div b) + (a % b)
                                  /\ a % b \in 0 .. b - 1 /\ a \div b \in Nat
  OBVIOUS
LEMMA Quotient ==
  \A b \in Nat \ {0}, q, r \in Nat : r < b => (b * q + r) \div b = q /\ (b * q + r) % b = r
  OBVIOUS
LEMMA QuotientBounds ==
  \A a, q \in Nat, b \in Nat \ {0} : /\ a < b * q => a \div b < q
                                     /\ b * q <= a => q <= a \div b
  BY Division, MulMono

(* The table of an entry codes: its slots are its own. *)
LEMMA OpFacts ==
  ASSUME NEW op \in Ops
  PROVE  /\ op.slots \in 1 .. WordBase /\ op.slots \in Nat \ {0}
         /\ Freq(op) \in Nat \ {0} /\ Cum(op) \in Nat /\ Cum(op) + Freq(op) <= op.slots
         /\ \E q \in Nat \ {0} : L = op.slots * q
         /\ op.sym \in DOMAIN op.table.freq /\ op.sym \in Nat
         /\ \A s \in DOMAIN op.table.freq :
              /\ op.table.freq[s] \in Nat /\ op.table.cum[s] \in Nat
              /\ s # op.sym => \/ op.table.cum[s] + op.table.freq[s] <= Cum(op)
                               \/ Cum(op) + Freq(op) <= op.table.cum[s]
<1>1. Coding(op.table, op.slots) /\ op.sym \in DOMAIN op.table.freq
  <2>1. CASE \E table \in Tables, s \in 1 .. M : op = [table |-> table, slots |-> M, sym |-> s]
    BY <2>1, RansAssumption DEF Ops
  <2>2. CASE \E base \in RawBases, v \in 1 .. WordBase :
               op = [table |-> RawTable(base), slots |-> base, sym |-> v]
    BY <2>2, RansAssumption DEF Ops
  <2> QED BY <2>1, <2>2 DEF Ops, Entries
<1> DEFINE table == op.table
           slots == op.slots
           sym == op.sym
<1> HIDE DEF table, slots, sym
<1>2. Coding(table, slots) /\ sym \in DOMAIN table.freq
  BY <1>1 DEF table, slots, sym
<1>3. /\ slots \in 1 .. WordBase /\ slots \in Nat \ {0}
      /\ \E q \in Nat \ {0} : L = slots * q
  BY <1>2, RansAssumption DEF Coding
<1>4. /\ table.freq[sym] \in Nat \ {0} /\ table.cum[sym] \in Nat
      /\ table.cum[sym] + table.freq[sym] <= slots
  BY <1>2 DEF Coding
<1>5. ASSUME NEW s \in DOMAIN table.freq
      PROVE  /\ table.freq[s] \in Nat /\ table.cum[s] \in Nat
             /\ s # sym => \/ table.cum[s] + table.freq[s] <= table.cum[sym]
                           \/ table.cum[sym] + table.freq[sym] <= table.cum[s]
  BY <1>2, <1>3, RansAssumption DEF Coding
<1>6. sym \in Nat
  BY <1>2, <1>3, RansAssumption DEF Coding
<1> QED BY <1>2, <1>3, <1>4, <1>5, <1>6 DEF Freq, Cum, table, slots, sym

LEMMA LimitFacts ==
  ASSUME NEW op \in Ops, NEW q \in Nat \ {0}, L = op.slots * q
  PROVE  /\ Limit(op) = Freq(op) * (q * WordBase) /\ Limit(op) \in Nat
         /\ L <= Limit(op) /\ StateMax = op.slots * (q * WordBase)
         /\ StateMax \in Nat
<1> DEFINE f == Freq(op)
           m == op.slots
<1>1. f \in Nat \ {0} /\ m \in Nat \ {0} /\ m <= WordBase /\ WordBase \in Nat \ {0}
  BY OpFacts, RansAssumption
<1> HIDE DEF f, m
<1>2. L = m * q
  BY DEF m
<1>3. StateMax = m * (q * WordBase) /\ q * WordBase \in Nat
  BY <1>1, <1>2 DEF StateMax
<1>4. StateMax \div m = q * WordBase
  <2>1. (m * (q * WordBase) + 0) \div m = q * WordBase
    BY <1>1, <1>3, Quotient
  <2> QED BY <1>1, <1>3, <2>1
<1>5. Limit(op) = f * (q * WordBase)
  BY <1>4 DEF Limit, f, m
<1>6. m * q <= q * WordBase
  BY <1>1, MulMono
<1>7. q * WordBase <= f * (q * WordBase) /\ f * (q * WordBase) \in Nat
  BY <1>1, <1>3
<1>8. StateMax \in Nat
  BY <1>1, <1>3
<1> QED BY <1>1, <1>2, <1>3, <1>5, <1>6, <1>7, <1>8 DEF f, m

(* One word is always enough, and it goes just where the state would fall
   under its interval. *)
LEMMA SpillFacts ==
  ASSUME NEW op \in Ops, NEW y \in Nat, L <= y, y < StateMax
  PROVE  LET k == Spill(y, Limit(op))
         IN  /\ k \in {0, 1} /\ After(y, k) \in Nat /\ After(y, k) < Limit(op)
             /\ k = 0 => After(y, k) = y /\ L <= After(y, k)
             /\ k = 1 => /\ After(y, k) < L /\ Limit(op) <= y
                         /\ y = After(y, k) * WordBase + (y % WordBase)
<1>1. PICK q \in Nat \ {0} : L = op.slots * q
  BY OpFacts
<1>2. L <= Limit(op) /\ Limit(op) \in Nat
  BY <1>1, LimitFacts
<1>3. WordBase \in Nat \ {0} /\ L \in Nat
  BY RansAssumption
<1>4. /\ y \div WordBase \in Nat /\ y \div WordBase < L
      /\ y = (y \div WordBase) * WordBase + (y % WordBase)
  <2>1. y < WordBase * L
    BY <1>3 DEF StateMax
  <2>2. y \div WordBase < L
    BY <1>3, <2>1, QuotientBounds
  <2>3. y = WordBase * (y \div WordBase) + (y % WordBase) /\ y \div WordBase \in Nat
    BY <1>3, Division
  <2> QED BY <1>3, <2>2, <2>3
<1> DEFINE k == Spill(y, Limit(op))
           Under(j) == After(y, j) < Limit(op) /\ \A i \in 0 .. j - 1 : After(y, i) >= Limit(op)
<1>5. \E j \in 0 .. 1 : Under(j)
  <2>1. CASE y < Limit(op)
    <3>1. Under(0)
      BY <2>1 DEF After
    <3> QED BY <3>1
  <2>2. CASE ~(y < Limit(op))
    <3>1. After(y, 1) < Limit(op)
      BY <1>2, <1>3, <1>4 DEF After
    <3>2. ASSUME NEW i \in 0 .. 1 - 1 PROVE After(y, i) >= Limit(op)
      <4>1. i = 0
        OBVIOUS
      <4> QED BY <1>2, <2>2, <4>1 DEF After
    <3>3. Under(1)
      BY <3>1, <3>2
    <3> QED BY <3>3
  <2> QED BY <2>1, <2>2
<1>6. k \in 0 .. 1 /\ Under(k)
  BY <1>5 DEF Spill
<1> HIDE DEF k
<1>7. CASE k = 0
  BY <1>6, <1>7 DEF After, k
<1>8. CASE k = 1
  <2>1. After(y, 0) >= Limit(op)
    <3>1. 0 \in 0 .. k - 1
      BY <1>8
    <3> QED BY <1>6, <3>1
  <2> QED BY <1>2, <1>4, <1>6, <1>8, <2>1 DEF After, k
<1> QED BY <1>6, <1>7, <1>8 DEF k

(* Pushing keeps the state in its interval, and leaves the entry's slot and
   the state it was pushed on to be found. *)
LEMMA PushFacts ==
  ASSUME NEW op \in Ops, NEW y \in Nat, L <= y, y < StateMax
  PROVE  LET z == After(y, Spill(y, Limit(op)))
             w == Push(z, op)
         IN  /\ w \in Nat /\ L <= w /\ w < StateMax
             /\ Cum(op) <= w % op.slots /\ w % op.slots < Cum(op) + Freq(op)
             /\ w % op.slots \in Nat
             /\ Freq(op) * (w \div op.slots) + (w % op.slots) - Cum(op) = z
<1>1. PICK q \in Nat \ {0} : L = op.slots * q
  BY OpFacts
<1> DEFINE f == Freq(op)
           m == op.slots
           c == Cum(op)
           k == Spill(y, Limit(op))
           z == After(y, k)
           w == Push(z, op)
           a == z \div f
           r == z % f
<1>2. /\ f \in Nat \ {0} /\ m \in Nat \ {0} /\ c \in Nat /\ c + f <= m
      /\ WordBase \in Nat \ {0} /\ L = m * q
  BY <1>1, OpFacts, RansAssumption
<1>3. z \in Nat /\ z < f * (q * WordBase) /\ StateMax = m * (q * WordBase) /\ q * WordBase \in Nat
  BY <1>1, <1>2, LimitFacts, SpillFacts
<1>4. f * q <= z
  <2>1. CASE k = 0
    <3>1. L <= z
      BY <2>1, SpillFacts
    <3>2. f * q <= m * q
      BY <1>2, MulMono
    <3> QED BY <1>2, <1>3, <3>1, <3>2
  <2>2. CASE k = 1
    <3>1. f * (q * WordBase) <= y /\ z = y \div WordBase
      BY <1>1, <2>2, LimitFacts, SpillFacts DEF After
    <3>2. WordBase * (f * q) <= y /\ f * q \in Nat
      BY <1>2, <3>1
    <3> QED BY <1>2, <3>1, <3>2, QuotientBounds
  <2> QED BY <2>1, <2>2, SpillFacts
<1>5. w = a * m + r + c
  BY DEF Push
<1>6. z = f * a + r /\ a \in Nat /\ r \in Nat /\ r < f
  <2> HIDE DEF f, z
  <2>1. f \in Nat \ {0} /\ z \in Nat
    BY <1>2, <1>3
  <2>2. z = f * (z \div f) + (z % f) /\ z % f \in 0 .. f - 1 /\ z \div f \in Nat
    BY <2>1, Division
  <2> QED BY <2>1, <2>2
<1>7. q <= a /\ a < q * WordBase
  <2> HIDE DEF f, z
  <2> QED BY <1>2, <1>3, <1>4, QuotientBounds
<1> HIDE DEF f, m, c, k, z, w, a, r
<1>8. w \div m = a /\ w % m = r + c /\ r + c < m
  <2>1. r + c < m /\ r + c \in Nat
    BY <1>2, <1>6
  <2>2. w = m * a + (r + c)
    BY <1>2, <1>5, <1>6
  <2> QED BY <1>2, <1>6, <2>1, <2>2, Quotient
<1>9. w \in Nat /\ L <= w
  <2>1. m * q <= m * a
    BY <1>2, <1>6, <1>7, MulMono
  <2> QED BY <1>2, <1>5, <1>6, <2>1
<1>10. w < StateMax
  <2>1. m * (a + 1) <= m * (q * WordBase)
    BY <1>2, <1>3, <1>6, <1>7, MulMono
  <2>2. w < m * (a + 1)
    BY <1>2, <1>5, <1>6, <1>8
  <2> QED BY <1>2, <1>3, <1>6, <1>9, <2>1, <2>2
<1>11. c <= w % m /\ w % m < c + f /\ w % m \in Nat
  BY <1>2, <1>6, <1>8
<1>12. f * (w \div m) + (w % m) - c = z
  BY <1>2, <1>6, <1>8
<1> QED BY <1>9, <1>10, <1>11, <1>12 DEF f, m, c, k, z, w

(* The states y and the counts w of words through which the encoder has come
   down to the entry from, having emitted e. *)
Trail(y, w, e, from) ==
  /\ y[Len(ops) + 1] = L /\ w[Len(ops) + 1] = 0
  /\ \A i \in from .. Len(ops) + 1 : L <= y[i] /\ y[i] < StateMax /\ w[i] <= Len(e)
  /\ \A i \in from .. Len(ops) :
       LET k == Spill(y[i + 1], Limit(ops[i]))
       IN  /\ y[i] = Push(After(y[i + 1], k), ops[i])
           /\ w[i] = w[i + 1] + k
           /\ k = 1 => e[w[i]] = y[i + 1] % WordBase

(* The types, and the interval the state never leaves. *)
RansTypeOK ==
  /\ ops \in Seq(Ops) /\ phase \in {"collect", "encode", "decode"}
  /\ pos \in 0 .. Len(ops) + 1
  /\ x \in Nat /\ L <= x /\ x < StateMax
  /\ words \in Seq(Nat) /\ at \in Nat /\ out \in Seq(Nat)

Collecting == phase = "collect" => pos = 0 /\ x = L /\ words = <<>> /\ out = <<>>

Encoding ==
  phase = "encode" =>
    /\ out = <<>> /\ pos <= Len(ops)
    /\ \E y, w \in [Nat -> Nat] : /\ Trail(y, w, words, pos + 1)
                                  /\ x = y[pos + 1] /\ Len(words) = w[pos + 1]

(* The decoder goes back up the encoder's trail: it has the state before the
   entry was pushed, and the next word is the last of those emitted that it has
   not read. *)
Decoding ==
  phase = "decode" =>
    /\ pos >= 1 /\ Len(out) = pos - 1
    /\ \A i \in 1 .. pos - 1 : out[i] = ops[i].sym
    /\ \E y, w \in [Nat -> Nat], e \in Seq(Nat) :
         /\ Trail(y, w, e, 1)
         /\ x = y[pos] /\ at = 2 + Len(e) - w[pos]
         /\ Len(words) <= 2 + Len(e)
         /\ \A i \in 1 .. Len(e) : Read(2 + i) = e[Len(e) + 1 - i]

RansInv == RansTypeOK /\ Collecting /\ Encoding /\ Decoding

LEMMA SeedInside == L \in Nat \ {0} /\ WordBase \in Nat \ {0, 1} /\ StateMax \in Nat /\ L < StateMax
<1>1. L \in Nat \ {0} /\ WordBase \in Nat \ {0, 1}
  BY RansAssumption
<1>2. 2 <= WordBase /\ L * 2 <= L * WordBase
  BY <1>1, MulMono
<1> QED BY <1>1, <1>2 DEF StateMax

LEMMA RansInitInv == RansInit => RansInv
  BY SeedInside DEF RansInit, RansInv, RansTypeOK, Collecting, Encoding, Decoding

LEMMA CollectInv ==
  ASSUME RansInv, NEW op \in Ops, Collect(op)
  PROVE  RansInv'
<1>1. /\ phase = "collect" /\ ops' = Append(ops, op) /\ UNCHANGED <<phase, pos, x, words, at, out>>
  BY DEF Collect
<1>2. ops' \in Seq(Ops) /\ pos' \in 0 .. Len(ops') + 1
  BY <1>1 DEF RansInv, RansTypeOK, Collecting
<1> QED BY <1>1, <1>2 DEF RansInv, RansTypeOK, Collecting, Encoding, Decoding, StateMax

LEMMA BeginEncodeInv ==
  ASSUME RansInv, BeginEncode
  PROVE  RansInv'
<1>1. /\ phase = "collect" /\ ops # <<>> /\ phase' = "encode" /\ pos' = Len(ops)
      /\ UNCHANGED <<ops, x, words, at, out>>
  BY DEF BeginEncode
<1>2. x = L /\ words = <<>> /\ out = <<>> /\ Len(ops) \in Nat /\ Len(words) = 0
  BY <1>1 DEF RansInv, RansTypeOK, Collecting
<1> DEFINE y == [i \in Nat |-> L]
           w == [i \in Nat |-> 0]
<1>3. y \in [Nat -> Nat] /\ w \in [Nat -> Nat]
  BY SeedInside
<1>4. Trail(y, w, words, Len(ops) + 1)
  BY <1>2, SeedInside DEF Trail
<1>5. Trail(y, w, words, pos + 1)'
  BY <1>1, <1>4, <1>2, SeedInside DEF Trail
<1>6. x' = y[pos' + 1] /\ Len(words') = w[pos' + 1] /\ pos' <= Len(ops') /\ out' = <<>>
  BY <1>1, <1>2
<1>7. RansTypeOK'
  BY <1>1, <1>2 DEF RansInv, RansTypeOK
<1> HIDE DEF y, w
<1>8. Encoding'
  BY <1>3, <1>5, <1>6 DEF Encoding
<1> QED BY <1>1, <1>7, <1>8 DEF RansInv, Collecting, Decoding

LEMMA Emitted ==
  ASSUME NEW y \in Nat, NEW k \in {0, 1}, NEW e \in Seq(Nat)
  PROVE  LET e2 == e \o Spilled(y, k)
         IN  /\ e2 \in Seq(Nat) /\ Len(e2) = Len(e) + k
             /\ \A i \in 1 .. Len(e) : e2[i] = e[i]
             /\ k = 1 => e2[Len(e) + 1] = y % WordBase
<1>1. /\ Spilled(y, k) \in Seq(Nat) /\ Len(Spilled(y, k)) = k
      /\ k = 1 => Spilled(y, k)[1] = y % WordBase
  <2> DEFINE v == y % WordBase
  <2>1. v \in Nat
    BY SeedInside, Division
  <2> HIDE DEF v
  <2>2. CASE k = 0
    <3>1. Spilled(y, 0) = << >>
      BY DEF Spilled
    <3>2. Spilled(y, 0) \in Seq(Nat) /\ Len(Spilled(y, 0)) = 0
      BY <3>1, EmptySeq
    <3> QED BY <2>2, <3>2
  <2>3. CASE k = 1
    <3>1. Spilled(y, 1) = [j \in 1 .. 1 |-> v]
      BY DEF Spilled, After, v
    <3>2. Spilled(y, 1) = << v >>
      BY <3>1
    <3>3. Spilled(y, 1) \in Seq(Nat) /\ Len(Spilled(y, 1)) = 1 /\ Spilled(y, 1)[1] = v
      <4>1. << v >> \in Seq(Nat)
        BY <2>1
      <4>2. Len(<< v >>) = 1
        OBVIOUS
      <4>3. << v >>[1] = v
        OBVIOUS
      <4> QED BY <3>2, <4>1, <4>2, <4>3, Zenon
    <3> QED BY <2>3, <3>3 DEF v
  <2> QED BY <2>2, <2>3
<1> DEFINE s == Spilled(y, k)
<1>2. /\ e \o s \in Seq(Nat) /\ Len(e \o s) = Len(e) + Len(s)
      /\ \A i \in 1 .. Len(e) + Len(s) : (e \o s)[i] = IF i <= Len(e) THEN e[i] ELSE s[i - Len(e)]
  BY <1>1, ConcatProperties
<1> QED BY <1>1, <1>2

LEMMA TrailAt ==
  ASSUME ops \in Seq(Ops), NEW from \in Nat,
         NEW y \in [Nat -> Nat], NEW w \in [Nat -> Nat], NEW e \in Seq(Nat),
         Trail(y, w, e, from)
  PROVE  /\ Len(ops) \in Nat /\ Len(e) \in Nat
         /\ \A i \in from .. Len(ops) + 1 : /\ i \in Nat /\ y[i] \in Nat /\ w[i] \in Nat
                                          /\ L <= y[i] /\ y[i] < StateMax /\ w[i] <= Len(e)
<1>1. Len(ops) \in Nat /\ Len(e) \in Nat
  BY LenProperties
<1> QED BY <1>1 DEF Trail

(* The trail of one entry more. *)
LEMMA TrailDown ==
  ASSUME ops \in Seq(Ops), NEW from \in 1 .. Len(ops),
         NEW y \in [Nat -> Nat], NEW w \in [Nat -> Nat], NEW e \in Seq(Nat),
         Trail(y, w, e, from + 1), w[from + 1] = Len(e)
  PROVE  LET k == Spill(y[from + 1], Limit(ops[from]))
             e2 == e \o Spilled(y[from + 1], k)
         IN  \E y2, w2 \in [Nat -> Nat] :
               /\ Trail(y2, w2, e2, from)
               /\ y2[from] = Push(After(y[from + 1], k), ops[from]) /\ w2[from] = Len(e2)
<1> DEFINE k == Spill(y[from + 1], Limit(ops[from]))
           e2 == e \o Spilled(y[from + 1], k)
           new == Push(After(y[from + 1], k), ops[from])
           y2 == [y EXCEPT ![from] = new]
           w2 == [w EXCEPT ![from] = w[from + 1] + k]
<1>1. /\ Len(ops) \in Nat /\ Len(e) \in Nat /\ from \in Nat /\ ops[from] \in Ops
      /\ from + 1 \in from + 1 .. Len(ops) + 1
  <2>1. Len(ops) \in Nat /\ Len(e) \in Nat
    BY LenProperties
  <2>2. ops[from] \in Ops
    BY ElementOfSeq
  <2> QED BY <2>1, <2>2
<1>2. /\ ops[from] \in Ops /\ from + 1 \in Nat
      /\ y[from + 1] \in Nat /\ L <= y[from + 1] /\ y[from + 1] < StateMax
  <2>1. from + 1 \in Nat
    BY <1>1
  <2> QED BY <1>1, <2>1, TrailAt
<1>3. k \in {0, 1}
  BY <1>2, SpillFacts
<1>4. new \in Nat /\ L <= new /\ new < StateMax
  BY <1>2, PushFacts
<1> HIDE DEF k, new
<1>5. /\ e2 \in Seq(Nat) /\ Len(e2) = Len(e) + k /\ Len(e) \in Nat
      /\ \A i \in 1 .. Len(e) : e2[i] = e[i]
      /\ k = 1 => e2[Len(e) + 1] = y[from + 1] % WordBase
  <2>1. PICK z \in Nat : z = y[from + 1]
    BY <1>2
  <2>2. PICK f : f = e \o Spilled(z, k)
    OBVIOUS
  <2>3. /\ f \in Seq(Nat) /\ Len(f) = Len(e) + k
        /\ \A i \in 1 .. Len(e) : f[i] = e[i]
        /\ k = 1 => f[Len(e) + 1] = z % WordBase
    BY <1>3, <2>2, Emitted
  <2>4. e2 = f
    BY <2>1, <2>2
  <2> QED BY <1>1, <2>1, <2>3, <2>4, Zenon
<1> HIDE DEF e2
<1>6. /\ y2 \in [Nat -> Nat] /\ w2 \in [Nat -> Nat] /\ y2[from] = new /\ w2[from] = Len(e2)
      /\ \A i \in Nat \ {from} : y2[i] = y[i] /\ w2[i] = w[i]
  <2>1. w[from + 1] + k \in Nat /\ w[from + 1] + k = Len(e2)
    BY <1>2, <1>3, <1>5
  <2> QED BY <1>1, <1>4, <2>1
<1> HIDE DEF y2, w2
<1>7. y2[Len(ops) + 1] = L /\ w2[Len(ops) + 1] = 0
  BY <1>1, <1>6 DEF Trail
<1>8. \A i \in from .. Len(ops) + 1 : L <= y2[i] /\ y2[i] < StateMax /\ w2[i] <= Len(e2)
  <2> SUFFICES ASSUME NEW i \in from .. Len(ops) + 1
               PROVE  L <= y2[i] /\ y2[i] < StateMax /\ w2[i] <= Len(e2)
    OBVIOUS
  <2>1. CASE i = from
    BY <1>4, <1>5, <1>6, <2>1
  <2>2. CASE i # from
    <3>1. i \in from + 1 .. Len(ops) + 1 /\ i \in Nat \ {from}
      BY <1>1, <2>2
    <3>2. L <= y[i] /\ y[i] < StateMax /\ w[i] <= Len(e) /\ w[i] \in Nat
      BY <1>1, <1>2, <3>1, TrailAt
    <3>3. y2[i] = y[i] /\ w2[i] = w[i]
      BY <1>6, <3>1
    <3>4. Len(e) <= Len(e2) /\ Len(e2) \in Nat
      BY <1>3, <1>5
    <3>5. w2[i] <= Len(e2)
      <4>1. w[i] <= Len(e) /\ w[i] \in Nat /\ Len(e) \in Nat
        BY <1>1, <3>2
      <4>2. w[i] <= Len(e2)
        <5>1. \A a, b, c \in Nat : a <= b /\ b <= c => a <= c
          OBVIOUS
        <5> QED BY <3>4, <4>1, <5>1, Zenon
      <4>3. w2[i] = w[i]
        BY <3>3
      <4> QED BY <4>2, <4>3, Zenon
    <3> QED BY <3>2, <3>3, <3>5
  <2> QED BY <2>1, <2>2
<1>9. ASSUME NEW i \in from .. Len(ops)
      PROVE  LET j == Spill(y2[i + 1], Limit(ops[i]))
             IN  /\ y2[i] = Push(After(y2[i + 1], j), ops[i])
                 /\ w2[i] = w2[i + 1] + j
                 /\ j = 1 => e2[w2[i]] = y2[i + 1] % WordBase
  <2>1. y2[i + 1] = y[i + 1] /\ w2[i + 1] = w[i + 1] /\ i + 1 \in Nat
    <3>1. i \in Nat /\ i + 1 \in Nat \ {from}
      BY <1>1
    <3> QED BY <1>6, <3>1
  <2>2. CASE i = from
    <3>1. Spill(y2[i + 1], Limit(ops[i])) = k
      BY <2>1, <2>2 DEF k
    <3>2. w2[i] = w2[i + 1] + k /\ (k = 1 => e2[w2[i]] = y2[i + 1] % WordBase)
      BY <1>3, <1>5, <1>6, <2>1, <2>2
    <3> QED BY <1>6, <2>1, <2>2, <3>1, <3>2 DEF new
  <2>3. CASE i # from
    <3> DEFINE j == Spill(y[i + 1], Limit(ops[i]))
    <3>1. /\ y[i] = Push(After(y[i + 1], j), ops[i]) /\ w[i] = w[i + 1] + j
          /\ j = 1 => e[w[i]] = y[i + 1] % WordBase
      BY <2>3 DEF Trail
    <3>2. y2[i] = y[i] /\ w2[i] = w[i]
      BY <1>6, <2>3
    <3>3. j = 1 => w[i] \in 1 .. Len(e)
      <4>1. i \in from + 1 .. Len(ops) + 1 /\ i + 1 \in from + 1 .. Len(ops) + 1
        BY <1>1, <2>3
      <4>2. w[i] <= Len(e) /\ w[i + 1] \in Nat /\ w[i] \in Nat
        BY <1>1, <1>2, <4>1, TrailAt
      <4>3. w[i] = w[i + 1] + j
        BY <3>1
      <4>4. Len(e) \in Nat
        BY <1>1
      <4>5. \A a, b, m \in Nat : a <= m /\ a = b + 1 => a \in 1 .. m
        OBVIOUS
      <4> HIDE DEF j
      <4> QED BY <4>2, <4>3, <4>4, <4>5, Zenon
    <3> QED BY <1>5, <2>1, <3>1, <3>2, <3>3
  <2> QED BY <2>2, <2>3
<1>10. Trail(y2, w2, e2, from)
  BY <1>7, <1>8, <1>9 DEF Trail
<1> QED BY <1>6, <1>10 DEF k, e2, new

LEMMA EncodeOpInv ==
  ASSUME RansInv, EncodeOp
  PROVE  RansInv'
<1>1. /\ phase = "encode" /\ pos \in 1 .. Len(ops) /\ pos' = pos - 1
      /\ UNCHANGED <<ops, phase, at, out>>
      /\ out = <<>> /\ ops \in Seq(Ops) /\ words \in Seq(Nat)
  BY DEF EncodeOp, RansInv, RansTypeOK, Encoding
<1>2. PICK y, w \in [Nat -> Nat] : /\ Trail(y, w, words, pos + 1)
                                   /\ x = y[pos + 1] /\ Len(words) = w[pos + 1]
  BY <1>1 DEF RansInv, Encoding
<1> DEFINE k == Spill(y[pos + 1], Limit(ops[pos]))
<1>3. words' = words \o Spilled(y[pos + 1], k) /\ x' = Push(After(y[pos + 1], k), ops[pos])
  BY <1>2 DEF EncodeOp
<1>4. PICK y2, w2 \in [Nat -> Nat] : /\ Trail(y2, w2, words', pos)
                                     /\ y2[pos] = x' /\ w2[pos] = Len(words')
  BY <1>1, <1>2, <1>3, TrailDown
<1>5. words' \in Seq(Nat)
  <2>1. ops[pos] \in Ops /\ y[pos + 1] \in Nat /\ L <= y[pos + 1] /\ y[pos + 1] < StateMax
    <3>1. ops[pos] \in Ops /\ Len(ops) \in Nat
      BY <1>1, ElementOfSeq, LenProperties
    <3>2. pos + 1 \in Nat /\ pos + 1 \in pos + 1 .. Len(ops) + 1
      BY <1>1, <3>1
    <3> QED BY <1>1, <1>2, <3>1, <3>2, TrailAt
  <2>2. k \in {0, 1}
    BY <2>1, SpillFacts
  <2> HIDE DEF k
  <2> QED BY <1>1, <1>3, <2>1, <2>2, Emitted
<1>6. x' \in Nat /\ L <= x' /\ x' < StateMax
  <2>1. pos \in Nat /\ pos \in pos .. Len(ops) + 1
    BY <1>1
  <2> QED BY <1>1, <1>4, <1>5, <2>1, TrailAt
<1>7. RansTypeOK'
  BY <1>1, <1>5, <1>6 DEF RansInv, RansTypeOK, StateMax
<1>8. Trail(y2, w2, words, pos + 1)'
  <2>1. pos' + 1 = pos /\ ops' = ops
    BY <1>1
  <2> QED BY <1>4, <2>1 DEF Trail, StateMax
<1>9. Encoding'
  <2>1. pos' + 1 = pos /\ pos' <= Len(ops')
    BY <1>1
  <2> QED BY <1>1, <1>4, <1>8, <2>1 DEF Encoding
<1> QED BY <1>1, <1>7, <1>9 DEF RansInv, Collecting, Decoding

(* A set of naturals that is not empty has a least member. *)
LEMMA LeastNatural ==
  ASSUME NEW S \in SUBSET Nat, S # {}
  PROVE  \E n \in S : \A m \in S : n <= m
<1> DEFINE R == OpToRel(<, Nat)
<1>1. IsWellFoundedOn(R, Nat)
  BY NatLessThanWellFounded
<1>2. \A a, b \in Nat : <<b, a>> \in R <=> b < a
  BY DEF OpToRel
<1> HIDE DEF R
<1>3. PICK n \in S : \A m \in S : ~(<<m, n>> \in R)
  BY <1>1, WFMin
<1>4. ASSUME NEW m \in S PROVE n <= m
  <2>1. n \in Nat /\ m \in Nat
    OBVIOUS
  <2>2. ~(m < n)
    BY <1>2, <1>3, <2>1
  <2> QED BY <2>1, <2>2
<1> QED BY <1>4

(* What is read of a text whose last zeros were dropped is what was there. *)
LEMMA TrimmedReads ==
  ASSUME NEW ws \in Seq(Nat)
  PROVE  /\ Trimmed(ws) \in Seq(Nat) /\ Len(Trimmed(ws)) <= Len(ws)
         /\ \A i \in Nat \ {0} : Word(Trimmed(ws), i) = Word(ws, i)
<1> DEFINE Rest(n) == \A i \in n + 1 .. Len(ws) : ws[i] = 0
           Whole(n) == (n = 0 \/ ws[n] # 0) /\ Rest(n)
           S == {n \in 0 .. Len(ws) : Rest(n)}
           cut == CHOOSE n \in 0 .. Len(ws) : Whole(n)
<1>1. Len(ws) \in Nat
  BY LenProperties
<1>2. \E n \in 0 .. Len(ws) : Whole(n)
  <2>1. S \in SUBSET Nat /\ Len(ws) \in S
    BY <1>1
  <2>2. PICK n \in S : \A m \in S : n <= m
    BY <2>1, LeastNatural
  <2>3. ASSUME n # 0 PROVE ws[n] # 0
    <3>1. n - 1 \in 0 .. Len(ws) /\ ~(n <= n - 1) /\ n \in 1 .. Len(ws)
      BY <1>1, <2>3
    <3>2. ~Rest(n - 1)
      BY <2>2, <3>1
    <3>3. PICK i \in n - 1 + 1 .. Len(ws) : ws[i] # 0
      BY <3>2
    <3>4. ~(i \in n + 1 .. Len(ws))
      BY <3>3
    <3>5. i = n
      BY <1>1, <3>1, <3>4
    <3> QED BY <3>3, <3>5
  <2> QED BY <2>3
<1>3. cut \in 0 .. Len(ws) /\ Whole(cut)
  BY <1>2
<1>4. Trimmed(ws) = SubSeq(ws, 1, cut)
  BY DEF Trimmed
<1> HIDE DEF cut
<1>5. /\ SubSeq(ws, 1, cut) \in Seq(Nat) /\ Len(SubSeq(ws, 1, cut)) = cut
      /\ \A i \in 1 .. cut : SubSeq(ws, 1, cut)[i] = ws[i]
  BY <1>1, <1>3
<1>6. ASSUME NEW i \in Nat \ {0} PROVE Word(Trimmed(ws), i) = Word(ws, i)
  <2>1. CASE i <= cut
    BY <1>1, <1>3, <1>4, <1>5, <2>1 DEF Word
  <2>2. CASE ~(i <= cut) /\ i <= Len(ws)
    <3>1. ws[i] = 0
      BY <1>1, <1>3, <2>2
    <3> QED BY <1>4, <1>5, <2>2, <3>1 DEF Word
  <2>3. CASE ~(i <= cut) /\ ~(i <= Len(ws))
    BY <1>4, <1>5, <2>3 DEF Word
  <2> QED BY <2>1, <2>2, <2>3
<1> QED BY <1>1, <1>3, <1>4, <1>5, <1>6

LEMMA LaidOut ==
  ASSUME NEW a \in Nat, NEW b \in Nat, NEW e \in Seq(Nat)
  PROVE  LET ws == << a, b >> \o Reverse(e)
         IN  /\ ws \in Seq(Nat) /\ Len(ws) = 2 + Len(e)
             /\ Word(ws, 1) = a /\ Word(ws, 2) = b
             /\ \A i \in 1 .. Len(e) : Word(ws, 2 + i) = e[Len(e) + 1 - i]
<1> DEFINE s == << a, b >>
           t == Reverse(e)
<1>1. Len(e) \in Nat
  BY LenProperties
<1>2. t \in Seq(Nat) /\ Len(t) = Len(e) /\ \A i \in 1 .. Len(e) : t[i] = e[Len(e) + 1 - i]
  BY <1>1 DEF Reverse
<1>3. s \in Seq(Nat) /\ Len(s) = 2 /\ s[1] = a /\ s[2] = b
  OBVIOUS
<1> HIDE DEF s, t
<1>4. /\ s \o t \in Seq(Nat) /\ Len(s \o t) = Len(s) + Len(t)
      /\ \A i \in 1 .. Len(s) + Len(t) : (s \o t)[i] = IF i <= Len(s) THEN s[i] ELSE t[i - Len(s)]
  BY <1>2, <1>3, ConcatProperties
<1> DEFINE ws == s \o t
<1> HIDE DEF ws
<1>5. ws \in Seq(Nat) /\ Len(ws) = 2 + Len(e) /\ ws[1] = a /\ ws[2] = b
  BY <1>1, <1>2, <1>3, <1>4 DEF ws
<1>6. ASSUME NEW i \in 1 .. Len(e) PROVE ws[2 + i] = e[Len(e) + 1 - i]
  <2>1. 2 + i \in 1 .. Len(s) + Len(t) /\ ~(2 + i <= Len(s)) /\ 2 + i - Len(s) = i
    BY <1>1, <1>2, <1>3
  <2>2. \A j \in 1 .. Len(s) + Len(t) : ~(j <= Len(s)) => (s \o t)[j] = t[j - Len(s)]
    BY <1>4
  <2>3. ws[2 + i] = t[i]
    <3>1. (s \o t)[2 + i] = t[2 + i - Len(s)]
      BY <2>1, <2>2
    <3> QED BY <2>1, <3>1, Zenon DEF ws
  <2> QED BY <1>2, <2>3
<1>7. /\ Word(ws, 1) = a /\ Word(ws, 2) = b
      /\ \A i \in 1 .. Len(e) : Word(ws, 2 + i) = e[Len(e) + 1 - i]
  BY <1>1, <1>5, <1>6 DEF Word
<1> QED BY <1>5, <1>7 DEF ws, s, t

LEMMA SerializeInv ==
  ASSUME RansInv, Serialize
  PROVE  RansInv'
<1>1. /\ phase = "encode" /\ pos = 0 /\ phase' = "decode" /\ pos' = 1 /\ at' = 2
      /\ UNCHANGED <<ops, out>>
      /\ words' = Trimmed(<< x \div WordBase, x % WordBase >> \o Reverse(words))
      /\ x' = Word(words', 1) * WordBase + Word(words', 2)
  BY DEF Serialize
<1>2. PICK y, w \in [Nat -> Nat] : /\ Trail(y, w, words, 1)
                                   /\ x = y[1] /\ Len(words) = w[1] /\ out = <<>>
  <2>1. pos + 1 = 1
    BY <1>1
  <2> QED BY <1>1, <2>1 DEF RansInv, Encoding
<1>3. words \in Seq(Nat) /\ x \in Nat /\ ops \in Seq(Ops) /\ L <= x /\ x < StateMax
  BY DEF RansInv, RansTypeOK
<1>4. /\ x \div WordBase \in Nat /\ x % WordBase \in Nat
      /\ x = WordBase * (x \div WordBase) + (x % WordBase) /\ WordBase \in Nat
  <2>1. WordBase \in Nat \ {0}
    BY SeedInside
  <2>2. x % WordBase \in 0 .. WordBase - 1 => x % WordBase \in Nat
    BY <2>1
  <2> QED BY <1>3, <2>1, <2>2, Division
<1> DEFINE a == x \div WordBase
           b == x % WordBase
           ws == << a, b >> \o Reverse(words)
<1>5. a \in Nat /\ b \in Nat /\ x = WordBase * a + b
  BY <1>4
<1>6. words' = Trimmed(ws)
  BY <1>1
<1> HIDE DEF a, b
<1>7. /\ ws \in Seq(Nat) /\ Len(ws) = 2 + Len(words)
      /\ Word(ws, 1) = a /\ Word(ws, 2) = b
      /\ \A i \in 1 .. Len(words) : Word(ws, 2 + i) = words[Len(words) + 1 - i]
  <2>1. words \in Seq(Nat) /\ a \in Nat /\ b \in Nat
    BY <1>3, <1>5
  <2> QED BY <2>1, LaidOut
<1> HIDE DEF ws
<1>8. /\ words' \in Seq(Nat) /\ Len(words') <= 2 + Len(words)
      /\ \A i \in Nat \ {0} : Word(words', i) = Word(ws, i)
  BY <1>7, <1>6, TrimmedReads
<1>9. x' = x
  <2>1. Word(words', 1) = a /\ Word(words', 2) = b
    BY <1>7, <1>8
  <2>2. x' = a * WordBase + b
    BY <1>1, <2>1
  <2> QED BY <1>4, <1>5, <2>2
<1>10. PICK e \in Seq(Nat) : e = words
  BY <1>3
<1>11. ASSUME NEW i \in 1 .. Len(e) PROVE Read(2 + i)' = e[Len(e) + 1 - i]
  <2>1. Len(words) \in Nat
    BY <1>3, LenProperties
  <2>2. 2 + i \in Nat \ {0} /\ i \in 1 .. Len(words)
    BY <1>10, <2>1
  <2>3. Word(words', 2 + i) = words[Len(words) + 1 - i]
    BY <1>7, <1>8, <2>2
  <2> QED BY <1>10, <2>3 DEF Read, Word
<1>12. Trail(y, w, e, 1)'
  BY <1>1, <1>2, <1>10 DEF Trail, StateMax
<1>13. RansTypeOK'
  <2>1. Len(ops) \in Nat
    BY <1>3, LenProperties
  <2>2. 1 \in 0 .. Len(ops) + 1
    BY <2>1
  <2>3. out \in Seq(Nat)
    BY DEF RansInv, RansTypeOK
  <2> QED BY <1>1, <1>3, <1>8, <1>9, <2>2, <2>3 DEF RansTypeOK, StateMax
<1>14. Decoding'
  <2>1. Len(e) \in Nat /\ at' = 2 + Len(e) - w[pos'] /\ x' = y[pos'] /\ Len(words') <= 2 + Len(e)
    <3>1. Len(e) \in Nat /\ Len(words) = Len(e)
      BY <1>10, LenProperties
    <3>2. Len(words') <= 2 + Len(e)
      BY <1>8, <3>1
    <3>3. w[pos'] = Len(e) /\ x' = y[pos'] /\ at' = 2
      BY <1>1, <1>2, <1>9, <3>1
    <3> QED BY <3>1, <3>2, <3>3
  <2>2. pos' >= 1 /\ Len(out') = pos' - 1 /\ \A i \in 1 .. pos' - 1 : out'[i] = ops'[i].sym
    BY <1>1, <1>2
  <2> QED BY <1>11, <1>12, <2>1, <2>2 DEF Decoding
<1> QED BY <1>1, <1>13, <1>14 DEF RansInv, Collecting, Encoding

(* The slot the state is in is the entry's that was pushed, and taking the
   entry off leaves what it was pushed on. *)
LEMMA PopFacts ==
  ASSUME NEW op \in Ops, NEW y \in Nat, L <= y, y < StateMax,
         x = Push(After(y, Spill(y, Limit(op))), op),
         NEW s \in DOMAIN op.table.freq, Slot(op, s)
  PROVE  s = op.sym /\ Pop(op, s) = After(y, Spill(y, Limit(op)))
<1> DEFINE r == x % op.slots
           z == After(y, Spill(y, Limit(op)))
<1>1. /\ Cum(op) <= r /\ r < Cum(op) + Freq(op) /\ r \in Nat
      /\ Freq(op) * (x \div op.slots) + r - Cum(op) = z
  BY PushFacts
<1>2. Freq(op) \in Nat /\ Cum(op) \in Nat
  BY OpFacts
<1> HIDE DEF r
<1>3. op.table.cum[s] <= r /\ r < op.table.cum[s] + op.table.freq[s]
  BY DEF Slot, r
<1>4. s = op.sym
  <2>1. SUFFICES ASSUME s # op.sym PROVE FALSE
    OBVIOUS
  <2> DEFINE c == op.table.cum[s]
             f == op.table.freq[s]
  <2>2. f \in Nat /\ c \in Nat /\ (c + f <= Cum(op) \/ Cum(op) + Freq(op) <= c)
    BY <2>1, OpFacts
  <2>3. c <= r /\ r < c + f
    BY <1>3
  <2> HIDE DEF c, f
  <2> QED BY <1>1, <1>2, <2>2, <2>3
<1> QED BY <1>1, <1>4 DEF Pop, Freq, Cum, r

LEMMA DecodeOpInv ==
  ASSUME RansInv, DecodeOp
  PROVE  RansInv'
<1>1. /\ phase = "decode" /\ pos \in 1 .. Len(ops) /\ pos' = pos + 1
      /\ UNCHANGED <<ops, phase, words>>
      /\ ops \in Seq(Ops) /\ Len(ops) \in Nat /\ ops[pos] \in Ops
      /\ out \in Seq(Nat) /\ Len(out) = pos - 1
  <2>1. /\ ops \in Seq(Ops) /\ phase = "decode"
        /\ pos \in 0 .. Len(ops) + 1 /\ pos >= 1 /\ pos <= Len(ops)
    BY DEF DecodeOp, RansInv, RansTypeOK, Decoding
  <2>2. Len(ops) \in Nat
    BY <2>1, LenProperties
  <2>3. pos \in 1 .. Len(ops)
    BY <2>1, <2>2
  <2>4. ops[pos] \in Ops
    BY <2>1, <2>3, ElementOfSeq
  <2> QED BY <2>1, <2>2, <2>3, <2>4 DEF DecodeOp, RansInv, RansTypeOK, Decoding
<1>2. PICK y, w \in [Nat -> Nat], e \in Seq(Nat) :
        /\ Trail(y, w, e, 1)
        /\ x = y[pos] /\ at = 2 + Len(e) - w[pos]
        /\ Len(words) <= 2 + Len(e)
        /\ \A i \in 1 .. Len(e) : Read(2 + i) = e[Len(e) + 1 - i]
  BY <1>1 DEF RansInv, Decoding
<1> DEFINE op == ops[pos]
           before == y[pos + 1]
           k == Spill(before, Limit(op))
           z == After(before, k)
<1>3. PICK s \in DOMAIN op.table.freq :
        /\ Slot(op, s) /\ x' = Refill(Pop(op, s)) /\ out' = Append(out, s)
        /\ at' = IF Pop(op, s) < L THEN at + 1 ELSE at
  BY DEF DecodeOp
<1>4. /\ before \in Nat /\ L <= before /\ before < StateMax
      /\ w[pos] \in Nat /\ w[pos + 1] \in Nat /\ w[pos] <= Len(e) /\ Len(e) \in Nat
  <2>1. pos \in 1 .. Len(ops) + 1 /\ pos + 1 \in 1 .. Len(ops) + 1
    BY <1>1
  <2> QED BY <1>1, <1>2, <2>1, TrailAt
<1>5. /\ x = Push(z, op) /\ w[pos] = w[pos + 1] + k
      /\ k = 1 => e[w[pos]] = before % WordBase
  BY <1>1, <1>2 DEF Trail
<1> HIDE DEF op, before
<1>6. op \in Ops /\ s = op.sym /\ Pop(op, s) = z
  <2>1. op \in Ops
    BY <1>1 DEF op
  <2> QED BY <1>3, <1>4, <1>5, <2>1, PopFacts
<1>7. /\ k \in {0, 1} /\ z \in Nat
      /\ k = 0 => z = before /\ L <= z
      /\ k = 1 => z < L /\ before = z * WordBase + (before % WordBase)
  BY <1>4, <1>6, SpillFacts
<1> HIDE DEF k, z
<1> DEFINE n == Len(e)
           a == w[pos]
           b == w[pos + 1]
<1>8. n \in Nat /\ a \in Nat /\ b \in Nat /\ a <= n
  BY <1>4
<1>9. a = b + k
  BY <1>5
<1>10. /\ at = 2 + n - a
       /\ k = 1 => e[a] = before % WordBase
       /\ \A i \in 1 .. n : Read(2 + i) = e[n + 1 - i]
  BY <1>2, <1>5
<1>11. k \in {0, 1}
  BY <1>7
<1> HIDE DEF n, a, b
<1>12. b <= n
  BY <1>8, <1>9, <1>11
<1>13. x' = before /\ at' = 2 + n - b
  <2>1. CASE k = 0
    <3>1. ~(Pop(op, s) < L)
      BY <1>6, <1>7, <2>1, SeedInside
    <3>2. x' = before /\ at' = at
      BY <1>3, <1>6, <1>7, <2>1, <3>1 DEF Refill
    <3>3. a = b
      BY <1>8, <1>9, <2>1
    <3> QED BY <1>10, <3>2, <3>3
  <2>2. CASE k = 1
    <3>1. Pop(op, s) < L
      BY <1>6, <1>7, <2>2
    <3>2. a = b + 1
      BY <1>9, <2>2
    <3>3. n + 1 - a \in 1 .. n /\ n + 1 - (n + 1 - a) = a
      BY <1>8, <3>2
    <3>4. at = 2 + n - a
      BY <1>10
    <3>5. at + 1 = 2 + (n + 1 - a)
      BY <1>8, <3>4
    <3>6. Read(2 + (n + 1 - a)) = e[a]
      BY <1>10, <3>3
    <3>7. Read(at + 1) = before % WordBase
      BY <1>10, <2>2, <3>5, <3>6
    <3>8. x' = before
      <4>1. x' = z * WordBase + Read(at + 1)
        BY <1>3, <1>6, <3>1 DEF Refill
      <4> QED BY <1>7, <2>2, <3>7, <4>1
    <3>9. at' = at + 1
      BY <1>3, <3>1
    <3>10. at + 1 = 2 + n - b
      BY <1>8, <3>4, <3>2
    <3> QED BY <3>8, <3>9, <3>10
  <2> QED BY <1>7, <2>1, <2>2
<1>14. out' \in Seq(Nat) /\ Len(out') = pos /\ \A i \in 1 .. pos : out'[i] = ops[i].sym
  <2>1. s \in Nat /\ out \in Seq(Nat)
    BY <1>1, <1>6, OpFacts
  <2>2. out \in Seq(Nat) /\ out' = Append(out, s) /\ Len(out) = pos - 1 /\ pos \in Nat
    BY <1>1, <1>3
  <2>3. out' \in Seq(Nat)
    BY <2>1, <2>2, AppendProperties
  <2>4. /\ Len(out') = Len(out) + 1 /\ out'[Len(out) + 1] = s
        /\ \A i \in 1 .. Len(out) : out'[i] = out[i]
    <3>1. /\ Len(Append(out, s)) = Len(out) + 1 /\ Append(out, s)[Len(out) + 1] = s
          /\ \A i \in 1 .. Len(out) : Append(out, s)[i] = out[i]
      BY <2>1, AppendProperties
    <3> QED BY <2>2, <3>1, Zenon
  <2>5. \A i \in 1 .. pos - 1 : out[i] = ops[i].sym
    BY <1>1 DEF RansInv, Decoding
  <2>6. Len(out') = pos /\ out'[pos] = ops[pos].sym
    <3>1. s = ops[pos].sym
      BY <1>6 DEF op
    <3>2. Len(out) + 1 = pos
      BY <2>2
    <3> QED BY <2>4, <3>1, <3>2
  <2>7. ASSUME NEW i \in 1 .. pos PROVE out'[i] = ops[i].sym
    <3>1. CASE i = pos
      BY <2>6, <3>1
    <3>2. CASE i # pos
      <4>1. i \in 1 .. pos - 1 /\ i \in 1 .. Len(out)
        BY <2>2, <3>2
      <4> QED BY <2>4, <2>5, <4>1
    <3> QED BY <3>1, <3>2
  <2> QED BY <2>3, <2>6, <2>7
<1>15. at' \in Nat
  <2>1. at' = 2 + n - b
    BY <1>13
  <2> QED BY <1>8, <1>12, <2>1
<1>16. RansTypeOK'
  <2>1. pos' \in 0 .. Len(ops') + 1
    BY <1>1
  <2> QED BY <1>1, <1>4, <1>13, <1>14, <1>15, <2>1 DEF RansInv, RansTypeOK, StateMax
<1>17. Decoding'
  <2>1. Trail(y, w, e, 1)'
    BY <1>1, <1>2 DEF Trail, StateMax
  <2>2. pos' >= 1 /\ Len(out') = pos' - 1
    <3>1. pos' = pos + 1 /\ pos \in Nat
      BY <1>1
    <3>2. Len(out') = pos
      BY <1>14
    <3> QED BY <3>1, <3>2
  <2>3. ASSUME NEW i \in 1 .. pos' - 1 PROVE out'[i] = ops'[i].sym
    <3>1. i \in 1 .. pos /\ ops' = ops
      BY <1>1
    <3> QED BY <1>14, <3>1
  <2>4. x' = y[pos'] /\ at' = 2 + Len(e) - w[pos']
    BY <1>1, <1>13 DEF before, n, b
  <2>5. Len(words') <= 2 + Len(e) /\ \A i \in 1 .. Len(e) : Read(2 + i)' = e[Len(e) + 1 - i]
    BY <1>1, <1>2 DEF Read, Word
  <2> QED BY <2>1, <2>2, <2>3, <2>4, <2>5 DEF Decoding
<1> QED BY <1>1, <1>16, <1>17 DEF RansInv, Collecting, Encoding

LEMMA RansNextInv == RansInv /\ [RansNext]_ransVars => RansInv'
<1> SUFFICES ASSUME RansInv, [RansNext]_ransVars PROVE RansInv'
  OBVIOUS
<1>1. CASE UNCHANGED ransVars
  <2>1. /\ ops' = ops /\ phase' = phase /\ pos' = pos /\ x' = x
        /\ words' = words /\ at' = at /\ out' = out
    BY <1>1 DEF ransVars
  <2>2. RansTypeOK'
    BY <2>1 DEF RansInv, RansTypeOK, StateMax
  <2>3. Collecting'
    BY <2>1 DEF RansInv, Collecting
  <2>4. Encoding'
    BY <2>1 DEF RansInv, Encoding, Trail, StateMax
  <2>5. Decoding'
    <3> SUFFICES ASSUME phase = "decode" PROVE Decoding'
      BY <2>1 DEF Decoding
    <3>1. PICK y, w \in [Nat -> Nat], e \in Seq(Nat) :
            /\ Trail(y, w, e, 1)
            /\ x = y[pos] /\ at = 2 + Len(e) - w[pos]
            /\ Len(words) <= 2 + Len(e)
            /\ \A i \in 1 .. Len(e) : Read(2 + i) = e[Len(e) + 1 - i]
      BY DEF RansInv, Decoding
    <3>2. pos >= 1 /\ Len(out) = pos - 1 /\ \A i \in 1 .. pos - 1 : out[i] = ops[i].sym
      BY DEF RansInv, Decoding
    <3>3. Trail(y, w, e, 1)'
      BY <2>1, <3>1 DEF Trail, StateMax
    <3>4. \A i \in 1 .. Len(e) : Read(2 + i)' = e[Len(e) + 1 - i]
      BY <2>1, <3>1 DEF Read, Word
    <3> QED BY <2>1, <3>1, <3>2, <3>3, <3>4 DEF Decoding
  <2> QED BY <2>2, <2>3, <2>4, <2>5 DEF RansInv
<1> QED BY <1>1, CollectInv, BeginEncodeInv, EncodeOpInv, SerializeInv, DecodeOpInv DEF RansNext

(* The inductive invariant of the coder (protocol/rans.ts). *)
THEOREM RansInvariant == RansSpec => []RansInv
  BY RansInitInv, RansNextInv, PTL DEF RansSpec

(***************************************************************************)
(* For every interval, every table that codes and every message, the       *)
(* decoder (ransDecode) recovers what ransEncode was given, entry by       *)
(* entry, and is back at the seed with no word left when it is through.    *)
(***************************************************************************)
THEOREM DecoderGetsItBack == RansSpec => []DecodeUndoesEncode
<1>1. RansInv => DecodeUndoesEncode
  <2> SUFFICES ASSUME RansInv PROVE DecodeUndoesEncode
    OBVIOUS
  <2>1. x >= L /\ x < StateMax
    BY DEF RansInv, RansTypeOK
  <2>2. \A i \in DOMAIN out : out[i] = ops[i].sym
    <3>1. CASE phase = "decode"
      <4>1. DOMAIN out = 1 .. pos - 1
        BY <3>1, LenProperties DEF RansInv, RansTypeOK, Decoding
      <4> QED BY <3>1, <4>1 DEF RansInv, Decoding
    <3>2. CASE phase # "decode"
      BY <3>2 DEF RansInv, RansTypeOK, Collecting, Encoding
    <3> QED BY <3>1, <3>2
  <2>3. ASSUME phase = "decode", pos = Len(ops) + 1 PROVE x = L /\ at >= Len(words)
    <3>1. PICK y, w \in [Nat -> Nat], e \in Seq(Nat) :
            /\ Trail(y, w, e, 1) /\ x = y[pos]
            /\ at = 2 + Len(e) - w[pos] /\ Len(words) <= 2 + Len(e)
      BY <2>3 DEF RansInv, Decoding
    <3>2. y[pos] = L /\ w[pos] = 0
      BY <2>3, <3>1 DEF Trail
    <3>3. Len(e) \in Nat
      BY LenProperties
    <3> QED BY <3>1, <3>2, <3>3
  <2> QED BY <2>1, <2>2, <2>3 DEF DecodeUndoesEncode
<1> QED BY <1>1, RansInvariant, PTL

-----------------------------------------------------------------------------
(***************************************************************************)
(* The tables.  The rounding takes nobody more than a slot from its share, *)
(* so fewer slots are left over than there are symbols, and the hand-out   *)
(* comes to each at most once: that bound on a sum of remainders is what   *)
(* the invariant of the correction rests on.  Sums are of the model's      *)
(* recursive function, and what is said of one is said of a set of         *)
(* naturals that has zero and with each the next.                          *)
(***************************************************************************)
(* Up to n, step by step. *)
LEMMA OneByOne ==
  ASSUME NEW n \in Nat, NEW S, 0 \in S, \A k \in 0 .. n - 1 : k \in S => k + 1 \in S
  PROVE  \A k \in 0 .. n : k \in S
<1> DEFINE B == {k \in 0 .. n : k \notin S}
<1> SUFFICES ASSUME B # {} PROVE FALSE
  OBVIOUS
<1>1. PICK m \in B : \A k \in B : m <= k
  <2>1. B \in SUBSET Nat
    OBVIOUS
  <2> HIDE DEF B
  <2> QED BY <2>1, LeastNatural
<1>2. m # 0 /\ m - 1 \in 0 .. n - 1
  BY <1>1
<1>3. m - 1 \in S
  BY <1>1, <1>2
<1>4. (m - 1) + 1 \in S
  BY <1>2, <1>3
<1> QED BY <1>1, <1>4

(* The sums of a column: the function its definition asks for exists, and is
   what the definition says. *)
LEMMA SumsExist ==
  ASSUME NEW n \in Nat, NEW s \in [1 .. n -> Nat]
  PROVE  \E g : g = [k \in 0 .. n |-> IF k = 0 THEN 0 ELSE g[k - 1] + s[k]]
<1> DEFINE Upto(k, g) == g[0] = 0 /\ \A j \in 1 .. k : g[j] = g[j - 1] + s[j]
           S == {k \in 0 .. n : \E g \in [0 .. n -> Nat] : Upto(k, g)}
<1>1. 0 \in S
  <2> DEFINE z == [k \in 0 .. n |-> 0]
  <2>1. z \in [0 .. n -> Nat] /\ z[0] = 0 /\ 0 \in 0 .. n
    OBVIOUS
  <2> HIDE DEF z
  <2>2. Upto(0, z)
    BY <2>1
  <2> HIDE DEF Upto
  <2> QED BY <2>1, <2>2
<1>2. ASSUME NEW k \in 0 .. n - 1, k \in S PROVE k + 1 \in S
  <2>1. PICK g \in [0 .. n -> Nat] : Upto(k, g)
    BY <1>2
  <2> DEFINE h == [g EXCEPT ![k + 1] = g[k] + s[k + 1]]
  <2>2. h \in [0 .. n -> Nat] /\ h[k + 1] = g[k] + s[k + 1] /\ \A j \in 0 .. k : h[j] = g[j]
    OBVIOUS
  <2> HIDE DEF h
  <2>3. Upto(k + 1, h)
    <3>1. h[0] = 0
      BY <2>1, <2>2
    <3>2. ASSUME NEW j \in 1 .. k + 1 PROVE h[j] = h[j - 1] + s[j]
      <4>1. CASE j = k + 1
        BY <2>2, <4>1
      <4>2. CASE j # k + 1
        <5>1. j \in 1 .. k /\ j \in 0 .. k /\ j - 1 \in 0 .. k
          BY <4>2
        <5> QED BY <2>1, <2>2, <5>1
      <4> QED BY <4>1, <4>2
    <3> QED BY <3>1, <3>2
  <2>4. k + 1 \in 0 .. n
    OBVIOUS
  <2> HIDE DEF Upto, h
  <2> QED BY <2>2, <2>3, <2>4
<1> HIDE DEF S
<1>3. n \in S
  <2>1. \A k \in 0 .. n : k \in S
    BY <1>1, <1>2, OneByOne
  <2> QED BY <2>1
<1>4. PICK g \in [0 .. n -> Nat] : Upto(n, g)
  BY <1>3 DEF S
<1>5. g = [k \in 0 .. n |-> IF k = 0 THEN 0 ELSE g[k - 1] + s[k]]
  BY <1>4
<1> QED BY <1>5

LEMMA SumsAre ==
  ASSUME NEW n \in Nat, NEW s \in [1 .. n -> Nat]
  PROVE  /\ Len(s) = n /\ s \in Seq(Nat)
         /\ Sums(s) \in [0 .. n -> Nat] /\ Sums(s)[0] = 0
         /\ \A k \in 1 .. n : Sums(s)[k] = Sums(s)[k - 1] + s[k]
         /\ Total(s) = Sums(s)[n] /\ Total(s) \in Nat
<1>1. Len(s) = n /\ s \in Seq(Nat)
  OBVIOUS
<1> DEFINE f == Sums(s)
<1>2. f = [k \in 0 .. n |-> IF k = 0 THEN 0 ELSE f[k - 1] + s[k]]
  <2>1. f = CHOOSE g : g = [k \in 0 .. Len(s) |-> IF k = 0 THEN 0 ELSE g[k - 1] + s[k]]
    BY DEF Sums
  <2> HIDE DEF f
  <2> QED BY <1>1, <2>1, SumsExist
<1> HIDE DEF f
<1>3. f[0] = 0 /\ \A k \in 1 .. n : f[k] = f[k - 1] + s[k]
  BY <1>2
<1> DEFINE S == {k \in 0 .. n : f[k] \in Nat}
<1>4. 0 \in S
  BY <1>3
<1>5. ASSUME NEW k \in 0 .. n - 1, k \in S PROVE k + 1 \in S
  <2>1. k + 1 \in 1 .. n /\ (k + 1) - 1 = k /\ s[k + 1] \in Nat /\ f[k] \in Nat
    BY <1>5
  <2>2. f[k + 1] = f[k] + s[k + 1]
    BY <1>3, <2>1
  <2> QED BY <2>1, <2>2
<1> HIDE DEF S
<1>6. \A k \in 0 .. n : k \in S
  BY <1>4, <1>5, OneByOne
<1>7. f \in [0 .. n -> Nat]
  BY <1>2, <1>6 DEF S
<1>8. Total(s) = f[n] /\ f[n] \in Nat
  BY <1>1, <1>7 DEF Total, f
<1> QED BY <1>1, <1>3, <1>7, <1>8 DEF f

(* An entry that changes by d changes the sum by d. *)
LEMMA SumChanges ==
  ASSUME NEW n \in Nat, NEW s \in [1 .. n -> Nat], NEW t \in [1 .. n -> Nat],
         NEW i \in 1 .. n, NEW d \in Int, t[i] = s[i] + d, \A j \in 1 .. n : j # i => t[j] = s[j]
  PROVE  Total(t) = Total(s) + d
<1> DEFINE f == Sums(s)
           g == Sums(t)
           S == {k \in 0 .. n : g[k] = f[k] + (IF i <= k THEN d ELSE 0)}
<1>1. /\ f \in [0 .. n -> Nat] /\ f[0] = 0 /\ \A k \in 1 .. n : f[k] = f[k - 1] + s[k]
      /\ Total(s) = f[n]
  BY SumsAre
<1>2. /\ g \in [0 .. n -> Nat] /\ g[0] = 0 /\ \A k \in 1 .. n : g[k] = g[k - 1] + t[k]
      /\ Total(t) = g[n]
  BY SumsAre
<1> HIDE DEF f, g
<1>3. 0 \in S
  BY <1>1, <1>2
<1>4. ASSUME NEW k \in 0 .. n - 1, k \in S PROVE k + 1 \in S
  <2>1. k + 1 \in 1 .. n /\ (k + 1) - 1 = k /\ s[k + 1] \in Nat /\ k \in Nat /\ f[k] \in Nat
    <3>1. k + 1 \in 1 .. n /\ k \in 0 .. n /\ (k + 1) - 1 = k /\ k \in Nat
      OBVIOUS
    <3>2. f[k] \in Nat
      BY <1>1, <3>1
    <3> QED BY <3>1, <3>2
  <2>2. f[k + 1] = f[k] + s[k + 1] /\ g[k + 1] = g[k] + t[k + 1]
    <3>1. f[k + 1] = f[(k + 1) - 1] + s[k + 1]
      BY <1>1, <2>1, Zenon
    <3>2. g[k + 1] = g[(k + 1) - 1] + t[k + 1]
      BY <1>2, <2>1, Zenon
    <3>3. (k + 1) - 1 = k
      BY <2>1
    <3> QED BY <3>1, <3>2, <3>3, Zenon
  <2>3. g[k] = f[k] + (IF i <= k THEN d ELSE 0)
    BY <1>4
  <2>4. g[k + 1] = f[k + 1] + (IF i <= k + 1 THEN d ELSE 0)
    <3>1. CASE i = k + 1
      <4>1. ~(i <= k) /\ i <= k + 1 /\ t[k + 1] = s[k + 1] + d
        BY <2>1, <3>1
      <4> QED BY <2>1, <2>2, <2>3, <4>1
    <3>2. CASE i # k + 1
      <4>1. (i <= k <=> i <= k + 1) /\ t[k + 1] = s[k + 1]
        BY <2>1, <3>2
      <4> QED BY <2>1, <2>2, <2>3, <4>1
    <3> QED BY <3>1, <3>2
  <2> QED BY <2>1, <2>4
<1> HIDE DEF S
<1>5. \A k \in 0 .. n : k \in S
  BY <1>3, <1>4, OneByOne
<1>6. g[n] = f[n] + d
  BY <1>5 DEF S
<1> QED BY <1>1, <1>2, <1>6

(* No more than n is the sum of n that are at most one, no less of n that are
   at least one. *)
LEMMA SumOfOnes ==
  ASSUME NEW n \in Nat, NEW s \in [1 .. n -> Nat]
  PROVE  /\ (\A i \in 1 .. n : s[i] <= 1) => Total(s) <= n
         /\ (\A i \in 1 .. n : 1 <= s[i]) => n <= Total(s)
<1> DEFINE f == Sums(s)
<1>1. /\ f \in [0 .. n -> Nat] /\ f[0] = 0 /\ \A k \in 1 .. n : f[k] = f[k - 1] + s[k]
      /\ Total(s) = f[n]
  BY SumsAre
<1> HIDE DEF f
<1>2. ASSUME NEW k \in 0 .. n - 1
      PROVE  /\ k + 1 \in 1 .. n /\ k \in Nat /\ f[k] \in Nat /\ s[k + 1] \in Nat
             /\ f[k + 1] = f[k] + s[k + 1]
  <2>1. k + 1 \in 1 .. n /\ (k + 1) - 1 = k
    OBVIOUS
  <2> QED BY <1>1, <2>1
<1>3. ASSUME \A i \in 1 .. n : s[i] <= 1 PROVE Total(s) <= n
  <2> DEFINE S == {k \in 0 .. n : f[k] <= k}
  <2>1. 0 \in S
    BY <1>1
  <2>2. ASSUME NEW k \in 0 .. n - 1, k \in S PROVE k + 1 \in S
    BY <1>2, <1>3, <2>2
  <2> HIDE DEF S
  <2>3. \A k \in 0 .. n : k \in S
    BY <2>1, <2>2, OneByOne
  <2> QED BY <1>1, <2>3 DEF S
<1>4. ASSUME \A i \in 1 .. n : 1 <= s[i] PROVE n <= Total(s)
  <2> DEFINE S == {k \in 0 .. n : k <= f[k]}
  <2>1. 0 \in S
    BY <1>1
  <2>2. ASSUME NEW k \in 0 .. n - 1, k \in S PROVE k + 1 \in S
    BY <1>2, <1>4, <2>2
  <2> HIDE DEF S
  <2>3. \A k \in 0 .. n : k \in S
    BY <2>1, <2>2, OneByOne
  <2> QED BY <1>1, <2>3 DEF S
<1> QED BY <1>3, <1>4

(* The rounding: at most a slot under the share, over it only to be one, and
   no less for the heavier. *)
LEMMA RoundedFacts ==
  ASSUME NEW n \in Nat \ {0}, NEW w \in [1 .. n -> Nat \ {0}]
  PROVE  /\ Total(w) \in Nat \ {0} /\ Rounded(w) \in [1 .. n -> Nat \ {0}]
         /\ \A i \in 1 .. n :
              /\ w[i] * Precision + 1 <= Total(w) * Rounded(w)[i] + Total(w)
              /\ Rounded(w)[i] = 1 \/ Total(w) * Rounded(w)[i] <= w[i] * Precision
         /\ \A i, j \in 1 .. n : w[j] <= w[i] => Rounded(w)[j] <= Rounded(w)[i]
<1>1. w \in [1 .. n -> Nat] /\ n \in Nat /\ Precision \in Nat \ {0}
  BY RansTablesAssumption
<1> DEFINE T == Total(w)
<1>2. n <= T /\ T \in Nat
  BY <1>1, SumOfOnes, SumsAre
<1> HIDE DEF T
<1>3. T \in Nat \ {0}
  BY <1>2
<1> DEFINE share(i) == w[i] * Precision
           r == Rounded(w)
<1>4. ASSUME NEW i \in 1 .. n
      PROVE  /\ share(i) \in Nat /\ share(i) \div T \in Nat
             /\ r[i] = IF share(i) \div T < 1 THEN 1 ELSE share(i) \div T
  <2>1. share(i) \in Nat
    BY <1>1
  <2>2. share(i) \div T \in Nat
    BY <1>3, <2>1, Division
  <2>3. r[i] = IF (w[i] * Precision) \div T < 1 THEN 1 ELSE (w[i] * Precision) \div T
    BY DEF Rounded, T
  <2> QED BY <2>1, <2>2, <2>3
<1>5. r = [i \in 1 .. n |-> r[i]]
  BY DEF Rounded
<1> HIDE DEF r, share
<1>6. r \in [1 .. n -> Nat \ {0}]
  BY <1>4, <1>5
<1>7. ASSUME NEW i \in 1 .. n
      PROVE  share(i) + 1 <= T * r[i] + T /\ (r[i] = 1 \/ T * r[i] <= share(i))
  <2> DEFINE q == share(i) \div T
             m == share(i) % T
             a == share(i)
  <2>1. a = T * q + m /\ m \in 0 .. T - 1 /\ q \in Nat /\ a \in Nat
    BY <1>3, <1>4, Division
  <2>2. r[i] = IF q < 1 THEN 1 ELSE q
    BY <1>4
  <2> HIDE DEF q, m, a
  <2>3. CASE q < 1
    <3>1. q = 0 /\ T * q = 0 /\ r[i] = 1 /\ T * r[i] = T
      BY <1>3, <2>1, <2>2, <2>3
    <3>2. a + 1 <= T * r[i] + T
      BY <1>3, <2>1, <3>1
    <3> QED BY <3>1, <3>2 DEF a
  <2>4. CASE ~(q < 1)
    <3>1. r[i] = q
      BY <2>2, <2>4
    <3>2. T * q \in Nat
      BY <1>3, <2>1
    <3>3. a + 1 <= T * q + T /\ T * q <= a
      BY <1>3, <2>1, <3>2
    <3> QED BY <3>1, <3>3 DEF a
  <2> QED BY <2>3, <2>4
<1>8. ASSUME NEW i \in 1 .. n, NEW j \in 1 .. n, w[j] <= w[i] PROVE r[j] <= r[i]
  <2>1. share(j) <= share(i)
    <3>1. w[i] \in Nat /\ w[j] \in Nat
      BY <1>1
    <3> QED BY <1>1, <1>8, <3>1, MulMono DEF share
  <2>2. share(j) \div T <= share(i) \div T
    <3>1. \A a, b \in Nat, c \in Nat \ {0} : a <= b => a \div c <= b \div c
      OBVIOUS
    <3> QED BY <1>3, <1>4, <2>1, <3>1
  <2> QED BY <1>4, <2>2
<1> QED BY <1>3, <1>6, <1>7, <1>8 DEF T, r, share

(* The rounding leaves fewer slots than there are symbols. *)
LEMMA FewLeft ==
  ASSUME NEW n \in Nat \ {0}, NEW w \in [1 .. n -> Nat \ {0}]
  PROVE  Precision < Total(Rounded(w)) + n
<1> DEFINE T == Total(w)
           r == Rounded(w)
           f == Sums(w)
           g == Sums(r)
           P == Precision
           S == {k \in 0 .. n : P * f[k] + k <= T * g[k] + k * T}
<1>1. P \in Nat \ {0} /\ n \in Nat /\ w \in [1 .. n -> Nat]
  BY RansTablesAssumption
<1>2. /\ T \in Nat \ {0} /\ r \in [1 .. n -> Nat]
      /\ \A i \in 1 .. n : w[i] * P + 1 <= T * r[i] + T
  BY RoundedFacts
<1>3. /\ f \in [0 .. n -> Nat] /\ f[0] = 0 /\ \A k \in 1 .. n : f[k] = f[k - 1] + w[k]
      /\ T = f[n]
  BY <1>1, SumsAre
<1> HIDE DEF r
<1>4. /\ g \in [0 .. n -> Nat] /\ g[0] = 0 /\ \A k \in 1 .. n : g[k] = g[k - 1] + r[k]
      /\ Total(r) = g[n]
  BY <1>1, <1>2, SumsAre
<1> HIDE DEF T, f, g, P
<1>5. 0 \in S
  BY <1>1, <1>2, <1>3, <1>4
<1>6. ASSUME NEW k \in 0 .. n - 1, k \in S PROVE k + 1 \in S
  <2>1. k + 1 \in 1 .. n /\ k + 1 \in 0 .. n /\ k \in 0 .. n /\ (k + 1) - 1 = k /\ k \in Nat
    OBVIOUS
  <2>2. f[k] \in Nat /\ g[k] \in Nat /\ w[k + 1] \in Nat /\ r[k + 1] \in Nat
    BY <1>1, <1>2, <1>3, <1>4, <2>1
  <2>3. f[k + 1] = f[k] + w[k + 1] /\ g[k + 1] = g[k] + r[k + 1]
    <3>1. f[k + 1] = f[(k + 1) - 1] + w[k + 1]
      BY <1>3, <2>1, Zenon
    <3>2. g[k + 1] = g[(k + 1) - 1] + r[k + 1]
      BY <1>4, <2>1, Zenon
    <3> QED BY <2>1, <3>1, <3>2, Zenon
  <2>4. w[k + 1] * P + 1 <= T * r[k + 1] + T
    BY <1>2, <2>1
  <2>5. P * f[k] + k <= T * g[k] + k * T
    BY <1>6
  <2> DEFINE a == f[k]
             b == w[k + 1]
             c == g[k]
             e == r[k + 1]
  <2> HIDE DEF a, b, c, e
  <2>6. \A h, m, u, v \in Nat :
          m * P + 1 <= T * v + T /\ P * h + k <= T * u + k * T
            => P * (h + m) + (k + 1) <= T * (u + v) + (k + 1) * T
    <3> SUFFICES ASSUME NEW h \in Nat, NEW m \in Nat, NEW u \in Nat, NEW v \in Nat,
                        m * P + 1 <= T * v + T, P * h + k <= T * u + k * T
                 PROVE  P * (h + m) + (k + 1) <= T * (u + v) + (k + 1) * T
      OBVIOUS
    <3>1. P * (h + m) = P * h + P * m /\ T * (u + v) = T * u + T * v
      <4>1. P \in Nat /\ T \in Nat
        BY <1>1, <1>2
      <4> QED BY <4>1, Distributes, SMTT(30)
    <3>2. (k + 1) * T = k * T + T /\ m * P = P * m
      <4>1. k \in Nat /\ 1 \in Nat /\ T \in Nat /\ P \in Nat /\ 1 * T = T
        BY <1>1, <1>2, <2>1
      <4> QED BY <4>1, Distributes, Commutes, SMTT(30)
    <3> DEFINE ph == P * h
               pm == P * m
               tu == T * u
               tv == T * v
               kt == k * T
    <3>3. ph \in Nat /\ pm \in Nat /\ tu \in Nat /\ tv \in Nat /\ kt \in Nat /\ T \in Nat /\ k \in Nat
      <4>1. T \in Nat /\ P \in Nat /\ k \in Nat
        BY <1>1, <1>2, <2>1
      <4> QED BY <4>1, MulType, Zenon
    <3>4. pm + 1 <= tv + T /\ ph + k <= tu + kt
      BY <3>2, Zenon
    <3>5. P * (h + m) = ph + pm /\ T * (u + v) = tu + tv /\ (k + 1) * T = kt + T
      BY <3>1, <3>2, Zenon
    <3> HIDE DEF ph, pm, tu, tv, kt
    <3>6. (ph + pm) + (k + 1) <= (tu + tv) + (kt + T)
      BY <3>3, <3>4
    <3> QED BY <3>5, <3>6, Zenon
  <2>7. P * f[k + 1] + (k + 1) <= T * g[k + 1] + (k + 1) * T
    BY <2>2, <2>3, <2>4, <2>5, <2>6, Zenon
  <2> QED BY <2>1, <2>7
<1> HIDE DEF S
<1>7. P * T + n <= T * Total(r) + n * T
  <2>1. \A k \in 0 .. n : k \in S
    BY <1>1, <1>5, <1>6, OneByOne
  <2>2. n \in S
    BY <1>1, <2>1
  <2> QED BY <1>3, <1>4, <2>2 DEF S
<1>8. Total(r) \in Nat
  BY <1>1, <1>4
<1>9. T \in Nat /\ P \in Nat /\ n \in Nat /\ Total(r) + n \in Nat
  BY <1>1, <1>2, <1>8
<1>10. T * P < T * (Total(r) + n)
  <2>1. P * T = T * P /\ T * n = n * T
    BY <1>9, Commutes, Zenon
  <2>2. T * (Total(r) + n) = T * Total(r) + T * n
    BY <1>8, <1>9, Distributes, SMTT(30)
  <2>3. T * P \in Nat /\ T * (Total(r) + n) \in Nat
    BY <1>9, MulType, Zenon
  <2>4. T * P + n <= T * (Total(r) + n)
    BY <1>7, <2>1, <2>2, Zenon
  <2>5. \A h, m \in Nat, d \in Nat \ {0} : h + d <= m => h < m
    OBVIOUS
  <2> QED BY <2>3, <2>4, <2>5, Zenon
<1>11. P < Total(r) + n
  <2>1. Total(r) + n <= P => T * (Total(r) + n) <= T * P
    BY <1>9, MulMono, Zenon
  <2>2. T * P \in Nat /\ T * (Total(r) + n) \in Nat
    BY <1>9, MulType, Zenon
  <2>3. \A a, b \in Nat : a < b <=> ~(b <= a)
    OBVIOUS
  <2>4. ~(T * (Total(r) + n) <= T * P)
    BY <1>10, <2>2, <2>3, Zenon
  <2>5. ~(Total(r) + n <= P)
    BY <2>1, <2>4, Zenon
  <2> QED BY <1>9, <2>3, <2>5, Zenon
<1> QED BY <1>11 DEF P, r

-----------------------------------------------------------------------------
Weighed(n) ==
  /\ weights \in [1 .. n -> Nat \ {0}] /\ freq \in [1 .. n -> Nat \ {0}] /\ handed \in Nat

(* Until the table is full only symbols whose turn has been have one slot more
   than the rounding gave them. *)
OneEach(n) ==
  Total(freq) < Precision =>
    /\ Total(freq) = Total(Rounded(weights)) + handed
    /\ \A i \in 1 .. n : /\ Rounded(weights)[i] <= freq[i] /\ freq[i] <= Rounded(weights)[i] + 1
                         /\ handed <= Turn(i) => freq[i] = Rounded(weights)[i]

NotOver(n) == \A i \in 1 .. n : Surplus(i) < 2 * Total(weights)
HeavierHasMore(n) == \A i, j \in 1 .. n : weights[i] > weights[j] => freq[i] >= freq[j] - 1

TablesInv ==
  weights # <<>> =>
    \E n \in 1 .. MaxSymbols : Weighed(n) /\ OneEach(n) /\ NotOver(n) /\ HeavierHasMore(n)

(* A table that has for each symbol what the rounding gave it or one more. *)
LEMMA NearTheRounding ==
  ASSUME NEW n \in Nat \ {0}, NEW w \in [1 .. n -> Nat \ {0}], NEW t \in [1 .. n -> Nat \ {0}],
         \A i \in 1 .. n : Rounded(w)[i] <= t[i] /\ t[i] <= Rounded(w)[i] + 1
  PROVE  /\ \A i \in 1 .. n : t[i] * Total(w) - w[i] * Precision < 2 * Total(w)
         /\ \A i, j \in 1 .. n : w[i] > w[j] => t[i] >= t[j] - 1
<1> DEFINE T == Total(w)
           r == Rounded(w)
<1>1. /\ T \in Nat \ {0} /\ r \in [1 .. n -> Nat \ {0}]
      /\ \A i \in 1 .. n : r[i] = 1 \/ T * r[i] <= w[i] * Precision
      /\ \A i, j \in 1 .. n : w[j] <= w[i] => r[j] <= r[i]
  BY RoundedFacts
<1> HIDE DEF T, r
<1>2. \A i \in 1 .. n : r[i] <= t[i] /\ t[i] <= r[i] + 1
  BY DEF r
<1>3. ASSUME NEW i \in 1 .. n PROVE t[i] * T - w[i] * Precision < 2 * T
  <2> DEFINE a == t[i]
             b == r[i]
             p == w[i] * Precision
  <2>1. a \in Nat /\ b \in Nat /\ a <= b + 1 /\ (b = 1 \/ T * b <= p)
    <3>1. i \in 1 .. n /\ t[i] \in Nat /\ r[i] \in Nat
      BY <1>1
    <3>2. t[i] <= r[i] + 1
      BY <1>2
    <3>3. r[i] = 1 \/ T * r[i] <= w[i] * Precision
      BY <1>1, <3>1, Zenon
    <3> QED BY <3>1, <3>2, <3>3
  <2>2. p \in Nat \ {0}
    <3>1. w[i] \in Nat \ {0} /\ Precision \in Nat \ {0}
      BY RansTablesAssumption
    <3>2. \A h, y \in Nat \ {0} : h * y \in Nat \ {0}
      OBVIOUS
    <3> QED BY <3>1, <3>2, Zenon
  <2> HIDE DEF a, b, p
  <2>3. a * T <= (b + 1) * T /\ (b + 1) * T = T * b + T
    <3>1. T \in Nat /\ b + 1 \in Nat
      BY <1>1, <2>1
    <3>2. a * T <= (b + 1) * T
      BY <2>1, <3>1, MulMono
    <3>3. (b + 1) * T = T * b + T
      BY <2>1, <3>1
    <3> QED BY <3>2, <3>3
  <2>4. a * T \in Nat /\ T * b \in Nat /\ (b = 1 => T * b = T) /\ T \in Nat
    BY <1>1, <2>1
  <2>5. a * T - p < 2 * T
    <3>1. a * T <= T * b + T
      BY <2>3
    <3>2. T * b <= T \/ T * b <= p
      BY <2>1, <2>4
    <3> DEFINE h == a * T
               y == T * b
    <3>3. h \in Nat /\ y \in Nat /\ h <= y + T /\ (y <= T \/ y <= p) /\ (y <= T => h - p < 2 * T)
      <4>1. h \in Nat /\ y \in Nat /\ h <= y + T /\ (y <= T \/ y <= p)
        BY <2>4, <3>1, <3>2
      <4> HIDE DEF h, y
      <4> QED BY <2>2, <2>4, <4>1
    <3> HIDE DEF h, y
    <3>4. T # 0
      BY <1>1
    <3>5. h - p < 2 * T
      BY <2>2, <2>4, <3>3, <3>4
    <3> QED BY <3>5 DEF h
  <2> QED BY <2>5 DEF a, p
<1>4. ASSUME NEW i \in 1 .. n, NEW j \in 1 .. n, w[i] > w[j] PROVE t[i] >= t[j] - 1
  <2>1. w[j] <= w[i]
    BY <1>4
  <2>2. r[j] <= r[i] /\ r[i] <= t[i] /\ t[j] <= r[j] + 1
    BY <1>1, <1>2, <2>1
  <2>3. r[j] \in Nat /\ r[i] \in Nat /\ t[i] \in Nat /\ t[j] \in Nat
    BY <1>1
  <2> QED BY <2>2, <2>3
<1> QED BY <1>3, <1>4 DEF T

-----------------------------------------------------------------------------
(* A symbol's turn in the hand-out follows from the weights. *)
LEMMA TurnNat == ASSUME NEW n \in Nat, DOMAIN weights = 1 .. n PROVE \A i : Turn(i) \in Nat
<1> TAKE i
<1> DEFINE A == {j \in Symbols : Ahead(j, i)}
<1>1. A \subseteq 1 .. n
  BY DEF Symbols
<1>2. IsFiniteSet(1 .. n)
  BY FS_Interval
<1> HIDE DEF A
<1>3. IsFiniteSet(A)
  BY <1>1, <1>2, FS_Subset
<1>4. Cardinality(A) \in Nat
  BY <1>3, FS_CardinalityType
<1> QED BY <1>4 DEF Turn, A

LEMMA TurnStays == ASSUME weights' = weights PROVE \A i : Turn(i)' = Turn(i)
  BY DEF Turn, Ahead, Fraction, Share, Symbols

(* One lemma for each step of the correction. *)
LEMMA TablesQuantize ==
  ASSUME NEW n \in 1 .. MaxSymbols, NEW w \in [1 .. n -> 1 .. MaxWeight], Quantize(w)
  PROVE  Weighed(n)' /\ OneEach(n)' /\ NotOver(n)' /\ HeavierHasMore(n)'
<1> DEFINE r == Rounded(w)
<1>1. n \in Nat \ {0} /\ w \in [1 .. n -> Nat \ {0}] /\ Precision \in Nat \ {0}
  BY RansTablesAssumption
<1>2. weights' = w /\ freq' = r /\ handed' = 0
  BY DEF Quantize
<1>3. r \in [1 .. n -> Nat \ {0}]
  BY <1>1, RoundedFacts
<1>4. Total(r) \in Nat
  BY <1>1, <1>3, SumsAre
<1>5. /\ \A i \in 1 .. n : r[i] * Total(w) - w[i] * Precision < 2 * Total(w)
      /\ \A i, j \in 1 .. n : w[i] > w[j] => r[i] >= r[j] - 1
  <2>1. \A i \in 1 .. n : r[i] <= r[i] /\ r[i] <= r[i] + 1
    <3> HIDE DEF r
    <3> QED BY <1>3
  <2> QED BY <1>1, <1>3, <2>1, NearTheRounding
<1>6. Weighed(n)'
  <2> HIDE DEF r
  <2> QED BY <1>1, <1>2, <1>3 DEF Weighed
<1>7. OneEach(n)'
  <2>1. Rounded(weights)' = r
    BY <1>2 DEF Rounded
  <2>2. Total(freq)' = Total(r)
    BY <1>2
  <2> HIDE DEF r
  <2> QED BY <1>2, <1>3, <1>4, <2>1, <2>2 DEF OneEach
<1>8. NotOver(n)'
  <2>1. Total(weights)' = Total(w)
    BY <1>2
  <2> HIDE DEF r
  <2> QED BY <1>2, <1>5, <2>1 DEF NotOver, Surplus, Share
<1>9. HeavierHasMore(n)'
  <2> HIDE DEF r
  <2> QED BY <1>2, <1>5 DEF HeavierHasMore
<1> QED BY <1>6, <1>7, <1>8, <1>9

LEMMA TablesHandOut ==
  ASSUME NEW n \in 1 .. MaxSymbols, Weighed(n), OneEach(n), HandOut
  PROVE  Weighed(n)' /\ OneEach(n)' /\ NotOver(n)' /\ HeavierHasMore(n)'
<1> DEFINE r == Rounded(weights)
           T == Total(freq)
<1>1. /\ n \in Nat \ {0} /\ weights \in [1 .. n -> Nat \ {0}] /\ freq \in [1 .. n -> Nat \ {0}]
      /\ handed \in Nat /\ Precision \in Nat \ {0}
  BY RansTablesAssumption DEF Weighed
<1>2. /\ T < Precision /\ T = Total(r) + handed
      /\ \A i \in 1 .. n : /\ r[i] <= freq[i] /\ freq[i] <= r[i] + 1
                           /\ handed <= Turn(i) => freq[i] = r[i]
  BY DEF OneEach, HandOut
<1>3. r \in [1 .. n -> Nat \ {0}]
  BY <1>1, RoundedFacts
<1>4. Total(r) \in Nat /\ T \in Nat
  <2> HIDE DEF r
  <2>1. n \in Nat /\ r \in [1 .. n -> Nat] /\ freq \in [1 .. n -> Nat]
    BY <1>1, <1>3
  <2> QED BY <2>1, SumsAre
<1>5. Precision < Total(r) + n
  BY <1>1, FewLeft
<1> HIDE DEF r, T
<1>6. handed < n
  BY <1>1, <1>2, <1>4, <1>5
<1>7. (handed % Len(weights)) = handed
  <2>1. Len(weights) = n
    BY <1>1
  <2>2. \A h \in Nat, m \in Nat \ {0} : h < m => (h % m) = h
    OBVIOUS
  <2> QED BY <1>1, <1>6, <2>1, <2>2
<1>8. PICK i \in 1 .. n : Turn(i) = handed /\ freq' = [freq EXCEPT ![i] = @ + 1]
  BY <1>1, <1>7 DEF HandOut, Symbols
<1>9. weights' = weights /\ handed' = handed + 1
  BY DEF HandOut
<1>10. freq[i] = r[i]
  BY <1>1, <1>2, <1>8
<1>11. \A k : Turn(k)' = Turn(k) /\ Turn(k) \in Nat
  BY <1>1, <1>9, TurnNat, TurnStays
<1>12. freq' \in [1 .. n -> Nat \ {0}] /\ freq'[i] = freq[i] + 1 /\ \A k \in 1 .. n : k # i => freq'[k] = freq[k]
  BY <1>1, <1>8
<1>13. \A k \in 1 .. n : r[k] <= freq'[k] /\ freq'[k] <= r[k] + 1
  <2> TAKE k \in 1 .. n
  <2>1. r[k] \in Nat /\ freq[k] \in Nat /\ freq'[k] \in Nat
    BY <1>1, <1>3, <1>12
  <2>2. CASE k = i
    BY <1>10, <1>12, <2>1, <2>2
  <2>3. CASE k # i
    BY <1>2, <1>12, <2>3
  <2> QED BY <2>2, <2>3
<1>14. Total(freq') = T + 1
  <2>1. n \in Nat /\ freq \in [1 .. n -> Nat] /\ freq' \in [1 .. n -> Nat] /\ 1 \in Int
    BY <1>1, <1>12
  <2> QED BY <1>12, <2>1, SumChanges DEF T
<1>15. Weighed(n)'
  BY <1>1, <1>9, <1>12 DEF Weighed
<1>16. OneEach(n)'
  <2>1. Rounded(weights)' = r
    BY <1>9 DEF r
  <2>2. Total(freq)' = Total(r) + handed'
    <3>1. Total(freq)' = Total(freq')
      OBVIOUS
    <3> QED BY <1>1, <1>2, <1>4, <1>9, <1>14, <3>1
  <2>3. ASSUME NEW k \in 1 .. n, handed' <= Turn(k)' PROVE freq'[k] = r[k]
    <3>1. handed + 1 <= Turn(k) /\ Turn(k) \in Nat /\ handed \in Nat
      BY <1>1, <1>9, <1>11, <2>3
    <3>2. handed <= Turn(k) /\ k # i
      BY <1>8, <3>1
    <3> QED BY <1>2, <1>12, <3>2
  <2> QED BY <1>13, <2>1, <2>2, <2>3 DEF OneEach
<1>17. /\ \A k \in 1 .. n : freq'[k] * Total(weights) - weights[k] * Precision < 2 * Total(weights)
       /\ \A j, k \in 1 .. n : weights[j] > weights[k] => freq'[j] >= freq'[k] - 1
  BY <1>1, <1>12, <1>13, NearTheRounding DEF r
<1>18. NotOver(n)'
  <2>1. Total(weights)' = Total(weights)
    BY <1>9
  <2> QED BY <1>9, <1>17, <2>1 DEF NotOver, Surplus, Share
<1>19. HeavierHasMore(n)'
  BY <1>9, <1>17 DEF HeavierHasMore
<1> QED BY <1>15, <1>16, <1>18, <1>19

LEMMA SurplusInt ==
  ASSUME NEW n \in Nat \ {0}, Weighed(n) PROVE \A i \in 1 .. n : Surplus(i) \in Int
<1>1. weights \in [1 .. n -> Nat \ {0}] /\ freq \in [1 .. n -> Nat \ {0}] /\ Precision \in Nat
  BY RansTablesAssumption DEF Weighed
<1>2. Total(weights) \in Nat
  BY <1>1, RoundedFacts
<1> QED BY <1>1, <1>2 DEF Surplus, Share

LEMMA TablesTakeBack ==
  ASSUME NEW n \in 1 .. MaxSymbols, Weighed(n), NotOver(n), HeavierHasMore(n), TakeBack
  PROVE  Weighed(n)' /\ OneEach(n)' /\ NotOver(n)' /\ HeavierHasMore(n)'
<1> DEFINE T == Total(weights)
<1>1. /\ n \in Nat \ {0} /\ weights \in [1 .. n -> Nat \ {0}] /\ freq \in [1 .. n -> Nat \ {0}]
      /\ handed \in Nat /\ Precision \in Nat \ {0}
  BY RansTablesAssumption DEF Weighed
<1>2. T \in Nat \ {0}
  BY <1>1, RoundedFacts
<1>3. Total(freq) \in Nat /\ Precision < Total(freq)
  <2>1. freq \in [1 .. n -> Nat]
    BY <1>1
  <2>2. Total(freq) \in Nat
    BY <1>1, <2>1, SumsAre
  <2> QED BY <2>2 DEF TakeBack
<1>4. PICK i \in 1 .. n : Donor(i) /\ freq' = [freq EXCEPT ![i] = @ - 1]
  BY <1>1 DEF TakeBack, Symbols
<1>5. weights' = weights /\ handed' = handed
  BY DEF TakeBack
<1>6. freq[i] > 1
  BY <1>4 DEF Donor
<1>7. freq' \in [1 .. n -> Nat \ {0}] /\ freq'[i] = freq[i] - 1 /\ \A k \in 1 .. n : k # i => freq'[k] = freq[k]
  BY <1>1, <1>4, <1>6
<1>8. Total(freq') = Total(freq) + (-1)
  <2>1. freq \in [1 .. n -> Nat] /\ freq' \in [1 .. n -> Nat] /\ n \in Nat
    BY <1>1, <1>7
  <2>2. freq'[i] = freq[i] + (-1) /\ -1 \in Int
    BY <1>1, <1>7
  <2> QED BY <1>7, <2>1, <2>2, SumChanges
<1>9. Weighed(n)'
  BY <1>1, <1>5, <1>7 DEF Weighed
<1>10. OneEach(n)'
  <2>1. ~(Total(freq)' < Precision)
    <3>1. Total(freq)' = Total(freq')
      OBVIOUS
    <3> QED BY <1>1, <1>3, <1>8, <3>1
  <2> QED BY <2>1 DEF OneEach
<1> HIDE DEF T
<1>11. NotOver(n)'
  <2>1. ASSUME NEW k \in 1 .. n PROVE freq'[k] * T - weights[k] * Precision < 2 * T
    <3>1. freq'[k] \in Nat /\ freq[k] \in Nat /\ T \in Nat /\ freq'[k] <= freq[k]
      <4>1. freq'[k] \in Nat /\ freq[k] \in Nat /\ T \in Nat
        BY <1>1, <1>2, <1>7
      <4>2. CASE k = i
        BY <1>7, <4>1, <4>2
      <4>3. CASE k # i
        BY <1>7, <4>1, <4>3
      <4> QED BY <4>1, <4>2, <4>3
    <3>2. freq'[k] * T <= freq[k] * T /\ freq'[k] * T \in Nat /\ freq[k] * T \in Nat
      BY <3>1, MulMono
    <3>3. weights[k] * Precision \in Nat
      BY <1>1
    <3>4. freq[k] * T - weights[k] * Precision < 2 * T
      BY DEF NotOver, Surplus, Share, T
    <3> DEFINE a == freq'[k] * T
               b == freq[k] * T
               p == weights[k] * Precision
    <3>5. a \in Nat /\ b \in Nat /\ p \in Nat /\ a <= b /\ b - p < 2 * T
      BY <3>2, <3>3, <3>4
    <3> HIDE DEF a, b, p
    <3>6. a - p < 2 * T
      BY <3>1, <3>5
    <3> QED BY <3>6 DEF a, p
  <2>2. Total(weights)' = T
    BY <1>5 DEF T
  <2> QED BY <1>5, <2>1, <2>2 DEF NotOver, Surplus, Share
<1>12. HeavierHasMore(n)'
  <2>1. ASSUME NEW j \in 1 .. n, NEW k \in 1 .. n, weights[j] > weights[k]
        PROVE  freq'[j] >= freq'[k] - 1
    <3>1. freq[j] \in Nat /\ freq[k] \in Nat /\ freq'[j] \in Nat /\ freq'[k] \in Nat /\ j # k
      BY <1>1, <1>7, <2>1
    <3>2. freq[j] >= freq[k] - 1
      BY <2>1 DEF HeavierHasMore
    <3>3. CASE j # i
      BY <1>7, <3>1, <3>2, <3>3
    <3>4. CASE j = i
      <4> SUFFICES ASSUME freq[j] = freq[k] - 1 PROVE FALSE
        BY <1>7, <3>1, <3>2, <3>4
      <4>1. freq[k] = freq[j] + 1 /\ freq[k] > 1
        BY <1>6, <3>1, <3>4
      <4>2. Surplus(j) >= Surplus(k)
        <5>1. Surplus(j) \in Int /\ Surplus(k) \in Int
          BY <1>1, SurplusInt
        <5>2. k \in Symbols
          BY <1>1 DEF Symbols
        <5>3. Surplus(j) > Surplus(k) \/ Surplus(j) = Surplus(k)
          BY <1>4, <3>4, <4>1, <5>2 DEF Donor
        <5> QED BY <5>1, <5>3
      <4> DEFINE a == freq[j]
                 p == weights[j]
                 q == weights[k]
      <4>3. a \in Nat /\ p \in Nat /\ q \in Nat /\ q <= p
        BY <1>1, <2>1
      <4> DEFINE h == a * T
                 y == p * Precision
                 z == q * Precision
                 u == (a + 1) * T
      <4>4. h - y >= u - z
        BY <4>1, <4>2 DEF Surplus, Share, T
      <4> HIDE DEF a, p, q
      <4>5. z <= y
        BY <1>1, <4>3, MulMono
      <4>6. u = h + T /\ h \in Nat /\ y \in Nat /\ z \in Nat
        BY <1>1, <1>2, <4>3
      <4> HIDE DEF h, y, z, u
      <4> QED BY <1>2, <4>4, <4>5, <4>6
    <3> QED BY <3>3, <3>4
  <2> QED BY <1>5, <2>1 DEF HeavierHasMore
<1> QED BY <1>9, <1>10, <1>11, <1>12

(* The inductive invariant of the tables (quantizeFreqs of protocol/rans.ts). *)
THEOREM TablesInvariant == TablesSpec => []TablesInv
<1>1. TablesInit => TablesInv
  BY DEF TablesInit, TablesInv
<1>2. TablesInv /\ [TablesNext]_tableVars => TablesInv'
  <2> SUFFICES ASSUME TablesInv, [TablesNext]_tableVars PROVE TablesInv'
    OBVIOUS
  <2>1. ASSUME NEW n \in 1 .. MaxSymbols, NEW w \in [1 .. n -> 1 .. MaxWeight], Quantize(w)
        PROVE  TablesInv'
    BY <2>1, TablesQuantize DEF TablesInv
  <2>2. CASE HandOut
    <3>1. PICK n \in 1 .. MaxSymbols : Weighed(n) /\ OneEach(n)
      BY <2>2 DEF TablesInv, HandOut
    <3> QED BY <2>2, <3>1, TablesHandOut DEF TablesInv
  <2>3. CASE TakeBack
    <3>1. PICK n \in 1 .. MaxSymbols : Weighed(n) /\ NotOver(n) /\ HeavierHasMore(n)
      BY <2>3 DEF TablesInv, TakeBack
    <3> QED BY <2>3, <3>1, TablesTakeBack DEF TablesInv
  <2>4. CASE UNCHANGED tableVars
    <3>1. weights' = weights /\ freq' = freq /\ handed' = handed
      BY <2>4 DEF tableVars
    <3>2. CASE weights = <<>>
      BY <3>1, <3>2 DEF TablesInv
    <3>3. CASE weights # <<>>
      <4>1. PICK n \in 1 .. MaxSymbols : Weighed(n) /\ OneEach(n) /\ NotOver(n) /\ HeavierHasMore(n)
        BY <3>3 DEF TablesInv
      <4>2. Weighed(n)' /\ HeavierHasMore(n)'
        BY <3>1, <4>1 DEF Weighed, HeavierHasMore
      <4>3. NotOver(n)'
        BY <3>1, <4>1 DEF NotOver, Surplus, Share
      <4>4. Total(freq)' = Total(freq) /\ Rounded(weights)' = Rounded(weights)
        BY <3>1
      <4>5. OneEach(n)'
        BY <3>1, <4>1, <4>4, TurnStays DEF OneEach
      <4> QED BY <4>2, <4>3, <4>5 DEF TablesInv
    <3> QED BY <3>2, <3>3
  <2> QED BY <2>1, <2>2, <2>3, <2>4 DEF TablesNext
<1> QED BY <1>1, <1>2, PTL DEF TablesSpec

LEMMA TablesAreFair == TablesInv => TableFair
<1> SUFFICES ASSUME TablesInv PROVE TableFair
  OBVIOUS
<1>1. CASE weights = <<>>
  BY <1>1 DEF TableFair, Settled
<1>2. CASE weights # <<>>
  <2>1. PICK n \in 1 .. MaxSymbols : Weighed(n) /\ NotOver(n) /\ HeavierHasMore(n)
    BY <1>2 DEF TablesInv
  <2>2. /\ Symbols = 1 .. n /\ freq \in [1 .. n -> Nat \ {0}] /\ freq \in [1 .. n -> Nat]
        /\ n \in Nat /\ n <= Precision /\ Precision \in Nat
    BY <2>1, RansTablesAssumption DEF Weighed, Symbols
  <2>3. ASSUME Total(freq) > Precision PROVE \E i \in Symbols : freq[i] > 1
    <3> SUFFICES ASSUME \A i \in 1 .. n : ~(freq[i] > 1) PROVE FALSE
      BY <2>2
    <3>1. \A i \in 1 .. n : freq[i] <= 1
      BY <2>2
    <3>2. Total(freq) <= n /\ Total(freq) \in Nat
      BY <2>2, <3>1, SumOfOnes, SumsAre
    <3> QED BY <2>2, <2>3, <3>2
  <2>4. \A i \in Symbols : freq[i] >= 1
    BY <2>2
  <2> QED BY <2>1, <2>2, <2>3, <2>4 DEF TableFair, NotOver, HeavierHasMore
<1> QED BY <1>1, <1>2

(***************************************************************************)
(* For every precision, all weights and any number of symbols the          *)
(* precision has slots for: the corrections of quantizeFreqs never lack a  *)
(* symbol to take a slot from, and the table they end with gives every     *)
(* symbol a slot, none two over its share, and none more than one over a   *)
(* heavier symbol.                                                         *)
(***************************************************************************)
THEOREM TablesKeepShares == TablesSpec => []TableFair
  BY TablesInvariant, TablesAreFair, PTL

(* The sums never fall. *)
LEMMA SumsGrow ==
  ASSUME NEW n \in Nat, NEW s \in [1 .. n -> Nat], NEW i \in 0 .. n, NEW j \in 0 .. n, i <= j
  PROVE  Sums(s)[i] <= Sums(s)[j]
<1> DEFINE f == Sums(s)
           S == {k \in 0 .. n : i <= k => f[i] <= f[k]}
<1>1. f \in [0 .. n -> Nat] /\ f[0] = 0 /\ \A k \in 1 .. n : f[k] = f[k - 1] + s[k]
  BY SumsAre
<1> HIDE DEF f
<1>2. 0 \in S
  <2>1. i <= 0 => i = 0
    OBVIOUS
  <2> QED BY <1>1, <2>1
<1>3. ASSUME NEW k \in 0 .. n - 1, k \in S PROVE k + 1 \in S
  <2>1. k + 1 \in 1 .. n /\ k \in 0 .. n /\ k + 1 \in 0 .. n /\ (k + 1) - 1 = k
    OBVIOUS
  <2>2. f[i] \in Nat /\ f[k] \in Nat /\ s[k + 1] \in Nat
    BY <1>1, <2>1
  <2>3. f[k + 1] = f[k] + s[k + 1]
    <3>1. f[k + 1] = f[(k + 1) - 1] + s[k + 1]
      BY <1>1, <2>1, Zenon
    <3> QED BY <2>1, <3>1, Zenon
  <2>4. i <= k => f[i] <= f[k]
    BY <1>3
  <2>5. CASE i <= k
    BY <2>1, <2>2, <2>3, <2>4, <2>5
  <2>6. CASE ~(i <= k)
    <3>1. i <= k + 1 => i = k + 1
      BY <2>6
    <3>2. f[k + 1] \in Nat
      BY <1>1, <2>1
    <3> QED BY <2>1, <3>1, <3>2
  <2> QED BY <2>5, <2>6
<1> HIDE DEF S
<1>4. j \in S
  BY <1>2, <1>3, OneByOne
<1> QED BY <1>4 DEF S, f

(***************************************************************************)
(* What the coder asks of a table (the assumption of Rans) buildRansTable  *)
(* delivers for every column of weights, at a precision that divides the   *)
(* coder's interval as the code's RANS_M does RANS_L.                      *)
(***************************************************************************)
THEOREM TablesCode ==
  ASSUME Precision \in 1 .. WordBase, \E k \in 1 .. L : L = k * Precision
  PROVE  TablesSpec => [](Settled => Coding(BuildRansTable(freq), Precision))
<1>1. TablesInv => (Settled => Coding(BuildRansTable(freq), Precision))
  <2> SUFFICES ASSUME TablesInv, Settled PROVE Coding(BuildRansTable(freq), Precision)
    OBVIOUS
  <2>1. PICK n \in 1 .. MaxSymbols : Weighed(n)
    BY DEF TablesInv, Settled
  <2>2. /\ n \in Nat /\ n \in 1 .. Precision /\ freq \in [1 .. n -> Nat \ {0}]
        /\ freq \in [1 .. n -> Nat]
    BY <2>1, RansTablesAssumption DEF Weighed
  <2> DEFINE f == Sums(freq)
             table == BuildRansTable(freq)
  <2>3. /\ f \in [0 .. n -> Nat] /\ \A k \in 1 .. n : f[k] = f[k - 1] + freq[k]
        /\ f[n] = Precision
    BY <2>2, SumsAre DEF Settled
  <2>4. \A i, j \in 0 .. n : i <= j => f[i] <= f[j]
    BY <2>2, SumsGrow
  <2>5. table.freq = freq /\ DOMAIN table.freq = 1 .. n /\ \A i \in 1 .. n : table.cum[i] = f[i - 1]
    BY <2>2 DEF BuildRansTable
  <2> HIDE DEF f, table
  <2>6. ASSUME NEW i \in 1 .. n
        PROVE  /\ freq[i] \in Nat \ {0} /\ table.cum[i] \in Nat /\ i - 1 \in 0 .. n /\ i \in 0 .. n
               /\ table.cum[i] + freq[i] = f[i]
    <3>1. i - 1 \in 0 .. n /\ i \in 0 .. n
      OBVIOUS
    <3> QED BY <2>2, <2>3, <2>5, <3>1
  <2>7. ASSUME NEW i \in 1 .. n PROVE table.cum[i] + freq[i] <= Precision
    <3>1. f[i] <= f[n]
      <4>1. n \in 0 .. n /\ i <= n
        BY <2>2
      <4> QED BY <2>4, <2>6, <4>1
    <3> QED BY <2>3, <2>6, <3>1
  <2>8. ASSUME NEW i \in 1 .. n, NEW j \in 1 .. n, i < j PROVE table.cum[i] + freq[i] <= table.cum[j]
    <3>1. f[i] <= f[j - 1]
      <4>1. i <= j - 1
        BY <2>8
      <4> QED BY <2>4, <2>6, <4>1
    <3> QED BY <2>5, <2>6, <3>1
  <2>9. 1 .. n \subseteq 1 .. Precision
    BY <2>2
  <2>10. Coding(table, Precision)
    BY <2>5, <2>6, <2>7, <2>8, <2>9, Zenon DEF Coding
  <2> QED BY <2>10 DEF table
<1> QED BY <1>1, TablesInvariant, PTL

-----------------------------------------------------------------------------
(***************************************************************************)
(* The cloud band.  Of the numbered there is a first among the highest:    *)
(* the wettest level of a layer, the worst hour of a period.               *)
(***************************************************************************)
Tops(S, v, m) == m \in S /\ \A j \in S : v[m] > v[j] \/ (v[m] = v[j] /\ m <= j)

LEMMA SomeTops ==
  ASSUME NEW n \in Nat, NEW S \in SUBSET (1 .. n), S # {}, NEW v, \A i \in S : v[i] \in Int
  PROVE  \E m \in S : Tops(S, v, m)
<1> DEFINE upTo(k) == S \intersect (1 .. k)
           good == {k \in 0 .. n : upTo(k) = {} \/ \E m \in S : Tops(upTo(k), v, m)}
<1>1. 0 \in good
  OBVIOUS
<1>2. ASSUME NEW k \in 0 .. n - 1, k \in good PROVE k + 1 \in good
  <2>1. k + 1 \in 0 .. n /\ k + 1 \in 1 .. n
    OBVIOUS
  <2>2. CASE k + 1 \notin S
    <3>1. upTo(k + 1) = upTo(k)
      BY <2>2
    <3> QED BY <1>2, <2>1, <3>1
  <2>3. CASE k + 1 \in S /\ upTo(k) = {}
    <3>1. upTo(k + 1) = {k + 1}
      BY <2>3
    <3>2. Tops(upTo(k + 1), v, k + 1)
      BY <3>1, <2>3 DEF Tops
    <3> QED BY <2>1, <2>3, <3>2
  <2>4. CASE k + 1 \in S /\ upTo(k) # {}
    <3>1. PICK m \in S : Tops(upTo(k), v, m)
      BY <1>2, <2>4
    <3>2. m \in upTo(k) /\ m < k + 1
      BY <3>1 DEF Tops
    <3>3. upTo(k + 1) = upTo(k) \union {k + 1} /\ \A j \in upTo(k + 1) : v[j] \in Int /\ j \in Int
      BY <2>4
    <3>4. \A j \in upTo(k) : v[m] > v[j] \/ (v[m] = v[j] /\ m <= j)
      BY <3>1 DEF Tops
    <3> DEFINE before == upTo(k)
               now == upTo(k + 1)
    <3> HIDE DEF before, now
    <3>5. CASE v[m] >= v[k + 1]
      <4>1. ASSUME NEW j \in now PROVE v[m] > v[j] \/ (v[m] = v[j] /\ m <= j)
        BY <3>2, <3>3, <3>4, <3>5 DEF before, now
      <4>2. Tops(now, v, m)
        BY <3>2, <3>3, <4>1 DEF Tops, before, now
      <4> QED BY <2>1, <4>2 DEF now
    <3>6. CASE v[m] < v[k + 1]
      <4>1. ASSUME NEW j \in now PROVE v[k + 1] > v[j] \/ (v[k + 1] = v[j] /\ k + 1 <= j)
        <5>1. v[m] \in Int /\ v[j] \in Int /\ v[k + 1] \in Int
          BY <2>4, <3>3 DEF now
        <5>2. CASE j = k + 1
          BY <5>1, <5>2
        <5>3. CASE j # k + 1
          <6>1. v[m] >= v[j]
            BY <3>3, <3>4, <5>1, <5>3 DEF now
          <6> QED BY <3>6, <5>1, <6>1
        <5> QED BY <5>2, <5>3
      <4>2. k + 1 \in now
        BY <3>3 DEF now
      <4>3. Tops(now, v, k + 1)
        BY <4>1, <4>2 DEF Tops
      <4> QED BY <2>1, <2>4, <4>3 DEF now
    <3>7. v[m] >= v[k + 1] \/ v[m] < v[k + 1]
      <4>1. v[m] \in Int /\ v[k + 1] \in Int
        BY <2>4
      <4> QED BY <4>1
    <3> QED BY <3>5, <3>6, <3>7
  <2> QED BY <2>2, <2>3, <2>4
<1> HIDE DEF good
<1>3. \A k \in 0 .. n : k \in good
  BY <1>1, <1>2, OneByOne
<1>4. n \in good
  BY <1>3
<1>5. upTo(n) = S
  BY S \subseteq 1 .. n
<1> QED BY <1>4, <1>5 DEF good

LEMMA MaxIsOne ==
  ASSUME NEW n \in Nat, NEW S \in SUBSET (1 .. n), S # {}, NEW v, \A i \in S : v[i] \in Int,
         NEW T, T = {v[i] : i \in S}
  PROVE  Max(T) \in T /\ \A t \in T : t <= Max(T)
<1>1. PICK m \in S : Tops(S, v, m)
  BY SomeTops
<1>2. v[m] \in T /\ \A t \in T : v[m] >= t
  BY <1>1 DEF Tops
<1>3. Max(T) \in T /\ \A t \in T : Max(T) >= t
  BY <1>2 DEF Max
<1> QED BY <1>3

-----------------------------------------------------------------------------
(* A cover is a step of the message from eight percent up. *)
LEMMA Steps ==
  ASSUME NEW y \in Int
  PROVE  /\ QuantCover(y) \in 0 .. 7
         /\ QuantCover(y) > 0 <=> y >= 8
         /\ ClampTo(y, 0, 100) \in Int
         /\ ClampTo(y, 0, 100) >= 8 <=> y >= 8
  BY DEF QuantCover, ClampTo

LEMMA FirstFew ==
  ASSUME NEW n \in Nat
  PROVE  Cardinality(1 .. n) = n /\ \A S \in SUBSET (1 .. n) : IsFiniteSet(S) /\ Cardinality(S) \in Nat
<1>1. IsFiniteSet(1 .. n) /\ Cardinality(1 .. n) = n
  BY FS_Interval
<1> QED BY <1>1, FS_Subset, FS_CardinalityType

LEMMA SpreadIsWhole == ASSUME NEW cover \in Int, NEW m \in Nat PROVE Spread(cover, m) \in Int
<1> DEFINE steps == {s \in 1 .. 7 : (100 - cover) * 14^m <= 100 * (15 - 2 * s)^m}
<1>1. PICK n \in Nat : n = 7
  OBVIOUS
<1>2. SpreadStep(cover, m) = Cardinality(steps)
  BY DEF SpreadStep
<1>3. steps \in SUBSET (1 .. n)
  BY <1>1
<1> HIDE DEF steps
<1>4. SpreadStep(cover, m) \in Nat
  BY <1>2, <1>3, FirstFew
<1> QED BY <1>4 DEF Spread, CoverOf

(* What is carried: from at most the third level on, below the lowest that
   high cloud is reported on. *)
LEMMA Run ==
  ASSUME NEW e \in Int, e <= 9000
  PROVE  /\ CloudRun(e).start \in 0 .. 2
         /\ CloudRun(e).count \in Int
         /\ CloudRun(e).start + CloudRun(e).count \in 5 .. 10
<1> DEFINE over == {i \in DOMAIN LevelMetres : LevelMetres[i] > QuantElevation(e)}
           bottom == ClampTo(Cardinality(over) + 2, 0, Len(LevelMetres))
<1>1. QuantElevation(e) \in Int /\ QuantElevation(e) <= 9000
  BY DEF QuantElevation, ClampTo, ElevationStep
<1>2. DOMAIN LevelMetres = 1 .. 10 /\ Len(LevelMetres) = 10
  BY DEF LevelMetres
<1>3. LevelMetres[1] = 11784 /\ LevelMetres[2] = 10363 /\ LevelMetres[3] = 9164
  BY DEF LevelMetres
<1>4. 1 .. 3 \subseteq over
  <2>1. ASSUME NEW i \in 1 .. 3 PROVE LevelMetres[i] > 9000
    <3>1. i = 1 \/ i = 2 \/ i = 3
      OBVIOUS
    <3> QED BY <3>1, <1>3
  <2>2. \A i \in 1 .. 3 : LevelMetres[i] \in Int
    <3>1. \A i \in 1 .. 3 : i = 1 \/ i = 2 \/ i = 3
      OBVIOUS
    <3> QED BY <3>1, <1>3
  <2> QED BY <1>1, <1>2, <2>1, <2>2
<1>a. over \in SUBSET (1 .. 10)
  BY <1>2
<1>b. bottom = ClampTo(Cardinality(over) + 2, 0, 10)
  BY <1>2
<1>c. CloudRun(e) = [start |-> ClampTo(bottom - MinLevels, 0, CapIndex),
                     count |-> bottom - ClampTo(bottom - MinLevels, 0, CapIndex)]
  BY DEF CloudRun
<1> HIDE DEF over, bottom
<1>d. PICK n \in Nat : n = 10
  OBVIOUS
<1>e. PICK k \in Nat : k = 3
  OBVIOUS
<1>5. IsFiniteSet(over) /\ Cardinality(over) \in Nat
  <2>1. over \in SUBSET (1 .. n)
    BY <1>a, <1>d
  <2> QED BY <2>1, FirstFew
<1>6. Cardinality(over) >= 3
  <2>1. 1 .. k \in SUBSET over
    BY <1>4, <1>e
  <2>3. Cardinality(1 .. k) = k
    BY FirstFew
  <2>2. Cardinality(1 .. k) <= Cardinality(over)
    BY <1>5, <2>1, FS_Subset
  <2> QED BY <1>5, <1>e, <2>2, <2>3
<1>7. bottom \in 5 .. 10
  BY <1>5, <1>6, <1>b DEF ClampTo
<1> QED BY <1>7, <1>c DEF ClampTo, MinLevels, CapIndex

LEMMA LevelsAre == Ladders = 1 .. 10 /\ \A l \in Ladders : LayerOf(l) \in Layers /\ (LayerOf(l) = "high" <=> l <= 3)
<1>1. Ladders = 1 .. 10
  BY DEF Ladders, LevelsHPa
<1>2. \A l \in 1 .. 10 : l = 1 \/ l = 2 \/ l = 3 \/ l = 4 \/ l = 5 \/ l = 6 \/ l = 7 \/ l = 8 \/ l = 9 \/ l = 10
  OBVIOUS
<1>3. /\ LevelMetres[1] = 11784 /\ LevelMetres[2] = 10363 /\ LevelMetres[3] = 9164 /\ LevelMetres[4] = 7185
      /\ LevelMetres[5] = 5574 /\ LevelMetres[6] = 4206 /\ LevelMetres[7] = 3012 /\ LevelMetres[8] = 1457
      /\ LevelMetres[9] = 762 /\ LevelMetres[10] = 111
  BY DEF LevelMetres
<1>4. \A l \in 1 .. 10 : LayerOf(l) \in Layers
  BY DEF LayerOf, Layers
<1>5. ASSUME NEW l \in 1 .. 10 PROVE LayerOf(l) = "high" <=> l <= 3
  BY <1>2, <1>3 DEF LayerOf, LowTop, MidTop
<1> QED BY <1>1, <1>4, <1>5

(* What is placed of a layer that has cover lies on members, on one at
   least, and shows wherever it lies. *)
Lit(placed, members) ==
  /\ DOMAIN placed \subseteq members /\ DOMAIN placed # {}
  /\ \A l \in DOMAIN placed : placed[l] \in Int /\ placed[l] >= 8

LEMMA PlaceLights ==
  ASSUME NEW hour, NEW members \in SUBSET Ladders, members # {},
         \A l \in members : hour.level[l].excess \in Int,
         NEW cover \in Int, cover >= 8
  PROVE  Lit(Place(hour, members, cover), members)
<1> DEFINE v == [l \in members |-> hour.level[l].excess]
           rank(l) == Cardinality({j \in members : Outranks(hour, j, l)})
           close == {l \in members : \A j \in members :
                       hour.level[l].excess >= hour.level[j].excess - ScoreWindow}
           shows(n) == QuantCover(Spread(cover, n)) > 0
           fits(n) == /\ n = 1 \/ QuantCover(Spread(cover, n)) > 0
                      /\ \A o \in n + 1 .. Cardinality(close) : QuantCover(Spread(cover, o)) = 0
           k == CHOOSE n \in 1 .. Cardinality(close) : fits(n)
<1>1. PICK ten \in Nat : Ladders = 1 .. ten
  BY LevelsAre
<1>2. members \in SUBSET (1 .. ten) /\ close \in SUBSET (1 .. ten)
  BY <1>1
<1>3. PICK m \in members : Tops(members, v, m)
  <2>1. \A l \in members : v[l] \in Int
    OBVIOUS
  <2> HIDE DEF v
  <2> QED BY <1>2, <2>1, SomeTops
<1>4. {j \in members : Outranks(hour, j, m)} = {}
  <2>1. ASSUME NEW j \in members, Outranks(hour, j, m) PROVE FALSE
    <3>1. hour.level[m].excess > hour.level[j].excess \/ (hour.level[m].excess = hour.level[j].excess /\ m <= j)
      BY <1>3 DEF Tops
    <3>2. j \in Int /\ m \in Int
      BY <1>2
    <3> QED BY <2>1, <3>1, <3>2 DEF Outranks
  <2> QED BY <2>1
<1>5. rank(m) = 0
  BY <1>4, FS_EmptySet
<1>6. m \in close
  <2>1. ASSUME NEW j \in members PROVE hour.level[m].excess >= hour.level[j].excess - ScoreWindow
    <3>1. hour.level[m].excess >= hour.level[j].excess
      BY <1>3 DEF Tops
    <3>2. hour.level[m].excess \in Int /\ hour.level[j].excess \in Int
      OBVIOUS
    <3> QED BY <3>1, <3>2 DEF ScoreWindow
  <2> QED BY <2>1
<1>7. Cardinality(close) \in Nat /\ Cardinality(close) >= 1
  <2> HIDE DEF close
  <2>1. IsFiniteSet(close) /\ Cardinality(close) \in Nat
    BY <1>2, FirstFew
  <2>2. Cardinality(close) # 0
    BY <1>6, <2>1, FS_EmptySet
  <2> QED BY <2>1, <2>2
<1>8. \E n \in 1 .. Cardinality(close) : fits(n)
  <2>1. PICK c \in Nat : c = Cardinality(close) /\ c >= 1
    BY <1>7
  <2> HIDE DEF close
  <2> DEFINE dropped == {d \in 0 .. c - 1 : c - d = 1 \/ shows(c - d)}
  <2>2. dropped \in SUBSET Nat /\ c - 1 \in dropped
    BY <2>1
  <2>3. PICK d \in dropped : \A e \in dropped : d <= e
    <3> HIDE DEF dropped
    <3> QED BY <2>2, LeastNatural
  <2>4. c - d \in 1 .. c /\ (c - d = 1 \/ shows(c - d))
    BY <2>1, <2>3
  <2>5. ASSUME NEW o \in c - d + 1 .. c PROVE QuantCover(Spread(cover, o)) = 0
    <3>1. c - o \in 0 .. c - 1 /\ ~(d <= c - o) /\ c - (c - o) = o /\ o \in Nat
      BY <2>1, <2>4, <2>5
    <3>2. ~shows(o)
      BY <2>3, <3>1
    <3>3. Spread(cover, o) \in Int
      BY <3>1, SpreadIsWhole
    <3>4. QuantCover(Spread(cover, o)) \in 0 .. 7
      BY <3>3, Steps
    <3> QED BY <3>2, <3>4
  <2> QED BY <2>1, <2>4, <2>5
<1>9. k \in 1 .. Cardinality(close) /\ fits(k)
  <2> HIDE DEF fits, close
  <2> QED BY <1>8
<1>10. Place(hour, members, cover) = [l \in {j \in members : rank(j) < k} |-> Spread(cover, k)]
  BY Zenon DEF Place
<1> HIDE DEF k
<1>11. k \in Nat /\ k >= 1
  <2> HIDE DEF close, fits
  <2> QED BY <1>7, <1>9
<1>12. Spread(cover, k) \in Int /\ Spread(cover, k) >= 8
  <2>1. Spread(cover, k) \in Int
    BY <1>11, SpreadIsWhole
  <2>2. CASE k = 1
    BY <2>2 DEF Spread
  <2>3. CASE k # 1
    <3>1. QuantCover(Spread(cover, k)) > 0
      BY <1>9, <2>3
    <3> QED BY <2>1, <3>1, Steps
  <2> QED BY <2>1, <2>2, <2>3
<1> DEFINE levels == {j \in members : rank(j) < k}
<1>13. m \in levels /\ levels \subseteq members
  <2> HIDE DEF rank
  <2> QED BY <1>5, <1>11
<1> HIDE DEF levels
<1>14. Place(hour, members, cover) = [l \in levels |-> Spread(cover, k)]
  BY <1>10 DEF levels
<1> QED BY <1>12, <1>13, <1>14 DEF Lit

(* An hour's readings and its layers' covers are numbers, where there are any. *)
Hourly(hour) ==
  /\ \A l \in Ladders : hour.level[l] # Unset => hour.level[l].excess \in Int /\ hour.level[l].cover \in Int
  /\ \A b \in Layers : hour.layer[b] \in Int \union {Unset}

Covers(placed, members) == DOMAIN placed \subseteq members /\ \A l \in DOMAIN placed : placed[l] \in Int

LEMMA PlacedCovers ==
  ASSUME NEW hour, Hourly(hour), NEW e \in Int, NEW b \in Layers
  PROVE  /\ Covers(Placed(hour, e, b), Members(hour, e, b))
         /\ /\ hour.layer[b] # Unset /\ QuantCover(hour.layer[b]) > 0 /\ Members(hour, e, b) # {}
            => \/ \E l \in Members(hour, e, b) : l \in DOMAIN Placed(hour, e, b) /\ Placed(hour, e, b)[l] >= 8
               \/ /\ b # "high" /\ DOMAIN Placed(hour, e, b) = {}
                  /\ \E l \in Members(hour, e, b) : hour.level[l].cover >= 8
         /\ b = "high" /\ hour.layer[b] # Unset /\ QuantCover(hour.layer[b]) = 0
            => \A l \in Members(hour, e, b) : l \in DOMAIN Placed(hour, e, b) /\ Placed(hour, e, b)[l] = 0
<1> DEFINE members == Members(hour, e, b)
           cover == ClampTo(hour.layer[b], 0, 100)
           none == [l \in {} |-> 0]
           lit == IF QuantCover(cover) = 0 THEN none ELSE Place(hour, members, cover)
           P == Placed(hour, e, b)
<1>1. /\ members \in SUBSET Ladders
      /\ \A l \in members : hour.level[l].excess \in Int /\ hour.level[l].cover \in Int
  BY DEF Members, Hourly
<1>2. P = IF members = {} \/ hour.layer[b] = Unset THEN none
          ELSE IF b = "high" THEN [l \in members |-> IF l \in DOMAIN lit THEN lit[l] ELSE 0]
          ELSE IF \E l \in members : QuantCover(hour.level[l].cover) > 0 THEN none ELSE lit
  BY Zenon DEF Placed
<1> HIDE DEF P, members
<1>3. ASSUME hour.layer[b] # Unset
      PROVE  /\ hour.layer[b] \in Int /\ cover \in Int
             /\ QuantCover(cover) > 0 <=> QuantCover(hour.layer[b]) > 0
             /\ QuantCover(cover) > 0 <=> cover >= 8
             /\ QuantCover(cover) = 0 <=> ~(QuantCover(cover) > 0)
             /\ QuantCover(hour.layer[b]) = 0 <=> ~(QuantCover(hour.layer[b]) > 0)
  <2>1. hour.layer[b] \in Int
    BY <1>3 DEF Hourly
  <2>2. PICK y \in Int : y = hour.layer[b]
    BY <2>1
  <2>3. PICK z \in Int : z = ClampTo(y, 0, 100)
    BY Steps
  <2> QED BY <2>2, <2>3, Steps
<1> DEFINE Shows == hour.layer[b] # Unset /\ QuantCover(hour.layer[b]) > 0 /\ members # {}
           Shown == \/ \E l \in members : l \in DOMAIN P /\ P[l] >= 8
                    \/ /\ b # "high" /\ DOMAIN P = {}
                       /\ \E l \in members : hour.level[l].cover >= 8
           AllClear == b = "high" /\ hour.layer[b] # Unset /\ QuantCover(hour.layer[b]) = 0
           Cleared == \A l \in members : l \in DOMAIN P /\ P[l] = 0
<1> SUFFICES Covers(P, members) /\ (Shows => Shown) /\ (AllClear => Cleared)
  BY DEF P, members
<1>4. CASE members = {} \/ hour.layer[b] = Unset
  <2>1. P = none
    BY <1>2, <1>4
  <2> QED BY <1>4, <2>1 DEF Covers
<1>5. ASSUME hour.layer[b] # Unset, QuantCover(cover) = 0 PROVE lit = none /\ ~Shows
  BY <1>3, <1>5
<1>6. ASSUME members # {}, hour.layer[b] # Unset, QuantCover(cover) # 0 PROVE Lit(lit, members) /\ ~AllClear
  <2>1. cover \in Int /\ cover >= 8 /\ ~AllClear
    BY <1>3, <1>6
  <2>2. lit = Place(hour, members, cover)
    BY <1>6
  <2> HIDE DEF cover, lit, AllClear
  <2> QED BY <1>1, <1>6, <2>1, <2>2, PlaceLights
<1> HIDE DEF lit, cover
<1>7. CASE members # {} /\ hour.layer[b] # Unset /\ b = "high"
  <2>1. DOMAIN P = members /\ \A l \in members : P[l] = IF l \in DOMAIN lit THEN lit[l] ELSE 0
    BY <1>2, <1>7
  <2>2. CASE QuantCover(cover) = 0
    <3>1. \A l \in members : P[l] = 0
      BY <1>5, <1>7, <2>1, <2>2
    <3> HIDE DEF Shows
    <3> QED BY <1>5, <1>7, <2>1, <2>2, <3>1 DEF Covers
  <2>3. CASE QuantCover(cover) # 0
    <3>1. Lit(lit, members) /\ ~AllClear
      BY <1>6, <1>7, <2>3
    <3>2. PICK l \in members : l \in DOMAIN lit
      BY <3>1 DEF Lit
    <3>3. Shown
      BY <2>1, <3>1, <3>2 DEF Lit
    <3>4. Covers(P, members)
      BY <2>1, <3>1 DEF Covers, Lit
    <3> QED BY <3>1, <3>3, <3>4
  <2> QED BY <2>2, <2>3
<1>8. CASE members # {} /\ hour.layer[b] # Unset /\ b # "high"
  <2>1. CASE \E l \in members : QuantCover(hour.level[l].cover) > 0
    <3>1. DOMAIN P = {}
      BY <1>2, <1>8, <2>1
    <3>2. \E l \in members : hour.level[l].cover >= 8
      BY <1>1, <2>1, Steps
    <3> QED BY <1>8, <3>1, <3>2 DEF Covers
  <2>2. CASE ~\E l \in members : QuantCover(hour.level[l].cover) > 0
    <3>1. P = lit
      BY <1>2, <1>8, <2>2
    <3>2. CASE QuantCover(cover) = 0
      <4>1. DOMAIN P = {} /\ ~Shows
        BY <1>5, <1>8, <3>1, <3>2
      <4> QED BY <1>8, <4>1 DEF Covers
    <3>3. CASE QuantCover(cover) # 0
      <4>1. Lit(P, members)
        BY <1>6, <1>8, <3>1, <3>3
      <4>2. PICK l \in members : l \in DOMAIN P
        BY <4>1 DEF Lit
      <4>3. Shown /\ Covers(P, members)
        BY <4>1, <4>2 DEF Lit, Covers
      <4> QED BY <1>8, <4>3
    <3> QED BY <3>2, <3>3
  <2> QED BY <2>1, <2>2
<1> QED BY <1>4, <1>7, <1>8

-----------------------------------------------------------------------------
(* A level of the filled hour is what its own layer placed there, or what
   was diagnosed. *)
Filled(hour, e, l) ==
  IF l \in DOMAIN Placed(hour, e, LayerOf(l)) THEN Placed(hour, e, LayerOf(l))[l]
  ELSE IF hour.level[l] = Unset THEN Unset ELSE hour.level[l].cover

LEMMA LevelFilled ==
  ASSUME NEW hour, NEW e, NEW l \in Ladders
  PROVE  FillCloudBand(hour, e)[l] = Filled(hour, e, l)
<1>1. LayerOf(l) \in Layers
  BY LevelsAre
<1>2. [b \in Layers |-> Placed(hour, e, b)][LayerOf(l)] = Placed(hour, e, LayerOf(l))
  BY <1>1
<1> QED BY <1>2 DEF FillCloudBand, Filled

(* The worst hour is one of those served, and at least as bad as each. *)
LEMMA WorstIsOne ==
  ASSUME NEW hours, NEW n \in Nat, DOMAIN hours = 1 .. n, NEW l,
         \A i \in 1 .. n : hours[i][l] \in Int \union {Unset}
  PROVE  \A i \in 1 .. n : hours[i][l] # Unset =>
           /\ WorstHour(hours, l) \in Int /\ WorstHour(hours, l) # Unset
           /\ hours[i][l] <= WorstHour(hours, l)
           /\ \E j \in 1 .. n : hours[j][l] = WorstHour(hours, l)
<1> SUFFICES ASSUME NEW i \in 1 .. n, hours[i][l] # Unset
             PROVE  /\ WorstHour(hours, l) \in Int /\ WorstHour(hours, l) # Unset
                    /\ hours[i][l] <= WorstHour(hours, l)
                    /\ \E j \in 1 .. n : hours[j][l] = WorstHour(hours, l)
  OBVIOUS
<1> DEFINE S == {j \in 1 .. n : hours[j][l] # Unset}
           v == [j \in S |-> hours[j][l]]
           T == {v[j] : j \in S}
           served == {hours[j][l] : j \in DOMAIN hours} \ {Unset}
<1>1. S \in SUBSET (1 .. n) /\ i \in S /\ \A j \in S : v[j] \in Int
  OBVIOUS
<1>2. T = served
  OBVIOUS
<1>3. v[i] = hours[i][l] /\ v[i] \in T /\ \A t \in T : t \in Int /\ t # Unset /\ \E j \in 1 .. n : hours[j][l] = t
  BY AirsAssumption
<1>4. WorstHour(hours, l) = Max(T)
  <2>1. served # {}
    BY <1>2, <1>3
  <2> QED BY <1>2, <2>1, Zenon DEF WorstHour
<1> HIDE DEF S, v, T, served
<1>5. Max(T) \in T /\ \A t \in T : t <= Max(T)
  <2>1. T = {v[j] : j \in S}
    BY DEF T
  <2> QED BY <1>1, <2>1, MaxIsOne
<1> QED BY <1>3, <1>4, <1>5

LEMMA RepairKeeps ==
  ASSUME NEW vals, NEW l \in Ladders, vals[l] # Unset PROVE RepairCloudBand(vals)[l] = vals[l]
  BY DEF RepairCloudBand

-----------------------------------------------------------------------------
Worst == [l \in Ladders |-> WorstHour(filled, l)]

CloudInv ==
  /\ clouds # "idle" => air \in Airs
  /\ clouds \in {"filled", "done"} =>
       filled = [i \in DOMAIN air.hours |-> FillCloudBand(air.hours[i], air.elevation)]
  /\ clouds = "done" =>
       band = SubSeq(RepairCloudBand(Worst), CloudRun(air.elevation).start + 1,
                     CloudRun(air.elevation).start + CloudRun(air.elevation).count)

LEMMA CloudInvariant == CloudSpec => []CloudInv
<1>1. CloudInit => CloudInv
  BY DEF CloudInit, CloudInv
<1>2. CloudInv /\ [CloudNext]_cloudVars => CloudInv'
  <2> SUFFICES ASSUME CloudInv, [CloudNext]_cloudVars PROVE CloudInv'
    OBVIOUS
  <2>1. CASE FetchClouds
    BY <2>1 DEF FetchClouds, CloudInv
  <2>2. CASE FillHours
    BY <2>2 DEF FillHours, CloudInv
  <2>3. CASE ToWirePeriod
    BY <2>3 DEF ToWirePeriod, CloudInv, Worst
  <2>4. CASE UNCHANGED cloudVars
    BY <2>4 DEF cloudVars, CloudInv, Worst
  <2> QED BY <2>1, <2>2, <2>3, <2>4 DEF CloudNext
<1> QED BY <1>1, <1>2, PTL DEF CloudSpec

(* A carried level served in an hour of the period shows as much as it. *)
CarriedLevel(l) ==
  /\ l \in Ladders
  /\ l \in CloudRun(air.elevation).start + 1 .. CloudRun(air.elevation).start + CloudRun(air.elevation).count

Tells(i, l) ==
  /\ band[l - CloudRun(air.elevation).start] \in Int
  /\ filled[i][l] <= band[l - CloudRun(air.elevation).start]
  /\ \E j \in DOMAIN air.hours : filled[j][l] = band[l - CloudRun(air.elevation).start]

LEMMA HoursAre ==
  ASSUME air \in Airs
  PROVE  /\ air.elevation \in Int /\ air.elevation <= 9000
         /\ \E n \in Nat : DOMAIN air.hours = 1 .. n
         /\ \A i \in DOMAIN air.hours : Hourly(air.hours[i])
<1>1. /\ air.elevation \in Int /\ air.elevation <= 9000
      /\ air.hours \in Seq(Range(air.hours))
      /\ \A i \in DOMAIN air.hours : Hourly(air.hours[i])
  BY AirsAssumption DEF Hourly
<1>2. Len(air.hours) \in Nat /\ DOMAIN air.hours = 1 .. Len(air.hours)
  BY <1>1
<1> QED BY <1>1, <1>2

LEMMA BandTells ==
  ASSUME CloudInv, clouds = "done", NEW i \in DOMAIN air.hours, NEW l, CarriedLevel(l), filled[i][l] # Unset
  PROVE  Tells(i, l)
<1>1. air \in Airs /\ filled = [j \in DOMAIN air.hours |-> FillCloudBand(air.hours[j], air.elevation)]
  BY DEF CloudInv
<1>2. PICK n \in Nat : DOMAIN air.hours = 1 .. n /\ DOMAIN filled = 1 .. n
  BY <1>1, HoursAre
<1>3. PICK e \in Int : e = air.elevation /\ e <= 9000
  BY <1>1, HoursAre
<1>4. l \in Ladders
  BY DEF CarriedLevel
<1>5. ASSUME NEW j \in 1 .. n PROVE filled[j][l] \in Int \union {Unset}
  <2>1. PICK hour : hour = air.hours[j]
    OBVIOUS
  <2>2. Hourly(hour)
    BY <1>1, <1>2, <2>1, HoursAre
  <2>3. filled[j][l] = Filled(hour, e, l)
    BY <1>1, <1>2, <1>3, <1>4, <2>1, LevelFilled
  <2>4. LayerOf(l) \in Layers
    BY <1>4, LevelsAre
  <2>5. Covers(Placed(hour, e, LayerOf(l)), Members(hour, e, LayerOf(l)))
    BY <2>2, <2>4, PlacedCovers
  <2> QED BY <1>4, <2>2, <2>3, <2>5 DEF Filled, Covers, Hourly
<1>6. i \in 1 .. n
  BY <1>2
<1>7. PICK w : w = WorstHour(filled, l)
  OBVIOUS
<1>8. w \in Int /\ w # Unset /\ filled[i][l] <= w /\ \E j \in 1 .. n : filled[j][l] = w
  BY <1>2, <1>5, <1>6, <1>7, WorstIsOne
<1>9. Worst[l] = w
  BY <1>4, <1>7 DEF Worst
<1>10. RepairCloudBand(Worst)[l] = w
  BY <1>4, <1>8, <1>9, RepairKeeps
<1>11. PICK start \in Int, count \in Int : /\ start = CloudRun(e).start /\ count = CloudRun(e).count
                                           /\ start \in 0 .. 2 /\ start + count \in 5 .. 10
  BY <1>3, Run
<1>12. PICK whole : whole = RepairCloudBand(Worst)
  OBVIOUS
<1>13. band = SubSeq(whole, start + 1, start + count)
  BY <1>3, <1>11, <1>12 DEF CloudInv
<1>14. l \in start + 1 .. start + count
  BY <1>3, <1>11 DEF CarriedLevel
<1>15. \A y \in 1 .. (start + count) - (start + 1) + 1 :
         SubSeq(whole, start + 1, start + count)[y] = whole[y + (start + 1) - 1]
  <2> DEFINE S == {whole[y] : y \in start + 1 .. start + count}
  <2>1. \A y \in start + 1 .. start + count : whole[y] \in S
    OBVIOUS
  <2>2. start + 1 \in Int /\ start + count \in Int
    OBVIOUS
  <2> HIDE DEF S
  <2> QED BY <2>1, <2>2, SubSeqProperties
<1>16. /\ l - start \in 1 .. (start + count) - (start + 1) + 1
       /\ (l - start) + (start + 1) - 1 = l
  BY <1>14
<1>17. band[l - start] = w
  BY <1>10, <1>12, <1>13, <1>15, <1>16
<1> QED BY <1>2, <1>3, <1>8, <1>11, <1>17 DEF Tells

(* A level of a layer that shows, in an hour it has cover in, is carried. *)
LEMMA LayerTells ==
  ASSUME CloudInv, clouds = "done", NEW i \in DOMAIN air.hours, NEW b \in Layers, NEW hour, hour = air.hours[i],
         hour.layer[b] # Unset, QuantCover(hour.layer[b]) > 0, Showing(hour, b) # {},
         b # "high" => {l \in Ladders : LayerOf(l) = b /\ hour.level[l] # Unset} = Showing(hour, b)
  PROVE  \E l \in Showing(hour, b) : Step(l) > 0
<1>1. air \in Airs /\ filled[i] = FillCloudBand(hour, air.elevation)
  BY DEF CloudInv
<1>2. PICK e \in Int : e = air.elevation /\ e <= 9000
  BY <1>1, HoursAre
<1>3. Hourly(hour)
  BY <1>1, HoursAre
<1>4. PICK start \in Int, count \in Int : /\ start = CloudRun(e).start /\ count = CloudRun(e).count
                                          /\ start \in 0 .. 2 /\ start + count \in 5 .. 10
  BY <1>2, Run
<1>5. Showing(hour, b) = {l \in Ladders : LayerOf(l) = b /\ hour.level[l] # Unset /\ l \in start + 1 .. start + count}
  BY <1>2, <1>4 DEF Showing
<1>6. Members(hour, e, b) = {l \in Ladders : LayerOf(l) = b /\ hour.level[l] # Unset /\ (b = "high" => l > start)}
  BY <1>4 DEF Members
<1>7. Members(hour, e, b) # {} /\ Members(hour, e, b) \subseteq Showing(hour, b)
  <2>1. CASE b = "high"
    BY <1>4, <1>5, <1>6, <2>1, LevelsAre
  <2>2. CASE b # "high"
    BY <1>5, <1>6, <2>2
  <2> QED BY <2>1, <2>2
<1>8. PICK l \in Members(hour, e, b) :
        \/ l \in DOMAIN Placed(hour, e, b) /\ Placed(hour, e, b)[l] >= 8
        \/ l \notin DOMAIN Placed(hour, e, b) /\ hour.level[l].cover >= 8
  BY <1>3, <1>7, PlacedCovers
<1>9. LayerOf(l) = b /\ l \in Ladders /\ hour.level[l] # Unset /\ l \in Showing(hour, b)
  BY <1>6, <1>7
<1>10. filled[i][l] = Filled(hour, e, l)
  BY <1>1, <1>2, <1>9, LevelFilled
<1>11. Covers(Placed(hour, e, b), Members(hour, e, b))
  BY <1>3, PlacedCovers
<1>12. filled[i][l] \in Int /\ filled[i][l] >= 8
  BY <1>3, <1>8, <1>9, <1>10, <1>11 DEF Filled, Covers, Hourly
<1>13. filled[i][l] # Unset
  BY <1>12, AirsAssumption
<1>14. CarriedLevel(l)
  BY <1>9 DEF CarriedLevel, Showing
<1>15. Tells(i, l)
  BY <1>13, <1>14, BandTells
<1>16. PICK y \in Int : y = band[l - CloudRun(air.elevation).start] /\ y >= 8
  BY <1>12, <1>15 DEF Tells
<1>17. Step(l) > 0
  BY <1>16, Steps DEF Step
<1> QED BY <1>9, <1>17

LEMMA ClearTells ==
  ASSUME CloudInv, clouds = "done",
         \A i \in DOMAIN air.hours :
           air.hours[i].layer["high"] # Unset /\ QuantCover(air.hours[i].layer["high"]) = 0,
         NEW i \in DOMAIN air.hours, NEW l \in Showing(air.hours[i], "high")
  PROVE  Step(l) = 0
<1>1. air \in Airs /\ \A j \in DOMAIN air.hours : filled[j] = FillCloudBand(air.hours[j], air.elevation)
  BY DEF CloudInv
<1>2. PICK e \in Int : e = air.elevation /\ e <= 9000
  BY <1>1, HoursAre
<1>3. PICK start \in Int : start = CloudRun(e).start
  BY <1>2, Run
<1>4. /\ l \in Ladders /\ LayerOf(l) = "high" /\ air.hours[i].level[l] # Unset /\ l > start /\ CarriedLevel(l)
  <2>1. /\ l \in Ladders /\ LayerOf(l) = "high" /\ air.hours[i].level[l] # Unset
        /\ l \in CloudRun(e).start + 1 .. CloudRun(e).start + CloudRun(e).count
    BY <1>2 DEF Showing
  <2>2. l > start
    BY <1>3, <2>1
  <2> QED BY <1>2, <2>1, <2>2 DEF CarriedLevel
<1>5. ASSUME NEW j \in DOMAIN air.hours
      PROVE  filled[j][l] = IF air.hours[j].level[l] = Unset THEN Unset ELSE 0
  <2>1. PICK hour : hour = air.hours[j]
    OBVIOUS
  <2>2. Hourly(hour) /\ "high" \in Layers /\ hour.layer["high"] # Unset /\ QuantCover(hour.layer["high"]) = 0
    BY <1>1, <2>1, HoursAre DEF Layers
  <2>3. filled[j][l] = Filled(hour, e, l)
    BY <1>1, <1>2, <1>4, <2>1, LevelFilled
  <2>4. /\ Covers(Placed(hour, e, "high"), Members(hour, e, "high"))
        /\ \A o \in Members(hour, e, "high") :
             o \in DOMAIN Placed(hour, e, "high") /\ Placed(hour, e, "high")[o] = 0
    BY <2>2, PlacedCovers
  <2>5. l \in Members(hour, e, "high") <=> hour.level[l] # Unset
    BY <1>3, <1>4 DEF Members
  <2> QED BY <1>4, <2>1, <2>3, <2>4, <2>5 DEF Filled, Covers
<1>6. filled[i][l] = 0 /\ filled[i][l] # Unset
  BY <1>4, <1>5, AirsAssumption
<1>7. Tells(i, l)
  BY <1>4, <1>6, BandTells
<1>8. band[l - CloudRun(air.elevation).start] = 0
  <2>1. PICK j \in DOMAIN air.hours : filled[j][l] = band[l - CloudRun(air.elevation).start]
    BY <1>7 DEF Tells
  <2>2. filled[j][l] \in Int /\ filled[j][l] # Unset
    BY <1>7, <2>1, AirsAssumption DEF Tells
  <2> QED BY <1>5, <2>1, <2>2
<1>9. Step(l) = QuantCover(0)
  BY <1>8 DEF Step
<1> QED BY <1>9, Steps

(***************************************************************************)
(* For any hours of readings over any ground: a layer the model reports in *)
(* an hour of the period shows on a carried level, and levels show high    *)
(* cloud only if an hour has some (fillCloudBand, repairCloudBand and the  *)
(* cut of the band in buildLayoutMessage).                                 *)
(***************************************************************************)
THEOREM LayersShow == CloudSpec => []LayerShows
<1>1. CloudInv => LayerShows
  <2> SUFFICES ASSUME CloudInv, clouds = "done" PROVE LayerShows
    BY DEF LayerShows
  <2> QED BY LayerTells, ClearTells DEF LayerShows
<1> QED BY <1>1, CloudInvariant, PTL

-----------------------------------------------------------------------------
(***************************************************************************)
(* The periods.  A day's windows report its extremes where two of them     *)
(* can; where both fall in one, the bound on what any choice of readings   *)
(* misses is what the windows beside it could have patched, and the choice *)
(* reports the better patch.  The code of a window is followed through     *)
(* its families: of which of them its hours had one, and what water.       *)
(***************************************************************************)
(* A set of integers has at most one greatest and one least. *)
LEMMA MaxIs == ASSUME NEW T \in SUBSET Int, NEW a \in T, \A t \in T : t <= a PROVE Max(T) = a
<1>1. \A b \in T : (\A t \in T : b >= t) => b = a
  OBVIOUS
<1>2. Max(T) \in T /\ \A t \in T : Max(T) >= t
  BY DEF Max
<1> QED BY <1>1, <1>2, Zenon
LEMMA MinIs == ASSUME NEW T \in SUBSET Int, NEW a \in T, \A t \in T : a <= t PROVE Min(T) = a
<1>1. \A b \in T : (\A t \in T : b <= t) => b = a
  OBVIOUS
<1>2. Min(T) \in T /\ \A t \in T : Min(T) <= t
  BY DEF Min
<1> QED BY <1>1, <1>2, Zenon

(* What each step has computed. *)
Corrected(s) == [i \in DOMAIN s.hours |-> AdjustPrecipPhase(s.hours[i])]
Summed(s, hours, told) == Covered(s, hours) /\ told = RowsFromWindows(s, hours, WindowsFor(s))
AggregateInv ==
  /\ aggregation # "idle" => sky \in Skies
  /\ aggregation \in {"adjusted", "done"} => adjusted = Corrected(sky)
  /\ aggregation = "done" => Summed(sky, adjusted, rows)

LEMMA AggregateInvariant == AggregateSpec => []AggregateInv
<1>1. AggregateInit => AggregateInv
  BY DEF AggregateInit, AggregateInv
<1>2. AggregateInv /\ [AggregateNext]_aggregateVars => AggregateInv'
  BY DEF AggregateInv, AggregateNext, FetchHourly, Adjust, BuildLayoutMessage, aggregateVars, Corrected, Summed
<1> QED BY <1>1, <1>2, PTL DEF AggregateSpec


(* Windows over n hours, the temperatures of n hours. *)
LaidOver(win, n) == \E c \in Nat : DOMAIN win = 1 .. c /\ \A p \in 1 .. c : \E m \in Nat : win[p] \in [1 .. m -> 1 .. n]
Temps(hours, n) == \A i \in 1 .. n : hours[i].temp \in Int \union {NoReading}

(* A sky's hours, and the windows of its layout. *)
Readings == [temp : Int \union {NoReading}, dew : Int \union {NoReading}, code : Int \union {NoReading},
             rain : Nat, snow : Nat, above : BOOLEAN, gust : Int \union {NoReading}]

LEMMA SequenceOf ==
  ASSUME NEW R, NEW q \in Seq(R)
  PROVE  Len(q) \in Nat /\ DOMAIN q = 1 .. Len(q) /\ \A i \in 1 .. Len(q) : q[i] \in R
  OBVIOUS

LEMMA SkyIs ==
  ASSUME NEW s \in Skies
  PROVE  /\ s.from \in Int /\ s.offset \in Int
         /\ Len(s.hours) \in Nat /\ DOMAIN s.hours = 1 .. Len(s.hours)
         /\ \A i \in 1 .. Len(s.hours) : s.hours[i] \in Readings
         /\ Len(s.starts) \in Nat /\ DOMAIN s.starts = 1 .. Len(s.starts)
         /\ \A p \in 1 .. Len(s.starts) : s.starts[p] \in Int /\ s.lengths[p] \in Int
<1>1. s.from \in Int /\ s.offset \in Int /\ s.hours \in Seq(Readings)
      /\ s.starts \in Seq(Int) /\ s.lengths \in Seq(Int) /\ Len(s.starts) = Len(s.lengths)
  BY SkiesAssumption DEF Readings
<1> QED BY <1>1, SequenceOf

LEMMA WindowsAre ==
  ASSUME NEW s \in Skies
  PROVE  Len(s.hours) \in Nat /\ LaidOver(WindowsFor(s), Len(s.hours)) /\ Temps(s.hours, Len(s.hours))
<1> DEFINE win == WindowsFor(s)
<1>1. PICK n \in Nat : n = Len(s.hours)
  BY SkyIs
<1>2. PICK c \in Nat : DOMAIN s.starts = 1 .. c /\ \A p \in 1 .. c : s.starts[p] \in Int /\ s.lengths[p] \in Int
  BY SkyIs
<1>3. ASSUME NEW p \in 1 .. c PROVE \E m \in Nat : win[p] \in [1 .. m -> 1 .. n]
  <2>1. PICK first \in Int : first = s.starts[p] - s.from + 1
    BY <1>2, SkyIs
  <2>2. PICK last \in Int : last = first + s.lengths[p] - 1
    BY <1>2, <2>1
  <2>3. PICK a \in Int : a = Max({1, first}) /\ 1 <= a
    <3>1. CASE first >= 1
      BY <3>1, MaxIs
    <3>2. CASE first < 1
      BY <3>2, MaxIs
    <3> QED BY <3>1, <3>2
  <2>4. PICK b \in Int : b = Min({n, last}) /\ b <= n
    <3>1. CASE last <= n
      <4>1. Min({n, last}) = last
        BY <3>1, MinIs
      <4> QED BY <1>1, <3>1, <4>1
    <3>2. CASE last > n
      <4>1. Min({n, last}) = n
        BY <3>2, MinIs
      <4> QED BY <1>1, <4>1
    <3> QED BY <3>1, <3>2
  <2>5. win[p] = [k \in 1 .. b - a + 1 |-> a + k - 1]
    BY <1>1, <1>2, <2>1, <2>2, <2>3, <2>4 DEF WindowsFor
  <2>6. \A k \in 1 .. b - a + 1 : a + k - 1 \in 1 .. n
    BY <1>1, <2>3, <2>4
  <2>7. CASE b - a + 1 >= 0
    <3>1. b - a + 1 \in Nat /\ win[p] \in [1 .. b - a + 1 -> 1 .. n]
      BY <2>5, <2>6, <2>7
    <3> QED BY <3>1
  <2>8. CASE b - a + 1 < 0
    <3>1. 1 .. b - a + 1 = 1 .. 0
      BY <2>8
    <3>2. win[p] \in [1 .. 0 -> 1 .. n]
      BY <2>5, <2>6, <3>1
    <3> QED BY <3>2
  <2> QED BY <2>7, <2>8
<1>4. DOMAIN win = 1 .. c
  BY <1>2 DEF WindowsFor
<1> HIDE DEF win
<1>5. \A i \in 1 .. n : s.hours[i].temp \in Int \union {NoReading}
  BY <1>1, SkyIs DEF Readings
<1>6. LaidOver(win, n) /\ Temps(s.hours, n)
  BY <1>3, <1>4, <1>5 DEF LaidOver, Temps
<1> QED BY <1>1, <1>6 DEF win

(* What a window reports is read in it, the coldest or the warmest there. *)
LEMMA Reported ==
  ASSUME NEW n \in Nat, NEW hours, NEW w, NEW m \in Nat, w \in [1 .. m -> 1 .. n], Temps(hours, n), HasData(hours, w)
  PROVE  /\ Readable(hours, w) # {} /\ Readable(hours, w) \subseteq 1 .. n
         /\ \A i \in Readable(hours, w) : hours[i].temp \in Int
         /\ LoAt(hours, w) \in Readable(hours, w)
         /\ \A j \in Readable(hours, w) : hours[LoAt(hours, w)].temp <= hours[j].temp
         /\ HiAt(hours, w) \in Readable(hours, w)
         /\ \A j \in Readable(hours, w) : hours[j].temp <= hours[HiAt(hours, w)].temp
         /\ MidSample(hours, w) \in Readable(hours, w)
<1> DEFINE S == Readable(hours, w)
           warm == [i \in S |-> hours[i].temp]
           cold == [i \in S |-> 0 - hours[i].temp]
           full == {k \in 1 .. m : hours[w[k]].temp # NoReading}
<1>1. ToSet(w) = {w[k] : k \in 1 .. m}
  BY DEF ToSet
<1>2. S # {} /\ S \subseteq 1 .. n /\ full # {} /\ \A k \in full : w[k] \in S
  BY <1>1 DEF HasData, Readable
<1>3. \A i \in S : hours[i].temp \in Int
  BY <1>2 DEF Temps, Readable
<1>4. /\ LoAt(hours, w) = CHOOSE i \in S : \A j \in S :
            hours[i].temp < hours[j].temp \/ (hours[i].temp = hours[j].temp /\ i <= j)
      /\ HiAt(hours, w) = CHOOSE i \in S : \A j \in S :
            hours[i].temp > hours[j].temp \/ (hours[i].temp = hours[j].temp /\ i <= j)
  BY DEF LoAt, HiAt
<1>5. MidSample(hours, w) \in S
  <2> DEFINE mid == Len(w) \div 2 + 1
             away(k) == IF k < mid THEN 2 * (mid - k) - 1 ELSE 2 * (k - mid)
             A == {away(k) : k \in full}
  <2>1. mid \in Nat
    OBVIOUS
  <2>2. \A k \in full : away(k) \in Nat
    BY <2>1
  <2>3. MidSample(hours, w) = w[CHOOSE k \in full : \A j \in full : away(k) <= away(j)]
    BY <1>2 DEF MidSample
  <2> HIDE DEF away, full
  <2>4. \E k \in full : \A j \in full : away(k) <= away(j)
    <3>1. A \in SUBSET Nat /\ A # {}
      BY <1>2, <2>2
    <3>2. \E a \in A : \A b \in A : a <= b
      <4> HIDE DEF A
      <4> QED BY <3>1, LeastNatural
    <3> QED BY <3>2
  <2>5. (CHOOSE k \in full : \A j \in full : away(k) <= away(j)) \in full
    BY <2>4
  <2> QED BY <1>2, <2>3, <2>5
<1> HIDE DEF S, full
<1>6. \E i \in S : \A j \in S : hours[i].temp < hours[j].temp \/ (hours[i].temp = hours[j].temp /\ i <= j)
  <2>1. PICK i \in S : Tops(S, cold, i)
    <3>1. \A j \in S : cold[j] \in Int
      BY <1>3
    <3> QED BY <1>2, <3>1, SomeTops
  <2>2. \A j \in S : cold[i] > cold[j] \/ (cold[i] = cold[j] /\ i <= j)
    BY <2>1 DEF Tops
  <2> QED BY <1>3, <2>2
<1>7. \E i \in S : \A j \in S : hours[i].temp > hours[j].temp \/ (hours[i].temp = hours[j].temp /\ i <= j)
  <2>1. PICK i \in S : Tops(S, warm, i)
    <3>1. \A j \in S : warm[j] \in Int
      BY <1>3
    <3> QED BY <1>2, <3>1, SomeTops
  <2>2. \A j \in S : warm[i] > warm[j] \/ (warm[i] = warm[j] /\ i <= j)
    BY <2>1 DEF Tops
  <2> QED BY <1>3, <2>2
<1>8. LoAt(hours, w) \in S /\ \A j \in S : hours[LoAt(hours, w)].temp <= hours[j].temp
  <2>1. PICK i \in S : i = LoAt(hours, w) /\ \A j \in S :
          hours[i].temp < hours[j].temp \/ (hours[i].temp = hours[j].temp /\ i <= j)
    BY <1>4, <1>6
  <2> QED BY <1>3, <2>1
<1>9. HiAt(hours, w) \in S /\ \A j \in S : hours[j].temp <= hours[HiAt(hours, w)].temp
  <2>1. PICK i \in S : i = HiAt(hours, w) /\ \A j \in S :
          hours[i].temp > hours[j].temp \/ (hours[i].temp = hours[j].temp /\ i <= j)
    BY <1>4, <1>7
  <2> QED BY <1>3, <2>1
<1> QED BY <1>2, <1>3, <1>5, <1>8, <1>9 DEF S


-----------------------------------------------------------------------------
(* How far degrees told of a day's windows, each inside its own, miss a and b. *)
Inside(day, low, high, a, b, g) ==
  \A p \in day : /\ low[p] \in Int /\ high[p] \in Int /\ g[p] \in Int
                 /\ a <= low[p] /\ low[p] <= g[p] /\ g[p] <= high[p] /\ high[p] <= b
Gap(day, g, a, b, m) ==
  \E l, h \in day : (\A q \in day : g[l] <= g[q] /\ g[q] <= g[h]) /\ m = (g[l] - a) + (b - g[h])

(* A day both of whose extremes are told misses nothing. *)
LEMMA NothingMissed ==
  ASSUME NEW day, NEW low, NEW high, NEW a \in Int, NEW b \in Int, NEW g, NEW c, NEW m, NEW k,
         Inside(day, low, high, a, b, g), Inside(day, low, high, a, b, c), Gap(day, g, a, b, m), Gap(day, c, a, b, k),
         NEW p \in day, g[p] = a, NEW q \in day, g[q] = b
  PROVE  m <= k
<1>1. PICK l, h \in day : (\A r \in day : g[l] <= g[r] /\ g[r] <= g[h]) /\ m = (g[l] - a) + (b - g[h])
  BY DEF Gap
<1>2. PICK i, j \in day : (\A r \in day : c[i] <= c[r] /\ c[r] <= c[j]) /\ k = (c[i] - a) + (b - c[j])
  BY DEF Gap
<1>3. g[l] \in Int /\ g[h] \in Int /\ g[l] >= a /\ g[h] <= b /\ g[l] <= a /\ g[h] >= b
  BY <1>1 DEF Inside
<1>4. c[i] \in Int /\ c[j] \in Int /\ c[i] >= a /\ c[j] <= b
  BY DEF Inside
<1> QED BY <1>1, <1>2, <1>3, <1>4

(* A day in one window misses the same whatever it tells. *)
LEMMA OneWindow ==
  ASSUME NEW day, NEW low, NEW high, NEW a \in Int, NEW b \in Int, NEW g, NEW c, NEW m, NEW k,
         Inside(day, low, high, a, b, g), Inside(day, low, high, a, b, c), Gap(day, g, a, b, m), Gap(day, c, a, b, k),
         NEW e \in day, day = {e}
  PROVE  m <= k
<1>1. m = (g[e] - a) + (b - g[e]) /\ k = (c[e] - a) + (b - c[e])
  BY DEF Gap
<1>2. g[e] \in Int /\ c[e] \in Int
  BY DEF Inside
<1> QED BY <1>1, <1>2

(* Both extremes are in e, and of the others none goes past oMin or oMax. *)
LEMMA Patched ==
  ASSUME NEW day, NEW low, NEW high, NEW a \in Int, NEW b \in Int, NEW g, NEW c, NEW m, NEW k,
         Inside(day, low, high, a, b, g), Inside(day, low, high, a, b, c), Gap(day, g, a, b, m), Gap(day, c, a, b, k),
         NEW e \in day, NEW y \in day, y # e, NEW oMin \in Int, NEW oMax \in Int,
         \A q \in day : q # e => oMin <= low[q] /\ high[q] <= oMax,
         \/ g[e] = b /\ g[y] = oMin /\ oMin - a <= b - oMax
         \/ g[e] = a /\ g[y] = oMax /\ b - oMax <= oMin - a
  PROVE  m <= k
<1>1. PICK l, h \in day : (\A r \in day : g[l] <= g[r] /\ g[r] <= g[h]) /\ m = (g[l] - a) + (b - g[h])
  BY DEF Gap
<1>2. PICK i, j \in day : (\A r \in day : c[i] <= c[r] /\ c[r] <= c[j]) /\ k = (c[i] - a) + (b - c[j])
  BY DEF Gap
<1>3. /\ g[l] \in Int /\ g[h] \in Int /\ g[l] >= a /\ g[h] <= b
      /\ g[l] <= g[e] /\ g[e] <= g[h] /\ g[l] <= g[y] /\ g[y] <= g[h]
  BY <1>1 DEF Inside
<1>4. m <= oMin - a /\ m <= b - oMax
  BY <1>1, <1>3
<1>5. c[i] \in Int /\ c[j] \in Int /\ c[i] >= a /\ c[j] <= b
  BY DEF Inside
<1>6. \A q \in day : q # e => oMin <= c[q] /\ c[q] <= oMax
  BY DEF Inside
<1>7. k >= oMin - a \/ k >= b - oMax
  <2>1. CASE i # e
    <3>1. c[i] >= oMin
      BY <1>5, <1>6, <2>1
    <3> QED BY <1>2, <1>5, <3>1
  <2>2. CASE j # e
    <3>1. c[j] <= oMax
      BY <1>5, <1>6, <2>2
    <3> QED BY <1>2, <1>5, <3>1
  <2>3. CASE i = e /\ j = e
    <3>1. c[i] <= c[y] /\ c[y] <= c[j] /\ oMin <= c[y] /\ c[y] \in Int
      BY <1>2, <1>6 DEF Inside
    <3>2. c[i] >= oMin
      BY <1>5, <2>3, <3>1
    <3> QED BY <1>2, <1>5, <3>2
  <2> QED BY <2>1, <2>2, <2>3
<1>8. m \in Int /\ k \in Int
  BY <1>1, <1>2, <1>3, <1>5
<1> QED BY <1>4, <1>7, <1>8

(* The first of some windows is one of them. *)
LEMMA FirstIs ==
  ASSUME NEW n \in Nat, NEW S \in SUBSET (1 .. n), S # {}
  PROVE  First(S) \in S
<1>1. \E p \in S : \A q \in S : p <= q
  BY LeastNatural
<1> QED BY <1>1 DEF First

LEMMA DegreeRises ==
  /\ \A t \in Int : Degree(t) \in Int
  /\ \A t, u \in Int : t <= u => Degree(t) <= Degree(u)
  BY DEF Degree

(* Of numbers told for the windows of a day some are the least and the greatest. *)
LEMMA SomeExtremes ==
  ASSUME NEW n \in Nat, NEW day \in SUBSET (1 .. n), day # {}, NEW f, \A p \in day : f[p] \in Int
  PROVE  \E l, h \in day : \A q \in day : f[l] <= f[q] /\ f[q] <= f[h]
<1> DEFINE up == [p \in day |-> f[p]]
           down == [p \in day |-> 0 - f[p]]
<1>1. (\A p \in day : up[p] \in Int) /\ (\A p \in day : down[p] \in Int)
  OBVIOUS
<1>2. PICK h \in day : Tops(day, up, h)
  BY <1>1, SomeTops
<1>3. PICK l \in day : Tops(day, down, l)
  BY <1>1, SomeTops
<1>4. \A q \in day : f[q] <= f[h]
  BY <1>2 DEF Tops
<1>5. \A q \in day : f[l] <= f[q]
  BY <1>3 DEF Tops
<1> QED BY <1>4, <1>5

(* What a day misses, in the degrees its windows tell. *)
LEMMA MissIs ==
  ASSUME NEW n \in Nat, NEW day \in SUBSET (1 .. n), day # {}, NEW f, \A p \in day : f[p] \in Int,
         NEW temps \in SUBSET Int, NEW t \in temps, NEW u \in temps,
         \A v \in temps : Degree(t) <= Degree(v) /\ Degree(v) <= Degree(u),
         NEW g, \A p \in day : g[p] = Degree(f[p]),
         NEW reported, reported = {f[p] : p \in day}
  PROVE  Gap(day, g, Degree(t), Degree(u), Miss(day, temps, reported))
<1> DEFINE d == {Degree(v) : v \in temps}
           e == {Degree(v) : v \in reported}
<1>1. PICK l, h \in day : \A q \in day : g[l] <= g[q] /\ g[q] <= g[h]
  <2>1. \A p \in day : g[p] \in Int
    BY DegreeRises
  <2> QED BY <2>1, SomeExtremes
<1>2. d \in SUBSET Int /\ Degree(t) \in d /\ Degree(u) \in d /\ \A v \in d : Degree(t) <= v /\ v <= Degree(u)
  BY DegreeRises
<1>3. Min(d) = Degree(t) /\ Max(d) = Degree(u)
  <2> HIDE DEF d
  <2> QED BY <1>2, MinIs, MaxIs
<1>4. e \in SUBSET Int /\ g[l] \in e /\ g[h] \in e /\ \A v \in e : g[l] <= v /\ v <= g[h]
  BY <1>1, DegreeRises
<1>5. Min(e) = g[l] /\ Max(e) = g[h]
  <2> HIDE DEF e
  <2> QED BY <1>4, MinIs, MaxIs
<1>6. Miss(day, temps, reported) = (Min(e) - Min(d)) + (Max(d) - Max(e))
  BY DEF Miss
<1> QED BY <1>1, <1>3, <1>5, <1>6 DEF Gap


-----------------------------------------------------------------------------
(* The choice of a day, told in windows: which report their coldest reading
   and which their warmest. *)
Lo(hours, win, p) == hours[LoAt(hours, win[p])].temp
Hi(hours, win, p) == hours[HiAt(hours, win[p])].temp
LoDegree(hours, win, p) == Degree(Lo(hours, win, p))
HiDegree(hours, win, p) == Degree(Hi(hours, win, p))
Reporting(hours, win, min, max) ==
  [p \in min \union max |-> IF p \in max THEN HiAt(hours, win[p]) ELSE LoAt(hours, win[p])]
Coldest(hours, win, S) == {p \in S : \A q \in S : Lo(hours, win, p) <= Lo(hours, win, q)}
Warmest(hours, win, S) == {p \in S : \A q \in S : Hi(hours, win, p) >= Hi(hours, win, q)}

ColdAt(hours, win, day) == CHOOSE p \in day : \A q \in day : Lo(hours, win, p) <= Lo(hours, win, q)
WarmAt(hours, win, day) == CHOOSE p \in day : \A q \in day : Hi(hours, win, p) >= Hi(hours, win, q)
AtLow(hours, win, day, a) == {p \in day : LoDegree(hours, win, p) = a}
AtHigh(hours, win, day, b) == {p \in day : HiDegree(hours, win, p) = b}

Choosing(hours, win, day, a, b) ==
  LET pMin == AtLow(hours, win, day, a)
      pMax == AtHigh(hours, win, day, b)
      others == day \ pMin
      y == First(Coldest(hours, win, others))
      z == First(Warmest(hours, win, others))
  IN  DayChoice(hours, win, day) =
        IF a = b THEN <<>>
        ELSE IF Cardinality(pMin) > 1 \/ Cardinality(pMax) > 1 \/ pMin # pMax
        THEN Reporting(hours, win, {Apart(pMin, pMax).min}, {Apart(pMin, pMax).max})
        ELSE IF others = {} THEN Reporting(hours, win, {}, pMin)
        ELSE IF LoDegree(hours, win, y) - a <= b - HiDegree(hours, win, z)
        THEN Reporting(hours, win, {y}, pMin) ELSE Reporting(hours, win, pMin, {z})

LEMMA DayChoiceIs ==
  ASSUME NEW hours, NEW win, NEW day,
         NEW a, a = LoDegree(hours, win, ColdAt(hours, win, day)),
         NEW b, b = HiDegree(hours, win, WarmAt(hours, win, day))
  PROVE  Choosing(hours, win, day, a, b)
  BY Zenon DEF DayChoice, Reporting, Coldest, Warmest, Lo, Hi, LoDegree, HiDegree, ColdAt, WarmAt, AtLow, AtHigh,
               Choosing

(* What a window of a day tells. *)
TellsAt(hours, win, day, p) ==
  IF p \in DOMAIN DayChoice(hours, win, day) THEN DayChoice(hours, win, day)[p] ELSE MidSample(hours, win[p])

(* Of a day whose extremes are not both in one window alone, two windows. *)
LEMMA ApartIs ==
  ASSUME NEW n \in Nat, NEW pMin \in SUBSET (1 .. n), NEW pMax \in SUBSET (1 .. n), pMin # {}, pMax # {},
         Cardinality(pMin) > 1 \/ Cardinality(pMax) > 1 \/ pMin # pMax
  PROVE  /\ Apart(pMin, pMax).min \in pMin /\ Apart(pMin, pMax).max \in pMax
         /\ Apart(pMin, pMax).min # Apart(pMin, pMax).max
<1> DEFINE S == IF pMin \ pMax # {} THEN pMin \ pMax ELSE pMin
           pm == First(S)
           T == pMax \ {pm}
<1>1. pm \in S
  <2>1. S \in SUBSET (1 .. n) /\ S # {}
    OBVIOUS
  <2> HIDE DEF S
  <2> QED BY <2>1, FirstIs
<1>2. T # {}
  <2>1. CASE pMin \ pMax # {}
    BY <1>1, <2>1
  <2>2. CASE pMin \subseteq pMax
    <3> SUFFICES ASSUME T = {} PROVE FALSE
      OBVIOUS
    <3>1. pMin = {pm} /\ pMax = {pm}
      BY <1>1, <2>2
    <3>2. Cardinality({pm}) = 1
      <4> HIDE DEF pm
      <4> QED BY FS_Singleton
    <3> QED BY <3>1, <3>2
  <2> QED BY <2>1, <2>2
<1>3. First(T) \in T
  <2>1. T \in SUBSET (1 .. n)
    OBVIOUS
  <2> HIDE DEF T
  <2> QED BY <1>2, <2>1, FirstIs
<1>4. Apart(pMin, pMax) = [min |-> pm, max |-> First(T)]
  BY DEF Apart
<1> HIDE DEF S, T
<1> QED BY <1>1, <1>3, <1>4 DEF S, T


Tellings(hours, win, day, min, max) ==
  \A p \in day : TellsAt(hours, win, day, p) =
    IF p \in max THEN HiAt(hours, win[p]) ELSE IF p \in min THEN LoAt(hours, win[p]) ELSE MidSample(hours, win[p])

LEMMA ReportingTells ==
  ASSUME NEW hours, NEW win, NEW day, NEW min, NEW max, DayChoice(hours, win, day) = Reporting(hours, win, min, max)
  PROVE  Tellings(hours, win, day, min, max)
  BY DEF Tellings, TellsAt, Reporting

ReadingsOf(hours, w) == {hours[i].temp : i \in Readable(hours, w)}

(* No choice of readings of a day comes closer to its extremes than what its
   windows tell. *)
Closest(hours, win, day) ==
  LET temps == UNION {ReadingsOf(hours, win[p]) : p \in day}
  IN  \A c : (\A p \in day : c[p] \in ReadingsOf(hours, win[p])) =>
        Miss(day, temps, {hours[TellsAt(hours, win, day, p)].temp : p \in day})
          <= Miss(day, temps, {c[p] : p \in day})

(* The reading a window tells is its own, and the day's choice the best. *)
LEMMA DayTold ==
  ASSUME NEW n \in Nat, NEW hours, NEW win, LaidOver(win, n), Temps(hours, n),
         NEW day \in SUBSET DOMAIN win, day # {}, \A p \in day : HasData(hours, win[p])
  PROVE  /\ \A p \in day : TellsAt(hours, win, day, p) \in Readable(hours, win[p])
         /\ Closest(hours, win, day)
<1> DEFINE temps == UNION {ReadingsOf(hours, win[p]) : p \in day}
<1>1. PICK N \in Nat : DOMAIN win = 1 .. N /\ \A p \in 1 .. N : \E m \in Nat : win[p] \in [1 .. m -> 1 .. n]
  BY DEF LaidOver
<1>2. day \in SUBSET (1 .. N)
  BY <1>1
<1>3. ASSUME NEW p \in day
      PROVE  /\ \A i \in Readable(hours, win[p]) : hours[i].temp \in Int
             /\ LoAt(hours, win[p]) \in Readable(hours, win[p])
             /\ HiAt(hours, win[p]) \in Readable(hours, win[p])
             /\ MidSample(hours, win[p]) \in Readable(hours, win[p])
             /\ \A v \in ReadingsOf(hours, win[p]) : v \in Int /\ Lo(hours, win, p) <= v /\ v <= Hi(hours, win, p)
             /\ Lo(hours, win, p) \in ReadingsOf(hours, win[p]) /\ Hi(hours, win, p) \in ReadingsOf(hours, win[p])
  <2>1. PICK m \in Nat : win[p] \in [1 .. m -> 1 .. n]
    BY <1>1, <1>2
  <2> DEFINE w == win[p]
  <2>2. HasData(hours, w) /\ w \in [1 .. m -> 1 .. n]
    BY <2>1
  <2> HIDE DEF w
  <2>3. /\ \A i \in Readable(hours, w) : hours[i].temp \in Int
        /\ LoAt(hours, w) \in Readable(hours, w)
        /\ \A j \in Readable(hours, w) : hours[LoAt(hours, w)].temp <= hours[j].temp
        /\ HiAt(hours, w) \in Readable(hours, w)
        /\ \A j \in Readable(hours, w) : hours[j].temp <= hours[HiAt(hours, w)].temp
        /\ MidSample(hours, w) \in Readable(hours, w)
    BY <2>2, Reported
  <2> QED BY <2>3 DEF ReadingsOf, Lo, Hi, w
<1> DEFINE los == [p \in day |-> Lo(hours, win, p)]
           his == [p \in day |-> Hi(hours, win, p)]
           low == [p \in day |-> LoDegree(hours, win, p)]
           high == [p \in day |-> HiDegree(hours, win, p)]
<1>4. \A p \in day : Lo(hours, win, p) \in Int /\ Hi(hours, win, p) \in Int /\ low[p] \in Int /\ high[p] \in Int
  BY <1>3, DegreeRises DEF LoDegree, HiDegree
<1>5. PICK e \in day : /\ \A q \in day : Lo(hours, win, e) <= Lo(hours, win, q)
                       /\ e = ColdAt(hours, win, day)
  <2>1. \A p \in day : los[p] \in Int
    BY <1>4
  <2>2. \E l, h \in day : \A q \in day : los[l] <= los[q] /\ los[q] <= los[h]
    BY <1>2, <2>1, SomeExtremes
  <2>3. \E p \in day : \A q \in day : Lo(hours, win, p) <= Lo(hours, win, q)
    BY <2>2
  <2> QED BY <2>3, Zenon DEF ColdAt
<1>6. PICK y \in day : /\ \A q \in day : Hi(hours, win, y) >= Hi(hours, win, q)
                       /\ y = WarmAt(hours, win, day)
  <2>1. \A p \in day : his[p] \in Int
    BY <1>4
  <2>2. \E l, h \in day : \A q \in day : his[l] <= his[q] /\ his[q] <= his[h]
    BY <1>2, <2>1, SomeExtremes
  <2>3. \E p \in day : \A q \in day : Hi(hours, win, p) >= Hi(hours, win, q)
    <3>1. PICK h \in day : \A q \in day : his[q] <= his[h]
      BY <2>2
    <3> QED BY <2>1, <3>1
  <2> QED BY <2>3, Zenon DEF WarmAt
<1>7. PICK a \in Int : a = Degree(Lo(hours, win, e)) /\ a = LoDegree(hours, win, e)
  BY <1>4 DEF LoDegree
<1>8. PICK b \in Int : b = Degree(Hi(hours, win, y)) /\ b = HiDegree(hours, win, y)
  BY <1>4 DEF HiDegree
<1>9. ASSUME NEW p \in day, NEW v \in ReadingsOf(hours, win[p])
      PROVE  /\ v \in Int /\ a <= low[p] /\ low[p] <= Degree(v) /\ Degree(v) <= high[p] /\ high[p] <= b
             /\ Degree(v) \in Int
  <2>1. /\ v \in Int /\ Lo(hours, win, e) <= Lo(hours, win, p) /\ Lo(hours, win, p) <= v
        /\ v <= Hi(hours, win, p) /\ Hi(hours, win, p) <= Hi(hours, win, y)
    BY <1>3, <1>4, <1>5, <1>6
  <2> QED BY <1>4, <1>7, <1>8, <2>1, DegreeRises DEF LoDegree, HiDegree
<1>10. /\ temps \in SUBSET Int /\ Lo(hours, win, e) \in temps /\ Hi(hours, win, y) \in temps
       /\ \A v \in temps : a <= Degree(v) /\ Degree(v) <= b
  <2>1. Lo(hours, win, e) \in temps /\ Hi(hours, win, y) \in temps
    BY <1>3
  <2>2. ASSUME NEW v \in temps PROVE v \in Int /\ a <= Degree(v) /\ Degree(v) <= b
    <3>1. PICK p \in day : v \in ReadingsOf(hours, win[p])
      OBVIOUS
    <3> QED BY <1>4, <1>9, <3>1
  <2> QED BY <2>1, <2>2
<1> HIDE DEF low, high
<1>11. ASSUME NEW f, \A p \in day : f[p] \in ReadingsOf(hours, win[p]), NEW g, \A p \in day : g[p] = Degree(f[p])
       PROVE  Inside(day, low, high, a, b, g) /\ Gap(day, g, a, b, Miss(day, temps, {f[p] : p \in day}))
  <2>1. Inside(day, low, high, a, b, g)
    BY <1>4, <1>9, <1>11 DEF Inside
  <2>2. Gap(day, g, a, b, Miss(day, temps, {f[p] : p \in day}))
    <3>1. PICK t \in temps : t = Lo(hours, win, e)
      BY <1>10
    <3>2. PICK u \in temps : u = Hi(hours, win, y)
      BY <1>10
    <3>3. \A p \in day : f[p] \in Int
      BY <1>3, <1>11
    <3>4. \A v \in temps : Degree(t) <= Degree(v) /\ Degree(v) <= Degree(u)
      BY <1>7, <1>8, <1>10, <3>1, <3>2
    <3>5. Gap(day, g, Degree(t), Degree(u), Miss(day, temps, {f[p] : p \in day}))
      <4> DEFINE r == {f[p] : p \in day}
      <4>1. r = {f[p] : p \in day}
        OBVIOUS
      <4> HIDE DEF r
      <4>2. Gap(day, g, Degree(t), Degree(u), Miss(day, temps, r))
        BY <1>2, <1>10, <1>11, <3>3, <3>4, <4>1, MissIs
      <4> QED BY <4>1, <4>2
    <3> QED BY <1>7, <1>8, <3>1, <3>2, <3>5
  <2> QED BY <2>1, <2>2
<1> DEFINE pMin == AtLow(hours, win, day, a)
           pMax == AtHigh(hours, win, day, b)
           others == day \ pMin
           oy == First(Coldest(hours, win, others))
           oz == First(Warmest(hours, win, others))
<1>12. /\ pMin \in SUBSET day /\ pMax \in SUBSET day /\ e \in pMin /\ y \in pMax
       /\ \A p \in pMin : LoDegree(hours, win, p) = a
       /\ \A p \in pMax : HiDegree(hours, win, p) = b
  BY <1>7, <1>8 DEF AtLow, AtHigh
<1>13. DayChoice(hours, win, day) =
         IF a = b THEN <<>>
         ELSE IF Cardinality(pMin) > 1 \/ Cardinality(pMax) > 1 \/ pMin # pMax
         THEN Reporting(hours, win, {Apart(pMin, pMax).min}, {Apart(pMin, pMax).max})
         ELSE IF others = {} THEN Reporting(hours, win, {}, pMin)
         ELSE IF LoDegree(hours, win, oy) - a <= b - HiDegree(hours, win, oz)
         THEN Reporting(hours, win, {oy}, pMin) ELSE Reporting(hours, win, pMin, {oz})
  <2>1. a = LoDegree(hours, win, ColdAt(hours, win, day))
    BY <1>5, <1>7
  <2>2. b = HiDegree(hours, win, WarmAt(hours, win, day))
    BY <1>6, <1>8
  <2>3. Choosing(hours, win, day, a, b)
    BY <2>1, <2>2, DayChoiceIs
  <2> QED BY <2>3 DEF Choosing
<1>14. ASSUME others # {}
       PROVE  /\ oy \in others /\ \A q \in others : Lo(hours, win, oy) <= Lo(hours, win, q)
              /\ oz \in others /\ \A q \in others : Hi(hours, win, oz) >= Hi(hours, win, q)
  <2> HIDE DEF oy, oz, pMin
  <2>1. others \in SUBSET (1 .. N) /\ (\A p \in others : los[p] \in Int) /\ \A p \in others : his[p] \in Int
    BY <1>2, <1>4
  <2>2. PICK l \in others : \A q \in others : los[l] <= los[q]
    BY <1>14, <2>1, SomeExtremes
  <2>3. PICK h \in others : \A q \in others : his[q] <= his[h]
    BY <1>14, <2>1, SomeExtremes
  <2> DEFINE C == Coldest(hours, win, others)
             W == Warmest(hours, win, others)
  <2>4. l \in C /\ C \in SUBSET (1 .. N)
    BY <2>1, <2>2 DEF Coldest
  <2>5. h \in W /\ W \in SUBSET (1 .. N)
    <3>1. \A q \in others : Hi(hours, win, h) >= Hi(hours, win, q)
      BY <2>1, <2>3
    <3> QED BY <2>1, <3>1 DEF Warmest
  <2>6. First(C) \in C /\ First(W) \in W
    <3> HIDE DEF C, W
    <3> QED BY <2>4, <2>5, FirstIs
  <2> QED BY <2>6 DEF Coldest, Warmest, oy, oz
<1> HIDE DEF pMin, pMax, oy, oz
<1> DEFINE Answers(min, max) == min \in SUBSET day /\ max \in SUBSET day /\ Tellings(hours, win, day, min, max)
           Alike == a = b /\ Tellings(hours, win, day, {}, {})
           Two(p, q) == p \in pMin /\ q \in pMax /\ p # q /\ Answers({p}, {q})
           Alone == day = {e}
           Mins(p, q) == /\ p \in others /\ q \in others /\ Answers({p}, pMin)
                         /\ \A r \in others : /\ Lo(hours, win, p) <= Lo(hours, win, r)
                                              /\ Hi(hours, win, q) >= Hi(hours, win, r)
                         /\ LoDegree(hours, win, p) - a <= b - HiDegree(hours, win, q)
           Maxs(p, q) == /\ p \in others /\ q \in others /\ Answers(pMin, {q})
                         /\ \A r \in others : /\ Lo(hours, win, p) <= Lo(hours, win, r)
                                              /\ Hi(hours, win, q) >= Hi(hours, win, r)
                         /\ b - HiDegree(hours, win, q) <= LoDegree(hours, win, p) - a
           One == pMin = {e} /\ pMax = {e}
<1>15. \/ Alike
       \/ \E p, q \in day : Two(p, q)
       \/ One /\ Alone /\ Answers({}, pMin)
       \/ One /\ \E p, q \in day : Mins(p, q) \/ Maxs(p, q)
  <2>1. CASE a = b
    <3>1. DayChoice(hours, win, day) = <<>>
      BY <1>13, <2>1
    <3> QED BY <2>1, <3>1 DEF Tellings, TellsAt
  <2>2. CASE a # b /\ (Cardinality(pMin) > 1 \/ Cardinality(pMax) > 1 \/ pMin # pMax)
    <3>1. PICK p, q : p = Apart(pMin, pMax).min /\ q = Apart(pMin, pMax).max
      OBVIOUS
    <3>2. p \in pMin /\ q \in pMax /\ p # q
      BY <1>2, <1>12, <2>2, <3>1, ApartIs
    <3>3. DayChoice(hours, win, day) = Reporting(hours, win, {p}, {q})
      BY <1>13, <2>2, <3>1
    <3>4. Answers({p}, {q})
      BY <1>12, <3>2, <3>3, ReportingTells
    <3> QED BY <1>12, <3>2, <3>4
  <2>3. CASE a # b /\ ~(Cardinality(pMin) > 1 \/ Cardinality(pMax) > 1 \/ pMin # pMax)
    <3>1. One
      <4>1. Cardinality(pMin) \in Nat /\ IsFiniteSet(pMin) /\ Cardinality(pMin) <= 1 /\ pMin = pMax
        BY <1>2, <1>12, <2>3, FirstFew
      <4>2. Cardinality(pMin) # 0
        BY <1>12, <4>1, FS_EmptySet
      <4>3. Cardinality(pMin) = 1
        BY <4>1, <4>2
      <4>4. PICK v : pMin = {v}
        BY <4>1, <4>3, FS_Singleton
      <4> QED BY <1>12, <4>1, <4>4
    <3>2. CASE others = {}
      <4>1. DayChoice(hours, win, day) = Reporting(hours, win, {}, pMin)
        BY <1>13, <2>3, <3>2
      <4>2. Answers({}, pMin)
        BY <1>12, <4>1, ReportingTells
      <4>3. Alone
        BY <3>1, <3>2
      <4> QED BY <3>1, <4>2, <4>3
    <3>3. CASE others # {}
      <4>1. /\ oy \in others /\ oz \in others
            /\ \A r \in others : Lo(hours, win, oy) <= Lo(hours, win, r) /\ Hi(hours, win, oz) >= Hi(hours, win, r)
        BY <1>14, <3>3
      <4>2. CASE LoDegree(hours, win, oy) - a <= b - HiDegree(hours, win, oz)
        <5>1. DayChoice(hours, win, day) = Reporting(hours, win, {oy}, pMin)
          BY <1>13, <2>3, <3>3, <4>2
        <5>2. Answers({oy}, pMin)
          BY <1>12, <4>1, <5>1, ReportingTells
        <5>3. Mins(oy, oz)
          BY <4>1, <4>2, <5>2
        <5> QED BY <3>1, <4>1, <5>3
      <4>3. CASE ~(LoDegree(hours, win, oy) - a <= b - HiDegree(hours, win, oz))
        <5>1. DayChoice(hours, win, day) = Reporting(hours, win, pMin, {oz})
          BY <1>13, <2>3, <3>3, <4>3
        <5>2. Answers(pMin, {oz})
          BY <1>12, <4>1, <5>1, ReportingTells
        <5>3. LoDegree(hours, win, oy) \in Int /\ HiDegree(hours, win, oz) \in Int
          BY <1>4, <4>1, DegreeRises DEF LoDegree, HiDegree
        <5>4. Maxs(oy, oz)
          BY <4>1, <4>3, <5>2, <5>3
        <5> QED BY <3>1, <4>1, <5>4
      <4> QED BY <4>2, <4>3
    <3> QED BY <3>2, <3>3
  <2> QED BY <2>1, <2>2, <2>3
<1>16. ASSUME NEW p \in day PROVE TellsAt(hours, win, day, p) \in Readable(hours, win[p])
  <2>1. \E min, max : Tellings(hours, win, day, min, max)
    BY <1>15
  <2> QED BY <1>3, <2>1 DEF Tellings
<1> DEFINE f == [p \in day |-> hours[TellsAt(hours, win, day, p)].temp]
           g == [p \in day |-> Degree(f[p])]
<1>17. \A p \in day : f[p] \in ReadingsOf(hours, win[p]) /\ g[p] = Degree(f[p])
  BY <1>16 DEF ReadingsOf
<1>18. ASSUME NEW min \in SUBSET day, NEW max \in SUBSET day, Tellings(hours, win, day, min, max), NEW p \in day
       PROVE  /\ p \in max => g[p] = HiDegree(hours, win, p)
              /\ p \in min /\ p \notin max => g[p] = LoDegree(hours, win, p)
  BY <1>18 DEF Tellings, Lo, Hi, LoDegree, HiDegree
<1> HIDE DEF f, g
<1>19. ASSUME NEW c, \A p \in day : c[p] \in ReadingsOf(hours, win[p])
       PROVE  Miss(day, temps, {f[p] : p \in day}) <= Miss(day, temps, {c[p] : p \in day})
  <2> DEFINE k == [p \in day |-> Degree(c[p])]
             mf == Miss(day, temps, {f[p] : p \in day})
             mc == Miss(day, temps, {c[p] : p \in day})
  <2>1. Inside(day, low, high, a, b, g) /\ Gap(day, g, a, b, mf)
    BY <1>11, <1>17
  <2>2. Inside(day, low, high, a, b, k) /\ Gap(day, k, a, b, mc)
    <3>1. \A p \in day : k[p] = Degree(c[p])
      OBVIOUS
    <3> HIDE DEF k
    <3> QED BY <1>11, <1>19, <3>1
  <2> HIDE DEF k, mf, mc
  <2>3. CASE Alike
    <3>1. g[e] = a /\ g[e] = b
      BY <2>1, <2>3 DEF Inside
    <3> QED BY <2>1, <2>2, <3>1, NothingMissed DEF mf, mc
  <2>4. ASSUME NEW p \in day, NEW q \in day, Two(p, q) PROVE mf <= mc
    <3>1. {p} \in SUBSET day /\ {q} \in SUBSET day /\ Tellings(hours, win, day, {p}, {q})
      BY <2>4
    <3>2. g[p] = LoDegree(hours, win, p) /\ g[q] = HiDegree(hours, win, q)
      BY <1>18, <2>4, <3>1
    <3>3. g[p] = a /\ g[q] = b
      BY <1>12, <2>4, <3>2
    <3> QED BY <2>1, <2>2, <3>3, NothingMissed
  <2>5. CASE One /\ Alone
    BY <2>1, <2>2, <2>5, OneWindow DEF mf, mc
  <2>6. ASSUME One, NEW p \in day, NEW q \in day, Mins(p, q) \/ Maxs(p, q) PROVE mf <= mc
    <3>1. PICK oMin \in Int : oMin = LoDegree(hours, win, p)
      BY <1>4, DegreeRises DEF LoDegree
    <3>2. PICK oMax \in Int : oMax = HiDegree(hours, win, q)
      BY <1>4, DegreeRises DEF HiDegree
    <3>3. p # e /\ q # e /\ e \notin others
      BY <1>12, <2>6
    <3>4. \A r \in day : r # e => oMin <= low[r] /\ high[r] <= oMax
      <4> SUFFICES ASSUME NEW r \in day, r # e PROVE oMin <= low[r] /\ high[r] <= oMax
        OBVIOUS
      <4>1. r \in others
        BY <2>6
      <4>2. Lo(hours, win, p) <= Lo(hours, win, r) /\ Hi(hours, win, q) >= Hi(hours, win, r)
        BY <2>6, <4>1
      <4> QED BY <1>4, <3>1, <3>2, <4>2, DegreeRises DEF low, high, LoDegree, HiDegree
    <3>5. CASE Mins(p, q)
      <4>1. g[e] = b
        BY <1>12, <1>18, <2>6, <3>5
      <4>2. g[p] = oMin
        BY <1>12, <1>18, <2>6, <3>1, <3>3, <3>5
      <4>3. oMin - a <= b - oMax
        BY <3>1, <3>2, <3>5
      <4> QED BY <2>1, <2>2, <3>3, <3>4, <4>1, <4>2, <4>3, Patched
    <3>6. CASE Maxs(p, q)
      <4>1. g[e] = a
        <5>1. {q} \in SUBSET day /\ Tellings(hours, win, day, pMin, {q})
          BY <3>6
        <5>2. e \in pMin /\ e \notin {q}
          BY <1>12, <3>3
        <5>3. g[e] = LoDegree(hours, win, e)
          BY <1>12, <1>18, <5>1, <5>2
        <5> QED BY <1>12, <5>2, <5>3
      <4>2. g[q] = oMax
        BY <1>12, <1>18, <2>6, <3>2, <3>6
      <4>3. b - oMax <= oMin - a
        BY <3>1, <3>2, <3>6
      <4> QED BY <2>1, <2>2, <3>3, <3>4, <4>1, <4>2, <4>3, Patched
    <3> QED BY <2>6, <3>5, <3>6
  <2> QED BY <1>15, <2>3, <2>4, <2>5, <2>6 DEF mf, mc
<1>20. {f[p] : p \in day} = {hours[TellsAt(hours, win, day, p)].temp : p \in day}
  BY DEF f
<1>21. Closest(hours, win, day)
  BY <1>19, <1>20 DEF Closest
<1> QED BY <1>16, <1>21


-----------------------------------------------------------------------------
(* The correction is of the phase: temperatures stay. *)
LEMMA CorrectedIs ==
  ASSUME NEW s \in Skies, NEW n, n = Len(s.hours), NEW hours, hours = Corrected(s)
  PROVE  /\ DOMAIN hours = 1 .. n /\ Temps(hours, n)
         /\ \A i \in 1 .. n : hours[i].temp = s.hours[i].temp /\ hours[i].dew = s.hours[i].dew
<1>1. DOMAIN s.hours = 1 .. n /\ \A i \in 1 .. n : s.hours[i] \in Readings
  BY SkyIs
<1>2. DOMAIN hours = 1 .. n /\ \A i \in 1 .. n : hours[i] = AdjustPrecipPhase(s.hours[i])
  BY <1>1 DEF Corrected
<1>3. ASSUME NEW h \in Readings PROVE AdjustPrecipPhase(h).temp = h.temp /\ AdjustPrecipPhase(h).dew = h.dew
  BY DEF AdjustPrecipPhase, Readings
<1>4. \A i \in 1 .. n : hours[i].temp = s.hours[i].temp /\ hours[i].dew = s.hours[i].dew
  BY <1>1, <1>2, <1>3
<1> QED BY <1>1, <1>2, <1>4 DEF Temps, Readings

(* The correction leaves what can be read, and so the days, as they were. *)
LEMMA SameReadings ==
  ASSUME NEW s \in Skies, NEW n, n = Len(s.hours), NEW hours, hours = Corrected(s), NEW win, LaidOver(win, n)
  PROVE  /\ \A p \in DOMAIN win : /\ Readable(hours, win[p]) = Readable(s.hours, win[p])
                                  /\ Readable(hours, win[p]) \subseteq 1 .. n
                                  /\ Readable(hours, win[p]) \subseteq ToSet(win[p])
                                  /\ HasData(hours, win[p]) = HasData(s.hours, win[p])
                                  /\ ReadingsOf(hours, win[p]) = ReadingsOf(s.hours, win[p])
         /\ DaysOf(s, hours, win) = DaysOf(s, s.hours, win)
<1>1. \A i \in 1 .. n : hours[i].temp = s.hours[i].temp
  BY CorrectedIs
<1>2. ASSUME NEW p \in DOMAIN win
      PROVE  /\ Readable(hours, win[p]) = Readable(s.hours, win[p])
             /\ Readable(hours, win[p]) \subseteq 1 .. n
             /\ Readable(hours, win[p]) \subseteq ToSet(win[p])
             /\ HasData(hours, win[p]) = HasData(s.hours, win[p])
             /\ ReadingsOf(hours, win[p]) = ReadingsOf(s.hours, win[p])
  <2>1. PICK m \in Nat : win[p] \in [1 .. m -> 1 .. n]
    BY DEF LaidOver
  <2>2. PICK w : w = win[p] /\ w \in [1 .. m -> 1 .. n]
    BY <2>1
  <2>3. ToSet(w) \subseteq 1 .. n
    BY <2>2 DEF ToSet
  <2>4. /\ Readable(hours, w) = Readable(s.hours, w)
        /\ Readable(hours, w) \subseteq 1 .. n /\ Readable(hours, w) \subseteq ToSet(w)
    BY <1>1, <2>3 DEF Readable
  <2>5. HasData(hours, w) = HasData(s.hours, w)
    BY <1>1, <2>2 DEF HasData
  <2>6. ReadingsOf(hours, w) = ReadingsOf(s.hours, w)
    BY <1>1, <2>4 DEF ReadingsOf
  <2> QED BY <2>2, <2>4, <2>5, <2>6
<1>3. DaysOf(s, hours, win) = DaysOf(s, s.hours, win)
  BY <1>2 DEF DaysOf
<1> QED BY <1>2, <1>3

(* The day of a window with data is the only one it is in. *)
LEMMA DaysPart ==
  ASSUME NEW s, NEW hours, NEW win
  PROVE  /\ \A p \in DOMAIN win : HasData(hours, win[p]) => \E day \in DaysOf(s, hours, win) : p \in day
         /\ \A day \in DaysOf(s, hours, win) :
              /\ day \in SUBSET DOMAIN win /\ day # {}
              /\ \A p \in day : /\ HasData(hours, win[p])
                                /\ RepresentativeTempIndices(s, hours, win)[p] = TellsAt(hours, win, day, p)
<1> DEFINE known == {p \in DOMAIN win : HasData(hours, win[p])}
           Day(q) == {p \in DOMAIN win : HasData(hours, win[p]) /\ LocalDay(s, win[p]) = LocalDay(s, win[q])}
<1>1. DaysOf(s, hours, win) = {Day(q) : q \in known}
  BY DEF DaysOf
<1>2. \A p \in known : p \in Day(p)
  OBVIOUS
<1>3. \A p, q \in known : p \in Day(q) => Day(p) = Day(q)
  OBVIOUS
<1>4. \A q \in known : Day(q) \subseteq known /\ known \subseteq DOMAIN win
  OBVIOUS
<1>5. \A p \in known : HasData(hours, win[p])
  OBVIOUS
<1>6. \A p \in DOMAIN win : HasData(hours, win[p]) => p \in known
  OBVIOUS
<1> HIDE DEF Day, known
<1>7. ASSUME NEW day \in DaysOf(s, hours, win), NEW p \in day
      PROVE  /\ p \in known
             /\ RepresentativeTempIndices(s, hours, win)[p] = TellsAt(hours, win, day, p)
  <2>1. p \in known
    BY <1>1, <1>4
  <2>2. \A d \in DaysOf(s, hours, win) : p \in d => d = day
    BY <1>1, <1>3, <2>1
  <2>3. (CHOOSE d \in DaysOf(s, hours, win) : p \in d) = day
    BY <2>2
  <2>4. RepresentativeTempIndices(s, hours, win)[p] =
          LET d == CHOOSE d \in DaysOf(s, hours, win) : p \in d IN TellsAt(hours, win, d, p)
    BY <1>4, <1>5, <2>1 DEF RepresentativeTempIndices, TellsAt
  <2> QED BY <2>1, <2>3, <2>4
<1>8. \A day \in DaysOf(s, hours, win) : day \in SUBSET DOMAIN win /\ day # {}
  BY <1>1, <1>2, <1>4
<1>9. \A p \in DOMAIN win : HasData(hours, win[p]) => \E day \in DaysOf(s, hours, win) : p \in day
  BY <1>1, <1>2, <1>6
<1> QED BY <1>5, <1>7, <1>8, <1>9


(* A row, in what it is made of. *)
CodesOf(hours, w) == [k \in {j \in DOMAIN w : hours[w[j]].code # NoReading} |-> hours[w[k]].code]
SnowOf(hours, w) == SumOf([k \in DOMAIN w |-> hours[w[k]].snow])
RainOf(hours, w) == SumOf([k \in DOMAIN w |-> hours[w[k]].rain])

LEMMA RowIs ==
  ASSUME NEW s, NEW hours, NEW win, NEW told, told = RowsFromWindows(s, hours, win)
  PROVE  /\ DOMAIN told = DOMAIN win
         /\ \A p \in DOMAIN win :
              LET i == RepresentativeTempIndices(s, hours, win)[p]
                  codes == CodesOf(hours, win[p])
              IN  /\ i # NoReading => told[p].temp = hours[i].temp /\ told[p].dew = hours[i].dew
                  /\ told[p].snow = SnowOf(hours, win[p]) /\ told[p].rain = RainOf(hours, win[p])
                  /\ told[p].code = IF DOMAIN codes = {} THEN NoReading
                                    ELSE AggregateWeathercode(codes, told[p].snow, told[p].rain)
<1>1. DOMAIN told = DOMAIN win
  BY DEF RowsFromWindows
<1>2. ASSUME NEW p \in DOMAIN win
      PROVE  LET i == RepresentativeTempIndices(s, hours, win)[p]
                 codes == CodesOf(hours, win[p])
             IN  /\ i # NoReading => told[p].temp = hours[i].temp /\ told[p].dew = hours[i].dew
                 /\ told[p].snow = SnowOf(hours, win[p]) /\ told[p].rain = RainOf(hours, win[p])
                 /\ told[p].code = IF DOMAIN codes = {} THEN NoReading
                                   ELSE AggregateWeathercode(codes, told[p].snow, told[p].rain)
  BY <1>2 DEF RowsFromWindows, CodesOf, SnowOf, RainOf
<1> QED BY <1>1, <1>2

LEMMA RowUnknown ==
  ASSUME NEW s, NEW hours, NEW win, NEW told, told = RowsFromWindows(s, hours, win), NEW p \in DOMAIN win,
         RepresentativeTempIndices(s, hours, win)[p] = NoReading
  PROVE  told[p].temp = NoReading
  BY DEF RowsFromWindows

LEMMA SkyFetched ==
  ASSUME AggregateInv, aggregation = "done"
  PROVE  /\ sky \in Skies /\ adjusted = Corrected(sky) /\ Len(sky.hours) \in Nat
         /\ LaidOver(WindowsFor(sky), Len(sky.hours))
         /\ rows = RowsFromWindows(sky, adjusted, WindowsFor(sky))
         /\ \A p \in DOMAIN WindowsFor(sky) : HasData(adjusted, WindowsFor(sky)[p])
  BY WindowsAre DEF AggregateInv, Summed, Covered

(* The first part of PeriodsTell: every day's extremes are told, as near as
   one reading of each of its periods can. *)
LEMMA ExtremesTold == AggregateInv => DailyExtremes
<1> SUFFICES ASSUME AggregateInv, aggregation = "done" PROVE DailyExtremes
  BY DEF DailyExtremes
<1>1. PICK win : win = WindowsFor(sky)
  OBVIOUS
<1>2. PICK n \in Nat : n = Len(sky.hours)
  BY SkyFetched
<1>3. /\ sky \in Skies /\ adjusted = Corrected(sky) /\ LaidOver(win, n)
      /\ rows = RowsFromWindows(sky, adjusted, win) /\ \A p \in DOMAIN win : HasData(adjusted, win[p])
  BY <1>1, <1>2, SkyFetched
<1>4. /\ Temps(adjusted, n)
      /\ \A i \in 1 .. n : adjusted[i].temp = sky.hours[i].temp /\ adjusted[i].dew = sky.hours[i].dew
  BY <1>2, <1>3, CorrectedIs
<1>5. \A p \in DOMAIN win : /\ Readable(adjusted, win[p]) = Readable(sky.hours, win[p])
                            /\ Readable(adjusted, win[p]) \subseteq 1 .. n
                            /\ Readable(adjusted, win[p]) \subseteq ToSet(win[p])
                            /\ ReadingsOf(adjusted, win[p]) = ReadingsOf(sky.hours, win[p])
  BY <1>2, <1>3, SameReadings
<1>6. DaysOf(sky, adjusted, win) = DaysOf(sky, sky.hours, win)
  BY <1>2, <1>3, SameReadings
<1>7. DOMAIN rows = DOMAIN win
  BY <1>3, RowIs
<1>8. ASSUME NEW day \in DaysOf(sky, adjusted, win), NEW p \in day
      PROVE  /\ p \in DOMAIN win /\ TellsAt(adjusted, win, day, p) \in Readable(adjusted, win[p])
             /\ rows[p].temp = adjusted[TellsAt(adjusted, win, day, p)].temp
             /\ rows[p].dew = adjusted[TellsAt(adjusted, win, day, p)].dew
  <2>1. /\ day \in SUBSET DOMAIN win /\ day # {}
        /\ RepresentativeTempIndices(sky, adjusted, win)[p] = TellsAt(adjusted, win, day, p)
    BY <1>3, DaysPart
  <2>2. \A q \in day : HasData(adjusted, win[q])
    BY <1>3, <2>1
  <2>3. TellsAt(adjusted, win, day, p) \in Readable(adjusted, win[p])
    BY <1>3, <1>4, <2>1, <2>2, DayTold
  <2>4. TellsAt(adjusted, win, day, p) # NoReading
    BY <1>5, <2>1, <2>3, SkiesAssumption
  <2> QED BY <1>3, <2>1, <2>3, <2>4, RowIs
<1>9. ASSUME NEW p \in DOMAIN rows
      PROVE  \E i \in ToSet(win[p]) :
               rows[p].temp = sky.hours[i].temp /\ rows[p].dew = sky.hours[i].dew /\ rows[p].temp # NoReading
  <2>1. PICK day \in DaysOf(sky, adjusted, win) : p \in day
    BY <1>3, <1>7, DaysPart
  <2>2. PICK i : i = TellsAt(adjusted, win, day, p)
    OBVIOUS
  <2>3. i \in Readable(adjusted, win[p]) /\ rows[p].temp = adjusted[i].temp /\ rows[p].dew = adjusted[i].dew
    BY <1>8, <2>1, <2>2
  <2>4. i \in ToSet(win[p]) /\ i \in 1 .. n /\ adjusted[i].temp # NoReading
    BY <1>5, <1>7, <2>3 DEF Readable
  <2> QED BY <1>4, <2>3, <2>4
<1>10. ASSUME NEW day \in DaysOf(sky, sky.hours, win),
              NEW temps, temps = UNION {ReadingsOf(sky.hours, win[p]) : p \in day},
              NEW choice, \A p \in day : choice[p] \in ReadingsOf(sky.hours, win[p])
       PROVE  Miss(day, temps, {rows[p].temp : p \in day}) <= Miss(day, temps, {choice[p] : p \in day})
  <2>1. day \in DaysOf(sky, adjusted, win)
    BY <1>6
  <2>2. day \in SUBSET DOMAIN win /\ day # {}
    BY <1>3, <2>1, DaysPart
  <2>3. /\ temps = UNION {ReadingsOf(adjusted, win[p]) : p \in day}
        /\ \A p \in day : choice[p] \in ReadingsOf(adjusted, win[p])
    BY <1>5, <1>10, <2>2
  <2>4. Miss(day, temps, {adjusted[TellsAt(adjusted, win, day, p)].temp : p \in day})
          <= Miss(day, temps, {choice[p] : p \in day})
    <3>1. \A q \in day : HasData(adjusted, win[q])
      BY <1>3, <2>2
    <3>2. Closest(adjusted, win, day)
      BY <1>3, <1>4, <2>2, <3>1, DayTold
    <3> QED BY <2>3, <3>2 DEF Closest
  <2>5. {rows[p].temp : p \in day} = {adjusted[TellsAt(adjusted, win, day, p)].temp : p \in day}
    BY <1>8, <2>1
  <2> QED BY <2>4, <2>5
<1> QED
  <2>1. \A day \in DaysOf(sky, sky.hours, win) :
          LET temps == UNION {ReadingsOf(sky.hours, win[p]) : p \in day}
          IN  \A choice \in [day -> temps] :
                (\A p \in day : choice[p] \in ReadingsOf(sky.hours, win[p])) =>
                  Miss(day, temps, {rows[p].temp : p \in day}) <= Miss(day, temps, {choice[p] : p \in day})
    BY <1>10
  <2> QED BY <1>1, <1>9, <2>1 DEF DailyExtremes, ReadingsOf


-----------------------------------------------------------------------------
(* The model's sums of a window, in those of the tables. *)
LEMMA SumOfIs ==
  ASSUME NEW n \in Nat, NEW v \in [1 .. n -> Nat]
  PROVE  /\ SumOf(v) = Sums(v)[n] /\ SumOf(v) \in Nat /\ Sums(v) \in [0 .. n -> Nat] /\ Sums(v)[0] = 0
         /\ \A k \in 1 .. n : Sums(v)[k] = Sums(v)[k - 1] + v[k]
<1>1. SumOf(v) = Total(v)
  BY DEF SumOf, Total, Sums
<1> QED BY <1>1, SumsAre

(* What makes an hour's amount of its others makes the sum of theirs. *)
LEMMA SumsTogether ==
  ASSUME NEW n \in Nat, NEW u \in [1 .. n -> Nat], NEW r \in [1 .. n -> Nat], NEW s \in [1 .. n -> Nat],
         \A k \in 1 .. n : u[k] = 7 * r[k] + s[k]
  PROVE  SumOf(u) = 7 * SumOf(r) + SumOf(s)
<1> DEFINE f == Sums(u)
           g == Sums(r)
           h == Sums(s)
<1>1. SumOf(u) = f[n] /\ f[0] = 0 /\ \A k \in 1 .. n : f[k] = f[k - 1] + u[k]
  BY SumOfIs
<1>2. SumOf(r) = g[n] /\ g \in [0 .. n -> Nat] /\ g[0] = 0 /\ \A k \in 1 .. n : g[k] = g[k - 1] + r[k]
  BY SumOfIs
<1>3. SumOf(s) = h[n] /\ h \in [0 .. n -> Nat] /\ h[0] = 0 /\ \A k \in 1 .. n : h[k] = h[k - 1] + s[k]
  BY SumOfIs
<1> HIDE DEF f, g, h
<1> DEFINE S == {k \in 0 .. n : f[k] = 7 * g[k] + h[k]}
<1>4. 0 \in S
  <2>1. f[0] = 7 * g[0] + h[0]
    BY <1>1, <1>2, <1>3
  <2> QED BY <2>1
<1>5. ASSUME NEW k \in 0 .. n - 1, k \in S PROVE k + 1 \in S
  <2>1. k + 1 \in 1 .. n /\ (k + 1) - 1 = k /\ k \in 0 .. n
    OBVIOUS
  <2>2. f[k + 1] = f[k] + u[k + 1] /\ g[k + 1] = g[k] + r[k + 1] /\ h[k + 1] = h[k] + s[k + 1]
    <3>1. f[k + 1] = f[(k + 1) - 1] + u[k + 1]
      BY <1>1, <2>1, Zenon
    <3>2. g[k + 1] = g[(k + 1) - 1] + r[k + 1]
      BY <1>2, <2>1, Zenon
    <3>3. h[k + 1] = h[(k + 1) - 1] + s[k + 1]
      BY <1>3, <2>1, Zenon
    <3> QED BY <2>1, <3>1, <3>2, <3>3, Zenon
  <2>3. g[k] \in Nat /\ h[k] \in Nat
    BY <1>2, <1>3, <2>1
  <2>4. r[k + 1] \in Nat /\ s[k + 1] \in Nat /\ u[k + 1] = 7 * r[k + 1] + s[k + 1]
    BY <2>1
  <2>5. f[k] = 7 * g[k] + h[k]
    BY <1>5
  <2>6. f[k + 1] = 7 * g[k + 1] + h[k + 1]
    <3>1. PICK a \in Nat : a = g[k]
      BY <2>3
    <3>2. PICK b \in Nat : b = h[k]
      BY <2>3
    <3>3. PICK c \in Nat : c = r[k + 1]
      BY <2>4
    <3>4. PICK d \in Nat : d = s[k + 1]
      BY <2>4
    <3>5. f[k + 1] = (7 * a + b) + (7 * c + d) /\ g[k + 1] = a + c /\ h[k + 1] = b + d
      BY <2>2, <2>4, <2>5, <3>1, <3>2, <3>3, <3>4, Zenon
    <3>6. (7 * a + b) + (7 * c + d) = 7 * (a + c) + (b + d)
      OBVIOUS
    <3> QED BY <3>5, <3>6
  <2>7. k + 1 \in 0 .. n
    BY <2>1
  <2> QED BY <2>6, <2>7
<1> HIDE DEF S
<1>6. \A k \in 0 .. n : k \in S
  BY <1>4, <1>5, OneByOne
<1>7. f[n] = 7 * g[n] + h[n]
  BY <1>6 DEF S
<1> QED BY <1>1, <1>2, <1>3, <1>7

LEMMA SumOfNone ==
  ASSUME NEW n \in Nat, NEW v \in [1 .. n -> Nat], \A k \in 1 .. n : v[k] = 0
  PROVE  SumOf(v) = 0
<1> DEFINE f == Sums(v)
           S == {k \in 0 .. n : f[k] = 0}
<1>1. SumOf(v) = f[n] /\ f[0] = 0 /\ \A k \in 1 .. n : f[k] = f[k - 1] + v[k]
  BY SumOfIs
<1> HIDE DEF f
<1>2. 0 \in S
  BY <1>1
<1>3. ASSUME NEW k \in 0 .. n - 1, k \in S PROVE k + 1 \in S
  <2>1. k + 1 \in 1 .. n /\ (k + 1) - 1 = k /\ k + 1 \in 0 .. n
    OBVIOUS
  <2>2. f[k + 1] = f[(k + 1) - 1] + v[k + 1]
    BY <1>1, <2>1, Zenon
  <2> QED BY <1>3, <2>1, <2>2
<1> HIDE DEF S
<1>4. \A k \in 0 .. n : k \in S
  BY <1>2, <1>3, OneByOne
<1>5. f[n] = 0
  BY <1>4 DEF S
<1> QED BY <1>1, <1>5

-----------------------------------------------------------------------------
(* The families of codes. *)
WetCodes == Drizzle \union RainCont \union RainShwr \union SnowCont \union SnowShwr
LiquidCodes == Drizzle \union RainCont \union RainShwr

(* What the correction leaves of an hour. *)
LEMMA HourCorrected ==
  ASSUME NEW h \in Readings, NEW g, g = AdjustPrecipPhase(h)
  PROVE  /\ g.code \in Int \union {NoReading} /\ g.rain \in Nat /\ g.snow \in Nat
         /\ 7 * g.rain + g.snow = 7 * h.rain + h.snow
         /\ h.code \in Thunder => g.code = h.code
         /\ h.code \in WetCodes => g.code \in WetCodes
         /\ g.code \in RainCont \union SnowCont => h.code \in RainCont \union SnowCont \union Drizzle
         /\ Snowy(h) /\ h.code \notin Freezing => g.rain = 0 /\ g.code \notin LiquidCodes \union Freezing
<1> DEFINE c == h.code
           d == LiquidToSnow(c)
<1>1. c \in Int \/ c = NoReading
  BY DEF Readings
<1>2. /\ d = c \/ (c \in LiquidCodes /\ d \in {71, 73, 75, 85, 86})
      /\ c \in LiquidCodes => d \in {71, 73, 75, 85, 86}
      /\ d \in {71, 73, 75} /\ d # c => c \in {51, 61, 53, 63, 55, 65}
  <2>1. CASE c \in {51, 61}
    BY <2>1 DEF LiquidToSnow, LiquidCodes, Drizzle, RainCont, RainShwr
  <2>2. CASE c \in {53, 63}
    BY <2>2 DEF LiquidToSnow, LiquidCodes, Drizzle, RainCont, RainShwr
  <2>3. CASE c \in {55, 65}
    BY <2>3 DEF LiquidToSnow, LiquidCodes, Drizzle, RainCont, RainShwr
  <2>4. CASE c \in {80, 81}
    BY <2>4 DEF LiquidToSnow, LiquidCodes, Drizzle, RainCont, RainShwr
  <2>5. CASE c = 82
    BY <2>5 DEF LiquidToSnow, LiquidCodes, Drizzle, RainCont, RainShwr
  <2>6. CASE c \notin {51, 53, 55, 61, 63, 65, 80, 81, 82}
    BY <2>6 DEF LiquidToSnow, LiquidCodes, Drizzle, RainCont, RainShwr
  <2> QED BY <2>1, <2>2, <2>3, <2>4, <2>5, <2>6
<1>3. d \in Int \union {NoReading}
  BY <1>1, <1>2
<1> HIDE DEF d
<1>4. CASE ~Snowy(h) \/ c \in Freezing
  <2>1. g = h
    BY <1>4 DEF AdjustPrecipPhase
  <2> QED BY <1>4, <2>1 DEF Readings, WetCodes
<1>5. CASE Snowy(h) /\ c \notin Freezing
  <2>1. g = [h EXCEPT !.rain = 0, !.snow = h.snow + 7 * h.rain, !.code = d]
    BY <1>5 DEF AdjustPrecipPhase, SnowPerRain, d
  <2>2. g.rain = 0 /\ g.snow = h.snow + 7 * h.rain /\ g.code = d
    BY <2>1 DEF Readings
  <2>3. 7 * g.rain + g.snow = 7 * h.rain + h.snow
    BY <2>2 DEF Readings
  <2>4. c \in Thunder => d = c
    BY <1>2 DEF Thunder, LiquidCodes, Drizzle, RainCont, RainShwr
  <2>5. c \in WetCodes => d \in WetCodes
    BY <1>2 DEF WetCodes, LiquidCodes, Drizzle, RainCont, RainShwr, SnowCont, SnowShwr
  <2>6. d \in RainCont \union SnowCont => c \in RainCont \union SnowCont \union Drizzle
    BY <1>2 DEF LiquidCodes, Drizzle, RainCont, RainShwr, SnowCont
  <2>7. d \notin LiquidCodes \union Freezing
    BY <1>2, <1>5 DEF LiquidCodes, Drizzle, RainCont, RainShwr, Freezing
  <2>8. h.rain \in Nat /\ h.snow \in Nat /\ h.snow + 7 * h.rain \in Nat
    BY DEF Readings
  <2> QED BY <1>3, <2>2, <2>3, <2>4, <2>5, <2>6, <2>7, <2>8
<1> QED BY <1>4, <1>5


-----------------------------------------------------------------------------
Has(codes, family) == \E k \in DOMAIN codes : codes[k] \in family

(* A family is counted when a code of it is there. *)
LEMMA CountIs ==
  ASSUME NEW m \in Nat, NEW codes, DOMAIN codes \subseteq 1 .. m, NEW family
  PROVE  Count(codes, family) \in Nat /\ (Count(codes, family) > 0 <=> Has(codes, family))
<1> DEFINE S == {k \in DOMAIN codes : codes[k] \in family}
<1>1. S \in SUBSET (1 .. m) /\ Count(codes, family) = Cardinality(S)
  BY DEF Count
<1>2. S # {} <=> Has(codes, family)
  BY DEF Has
<1> HIDE DEF S
<1>3. IsFiniteSet(S) /\ Cardinality(S) \in Nat
  BY <1>1, FirstFew
<1>4. Cardinality(S) = 0 <=> S = {}
  BY <1>3, FS_EmptySet
<1>5. Cardinality(S) > 0 <=> S # {}
  BY <1>3, <1>4
<1> QED BY <1>1, <1>2, <1>3, <1>5, Zenon

(* The worst code of a family is one of it. *)
LEMMA WorstIs ==
  ASSUME NEW m \in Nat, NEW codes, DOMAIN codes \subseteq 1 .. m, NEW family \in SUBSET Int, Has(codes, family)
  PROVE  Max(Range(codes) \intersect family) \in family
<1> DEFINE S == {k \in DOMAIN codes : codes[k] \in family}
           T == Range(codes) \intersect family
<1>1. S \in SUBSET (1 .. m) /\ S # {} /\ \A k \in S : codes[k] \in Int
  BY DEF Has
<1>2. T = {codes[k] : k \in S}
  BY DEF Range
<1>3. T \subseteq family
  OBVIOUS
<1> HIDE DEF S, T
<1>4. Max(T) \in T
  BY <1>1, <1>2, MaxIsOne
<1> QED BY <1>3, <1>4 DEF T

(* A grade is one of those it may be. *)
LEMMA GradedOnce ==
  ASSUME NEW amount, NEW cut, NEW a, NEW b
  PROVE  Graded(amount, <<cut>>, <<a, b>>) \in {a, b}
<1> DEFINE S == {k \in DOMAIN <<cut>> : amount >= <<cut>>[k]}
<1>1. S = {} \/ S = {1}
  OBVIOUS
<1>2. Graded(amount, <<cut>>, <<a, b>>) = <<a, b>>[1 + Cardinality(S)]
  BY DEF Graded
<1> HIDE DEF S
<1>3. Cardinality(S) = 0 \/ Cardinality(S) = 1
  BY <1>1, FS_EmptySet, FS_Singleton
<1> QED BY <1>2, <1>3

LEMMA GradedTwice ==
  ASSUME NEW amount, NEW cut, NEW deep, NEW a, NEW b, NEW c
  PROVE  Graded(amount, <<cut, deep>>, <<a, b, c>>) \in {a, b, c}
<1> DEFINE S == {k \in DOMAIN <<cut, deep>> : amount >= <<cut, deep>>[k]}
<1>1. S = {} \/ S = {1} \/ S = {2} \/ S = {1, 2}
  <2>1. S \subseteq {1, 2}
    OBVIOUS
  <2> HIDE DEF S
  <2> QED BY <2>1
<1>2. Graded(amount, <<cut, deep>>, <<a, b, c>>) = <<a, b, c>>[1 + Cardinality(S)]
  BY DEF Graded
<1> HIDE DEF S
<1>3. Cardinality(S) = 0 \/ Cardinality(S) = 1 \/ Cardinality(S) = 2
  <2>1. IsFiniteSet({1}) /\ Cardinality({1}) = 1 /\ Cardinality({2}) = 1 /\ Cardinality({}) = 0
    BY FS_Singleton, FS_EmptySet
  <2>2. Cardinality({1} \union {2}) = 2
    BY <2>1, FS_AddElement
  <2>3. {1} \union {2} = {1, 2}
    OBVIOUS
  <2> QED BY <1>1, <2>1, <2>2, <2>3
<1> QED BY <1>2, <1>3

Uneven(a, b) == Min({a, b}) < SnowPerRain * 20 \/ 3 * Min({a, b}) < Max({a, b})

(* What is not mixed is one phase, or nearly. *)
LEMMA MixedOrUneven ==
  ASSUME NEW i \in Nat, NEW j \in Nat, NEW snow \in Nat, NEW rain \in Nat, ~Mixed(i, j, snow, rain)
  PROVE  Uneven(SnowPerRain * rain, snow)
<1>1. PICK w \in Nat : w = SnowPerRain * rain
  BY DEF SnowPerRain
<1>2. ~(IF w < snow THEN w >= 140 /\ 4 * w >= w + snow ELSE snow >= 140 /\ 4 * snow >= w + snow)
  BY <1>1 DEF Mixed, SnowPerRain
<1>3. CASE w < snow
  <2>1. Min({w, snow}) = w /\ Max({w, snow}) = snow
    BY <1>3, MinIs, MaxIs
  <2> QED BY <1>1, <1>2, <1>3, <2>1 DEF Uneven, SnowPerRain
<1>4. CASE w >= snow
  <2>1. Min({w, snow}) = snow /\ Max({w, snow}) = w
    BY <1>4, MinIs, MaxIs
  <2> QED BY <1>1, <1>2, <1>4, <2>1 DEF Uneven, SnowPerRain
<1> QED BY <1>3, <1>4

Sky == {0, 1, 2, 3} \union Fog
LEMMA SkyCode == ASSUME NEW codes PROVE DrySkyCode(codes) \in Sky
  BY DEF DrySkyCode, Sky, Fog


(* What one code says of the codes and the amounts it is made of. *)
Says(codes, snow, rain, c) ==
  /\ Has(codes, Thunder) => c \in Thunder
  /\ c \in Sky => ~Has(codes, WetCodes)
  /\ c \in WetCodes => Uneven(SnowPerRain * rain, snow)
  /\ c \in RainCont \union SnowCont => Has(codes, RainCont \union SnowCont)
  /\ rain = 0 /\ ~Has(codes, LiquidCodes) => c \notin LiquidCodes \union {MixLight, MixHeavy}

LEMMA CodeSays ==
  ASSUME NEW m \in Nat, NEW codes, DOMAIN codes \subseteq 1 .. m, NEW snow \in Nat, NEW rain \in Nat,
         NEW c, c = AggregateWeathercode(codes, snow, rain)
  PROVE  Says(codes, snow, rain, c)
<1>1. PICK nSnow \in Nat : /\ nSnow = Count(codes, SnowCont \union SnowShwr)
                           /\ (nSnow > 0 <=> Has(codes, SnowCont \union SnowShwr))
  BY CountIs
<1>2. PICK nRain \in Nat : /\ nRain = Count(codes, RainCont \union RainShwr)
                           /\ (nRain > 0 <=> Has(codes, RainCont \union RainShwr))
  BY CountIs
<1>3. PICK nDrizzle \in Nat : nDrizzle = Count(codes, Drizzle) /\ (nDrizzle > 0 <=> Has(codes, Drizzle))
  BY CountIs
<1>4. PICK nLiquid \in Nat : nLiquid = nRain + nDrizzle /\ (nLiquid > 0 <=> Has(codes, LiquidCodes))
  <2>1. nRain + nDrizzle > 0 <=> nRain > 0 \/ nDrizzle > 0
    OBVIOUS
  <2>2. Has(codes, LiquidCodes) <=> Has(codes, RainCont \union RainShwr) \/ Has(codes, Drizzle)
    BY DEF Has, LiquidCodes
  <2> QED BY <1>2, <1>3, <2>1, <2>2
<1>5. nSnow + nLiquid = 0 <=> ~Has(codes, WetCodes)
  <2>1. Has(codes, WetCodes) <=> Has(codes, LiquidCodes) \/ Has(codes, SnowCont \union SnowShwr)
    BY DEF Has, LiquidCodes, WetCodes
  <2> QED BY <1>1, <1>4, <2>1
<1>6. \A family \in {Thunder, Freezing, SnowCont, RainCont} :
        Count(codes, family) \in Nat /\ (Count(codes, family) > 0 <=> Has(codes, family))
  BY CountIs
<1>7. c = LET nWet == nSnow + nLiquid
              sparse == 2 * nWet < Cardinality(DOMAIN codes)
              worst(family) == Max(Range(codes) \intersect family)
          IN  IF Count(codes, Thunder) > 0 THEN worst(Thunder)
              ELSE IF Count(codes, Freezing) > 0 THEN worst(Freezing)
              ELSE IF nWet = 0 THEN DrySkyCode(codes)
              ELSE IF Mixed(nSnow, nLiquid, snow, rain)
              THEN Graded(SnowPerRain * rain + snow, <<350 * nWet>>, <<MixLight, MixHeavy>>)
              ELSE IF nSnow > nLiquid
              THEN IF sparse \/ Count(codes, SnowCont) = 0
                   THEN Graded(snow, <<500 * nSnow>>, <<85, 86>>)
                   ELSE Graded(snow, <<100 * nSnow, 500 * nSnow>>, <<71, 73, 75>>)
              ELSE IF nRain = 0 THEN Graded(rain, <<50 * nLiquid, 100 * nLiquid>>, <<51, 53, 55>>)
              ELSE Graded(rain, <<200 * nLiquid, 500 * nLiquid>>,
                          IF sparse \/ Count(codes, RainCont) = 0 THEN <<80, 81, 82>> ELSE <<61, 63, 65>>)
  <2>1. /\ nSnow = Count(codes, SnowCont \union SnowShwr) /\ nRain = Count(codes, RainCont \union RainShwr)
        /\ nLiquid = Count(codes, RainCont \union RainShwr) + Count(codes, Drizzle)
    BY <1>1, <1>2, <1>3, <1>4
  <2> QED BY <2>1 DEF AggregateWeathercode
<1>8. CASE Has(codes, Thunder)
  <2>1. c = Max(Range(codes) \intersect Thunder)
    BY <1>6, <1>7, <1>8
  <2>2. c \in Thunder
    BY <1>8, <2>1, WorstIs DEF Thunder
  <2> QED BY <2>2 DEF Says, Thunder, Sky, Fog, WetCodes, LiquidCodes, Drizzle, RainCont, RainShwr, SnowCont,
                      SnowShwr, MixLight, MixHeavy
<1>9. CASE ~Has(codes, Thunder) /\ Has(codes, Freezing)
  <2>1. c = Max(Range(codes) \intersect Freezing)
    BY <1>6, <1>7, <1>9
  <2>2. c \in Freezing
    BY <1>9, <2>1, WorstIs DEF Freezing
  <2> QED BY <1>9, <2>2 DEF Says, Freezing, Sky, Fog, WetCodes, LiquidCodes, Drizzle, RainCont, RainShwr, SnowCont,
                            SnowShwr, MixLight, MixHeavy
<1> DEFINE Plain == ~Has(codes, Thunder) /\ ~Has(codes, Freezing)
           Wet == Plain /\ nSnow + nLiquid # 0
<1>10. CASE Plain /\ nSnow + nLiquid = 0
  <2>1. c = DrySkyCode(codes)
    BY <1>6, <1>7, <1>10
  <2>2. c \in Sky
    BY <2>1, SkyCode
  <2> QED BY <1>5, <1>10, <2>2 DEF Says, Sky, Fog, WetCodes, LiquidCodes, Drizzle, RainCont, RainShwr, SnowCont,
                                   SnowShwr, MixLight, MixHeavy
<1>11. CASE Wet /\ Mixed(nSnow, nLiquid, snow, rain)
  <2>1. c = Graded(SnowPerRain * rain + snow, <<350 * (nSnow + nLiquid)>>, <<MixLight, MixHeavy>>)
    BY <1>6, <1>7, <1>11
  <2>2. c \in {MixLight, MixHeavy}
    BY <2>1, GradedOnce
  <2>3. ~(rain = 0 /\ ~Has(codes, LiquidCodes))
    <3> SUFFICES ASSUME rain = 0, ~Has(codes, LiquidCodes) PROVE FALSE
      OBVIOUS
    <3>1. nLiquid = 0 /\ nSnow > 0
      BY <1>4, <1>11
    <3> QED BY <1>11, <3>1 DEF Mixed, SnowPerRain
  <2> QED BY <1>11, <2>2, <2>3 DEF Says, Sky, Fog, WetCodes, LiquidCodes, Drizzle, RainCont, RainShwr, SnowCont,
                            SnowShwr, MixLight, MixHeavy
<1>12. ~Mixed(nSnow, nLiquid, snow, rain) => Uneven(SnowPerRain * rain, snow)
  BY MixedOrUneven
<1>13. CASE Wet /\ ~Mixed(nSnow, nLiquid, snow, rain) /\ nSnow > nLiquid
  <2>1. \/ c = Graded(snow, <<500 * nSnow>>, <<85, 86>>)
        \/ c = Graded(snow, <<100 * nSnow, 500 * nSnow>>, <<71, 73, 75>>) /\ Count(codes, SnowCont) # 0
    BY <1>6, <1>7, <1>13
  <2>2. c \in {85, 86} \/ (c \in {71, 73, 75} /\ Has(codes, SnowCont))
    BY <1>6, <2>1, GradedOnce, GradedTwice
  <2>3. Has(codes, SnowCont) => Has(codes, RainCont \union SnowCont)
    BY DEF Has
  <2> QED BY <1>12, <1>13, <2>2, <2>3 DEF Says, Sky, Fog, WetCodes, LiquidCodes, Drizzle, RainCont, RainShwr, SnowCont,
                            SnowShwr, MixLight, MixHeavy
<1>14. CASE Wet /\ ~Mixed(nSnow, nLiquid, snow, rain) /\ ~(nSnow > nLiquid)
  <2>1. \/ c = Graded(rain, <<50 * nLiquid, 100 * nLiquid>>, <<51, 53, 55>>)
        \/ c = Graded(rain, <<200 * nLiquid, 500 * nLiquid>>, <<80, 81, 82>>)
        \/ c = Graded(rain, <<200 * nLiquid, 500 * nLiquid>>, <<61, 63, 65>>) /\ Count(codes, RainCont) # 0
    BY <1>6, <1>7, <1>14
  <2>2. c \in {51, 53, 55} \/ c \in {80, 81, 82} \/ (c \in {61, 63, 65} /\ Has(codes, RainCont))
    BY <1>6, <2>1, GradedTwice
  <2>3. Has(codes, RainCont) => Has(codes, RainCont \union SnowCont)
    BY DEF Has
  <2>4. Has(codes, LiquidCodes)
    BY <1>4, <1>14
  <2> QED BY <1>5, <1>12, <1>14, <2>2, <2>3, <2>4 DEF Says, Sky, Fog, WetCodes, Drizzle, RainCont, RainShwr, SnowCont,
                            SnowShwr
<1> QED BY <1>8, <1>9, <1>10, <1>11, <1>13, <1>14


(* The second part of PeriodsTell: each period's code agrees with its amounts
   and its hours. *)
LEMMA SummariesAgree == AggregateInv => SummaryAgrees
<1> SUFFICES ASSUME AggregateInv, aggregation = "done" PROVE SummaryAgrees
  BY DEF SummaryAgrees
<1>1. PICK win : win = WindowsFor(sky)
  OBVIOUS
<1>2. PICK n \in Nat : n = Len(sky.hours)
  BY SkyFetched
<1>3. /\ sky \in Skies /\ adjusted = Corrected(sky) /\ LaidOver(win, n) /\ rows = RowsFromWindows(sky, adjusted, win)
  BY <1>1, <1>2, SkyFetched
<1>4. \A i \in 1 .. n : sky.hours[i] \in Readings /\ adjusted[i] = AdjustPrecipPhase(sky.hours[i])
  BY <1>2, <1>3, SkyIs DEF Corrected
<1> SUFFICES ASSUME NEW p \in DOMAIN rows
             PROVE  LET hours == {sky.hours[i] : i \in ToSet(win[p])}
                        water(h) == SnowPerRain * h.rain + h.snow
                        codes == {h.code : h \in hours}
                        row == rows[p]
                    IN  /\ water(row) = SumOf([k \in DOMAIN win[p] |-> water(sky.hours[win[p][k]])])
                        /\ (\A h \in hours : Snowy(h) /\ h.code \notin Freezing)
                             => row.rain = 0 /\ row.code \notin LiquidCodes \union {MixLight, MixHeavy}
                        /\ row.code \in WetCodes => Uneven(SnowPerRain * row.rain, row.snow)
                        /\ row.code \in RainCont \union SnowCont
                             => codes \intersect (RainCont \union SnowCont \union Drizzle) # {}
                        /\ codes \intersect Thunder # {} => row.code \in Thunder
                        /\ row.code \in {0, 1, 2, 3} \union Fog => codes \intersect WetCodes = {}
  BY <1>1 DEF SummaryAgrees, LiquidCodes, WetCodes, Uneven
<1>5. p \in DOMAIN win
  BY <1>3, RowIs
<1>6. PICK w : w = win[p]
  OBVIOUS
<1>7. PICK m \in Nat : w \in [1 .. m -> 1 .. n]
  BY <1>3, <1>5, <1>6 DEF LaidOver
<1> DEFINE old == [k \in 1 .. m |-> sky.hours[w[k]]]
           new == [k \in 1 .. m |-> adjusted[w[k]]]
<1>8. ASSUME NEW k \in 1 .. m
      PROVE  old[k] \in Readings /\ new[k] = AdjustPrecipPhase(old[k])
  BY <1>4, <1>7
<1>9. \A k \in 1 .. m : new[k] = adjusted[w[k]] /\ old[k] = sky.hours[w[k]]
  OBVIOUS
<1> HIDE DEF old, new
<1>10. ASSUME NEW k \in 1 .. m
       PROVE  /\ new[k].code \in Int \union {NoReading} /\ new[k].rain \in Nat /\ new[k].snow \in Nat
              /\ 7 * new[k].rain + new[k].snow = 7 * old[k].rain + old[k].snow
              /\ old[k].code \in Thunder => new[k].code = old[k].code
              /\ old[k].code \in WetCodes => new[k].code \in WetCodes
              /\ new[k].code \in RainCont \union SnowCont => old[k].code \in RainCont \union SnowCont \union Drizzle
              /\ Snowy(old[k]) /\ old[k].code \notin Freezing =>
                   new[k].rain = 0 /\ new[k].code \notin LiquidCodes \union Freezing
  BY <1>8, HourCorrected
<1> DEFINE u == [k \in 1 .. m |-> 7 * old[k].rain + old[k].snow]
           r == [k \in 1 .. m |-> new[k].rain]
           s == [k \in 1 .. m |-> new[k].snow]
           codes == CodesOf(adjusted, w)
           row == rows[p]
<1>11. /\ row.snow = SumOf(s) /\ row.rain = SumOf(r)
       /\ row.code = IF DOMAIN codes = {} THEN NoReading ELSE AggregateWeathercode(codes, row.snow, row.rain)
  <2>1. DOMAIN w = 1 .. m
    BY <1>7
  <2>2. SnowOf(adjusted, w) = SumOf(s) /\ RainOf(adjusted, w) = SumOf(r)
    <3>1. [k \in DOMAIN w |-> adjusted[w[k]].snow] = s /\ [k \in DOMAIN w |-> adjusted[w[k]].rain] = r
      BY <1>9, <2>1
    <3> QED BY <3>1 DEF SnowOf, RainOf
  <2>3. /\ rows[p].snow = SnowOf(adjusted, win[p]) /\ rows[p].rain = RainOf(adjusted, win[p])
        /\ rows[p].code = IF DOMAIN CodesOf(adjusted, win[p]) = {} THEN NoReading
                          ELSE AggregateWeathercode(CodesOf(adjusted, win[p]), rows[p].snow, rows[p].rain)
    BY <1>3, <1>5, RowIs
  <2> QED BY <1>6, <2>2, <2>3
<1>12. /\ DOMAIN codes \subseteq 1 .. m
       /\ \A k \in DOMAIN codes : codes[k] = new[k].code
       /\ \A k \in 1 .. m : new[k].code # NoReading => k \in DOMAIN codes
  <2>1. DOMAIN w = 1 .. m
    BY <1>7
  <2> QED BY <1>9, <2>1 DEF CodesOf
<1>13. /\ u \in [1 .. m -> Nat] /\ r \in [1 .. m -> Nat] /\ s \in [1 .. m -> Nat]
       /\ \A k \in 1 .. m : u[k] = 7 * r[k] + s[k]
  <2>1. \A k \in 1 .. m : old[k].rain \in Nat /\ old[k].snow \in Nat
    BY <1>8 DEF Readings
  <2> QED BY <1>10, <2>1
<1>14. row.rain \in Nat /\ row.snow \in Nat /\ 7 * row.rain + row.snow = SumOf(u)
  <2>1. [k \in DOMAIN w |-> 7 * sky.hours[w[k]].rain + sky.hours[w[k]].snow] = u
    BY <1>7, <1>9
  <2> HIDE DEF u, r, s
  <2>2. SumOf(u) = 7 * SumOf(r) + SumOf(s)
    BY <1>13, SumsTogether
  <2>3. SumOf(r) \in Nat /\ SumOf(s) \in Nat
    BY <1>13, SumOfIs
  <2> QED BY <1>11, <2>2, <2>3
<1>15. SumOf(u) = SumOf([k \in DOMAIN w |-> SnowPerRain * sky.hours[w[k]].rain + sky.hours[w[k]].snow])
  BY <1>7, <1>9 DEF SnowPerRain
<1>16. row.code = NoReading \/ Says(codes, row.snow, row.rain, row.code)
  <2> HIDE DEF codes
  <2> QED BY <1>11, <1>12, <1>14, CodeSays
<1>17. NoReading \notin LiquidCodes \union {MixLight, MixHeavy} \union WetCodes \union Sky \union Thunder
  <2>1. LiquidCodes \union {MixLight, MixHeavy} \union WetCodes \union Sky \union Thunder \subseteq Int
    BY DEF LiquidCodes, MixLight, MixHeavy, WetCodes, Sky, Fog, Thunder, Drizzle, RainCont, RainShwr, SnowCont,
           SnowShwr
  <2> QED BY <2>1, SkiesAssumption
<1> DEFINE hours == {sky.hours[i] : i \in ToSet(w)}
           told == {h.code : h \in hours}
<1>18. hours = {old[k] : k \in 1 .. m} /\ told = {old[k].code : k \in 1 .. m}
  <2>1. ToSet(w) = {w[k] : k \in 1 .. m}
    BY <1>7 DEF ToSet
  <2>2. hours = {old[k] : k \in 1 .. m}
    BY <1>9, <2>1
  <2> HIDE DEF hours
  <2>3. \A k \in 1 .. m : old[k].code \in told
    BY <2>2
  <2>4. ASSUME NEW c \in told PROVE \E k \in 1 .. m : c = old[k].code
    <3>1. PICK h \in hours : c = h.code
      OBVIOUS
    <3> QED BY <2>2, <3>1
  <2> HIDE DEF told
  <2>5. told = {old[k].code : k \in 1 .. m}
    BY <2>3, <2>4
  <2> QED BY <2>2, <2>5
<1> HIDE DEF u, r, s, codes, hours, told
<1>19. ASSUME \A h \in hours : Snowy(h) /\ h.code \notin Freezing
       PROVE  row.rain = 0 /\ row.code \notin LiquidCodes \union {MixLight, MixHeavy}
  <2>1. \A k \in 1 .. m : new[k].rain = 0 /\ new[k].code \notin LiquidCodes
    BY <1>10, <1>18, <1>19
  <2>2. row.rain = 0
    <3>1. \A k \in 1 .. m : r[k] = 0
      BY <2>1 DEF r
    <3> QED BY <1>11, <1>13, <3>1, SumOfNone
  <2>3. ~Has(codes, LiquidCodes)
    BY <1>12, <2>1 DEF Has
  <2> QED BY <1>16, <1>17, <2>2, <2>3 DEF Says
<1>20. row.code \in WetCodes => Uneven(SnowPerRain * row.rain, row.snow)
  BY <1>16, <1>17 DEF Says
<1>21. row.code \in RainCont \union SnowCont => told \intersect (RainCont \union SnowCont \union Drizzle) # {}
  <2> SUFFICES ASSUME row.code \in RainCont \union SnowCont
               PROVE  told \intersect (RainCont \union SnowCont \union Drizzle) # {}
    OBVIOUS
  <2>1. Has(codes, RainCont \union SnowCont)
    BY <1>16, <1>17 DEF Says, WetCodes
  <2>2. PICK k \in DOMAIN codes : codes[k] \in RainCont \union SnowCont
    BY <2>1 DEF Has
  <2>3. old[k].code \in RainCont \union SnowCont \union Drizzle /\ old[k].code \in told
    BY <1>10, <1>12, <1>18, <2>2
  <2> QED BY <2>3
<1>22. told \intersect Thunder # {} => row.code \in Thunder
  <2> SUFFICES ASSUME told \intersect Thunder # {} PROVE row.code \in Thunder
    OBVIOUS
  <2>1. PICK k \in 1 .. m : old[k].code \in Thunder
    BY <1>18
  <2>2. new[k].code \in Thunder
    BY <1>10, <2>1
  <2>3. new[k].code # NoReading
    BY <1>17, <2>2
  <2>4. k \in DOMAIN codes /\ codes[k] \in Thunder
    BY <1>12, <2>2, <2>3
  <2>5. Has(codes, Thunder) /\ DOMAIN codes # {}
    BY <2>4 DEF Has
  <2> QED BY <1>11, <1>12, <1>14, <2>5, CodeSays DEF Says
<1>23. row.code \in {0, 1, 2, 3} \union Fog => told \intersect WetCodes = {}
  <2> SUFFICES ASSUME row.code \in Sky, told \intersect WetCodes # {} PROVE FALSE
    BY DEF Sky
  <2>1. PICK k \in 1 .. m : old[k].code \in WetCodes
    BY <1>18
  <2>2. new[k].code \in WetCodes
    BY <1>10, <2>1
  <2>3. new[k].code # NoReading
    BY <1>17, <2>2
  <2>4. Has(codes, WetCodes)
    BY <1>12, <2>2, <2>3 DEF Has
  <2> QED BY <1>16, <1>17, <2>4 DEF Says
<1>24. SnowPerRain * row.rain + row.snow
         = SumOf([k \in DOMAIN w |-> SnowPerRain * sky.hours[w[k]].rain + sky.hours[w[k]].snow])
  BY <1>14, <1>15 DEF SnowPerRain
<1> QED BY <1>6, <1>19, <1>20, <1>21, <1>22, <1>23, <1>24, Zenon DEF hours, told

(* buildLayoutMessage: what a period is told in says what its hours were.
   Each day's extremes are told as near as one reading of each of its periods
   can tell them, and a period's code agrees with the amounts beside it. *)
THEOREM PeriodsAreTold == AggregateSpec => []PeriodsTell
<1>1. AggregateInv => PeriodsTell
  BY ExtremesTold, SummariesAgree DEF PeriodsTell
<1> QED BY <1>1, AggregateInvariant, PTL

=============================================================================
