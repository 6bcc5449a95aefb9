----------------------------- MODULE CodecServer -----------------------------
(***************************************************************************)
(* How the codec server serves a request (codec-server/index.ts and        *)
(* forecast.ts): the checks before any work, the one upstream fetch, the   *)
(* search up the ladder of layouts for the largest that fits the route's   *)
(* budget, and the messages the reply goes out as (protocol/devices.ts).   *)
(* A bulletin of avalanche.ts is encoded whole instead and never cut.      *)
(*                                                                         *)
(* An encoding is its length in characters.  What each rung of the ladder  *)
(* comes to depends on the weather, so any lengths may meet a request, and *)
(* a rung may have no data at all.                                         *)
(***************************************************************************)
EXTENDS Integers, Sequences, FiniteSets, SequencesExt

CONSTANTS
  Devices,       \* of "i", "s", "z", "d", "g", and "none": no `d:` token
  AskedFor,      \* values of the `n:` token
  MaxSeq,        \* rungs of the ladder
  Unservable     \* a rung the upstream data does not cover

ASSUME CodecServerAssumption ==
  /\ Devices \subseteq {"i", "s", "z", "d", "g", "none"}
  /\ AskedFor \subseteq Nat \ {0} /\ MaxSeq \in Nat \ {0}
  /\ Unservable \notin Nat

VARIABLES
  ask,       \* what is being served
  ladder,    \* what each rung would come to
  serving,     \* idle, fetching, searching, done
  lo, hi,    \* rungs the search has left
  best,      \* the largest rung known to fit, the first until then
  status,    \* of the response
  reply      \* lengths of its messages
codecVars == <<ask, ladder, serving, lo, hi, best, status, reply>>

-----------------------------------------------------------------------------
HeaderChars == 5
PartLabelChars == 4
MaxMessages == 4
MaxParts == 9
BubbleBytes == 140
WideCharBytes == 3
ConcatSegment == 153
Uncapped == 1000000

TransportChars == [i |-> 50, s |-> 160, z |-> 240, g |-> 160, d |-> Uncapped]

(* A request that names no device is budgeted as SMS, and never split. *)
Route(device) == IF device = "none" THEN "s" ELSE device

Splits(device) == device \in {"i", "z", "g"}

PartBodyChars(device) ==
  IF device = "i" THEN (BubbleBytes - PartLabelChars - HeaderChars) \div WideCharBytes
  ELSE TransportChars[device] - PartLabelChars - HeaderChars

Clamped(n) == IF n < MaxMessages THEN n ELSE MaxMessages

BadMaxCharsFor(device, n) ==
  IF Route(device) = "d" THEN Uncapped ELSE n * TransportChars[Route(device)]

(* One message carries no label and repeats no header; a longer SMS is one
   string the transport concatenates, its segments the shorter for it. *)
MaxCharsFor(device, n) ==
  LET route == Route(device)
  IN  IF route = "d" THEN Uncapped
      ELSE IF n = 1 THEN TransportChars[route]
      ELSE IF Splits(route) THEN HeaderChars + n * PartBodyChars(route)
      ELSE n * ConcatSegment

(* splitReplyFor, as the lengths of the messages. *)
SplitReplyFor(device, length) ==
  LET body == PartBodyChars(device)
      parts == (length - HeaderChars + body - 1) \div body
  IN  IF ~Splits(device) \/ length <= TransportChars[device] THEN <<length>>
      ELSE [i \in 1 .. parts |->
              PartLabelChars + HeaderChars
                + (IF i < parts THEN body ELSE length - HeaderChars - (parts - 1) * body)]

(* Lengths on either side of everything that is compared with one. *)
Lengths(device, n) ==
  LET budget == MaxCharsFor(device, n)
      one == TransportChars[Route(device)]
  IN  {HeaderChars + 1, one, one + 1, budget, budget + 1}

BulletinLengths(device) ==
  IF Splits(device)
  THEN {HeaderChars + 1} \union {HeaderChars + k * PartBodyChars(device) + e : k \in {1, 9}, e \in 0 .. 1}
  ELSE Lengths(device, 9)

-----------------------------------------------------------------------------
NoAsk == <<>>
Idle == /\ ask = NoAsk /\ ladder = <<>> /\ serving = "idle" /\ lo = 0 /\ hi = 0
        /\ best = 0 /\ status = 0 /\ reply = <<>>

CodecInit == Idle

Respond(code, messages) ==
  /\ status' = code /\ reply' = messages /\ serving' = "done"

(* Malformed, or of a time no layout can serve: before any upstream call. *)
Refuse(device, n, code) ==
  /\ serving = "idle"
  /\ ask' = [device |-> device, kind |-> "weather", messages |-> Clamped(n)]
  /\ Respond(code, <<>>)
  /\ UNCHANGED <<ladder, lo, hi, best>>

Accept(device, n, kind) ==
  /\ serving = "idle"
  /\ ask' = [device |-> device, kind |-> kind, messages |-> Clamped(n)]
  /\ serving' = "fetching"
  /\ UNCHANGED <<ladder, lo, hi, best, status, reply>>

UpstreamFails ==
  /\ serving = "fetching" /\ Respond(503, <<>>)
  /\ UNCHANGED <<ask, ladder, lo, hi, best>>

NoBulletin ==
  /\ serving = "fetching" /\ ask.kind = "avalanche" /\ Respond(422, <<>>)
  /\ UNCHANGED <<ask, ladder, lo, hi, best>>

(* serveAvalanche: more parts than a label can number is a failure. *)
ServeBulletin(length) ==
  /\ serving = "fetching" /\ ask.kind = "avalanche"
  /\ LET parts == SplitReplyFor(ask.device, length)
     IN  IF Len(parts) > MaxParts THEN Respond(503, <<>>) ELSE Respond(200, parts)
  /\ UNCHANGED <<ask, ladder, lo, hi, best>>

(* fetchForecast has its data; the first rung is encoded before the search. *)
Fetched(lengths) ==
  /\ serving = "fetching" /\ ask.kind = "weather"
  /\ ladder' = lengths
  /\ IF lengths[1] = Unservable
     THEN Respond(503, <<>>) /\ UNCHANGED <<lo, hi, best>>
     ELSE /\ serving' = "searching" /\ lo' = 1 /\ hi' = MaxSeq /\ best' = 1
          /\ UNCHANGED <<status, reply>>
  /\ UNCHANGED ask

Fits(length) == length # Unservable /\ length <= MaxCharsFor(ask.device, ask.messages)

BadKeep(mid) == IF ladder[mid] # Unservable THEN mid ELSE best

Keep(mid) == IF Fits(ladder[mid]) THEN mid ELSE best

(* fitFillToBudget *)
Search ==
  /\ serving = "searching" /\ lo <= hi
  /\ LET mid == (lo + hi) \div 2
     IN  /\ best' = Keep(mid)
         /\ IF Fits(ladder[mid]) THEN lo' = mid + 1 /\ hi' = hi ELSE hi' = mid - 1 /\ lo' = lo
  /\ UNCHANGED <<ask, ladder, serving, status, reply>>

Serve ==
  /\ serving = "searching" /\ lo > hi
  /\ Respond(200, SplitReplyFor(ask.device, ladder[best]))
  /\ UNCHANGED <<ask, ladder, lo, hi, best>>

CodecNext ==
  \/ \E device \in Devices, n \in AskedFor :
       \/ \E code \in {400, 422} : Refuse(device, n, code)
       \/ \E kind \in {"weather", "avalanche"} : Accept(device, n, kind)
  \/ UpstreamFails \/ NoBulletin \/ Search \/ Serve
  \/ /\ ask # NoAsk
     /\ \E length \in BulletinLengths(ask.device) : ServeBulletin(length)
  \/ /\ ask # NoAsk
     /\ \E lengths \in [1 .. MaxSeq -> Lengths(ask.device, ask.messages) \union {Unservable}] : Fetched(lengths)

CodecSpec == CodecInit /\ [][CodecNext]_codecVars

-----------------------------------------------------------------------------
(* The rungs get no shorter and lose no data as they go down: what the
   search takes the ladder to be. *)
Growing == \A i, j \in DOMAIN ladder : i < j /\ Fits(ladder[j]) => Fits(ladder[i])

Served == serving = "done" /\ status = 200

(* What a message costs its transport, in its own units: bytes of a bubble
   (of a wide body's characters the last takes two), characters elsewhere. *)
Cost(device, length, labelled) ==
  IF device = "i"
  THEN LET ascii == HeaderChars + (IF labelled THEN PartLabelChars ELSE 0)
       IN  ascii + WideCharBytes * (length - ascii) - 1
  ELSE length

MessageLimit(device) == IF device = "i" THEN BubbleBytes ELSE TransportChars[device]

Segments(length) == IF length <= 160 THEN 1 ELSE (length + ConcatSegment - 1) \div ConcatSegment

(***************************************************************************)
(* A reply never spends more messages than its request asked for, unless   *)
(* it is the first rung, which goes out whatever it comes to; a bulletin   *)
(* never more than a label numbers.  On a route that splits each message   *)
(* is one the transport carries whole: cut to a budget in characters of    *)
(* the string, it is divided in units of the pipe.                         *)
(***************************************************************************)
WithinWhatWasAsked ==
  Served =>
    LET limit == IF ask.kind = "avalanche" THEN MaxParts ELSE ask.messages
        bound == ask.kind = "avalanche" \/ Fits(ladder[best])
    IN  IF Splits(ask.device)
        THEN /\ bound => Len(reply) <= limit
             /\ \A i \in DOMAIN reply :
                  Cost(ask.device, reply[i], Len(reply) > 1) <= MessageLimit(ask.device)
        ELSE /\ Len(reply) = 1
             /\ ask.kind = "weather" /\ bound /\ Route(ask.device) = "s" =>
                  Segments(reply[1]) <= limit

(***************************************************************************)
(* What is sent fits the budget whenever any rung tried did, and where the *)
(* ladder grows as it should it is the largest that does.                  *)
(***************************************************************************)
LargestThatFits ==
  Served /\ ask.kind = "weather" =>
    /\ ladder[best] # Unservable
    /\ best # 1 => Fits(ladder[best])
    /\ Growing => \A j \in DOMAIN ladder : Fits(ladder[j]) => j <= best

=============================================================================
