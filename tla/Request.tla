------------------------------- MODULE Request -------------------------------
(***************************************************************************)
(* A request, from the press that makes it to the codec's reading of it:   *)
(* the screen (mobile/HomeScreen.tsx) takes what is selected, waits for a  *)
(* position where it has none, stores what the reply will be read with     *)
(* under a code and writes the message; gateway and codec (server/         *)
(* dispatch.ts, codec-server/forecast.ts) read it back, whenever it        *)
(* arrives.  The wait for a position can be called off, but not stopped.   *)
(*                                                                         *)
(* A message is a sequence of words, a word a key and what it says.  A     *)
(* coordinate counts in 1/100000 of a degree, time in hours.  A code is    *)
(* given once (SlotRing has what the store does); a pin is a point, or     *)
(* NoPoint where its text does not read as one.                            *)
(***************************************************************************)
EXTENDS CodecServer, Layout

CONSTANTS
  Presses,      \* of a button that sends or locates, numbered
  Selections,   \* what the builder can be set to
  Pins, Fixes,  \* points, of a lat and a lon
  Footers,      \* words a relay writes after the message
  Hours,        \* the clock's, in UTC
  Starts,       \* a selection, and what the phone's clock is off by
  ZoneAt,       \* UTC offset of a place at an hour (external)
  SavedPin,     \* the pin of the last session, or NoPoint
  WireVersion, Token, Platform,
  NoPoint, NoWord,
  MaxChanges    \* bound on what the reader and the phone's position change

ASSUME RequestAssumption ==
  /\ Presses \subseteq Nat /\ IsFiniteSet(Presses) /\ Hours \subseteq Nat /\ MaxChanges \in Nat
  /\ NoPoint \notin Pins \union Fixes

VARIABLES
  clock, skew,
  selection,
  place,       \* following the phone or at a pin, and the last fix
  changes,     \* how much has been changed
  locating,    \* the buttons are greyed for a fix
  locateGen,   \* the wait that is current
  press,       \* each press under way, with what it has of its closure
  slots,       \* contexts by code
  outbox,      \* the message of each press that was handed over
  verdict,     \* what came of it
  pressedWith  \* as a ghost, what each press that sends was made with
requestVars == <<clock, skew, selection, place, changes, locating, locateGen, press, slots,
                 outbox, verdict, pressedWith>>

-----------------------------------------------------------------------------
AlwaysVars == {"temp", "snow", "rain", "wind", "gust"}
UsIndex == {"a", "s", "m", "o", "d", "u"}
EuIndex == {"e", "2", "1", "3", "n", "q"}
VarCodes == {"p", "c", "f", "h", "g"} \union UsIndex \union EuIndex
WindLevels == {"w300", "w400", "w500", "w600", "w700", "w850", "w925"}
ModelNames == {"best", "us", "ca", "eu", "de"}
ModeTokens == {"d", "a", "r"}
CodeLimit == 127

ModelUnavail(model) == IF model \in {"ca", "eu"} THEN {"f"} ELSE {}

(* The groups on show for the index in use that the model can supply. *)
SelectedVars(sel) ==
  LET hidden == IF sel.scale = "us" THEN EuIndex ELSE UsIndex
  IN  AlwaysVars \union (sel.groups \ (hidden \union ModelUnavail(sel.model)))

(* multiMessageOffered *)
TwoOffered(device, chosen) ==
  LET clouds == "c" \in chosen
      others == Cardinality(chosen \ (AlwaysVars \union {"c"}))
  IN  CASE device = "d" -> FALSE
        [] device = "i" -> TRUE
        [] device = "z" -> clouds \/ others >= 2
        [] OTHER -> clouds \/ others >= 1

MessagesFor(sel) == IF sel.two /\ TwoOffered(sel.device, SelectedVars(sel)) THEN 2 ELSE 1

Nearest(v, unit) == ((v + unit \div 2) \div unit) * unit

(* toFixed(4) *)
FourPlaces(c) == [lat |-> Nearest(c.lat, 10), lon |-> Nearest(c.lon, 10)]

(* A hundredth of a degree. *)
Coarse(c) == [lat |-> Nearest(c.lat, 1000), lon |-> Nearest(c.lon, 1000)]

-----------------------------------------------------------------------------
Chosen == Selections \union {start[1] : start \in Starts}
Points == (Pins \union Fixes \union {SavedPin}) \ {NoPoint}
PhoneHours == {hour + start[2] : hour \in Hours, start \in Starts}

(* What the builder offers, what a phone can know of where and when, and no
   more presses than there are codes. *)
ASSUME BuilderAssumption ==
  /\ \A sel \in Chosen : /\ sel.device \in DOMAIN TransportChars /\ sel.mode \in ModeTokens
                        /\ sel.model \in ModelNames /\ sel.groups \subseteq VarCodes \union WindLevels
                        /\ sel.two \in BOOLEAN
  /\ Platform \in {"i", "a"}
  /\ PhoneHours \subseteq Nat
  /\ \A c \in Points : /\ c.lat \in Int /\ c.lon \in Int
                      /\ \A hour \in PhoneHours : ZoneAt[c][hour] \in -12 .. 14
  /\ Cardinality(Presses) <= CodeLimit + 1
  /\ NoWord \notin Nat /\ \A model \in ModelNames : NoWord # {model}

-----------------------------------------------------------------------------
BuildContext(kind, sel, c, hour) ==
  IF kind = "avalanche"
  THEN [kind |-> kind, at |-> c, start |-> hour, device |-> sel.device, day |-> sel.day]
  ELSE [kind |-> kind, at |-> c, start |-> hour, device |-> sel.device, mode |-> sel.mode,
        offset |-> ZoneAt[c][hour], model |-> sel.model, vars |-> SelectedVars(sel)]

Where(key, said) == IF said = {} THEN <<>> ELSE << <<key, said>> >>

RouteWords(sel) == << <<"d", sel.device>>, <<"o", Platform>> >>
Signed(code, hour) == << <<"u", Token>>, <<"k", code>>, <<"t", hour>> >>

BuildMsg(sel, c, code, hour) ==
  << <<"version", WireVersion>>, <<"at", FourPlaces(c)>>, <<"f", "w">>, <<"p", sel.mode>>,
     <<"z", ZoneAt[c][hour]>>, <<"m", {sel.model}>> >>
  \o Where("v", SelectedVars(sel) \intersect VarCodes)
  \o Where("w", SelectedVars(sel) \intersect WindLevels)
  \o RouteWords(sel)
  \o (IF MessagesFor(sel) > 1 THEN << <<"n", MessagesFor(sel)>> >> ELSE <<>>)
  \o Signed(code, hour)

BuildAvalancheMsg(sel, c, code, hour) ==
  << <<"version", WireVersion>>, <<"at", FourPlaces(c)>>, <<"f", "a">> >>
  \o RouteWords(sel) \o Signed(code, hour)
  \o (IF sel.day = NoWord THEN <<>> ELSE << <<"y", sel.day>> >>)

Message(kind, sel, c, code, hour) ==
  IF kind = "avalanche" THEN BuildAvalancheMsg(sel, c, code, hour) ELSE BuildMsg(sel, c, code, hour)

-----------------------------------------------------------------------------
(* The grammar. *)
Seen(words, key) == \E i \in DOMAIN words : words[i][1] = key
SaidUnder(words, key) == {words[i][2] : i \in {j \in DOMAIN words : words[j][1] = key}}

Keys == {"version", "at", "f", "p", "z", "d", "o", "y", "n", "m", "w", "v", "u", "k", "t"}

(* What a relay writes is none of the grammar's words: text without a key, an
   address (https:), a Lat and Lon the message's own point goes before. *)
ASSUME FooterAssumption ==
  \A footer \in Footers :
    /\ footer \in Seq(Range(footer))
    /\ \A i \in DOMAIN footer : footer[i][1] \notin Keys

(* The last word of a key stands. *)
Heard(words, key, otherwise) ==
  IF Seen(words, key)
  THEN words[Max({i \in DOMAIN words : words[i][1] = key})][2]
  ELSE otherwise

FirstVersion(words) == words[Min({i \in DOMAIN words : words[i][1] = "version"})][2]

Valid(word) ==
  LET says == word[2]
  IN  CASE word[1] = "f" -> says \in {"w", "a"}
        [] word[1] = "p" -> says \in ModeTokens
        [] word[1] = "z" -> says \in -12 .. 14
        [] word[1] = "d" -> says \in DOMAIN TransportChars
        [] word[1] = "o" -> says \in {"i", "a"}
        [] word[1] = "n" -> says \in 1 .. MaxMessages
        [] word[1] = "m" -> says \subseteq ModelNames
        [] word[1] = "w" -> says # {} /\ says \subseteq WindLevels
        [] word[1] = "v" -> says \subseteq VarCodes
        [] word[1] = "k" -> says \in 0 .. CodeLimit
        [] word[1] = "t" -> says >= 0
        [] OTHER -> TRUE

Kind(words) == IF Heard(words, "f", "w") = "a" THEN "avalanche" ELSE "weather"

Required(kind) ==
  {"f", "d", "u", "k", "t"} \union (IF kind = "weather" THEN {"p", "z", "m"} ELSE {})
Foreign(kind) == IF kind = "weather" THEN {"y"} ELSE {"p", "z", "m", "v", "w", "n"}

Malformed(words) ==
  \/ \E i \in DOMAIN words : ~Valid(words[i])
  \/ \E key \in Required(Kind(words)) : ~Seen(words, key)
  \/ \E key \in Foreign(Kind(words)) : Seen(words, key)
  \/ ~Seen(words, "at") /\ ~Seen(words, "footer")

(* parseRequest, of a message it takes. *)
Parsed(words) ==
  LET device == Heard(words, "d", "none")
      n == Heard(words, "n", 1)
  IN  [kind |-> Kind(words), device |-> device, messages |-> n,
       at |-> Heard(words, "at", Heard(words, "footer", NoPoint)),
       mode |-> Heard(words, "p", "a"), offset |-> Heard(words, "z", 0),
       models |-> Heard(words, "m", {"best"}),
       vars |-> UNION ({AlwaysVars} \union SaidUnder(words, "v") \union SaidUnder(words, "w")),
       day |-> Heard(words, "y", NoWord), code |-> Heard(words, "k", 0),
       hour |-> Heard(words, "t", clock), user |-> Heard(words, "u", NoWord),
       platform |-> Heard(words, "o", NoWord),
       maxChars |-> MaxCharsFor(device, n)]

Weather(params, what) == IF params.kind = "weather" THEN what ELSE NoWord

DescribeRequest(params) ==
  [kind |-> params.kind, at |-> Coarse(params.at), device |-> params.device,
   mode |-> Weather(params, params.mode), models |-> Weather(params, params.models),
   vars |-> Weather(params, params.vars), messages |-> params.messages,
   maxChars |-> IF params.maxChars = Uncapped THEN NoWord ELSE params.maxChars]

(* parseShapeHeader: rounded once more, one model of those asked for. *)
Shape(told) ==
  [kind |-> told.kind, at |-> Coarse(told.at), device |-> told.device, mode |-> told.mode,
   model |-> IF told.models = NoWord THEN NoWord ELSE CHOOSE m \in told.models : TRUE,
   vars |-> told.vars, messages |-> told.messages, maxChars |-> told.maxChars]

Unread == [says |-> NoWord]

(* encode, before any weather is fetched. *)
Encode(words, params, hour) ==
  IF Malformed(words) THEN "malformed"
  ELSE IF params.kind = "avalanche" /\ params.day # NoWord THEN "ok"
  ELSE RequestWindow(params.hour, 24 * (hour \div 24))

DispatchForecast(words, hour) ==
  LET params == Parsed(words)
  IN  [says |-> IF ~Seen(words, "version") THEN "missing_version"
                ELSE IF FirstVersion(words) # WireVersion THEN "unsupported_version"
                ELSE Encode(words, params, hour),
       when |-> hour, params |-> params, shape |-> Shape(DescribeRequest(params))]

-----------------------------------------------------------------------------
NoFix == [at |-> NoPoint, fresh |-> FALSE]
Over == [phase |-> "over"]

RequestInit ==
  /\ clock \in {h \in Hours : \A later \in Hours : h <= later}
  /\ \E start \in Starts : selection = start[1] /\ skew = start[2]
  /\ \E gps \in {NoFix} \union {[at |-> c, fresh |-> TRUE] : c \in Fixes} :
       place = [following |-> TRUE, pin |-> NoPoint, gps |-> gps, restored |-> FALSE]
  /\ changes = 0 /\ locating = FALSE /\ locateGen = 0
  /\ press = [p \in Presses |-> [phase |-> "unused"]]
  /\ slots = <<>>
  /\ outbox = [p \in Presses |-> <<>>] /\ verdict = [p \in Presses |-> Unread]
  /\ pressedWith = [p \in Presses |-> NoWord]

pressVars == <<press, locating, locateGen, slots, outbox, pressedWith>>

TimePasses ==
  /\ \E later \in Hours : later > clock /\ clock' = later
  /\ place' = [place EXCEPT !.gps.fresh = FALSE]
  /\ UNCHANGED <<skew, selection, changes, pressVars, verdict>>

Change == changes < MaxChanges /\ changes' = changes + 1

Choose(sel) ==
  /\ Change /\ sel # selection /\ selection' = sel
  /\ UNCHANGED <<clock, skew, place, pressVars, verdict>>

PlaceOnly == Change /\ UNCHANGED <<clock, skew, selection, pressVars, verdict>>

(* The watch takes what is recent and leaves the rest. *)
Watch(c) ==
  /\ place' = [place EXCEPT !.gps = [at |-> c, fresh |-> TRUE]]
  /\ PlaceOnly

FixAges ==
  /\ place.gps.fresh /\ place' = [place EXCEPT !.gps.fresh = FALSE]
  /\ PlaceOnly

(* Back in the foreground, an old fix is not shown. *)
Foreground ==
  /\ ~place.gps.fresh /\ place.gps.at # NoPoint
  /\ place' = [place EXCEPT !.gps.at = NoPoint]
  /\ PlaceOnly

PinAt(c) ==
  /\ place' = [place EXCEPT !.pin = c, !.following = FALSE]
  /\ PlaceOnly

(* The last session's pin, whenever storage has it. *)
RestorePin ==
  /\ ~place.restored
  /\ place' = IF SavedPin = NoPoint THEN [place EXCEPT !.restored = TRUE]
              ELSE [place EXCEPT !.restored = TRUE, !.pin = SavedPin, !.following = FALSE]
  /\ PlaceOnly

-----------------------------------------------------------------------------
PhoneHour == clock + skew

(* prepareMessage once it has its point, up to the wait for a code. *)
WithPoint(kind, sel, c) ==
  [phase |-> "allocating", kind |-> kind, sel |-> sel, at |-> c, hour |-> PhoneHour,
   context |-> BuildContext(kind, sel, c, PhoneHour)]

(* Nothing waits for a position. *)
Pressed(p) ==
  /\ ~locating /\ press[p].phase = "unused"
  /\ \A q \in Presses : q < p => press[q].phase # "unused"

(* requestCurrentLocation *)
Locate(p, kind) ==
  /\ locateGen' = locateGen + 1 /\ locating' = TRUE
  /\ press' = [press EXCEPT ![p] = [phase |-> "asking", kind |-> kind, sel |-> selection,
                                    gen |-> locateGen + 1]]

LocateMe(p) ==
  /\ Pressed(p)
  /\ Locate(p, "follow")
  /\ UNCHANGED <<clock, skew, selection, place, changes, slots, outbox, verdict, pressedWith>>

(* A button that sends: at the pin, at a fix that is recent, or at one it
   waits for. *)
Send(p, kind) ==
  /\ Pressed(p)
  /\ place.following \/ place.pin # NoPoint
  /\ LET here == CASE ~place.following -> place.pin
                   [] place.following /\ place.gps.fresh -> place.gps.at
                   [] OTHER -> NoPoint
     IN  /\ IF here = NoPoint THEN Locate(p, kind)
            ELSE /\ press' = [press EXCEPT ![p] = WithPoint(kind, selection, here)]
                 /\ UNCHANGED <<locating, locateGen>>
         /\ pressedWith' = [pressedWith EXCEPT
                              ![p] = [sel |-> selection, at |-> here, calledOff |-> FALSE]]
  /\ UNCHANGED <<clock, skew, selection, place, changes, slots, outbox, verdict>>

Mine(p) == press[p].gen = locateGen

BadGiveUp(p) == press' = [press EXCEPT ![p] = Over] /\ locating' = FALSE

(* A wait ends with nothing; one that was called off leaves the buttons to
   whoever has them now. *)
GiveUp(p) ==
  /\ press' = [press EXCEPT ![p] = Over]
  /\ locating' = (locating /\ ~Mine(p))

Permission(p, granted) ==
  /\ press[p].phase = "asking"
  /\ IF Mine(p) /\ granted
     THEN press' = [press EXCEPT ![p].phase = "fixing"] /\ UNCHANGED locating
     ELSE GiveUp(p)
  /\ UNCHANGED <<clock, skew, selection, place, changes, locateGen, slots, outbox, verdict,
                 pressedWith>>

(* What the press was for, with what was selected when it was made. *)
HandOn(p, c) ==
  IF press[p].kind = "follow" THEN Over ELSE WithPoint(press[p].kind, press[p].sel, c)

(* The fix is kept even where nobody waits for it any more. *)
Fix(p, c, fresh) ==
  /\ press[p].phase = "fixing"
  /\ place' = [place EXCEPT !.gps = [at |-> c, fresh |-> fresh],
                            !.following = @ \/ (Mine(p) /\ press[p].kind = "follow")]
  /\ IF Mine(p)
     THEN press' = [press EXCEPT ![p] = HandOn(p, c)] /\ locating' = FALSE
     ELSE GiveUp(p)
  /\ UNCHANGED <<clock, skew, selection, changes, locateGen, slots, outbox, verdict, pressedWith>>

NoFixCame(p) ==
  /\ press[p].phase = "fixing" /\ GiveUp(p)
  /\ UNCHANGED <<clock, skew, selection, place, changes, locateGen, slots, outbox, verdict,
                 pressedWith>>

Waiting(p) == press[p].phase \in {"asking", "fixing"}

(* cancelAction; Screen has what it does to a fetch. *)
CancelAction ==
  /\ locating /\ locateGen' = locateGen + 1 /\ locating' = FALSE
  /\ pressedWith' = [p \in Presses |->
                      IF pressedWith[p] # NoWord /\ Waiting(p)
                      THEN [pressedWith[p] EXCEPT !.calledOff = TRUE]
                      ELSE pressedWith[p]]
  /\ UNCHANGED <<clock, skew, selection, place, changes, press, slots, outbox, verdict>>

BadWords(work, code) == Message(work.kind, work.sel, work.at, code, PhoneHour)

(* The hour is the context's, however long the store has taken. *)
Words(work, code) == Message(work.kind, work.sel, work.at, code, work.hour)

(* allocCode has answered. *)
Allocated(p) ==
  /\ press[p].phase = "allocating"
  /\ slots' = Append(slots, press[p].context)
  /\ outbox' = [outbox EXCEPT ![p] = Words(press[p], Len(slots))]
  /\ press' = [press EXCEPT ![p] = Over]
  /\ UNCHANGED <<clock, skew, selection, place, changes, locating, locateGen, verdict, pressedWith>>

Arrive(p, footer) ==
  /\ outbox[p] # <<>> /\ verdict[p] = Unread
  /\ verdict' = [verdict EXCEPT ![p] = DispatchForecast(outbox[p] \o footer, clock)]
  /\ UNCHANGED <<clock, skew, selection, place, changes, pressVars>>

RequestNext ==
  \/ TimePasses \/ FixAges \/ Foreground \/ RestorePin \/ CancelAction
  \/ \E sel \in Selections : Choose(sel)
  \/ \E c \in Fixes : Watch(c)
  \/ \E c \in Pins \union {NoPoint} : PinAt(c)
  \/ \E p \in Presses :
       \/ LocateMe(p) \/ NoFixCame(p) \/ Allocated(p)
       \/ \E kind \in {"weather", "avalanche"} : Send(p, kind)
       \/ \E granted \in BOOLEAN : Permission(p, granted)
       \/ \E c \in Fixes, fresh \in BOOLEAN : Fix(p, c, fresh)
       \/ \E footer \in Footers : Arrive(p, footer)

RequestSpec == RequestInit /\ [][RequestNext]_requestVars

-----------------------------------------------------------------------------
Near(a, b, distance) == a - b <= distance /\ b - a <= distance
NearTo(c, e, distance) == Near(c.lat, e.lat, distance) /\ Near(c.lon, e.lon, distance)

(***************************************************************************)
(* What the codec serves is what was selected when the button was pressed, *)
(* at the point on screen then or the fix it waited for, and what is       *)
(* stored under the reply's code to read it with, whatever was changed     *)
(* while the press waited for a fix or the store ("the recovered fields    *)
(* exactly match what the response was encoded with"); no request of the   *)
(* app is malformed, and none delivered within a day, from a phone whose   *)
(* clock is right, is refused.  The gateway keeps an approximate location. *)
(***************************************************************************)
ReadAsAsked ==
  \A p \in Presses : verdict[p] # Unread =>
    LET read == verdict[p].params
        kept == verdict[p].shape
        context == slots[read.code + 1]
        sel == pressedWith[p].sel
    IN  /\ verdict[p].says \in {"ok", "stale", "future"}
        /\ skew = 0 /\ verdict[p].when <= context.start + 24 => verdict[p].says = "ok"
        /\ pressedWith[p].at # NoPoint => context.at = pressedWith[p].at
        /\ NearTo(read.at, context.at, 5)
        /\ read.kind = context.kind /\ read.hour = context.start
        /\ read.device = context.device /\ context.device = sel.device
        /\ context.kind = "avalanche" => read.day = context.day /\ context.day = sel.day
        /\ context.kind = "weather" =>
             /\ read.mode = context.mode /\ context.mode = sel.mode
             /\ read.models = {context.model} /\ context.model = sel.model
             /\ read.offset = context.offset /\ read.offset = ZoneAt[context.at][read.hour]
             /\ read.vars = context.vars /\ read.vars \subseteq AlwaysVars \union sel.groups
             /\ read.vars \intersect ModelUnavail(sel.model) = {}
             /\ read.messages > 1 => sel.two /\ read.maxChars < Uncapped
        /\ kept.kind = read.kind /\ kept.model = Weather(read, context.model)
        /\ NearTo(kept.at, context.at, 505)
        /\ \A axis \in {kept.at.lat, kept.at.lon} : axis % 1000 = 0
        /\ kept.maxChars = NoWord <=> read.device = "d"

(***************************************************************************)
(* The buttons are greyed while the current wait for a position is under   *)
(* way and no longer, however many have been abandoned and whichever of    *)
(* them ends first; and a press that was called off while it waited sends  *)
(* nothing.                                                                *)
(***************************************************************************)
WaitsOwned ==
  /\ locating <=> \E p \in Presses : Waiting(p) /\ Mine(p)
  /\ \A p \in Presses : pressedWith[p] # NoWord /\ pressedWith[p].calledOff => outbox[p] = <<>>

=============================================================================
