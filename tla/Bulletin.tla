------------------------------ MODULE Bulletin ------------------------------
(***************************************************************************)
(* An avalanche bulletin on the wire (protocol/avalanche-codec): the       *)
(* decisions its encoder plans, region, then scales, then prose, and the   *)
(* decoder that walks the same model and has to ask, decision by decision, *)
(* for the table the encoder used.  A decision is a table and a symbol     *)
(* (Rans has the coder).                                                   *)
(*                                                                         *)
(* Text is a sequence of units, words and the marks between them.  A token *)
(* is a word, a run of marks, or the value of a scale; one no table holds  *)
(* is spelled in bytes, here as one decision.  Times are in seconds, days  *)
(* are numbered.                                                           *)
(***************************************************************************)
EXTENDS Integers, Sequences, FiniteSets, SequencesExt, FiniteSetsExt

CONSTANTS
  Published,  \* requests with the product that covers each
  Trained,    \* stream -> the contexts it was trained on, with what followed, and its vocabulary
  Neighbors,  \* words a separator's context knows
  Chain,      \* anchor piece -> the pieces that may follow it, each with the one it is coded given
  Marks,      \* units that are not words
  Break,      \* the line break, one of them
  Esc, Bos, Unk, End, NoContext

VARIABLES
  told,      \* the request and the bulletin mapped from its product
  progress,  \* idle, region, scales, prose, read, refused, astray
  issue,     \* the header's field
  decisions, consumed, \* what was planned, and how much of it is read
  area, scales, prose \* what was read
bulletinVars == <<told, progress, issue, decisions, consumed, area, scales, prose>>

-----------------------------------------------------------------------------
IssueStep == 900
IssueAfter == 192
IssueMax == 2 ^ 15 - 1
AnchorHour == 19
Day == 86400
QuantizeIssued(t) == (t \div IssueStep) * IssueStep
UtcDate(t) == t \div Day
UtcHour(t) == (t \div 3600) % 24
Minutes(seconds) == (seconds + 30) \div 60

(* avalancheAnchor: both ends have the request. *)
Anchor(asked) == IF asked.day = NoContext THEN asked.start * 3600 ELSE asked.day * Day + AnchorHour * 3600

-----------------------------------------------------------------------------
(* What the feed says.  A danger day is an instant in it and its weekday's  *)
(* name; the date is the nearest that bears that name.                     *)
Weekday(date) == date % 7
DisplayedDate(instant, display) ==
  LET near(k) == UtcDate(instant) + k
      falls(k) == Weekday(near(k)) = display
  IN  near(CHOOSE k \in -3 .. 3 : falls(k))

(* Units of a weather summary: a heading opens a period, anything else     *)
(* joins the one before it, links and boilerplate say nothing.             *)
Paragraph == <<Break, Break>>
Joined(periods, unit) ==
  IF unit.idle THEN periods
  ELSE IF unit.heading THEN Append(periods, [label |-> unit.label, text |-> unit.text])
  ELSE IF periods = <<>> THEN <<[label |-> <<>>, text |-> unit.text]>>
  ELSE LET n == Len(periods) IN
       [periods EXCEPT ![n].text = IF @ = <<>> THEN unit.text ELSE @ \o Paragraph \o unit.text]
WeatherPeriods(units) == SelectSeq(FoldLeft(Joined, <<>>, units), LAMBDA p : p.text # <<>>)

(* toForecast, without what the wire leaves to the phone.                  *)
ToForecast(product) ==
  [product EXCEPT
     !.danger = [i \in DOMAIN product.danger |->
                   LET d == product.danger[i] IN
                   [date |-> DisplayedDate(d.instant, d.display), alp |-> d.alp, tln |-> d.tln, btl |-> d.btl]],
     !.weather = WeatherPeriods(product.weather)]

-----------------------------------------------------------------------------
(* The ladder a token is coded on: its contexts from the longest down, each *)
(* without what those above it hold, then all the stream has seen.  A       *)
(* context with nothing to say is passed over, but the shortest, unseen,    *)
(* still spends an escape when none came before it.                         *)
Successors(stream, key) ==
  IF key \in DOMAIN Trained[stream].seen THEN Trained[stream].seen[key] ELSE {}
Excluded(stream, keys, k) == UNION {Successors(stream, keys[l]) : l \in k + 1 .. Len(keys)}
ContextTable(stream, keys, k) ==
  <<stream, k, keys[k], Successors(stream, keys[k]) \ Excluded(stream, keys, k)>>
UnigramTable(stream) == <<stream, 0, <<>>, Trained[stream].vocab>>
ByteTable == <<"bytes", 0, <<>>, {}>>

TokenLadder(stream, keys) ==
  LET unseen == keys[1] \notin DOMAIN Trained[stream].seen /\ Excluded(stream, keys, 1) = {}
      contexts == Reverse([k \in DOMAIN keys |-> ContextTable(stream, keys, k)])
  IN  Append(SelectSeq(contexts, LAMBDA c : c[4] # {} \/ (c[2] = 1 /\ unseen)), UnigramTable(stream))

PlanToken(ask, token) ==
  LET ladder == TokenLadder(ask.stream, ask.keys)
      holds == {i \in DOMAIN ladder : token \in ladder[i][4]}
      escapes(n) == [i \in 1 .. n |-> <<ladder[i], Esc>>]
  IN  IF holds = {} THEN escapes(Len(ladder)) \o <<<<ByteTable, token>>>>
      ELSE Append(escapes(Min(holds) - 1), <<ladder[Min(holds)], token>>)

(* readToken: the rungs it asks for until one does not escape.             *)
ReadToken(ask) ==
  LET ladder == Append(TokenLadder(ask.stream, ask.keys), ByteTable)
      left == Len(decisions) - consumed
      stops == {i \in DOMAIN ladder : i <= left /\ decisions[consumed + i][2] # Esc}
      n == IF stops = {} THEN 0 ELSE Min(stops)
  IN  [used |-> n,
       astray |-> n = 0 \/ \E i \in 1 .. n : decisions[consumed + i][1] # ladder[i],
       token |-> IF n = 0 THEN <<>> ELSE decisions[consumed + n][2]]

-----------------------------------------------------------------------------
(* Region: the lowest piece, then one bit for each that may follow.        *)
AnchorTable == <<"anchor", 0, <<>>, {}>>
BitTable(anchor, link, known) == <<"bit", anchor, link[1], link[2] \in known>>
ReachedFrom(pieces) == {Chain[Min(pieces)][i][1] : i \in DOMAIN Chain[Min(pieces)]}
PlanRegion(pieces) ==
  IF pieces = {} THEN <<<<AnchorTable, 0>>>>
  ELSE LET chain == Chain[Min(pieces)] IN
       <<<<AnchorTable, Min(pieces)>>>>
         \o [i \in DOMAIN chain |->
               <<BitTable(Min(pieces), chain[i], pieces), IF chain[i][1] \in pieces THEN 1 ELSE 0>>]

-----------------------------------------------------------------------------
(* Scales.  `walk` says which field comes next, and given what, from the    *)
(* tokens before it; planning and reading are the same walk.               *)
FieldAsk(field, context) ==
  [stream |-> field,
   keys |-> <<<<IF context = NoContext THEN Bos
                ELSE IF context \in Trained[field].contexts THEN context ELSE Unk>>>>]
DayCount(ts) == ts[2][1]
ProblemCount(ts) == ts[4 + 4 * DayCount(ts)][1]
ScalesEnd(ts) == Len(ts) >= 4 /\ Len(ts) >= 4 + 4 * DayCount(ts)
                   /\ Len(ts) = 4 + 4 * DayCount(ts) + 5 * ProblemCount(ts)
DayAsk(ts, d, column, hour) ==
  CASE column = 0 -> FieldAsk("date", IF d = 0 THEN <<"issued", hour>> ELSE <<"next">>)
    [] column = 1 -> FieldAsk("rating", IF d = 0 THEN NoContext ELSE <<"alp", ts[4 * d]>>)
    [] column = 2 -> FieldAsk("rating", <<"tln", Last(ts)>>)
    [] column = 3 -> FieldAsk("rating", <<"btl", Last(ts)>>)
ProblemAsk(ts, first, p, column) ==
  LET type(q) == <<"type", ts[first + 5 * q + 1]>> IN
  IF column = 0 THEN FieldAsk("type", IF p = 0 THEN NoContext ELSE type(p - 1))
  ELSE FieldAsk(<<"elevations", "aspects", "likelihood", "size">>[column], type(p))
ScaleAsk(ts, hour) ==
  LET n == Len(ts) IN
  CASE n = 0 -> FieldAsk("validity", NoContext)
    [] n = 1 -> FieldAsk("dayCount", NoContext)
    [] n >= 2 /\ n < 2 + 4 * DayCount(ts) -> DayAsk(ts, (n - 2) \div 4, (n - 2) % 4, hour)
    [] n >= 2 /\ n = 2 + 4 * DayCount(ts) -> FieldAsk("confidenceRating", NoContext)
    [] n >= 2 /\ n = 3 + 4 * DayCount(ts) -> FieldAsk("problemCount", NoContext)
    [] OTHER -> LET first == 4 + 4 * DayCount(ts)
                IN  ProblemAsk(ts, first, (n - first) \div 5, (n - first) % 5)

BadStructuredOf(f) ==
  LET from(i) == IF i = 1 THEN UtcDate(f.issued) ELSE f.danger[i - 1].date IN
  <<IF f.expires = NoContext THEN <<>> ELSE <<Minutes(f.expires - f.issued)>>, <<Len(f.danger)>>>>
    \o FlattenSeq([i \in DOMAIN f.danger |->
         <<<<f.danger[i].date - from(i)>>, <<f.danger[i].alp>>, <<f.danger[i].tln>>, <<f.danger[i].btl>>>>])
    \o <<<<f.confidence>>, <<Len(f.problems)>>>>
    \o FlattenSeq([i \in DOMAIN f.problems |->
         LET p == f.problems[i]
         IN  <<<<p.type>>, <<p.elevations>>, <<p.aspects>>, <<p.likelihood>>, <<p.size>>>>])

(* structuredOf, as the tokens the walk will meet.                         *)
StructuredOf(f) ==
  LET issued == QuantizeIssued(f.issued)
      from(i) == IF i = 1 THEN UtcDate(issued) ELSE f.danger[i - 1].date
  IN  <<IF f.expires = NoContext THEN <<>> ELSE <<Minutes(f.expires - issued)>>, <<Len(f.danger)>>>>
        \o FlattenSeq([i \in DOMAIN f.danger |->
             <<<<f.danger[i].date - from(i)>>, <<f.danger[i].alp>>, <<f.danger[i].tln>>, <<f.danger[i].btl>>>>])
        \o <<<<f.confidence>>, <<Len(f.problems)>>>>
        \o FlattenSeq([i \in DOMAIN f.problems |->
             LET p == f.problems[i]
             IN  <<<<p.type>>, <<p.elevations>>, <<p.aspects>>, <<p.likelihood>>, <<p.size>>>>])

-----------------------------------------------------------------------------
(* Prose.  Each gap is coded after the word that follows it.               *)
Tokenize(text) ==
  LET at == SetToSortSeq({i \in DOMAIN text : text[i] \notin Marks}, <)
      n == Len(at)
      gap(i) == SubSeq(text, IF i = 0 THEN 1 ELSE at[i] + 1, IF i = n THEN Len(text) ELSE at[i + 1] - 1)
  IN  [words |-> [i \in 1 .. n |-> <<text[at[i]]>>], seps |-> [i \in 0 .. n |-> gap(i)]]
CodingOrder(t) ==
  FlattenSeq([i \in DOMAIN t.words |-> <<t.words[i], t.seps[i - 1]>>]) \o <<t.seps[Len(t.words)]>>
Detokenize(ts) ==
  FlattenSeq([i \in 1 .. Len(ts) \div 2 |-> ts[2 * i] \o ts[2 * i - 1]]) \o Last(ts)

Id(vocab, token) == IF token \in vocab THEN token ELSE Unk
StartContext(kind, context) ==
  IF context = NoContext THEN Bos
  ELSE IF context \in Trained[kind].markers THEN context ELSE Unk
SepKeys(prev, next) ==
  LET p == IF prev = Bos THEN Bos ELSE Id(Neighbors, prev)
      n == IF next = End THEN End ELSE Id(Neighbors, next)
  IN  <<<<n>>, <<n, p>>>>

(* The next token of a section of n words, from those before it.           *)
SectionAsk(kind, context, n, ts) ==
  LET word(i) == ts[2 * i - 1]
      done == (Len(ts) + 1) \div 2
      before(i) == IF i = 0 THEN Bos ELSE word(i)
      history == [i \in 1 .. done |-> Id(Trained[kind].vocab, word(done + 1 - i))]
                   \o <<StartContext(kind, context), Bos, Bos>>
  IN  IF Len(ts) = 2 * n THEN [stream |-> "seps", keys |-> SepKeys(before(n), End)]
      ELSE IF Len(ts) % 2 = 1 THEN [stream |-> "seps", keys |-> SepKeys(before(done - 1), word(done))]
      ELSE [stream |-> kind, keys |-> [k \in 1 .. Trained[kind].order |-> SubSeq(history, 1, k)]]

Section(kind, text, context) == [kind |-> kind, text |-> text, context |-> context]
Present(kind, text) == IF text = <<>> THEN <<>> ELSE <<Section(kind, text, NoContext)>>
EachOf(kind, texts) == [i \in DOMAIN texts |-> Section(kind, texts[i], NoContext)]
SectionsOf(f) ==
  Present("highlights", f.bottomLine)
    \o [i \in DOMAIN f.problems |-> Section("problem", f.problems[i].description, f.problems[i].type)]
    \o EachOf("advice", f.advice)
    \o Present("avalanche-summary", f.avalancheSummary)
    \o Present("snowpack-summary", f.snowpackSummary)
    \o EachOf("weather-summary",
              [i \in DOMAIN f.weather |-> f.weather[i].label \o <<Break>> \o f.weather[i].text])
    \o EachOf("confidence", f.statements)

-----------------------------------------------------------------------------
(* A token sequence planned along a walk.                                  *)
PlanWalk(ts, ask(_)) ==
  FoldLeft(LAMBDA plan, next : plan \o PlanToken(next.ask, next.token), <<>>,
           [i \in DOMAIN ts |-> [ask |-> ask(SubSeq(ts, 1, i - 1)), token |-> ts[i]]])
KindTable == <<"kind", 0, <<>>, {}>>
PlanSection(s) ==
  LET t == Tokenize(s.text)
      ask(ts) == SectionAsk(s.kind, s.context, Len(t.words), ts)
  IN  <<<<KindTable, s.kind>>>> \o PlanWalk(CodingOrder(t), ask)

EncodeBulletin(f) ==
  LET ask(ts) == ScaleAsk(ts, UtcHour(QuantizeIssued(f.issued)))
      sections == SectionsOf(f)
  IN  PlanRegion(f.pieces) \o PlanWalk(StructuredOf(f), ask)
        \o FlattenSeq([i \in DOMAIN sections |-> PlanSection(sections[i])])
WordCounts(f) == [i \in DOMAIN SectionsOf(f) |-> Len(Tokenize(SectionsOf(f)[i].text).words)]

BulletinInit ==
  /\ told = NoContext /\ progress = "idle" /\ issue = 0
  /\ decisions = <<>> /\ consumed = 0 /\ area = {} /\ scales = <<>> /\ prose = <<>>

(* serveAvalanche: map, encode; an issue time the header cannot hold, or    *)
(* pieces no chain leads to, throw.                                        *)
ServeAvalanche ==
  /\ progress = "idle"
  /\ \E p \in Published : \E f \in {ToForecast(p.product)} :
       LET field == (Anchor(p.asked) - QuantizeIssued(f.issued)) \div IssueStep + IssueAfter
           fits == /\ field \in 0 .. IssueMax
                   /\ f.pieces # {} => f.pieces \ {Min(f.pieces)} \subseteq ReachedFrom(f.pieces)
       IN  /\ told' = [asked |-> p.asked, product |-> p.product, counts |-> WordCounts(f)]
           /\ progress' = IF fits THEN "region" ELSE "refused"
           /\ issue' = IF fits THEN field ELSE 0
           /\ decisions' = IF fits THEN EncodeBulletin(f) ELSE <<>>
  /\ UNCHANGED <<consumed, area, scales, prose>>

(* decodeBulletin, a decision or a token at a time.                        *)
Issued == Anchor(told.asked) - (issue - IssueAfter) * IssueStep

ReadRegion ==
  /\ progress = "region"
  /\ LET anchor == decisions[1][2]
         chain == IF anchor = 0 THEN <<>> ELSE Chain[anchor]
         bit(i) == decisions[1 + i][2] = 1
         known(i) == {anchor} \union {chain[j][1] : j \in {l \in 1 .. i - 1 : bit(l)}}
         asked(i) == BitTable(anchor, chain[i], known(i))
     IN  /\ area' = IF anchor = 0 THEN {} ELSE known(Len(chain) + 1)
         /\ consumed' = 1 + Len(chain)
         /\ progress' = IF \E i \in DOMAIN chain : decisions[1 + i][1] # asked(i) THEN "astray" ELSE "scales"
  /\ UNCHANGED <<told, issue, decisions, scales, prose>>

ReadScale ==
  /\ progress = "scales" /\ ~ScalesEnd(scales)
  /\ \E ask \in {ScaleAsk(scales, UtcHour(Issued))} : \E r \in {ReadToken(ask)} :
       /\ consumed' = consumed + r.used
       /\ progress' = IF r.astray THEN "astray" ELSE progress
       /\ scales' = Append(scales, r.token)
  /\ UNCHANGED <<told, issue, decisions, area, prose>>

ScalesRead ==
  /\ progress = "scales" /\ ScalesEnd(scales) /\ progress' = "prose"
  /\ UNCHANGED <<told, issue, decisions, consumed, area, scales, prose>>

Filled == \A i \in DOMAIN prose : Len(prose[i].tokens) = 2 * told.counts[i] + 1
ProseRead == Filled /\ Len(prose) = Len(told.counts)

(* A problem's words start from its type, which the scales have given.     *)
TypeOf(i) == scales[4 + 4 * DayCount(scales) + 5 * i + 1][1]
ReadKind ==
  /\ progress = "prose" /\ Filled /\ ~ProseRead
  /\ LET d == decisions[consumed + 1]
         index == Cardinality({i \in DOMAIN prose : prose[i].kind = d[2]})
     IN  IF consumed = Len(decisions) \/ d[1] # KindTable
         THEN progress' = "astray" /\ UNCHANGED <<consumed, prose>>
         ELSE /\ prose' = Append(prose,
                   [kind |-> d[2], tokens |-> <<>>,
                    context |-> IF d[2] = "problem" /\ index < ProblemCount(scales) THEN TypeOf(index)
                                ELSE NoContext])
              /\ consumed' = consumed + 1 /\ UNCHANGED progress
  /\ UNCHANGED <<told, issue, decisions, area, scales>>

ReadProse ==
  /\ progress = "prose" /\ ~Filled
  /\ LET i == Len(prose)
         s == prose[i]
     IN  \E ask \in {SectionAsk(s.kind, s.context, told.counts[i], s.tokens)} : \E r \in {ReadToken(ask)} :
           /\ consumed' = consumed + r.used
           /\ progress' = IF r.astray THEN "astray" ELSE progress
           /\ prose' = [prose EXCEPT ![i].tokens = Append(@, r.token)]
  /\ UNCHANGED <<told, issue, decisions, area, scales>>

(* finish: nothing may be left over.                                       *)
Finish ==
  /\ progress = "prose" /\ ProseRead
  /\ progress' = IF consumed = Len(decisions) THEN "read" ELSE "astray"
  /\ UNCHANGED <<told, issue, decisions, consumed, area, scales, prose>>

BulletinNext == ServeAvalanche \/ ReadRegion \/ ReadScale \/ ScalesRead \/ ReadKind \/ ReadProse \/ Finish

-----------------------------------------------------------------------------
Texts(kind) == LET of == SelectSeq(prose, LAMBDA s : s.kind = kind)
               IN  [i \in DOMAIN of |-> Detokenize(of[i].tokens)]
FirstOf(kind) == IF Texts(kind) = <<>> THEN <<>> ELSE Texts(kind)[1]
Period(text) == LET cut == Min({i \in DOMAIN text : text[i] = Break})
                IN  [label |-> SubSeq(text, 1, cut - 1), text |-> SubSeq(text, cut + 1, Len(text))]

(* forecastOf.                                                             *)
Received ==
  LET day(i) == [k \in 1 .. 4 |-> scales[2 + 4 * (i - 1) + k][1]]
      date[i \in 0 .. DayCount(scales)] == IF i = 0 THEN UtcDate(Issued) ELSE date[i - 1] + day(i)[1]
      scale(i) == [k \in 1 .. 5 |-> scales[4 + 4 * DayCount(scales) + 5 * (i - 1) + k][1]]
  IN  [pieces |-> area, issued |-> Issued,
       expires |-> IF scales[1] = <<>> THEN NoContext ELSE Issued + 60 * scales[1][1],
       danger |-> [i \in 1 .. DayCount(scales) |->
                     [date |-> date[i], alp |-> day(i)[2], tln |-> day(i)[3], btl |-> day(i)[4]]],
       confidence |-> scales[3 + 4 * DayCount(scales)][1],
       problems |-> [i \in 1 .. ProblemCount(scales) |->
                       [type |-> scale(i)[1], elevations |-> scale(i)[2], aspects |-> scale(i)[3],
                        likelihood |-> scale(i)[4], size |-> scale(i)[5],
                        description |-> IF i \in DOMAIN Texts("problem") THEN Texts("problem")[i] ELSE <<>>]],
       bottomLine |-> FirstOf("highlights"), advice |-> Texts("advice"),
       avalancheSummary |-> FirstOf("avalanche-summary"), snowpackSummary |-> FirstOf("snowpack-summary"),
       weather |-> [i \in DOMAIN Texts("weather-summary") |-> Period(Texts("weather-summary")[i])],
       statements |-> Texts("confidence")]

(* What the center means: the day its weekday names in its own zone, and   *)
(* every word of the summary under the last heading before it.             *)
Meant(product) ==
  LET f == ToForecast(product)
      issued == QuantizeIssued(product.issued)
      date(i) == (product.danger[i].instant + product.zone * 3600) \div Day
  IN  [f EXCEPT !.issued = issued,
                !.expires = IF @ = NoContext THEN NoContext ELSE issued + 60 * Minutes(@ - issued),
                !.danger = [i \in DOMAIN f.danger |-> [f.danger[i] EXCEPT !.date = date(i)]]]

(***************************************************************************)
(* A bulletin that went out is read back whole: the decoder asks for the   *)
(* tables the encoder used, in their order, comes to the end of the stream *)
(* and of every section at once ("a partial bulletin could leave out the   *)
(* one problem or advice line that matters"), and shows what the center    *)
(* published, the issue time on its quarter hour, the expiry to the minute *)
(* and the danger days under the dates they were named for.                *)
(***************************************************************************)
BulletinReadsBack ==
  /\ progress # "astray"
  /\ progress = "read" =>
       /\ consumed = Len(decisions)
       /\ \A f \in DOMAIN Received : Received[f] = Meant(told.product)[f]
       /\ LET words(text) == SelectSeq(text, LAMBDA u : u \notin Marks)
              said(units) == FlattenSeq([i \in DOMAIN units |->
                               IF units[i].idle THEN <<>> ELSE words(units[i].text)])
          IN  FlattenSeq([i \in DOMAIN Received.weather |-> words(Received.weather[i].text)])
                = said(told.product.weather)
=============================================================================
