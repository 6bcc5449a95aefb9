-------------------------------- MODULE Parts --------------------------------
(***************************************************************************)
(* One reply over several messages (protocol/parts.ts): the labelled parts *)
(* the gateway sends, the pieces a transport makes of a reply that has no  *)
(* labels, and the box into which a reader pastes them one at a time       *)
(* (mobile/cache.ts and HomeScreen.tsx).                                   *)
(*                                                                         *)
(* Text is a sequence of lines, a line an optional label and a run of      *)
(* units; a unit stands for characters nothing here looks inside, the      *)
(* first of a reply for its header.  Two replies may have one header: the  *)
(* same code came round again.                                             *)
(***************************************************************************)
EXTENDS Integers, Sequences, FiniteSets, SequencesExt

CONSTANTS
  Replies,   \* replies in the reader's messages
  Labelled,  \* those of routes that split, the others' transport may
  Twins,     \* those that have one header between them
  Asked,     \* those whose request the app still holds
  Long,      \* those that are a part longer than the others
  Body,      \* units of a reply's body
  PartBody   \* units of it in a part (or in a transport's piece)

ASSUME PartsAssumption ==
  /\ Labelled \subseteq Replies /\ Twins \subseteq Replies
  /\ Asked \subseteq Replies /\ Long \subseteq Replies
  /\ {"header", "shared"} \intersect Replies = {}
  /\ Body \in Nat \ {0}
  /\ PartBody \in Nat /\ PartBody > 1  \* a transport's piece is longer than a header

VARIABLES
  box,     \* the text held
  streak   \* the reply whose messages were the last pasted, and which of them
partsVars == <<box, streak>>

-----------------------------------------------------------------------------
NoLabel == <<0, 0>>
Line(label, payload) == [label |-> label, payload |-> payload]
Empty == <<>>

Header(r) == <<"header", IF r \in Twins THEN "shared" ELSE r>>
BodyUnits(r) == [k \in 1 .. (IF r \in Long THEN Body + PartBody ELSE Body) |-> <<r, k>>]
Encoded == [r \in Replies |-> <<Header(r)>> \o BodyUnits(r)]

HeaderUnits == 1
HeaderOf(payload) == SubSeq(payload, 1, HeaderUnits)
AfterHeader(payload) == SubSeq(payload, HeaderUnits + 1, Len(payload))

Piece(s, i, width) == SubSeq(s, (i - 1) * width + 1, IF i * width < Len(s) THEN i * width ELSE Len(s))
Pieces(s, width) == [i \in 1 .. (Len(s) + width - 1) \div width |-> Piece(s, i, width)]

(* splitReply: a reply that fits one message stays as it is. *)
SplitReply(encoded, partBody) ==
  LET header == HeaderOf(encoded)
      bodies == Pieces(AfterHeader(encoded), partBody)
  IN  IF Len(AfterHeader(encoded)) <= partBody THEN <<Line(NoLabel, encoded)>>
      ELSE [i \in DOMAIN bodies |-> Line(<<i, Len(bodies)>>, header \o bodies[i])]

(* What a reader has of a reply: its parts, or what the transport made of
   the one string. *)
Messages ==
  [r \in Replies |->
     IF r \in Labelled THEN SplitReply(Encoded[r], PartBody)
     ELSE LET pieces == Pieces(Encoded[r], PartBody)
          IN  [i \in DOMAIN pieces |-> Line(NoLabel, pieces[i])]]

-----------------------------------------------------------------------------
Join(text) == FlattenSeq([i \in DOMAIN text |-> text[i].payload])

(* readParts.  Units after a label belong to it until the next; a label
   seen again starts its part anew. *)
ReadParts(text) ==
  LET labels == {i \in DOMAIN text : text[i].label # NoLabel}
      first  == IF labels = {} THEN Len(text) + 1 ELSE CHOOSE i \in labels : \A j \in labels : i <= j
      total  == IF labels = {} THEN 0 ELSE text[first].label[2]
      indices == {text[i].label[1] : i \in labels}
      last(k) == CHOOSE i \in labels :
                   text[i].label[1] = k /\ \A j \in labels : text[j].label[1] = k => j <= i
      upTo(i) == IF \E j \in labels : j > i
                 THEN (CHOOSE j \in labels : j > i /\ \A l \in labels : l > i => j <= l) - 1
                 ELSE Len(text)
  IN  [total      |-> total,
       parts      |-> [k \in indices |-> Join(SubSeq(text, last(k), upTo(last(k))))],
       unlabelled |-> Join(SubSeq(text, 1, first - 1)),
       disagreed  |-> \E i \in labels : text[i].label[2] # total,
       duplicated |-> \E i, j \in labels : i # j /\ text[i].label[1] = text[j].label[1]]

(* reassembleReply, Empty where it throws. *)
Reassemble(text) ==
  LET p      == ReadParts(text)
      header == HeaderOf(p.parts[1])
  IN  IF p.total = 0 THEN p.unlabelled
      ELSE IF \/ p.disagreed \/ p.duplicated \/ p.unlabelled # Empty
              \/ \E i \in 1 .. p.total : i \notin DOMAIN p.parts
              \/ \E i \in 2 .. p.total : HeaderOf(p.parts[i]) # header
           THEN Empty
           ELSE header \o FlattenSeq([i \in 1 .. p.total |-> AfterHeader(p.parts[i])])

(* The oracles of mobile/cache.ts: a reply decodes under the request it
   answers, while the app holds it. *)
Decodes(text) == \E r \in Asked : Reassemble(text) = Encoded[r]
IsHead(line) == line.label = NoLabel /\ \E r \in Asked : HeaderOf(line.payload) = <<Header(r)>>

CollectingChunks(text) == text # Empty /\ IsHead(text[1]) /\ ~Decodes(text)

Includes(whole, piece) ==
  \E i \in 0 .. Len(whole) - Len(piece) : SubSeq(whole, i + 1, i + Len(piece)) = piece

HeldWhole(held, p) ==
  \A i \in DOMAIN p.parts :
    /\ HeaderOf(p.parts[i]) = HeaderOf(held)
    /\ Includes(AfterHeader(held), AfterHeader(p.parts[i]))

BadMergeChunks(existing, incoming) ==
  IF Decodes(incoming) \/ ~CollectingChunks(existing) THEN incoming
  ELSE IF IsHead(incoming[1]) THEN incoming
  ELSE existing \o incoming

(* mergeChunks: nothing on either side carries a label. *)
MergeChunks(existing, incoming) ==
  IF Decodes(existing) /\ Includes(Join(existing), Join(incoming)) THEN existing
  ELSE IF Decodes(incoming) \/ ~CollectingChunks(existing) THEN incoming
  ELSE IF \E i \in DOMAIN existing : <<existing[i]>> = incoming THEN existing
  ELSE IF IsHead(incoming[1]) THEN incoming
  ELSE existing \o incoming

Usable(p) == p.total > 0 /\ ~p.disagreed /\ p.unlabelled = Empty

FirstPart(p) == p.parts[CHOOSE i \in DOMAIN p.parts : \A j \in DOMAIN p.parts : i <= j]

SameReply(cur, inc) ==
  Usable(cur) /\ cur.total = inc.total /\ HeaderOf(FirstPart(cur)) = HeaderOf(FirstPart(inc))

InOrder(S) ==
  CHOOSE s \in [1 .. Cardinality(S) -> S] : \A i, j \in DOMAIN s : i < j => s[i] < s[j]

(* The parts of both by index, the incoming one's first. *)
Combine(cur, inc) ==
  LET indices == InOrder(DOMAIN cur.parts \union DOMAIN inc.parts)
      payload(i) == IF i \in DOMAIN inc.parts THEN inc.parts[i] ELSE cur.parts[i]
  IN  [k \in DOMAIN indices |-> Line(<<indices[k], inc.total>>, payload(indices[k]))]

(* mergeParts: what is not another message of the reply held replaces it. *)
MergeParts(existing, incoming) ==
  LET inc == ReadParts(incoming)
      cur == ReadParts(existing)
      held == IF cur.total = 0 THEN cur.unlabelled ELSE Empty
  IN  IF Usable(inc) /\ held # Empty /\ HeldWhole(held, inc) THEN existing
      ELSE IF inc.total = 0 /\ cur.total = 0 THEN MergeChunks(existing, incoming)
      ELSE IF Usable(inc) /\ SameReply(cur, inc) THEN Combine(cur, inc)
      ELSE incoming

-----------------------------------------------------------------------------
NoStreak == [reply |-> Empty, got |-> {}]

(* Parts come in any order; the pieces of a transport in theirs, from a first
   that the box does not hold already. *)
Follow(r, i) ==
  LET got == IF streak.reply = <<r>> THEN streak.got ELSE {}
      joins == IF r \in Labelled THEN TRUE
               ELSE IF got = {} THEN i = 1 /\ Messages[r][1] \notin Range(box)
               ELSE i \in got \union {Cardinality(got) + 1}
  IN  streak' = IF joins THEN [reply |-> <<r>>, got |-> got \union {i}] ELSE NoStreak

PartsInit == box = Empty /\ streak = NoStreak

PasteOne(r, i) == box' = MergeParts(box, <<Messages[r][i]>>) /\ Follow(r, i)

(* Two numbered messages at once, of whatever replies. *)
PasteBoth(r, i, s, j) ==
  /\ <<r, i>> # <<s, j>>
  /\ box' = MergeParts(box, <<Messages[r][i], Messages[s][j]>>)
  /\ streak' = NoStreak

(* A saved forecast, or the reply to a fetch: whole, without labels. *)
Load(r) == /\ r \in Asked /\ box' = <<Line(NoLabel, Encoded[r])>>
           /\ streak' = [reply |-> <<r>>, got |-> DOMAIN Messages[r]]

Clear == box' = Empty /\ streak' = NoStreak

PartsNext ==
  \/ Clear
  \/ \E r \in Replies :
       \/ Load(r)
       \/ \E i \in DOMAIN Messages[r] :
            \/ PasteOne(r, i)
            \/ \E s \in Labelled : \E j \in DOMAIN Messages[s] : r \in Labelled /\ PasteBoth(r, i, s, j)

PartsSpec == PartsInit /\ [][PartsNext]_partsVars

-----------------------------------------------------------------------------
(***************************************************************************)
(* Whatever was in the box, the reader who pastes the messages of one      *)
(* reply, numbered ones in any order, the others as they came, some of     *)
(* them again, has that reply: leftovers of another never spoil it, and a  *)
(* reply that is held whole stays held when its messages are pasted again. *)
(* Without numbers to go by it has to be one whose request the app holds.  *)
(***************************************************************************)
Collected ==
  \A r \in Replies :
    (streak.reply = <<r>> /\ streak.got = DOMAIN Messages[r] /\ ((r \in Labelled /\ Len(Messages[r]) > 1) \/ r \in Asked))
      => Reassemble(box) = Encoded[r]

=============================================================================
