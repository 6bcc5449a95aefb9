---------------------------- MODULE ScreenProofs ----------------------------
(***************************************************************************)
(* Proofs about the app's screen: the text and what is drawn of it         *)
(* (Screen), the presses that wait for a position and the requests they    *)
(* make, as the codec reads them (Request), and what the rungs of a        *)
(* request's ladder cover (Layout).                                        *)
(***************************************************************************)
EXTENDS Screen, Request, SequenceTheorems, FiniteSetTheorems, WellFoundedInduction, TLAPS

-----------------------------------------------------------------------------
(* The text and what is drawn of it. *)

Whole == Requests \union Pasted
Texts == Whole \union {Half}
ScreenTypeOK ==
  /\ stage \in [Requests -> {"new", "preparing", "waiting", "done", "cancelled"}]
  /\ inFlight \in Requests \union {Nothing}
  /\ text \in Texts \union {Blank} /\ queued \in Texts \union {Nothing}
  /\ decoding \in [of : Texts, pre : BOOLEAN] \union {Nothing}
  /\ saved \subseteq Whole
  /\ suppress \in BOOLEAN /\ taken \in BOOLEAN

(* A cancel calls off a fetch that is under way. *)
InFlightWaits == inFlight # Nothing => stage[inFlight] = "waiting"
(* A reply is seen only once its fetch is over. *)
SeenIsDone ==
  \A r \in Requests : r \in {text, queued, drawn} \union saved => stage[r] = "done"
(* An effect is of the screen's text; one begun by a saved forecast has it on
   screen already. *)
DecodesTheText ==
  decoding # Nothing => /\ decoding.of = text
                        /\ decoding.pre => drawn = text /\ text # Half
SettledIsDrawn == decoding = Nothing => drawn = IF text = Half THEN Collecting ELSE text
(* A suppression waits for an effect, of a text that is saved unless another
   took its place. *)
SuppressedIsSaved == suppress => decoding # Nothing /\ (~taken => text \in saved)
SettledIsSaved == decoding = Nothing /\ text \in Whole /\ ~taken => text \in saved

ScreenInv ==
  /\ ScreenTypeOK /\ InFlightWaits /\ SeenIsDone
  /\ DecodesTheText /\ SettledIsDrawn /\ SuppressedIsSaved /\ SettledIsSaved

LEMMA ScreenInitInv == ScreenInit => ScreenInv
  BY ScreenAssumption
     DEF ScreenInit, ScreenInv, ScreenTypeOK, InFlightWaits, SeenIsDone, DecodesTheText, SettledIsDrawn,
         SuppressedIsSaved, SettledIsSaved, Texts, Whole

LEMMA Distinct ==
  /\ \A r \in Requests : r \notin Pasted /\ r \notin {Half, Blank, Collecting, Nothing}
  /\ \A t \in Texts : t \notin {Blank, Collecting, Nothing}
  /\ Half # Blank /\ Half \notin Whole /\ Blank \notin Whole
  /\ \A t \in Texts, pre \in BOOLEAN : [of |-> t, pre |-> pre] # Nothing
<1>1. \A t \in Texts, pre \in BOOLEAN : [of |-> t, pre |-> pre] \in [of : Requests \union Pasted \union {Half}, pre : BOOLEAN]
  BY DEF Texts, Whole
<1> QED BY <1>1, ScreenAssumption DEF Texts, Whole

(* The steps of a fetch: they leave the text, but for the reply they queue. *)
LEMMA FetchInv ==
  ASSUME ScreenInv, NEW r \in Requests,
         Press(r) \/ NotPrepared(r) \/ Prepared(r) \/ Reply(r) \/ FetchFails(r)
  PROVE  ScreenInv'
<1>1. /\ UNCHANGED <<text, drawn, decoding, stale, suppress, saved, taken>>
      /\ \A s \in Requests \ {r} : stage'[s] = stage[s]
      /\ stage' \in [Requests -> {"new", "preparing", "waiting", "done", "cancelled"}]
  BY DEF Press, NotPrepared, Prepared, Reply, FetchFails, Wanted, ScreenInv, ScreenTypeOK
<1>2. /\ inFlight' \in Requests \union {Nothing} /\ queued' \in Texts \union {Nothing}
  BY DEF Press, NotPrepared, Prepared, Reply, FetchFails, Wanted, ScreenInv, ScreenTypeOK, Texts, Whole
<1>3. InFlightWaits'
  BY <1>1, Distinct DEF Press, NotPrepared, Prepared, Reply, FetchFails, Wanted, ScreenInv, ScreenTypeOK, InFlightWaits
<1>4. SeenIsDone'
  BY <1>1, Distinct DEF Press, NotPrepared, Prepared, Reply, FetchFails, Wanted, ScreenInv, ScreenTypeOK, SeenIsDone
<1> QED BY <1>1, <1>2, <1>3, <1>4
        DEF ScreenInv, ScreenTypeOK, DecodesTheText, SettledIsDrawn, SuppressedIsSaved, SettledIsSaved

LEMMA CancelInv ==
  ASSUME ScreenInv, Cancel
  PROVE  ScreenInv'
<1>1. /\ UNCHANGED <<text, queued, drawn, decoding, stale, suppress, saved, taken>> /\ inFlight' = Nothing
      /\ inFlight \in Requests /\ stage[inFlight] = "waiting"
      /\ stage' = [stage EXCEPT ![inFlight] = "cancelled"]
  BY DEF Cancel, ScreenInv, ScreenTypeOK, InFlightWaits
<1>2. ScreenTypeOK' /\ InFlightWaits' /\ SeenIsDone'
  BY <1>1 DEF ScreenInv, ScreenTypeOK, InFlightWaits, SeenIsDone
<1> QED BY <1>1, <1>2
        DEF ScreenInv, DecodesTheText, SettledIsDrawn, SuppressedIsSaved, SettledIsSaved

LEMMA LandInv ==
  ASSUME ScreenInv, Land
  PROVE  ScreenInv'
<1>1. queued \in Texts /\ queued' = Nothing /\ UNCHANGED <<fetchVars, drawn, suppress, saved>>
  BY DEF Land, ScreenInv, ScreenTypeOK
<1>2. CASE queued = text
  BY <1>1, <1>2, Distinct
     DEF Land, fetchVars, ScreenInv, ScreenTypeOK, InFlightWaits, SeenIsDone, DecodesTheText, SettledIsDrawn,
         SuppressedIsSaved, SettledIsSaved
<1>3. CASE queued # text
  <2>1. /\ text' = queued /\ decoding' = [of |-> queued, pre |-> FALSE]
        /\ taken' = (taken \/ (suppress /\ decoding # Nothing))
    BY <1>3 DEF Land, Begin
  <2>2. decoding' # Nothing /\ decoding'.of = queued /\ decoding'.pre = FALSE
        /\ decoding' \in [of : Texts, pre : BOOLEAN]
    BY <1>1, <2>1, Distinct
  <2>3. ScreenTypeOK' /\ InFlightWaits' /\ SeenIsDone'
    BY <1>1, <2>1, <2>2, Distinct DEF fetchVars, ScreenInv, ScreenTypeOK, InFlightWaits, SeenIsDone
  <2>4. DecodesTheText' /\ SettledIsDrawn' /\ SettledIsSaved'
    BY <2>1, <2>2 DEF DecodesTheText, SettledIsDrawn, SettledIsSaved
  <2>5. SuppressedIsSaved'
    BY <1>1, <2>1, <2>2 DEF ScreenInv, SuppressedIsSaved
  <2> QED BY <2>3, <2>4, <2>5 DEF ScreenInv
<1> QED BY <1>2, <1>3

LEMMA PasteReplyInv ==
  ASSUME ScreenInv, NEW t \in Pasted \union {Half}, PasteReply(t)
  PROVE  ScreenInv'
  BY Distinct
     DEF PasteReply, fetchVars, ScreenInv, ScreenTypeOK, InFlightWaits, SeenIsDone, DecodesTheText, SettledIsDrawn,
         SuppressedIsSaved, SettledIsSaved, Texts, Whole

LEMMA LoadPastInv ==
  ASSUME ScreenInv, NEW s \in saved, LoadPast(s)
  PROVE  ScreenInv'
<1>1. /\ text' = s /\ decoding' = [of |-> s, pre |-> TRUE] /\ drawn' = s /\ queued' = Nothing /\ suppress' = TRUE
      /\ UNCHANGED <<fetchVars, saved, taken>>
  BY DEF LoadPast, Begin
<1>2. s \in Texts /\ s # Half
  BY Distinct DEF ScreenInv, ScreenTypeOK, Texts
<1>3. decoding' # Nothing /\ decoding'.of = s /\ decoding' \in [of : Texts, pre : BOOLEAN]
  BY <1>1, <1>2, Distinct
<1> QED BY <1>1, <1>2, <1>3, Distinct
        DEF fetchVars, ScreenInv, ScreenTypeOK, InFlightWaits, SeenIsDone, DecodesTheText, SettledIsDrawn,
            SuppressedIsSaved, SettledIsSaved

LEMMA EmptyInv ==
  ASSUME ScreenInv, ClearText \/ Delete
  PROVE  ScreenInv'
<1>1. /\ text' = Blank /\ queued' = Nothing /\ drawn' = Blank /\ decoding' = Nothing /\ suppress' = FALSE
      /\ UNCHANGED <<stage, inFlight, taken>> /\ saved' \subseteq saved
  BY DEF ClearText, Delete, EmptyText
<1> QED BY <1>1, Distinct
        DEF ScreenInv, ScreenTypeOK, InFlightWaits, SeenIsDone, DecodesTheText, SettledIsDrawn,
            SuppressedIsSaved, SettledIsSaved

LEMMA SettleInv ==
  ASSUME ScreenInv, Settle
  PROVE  ScreenInv'
<1>1. /\ decoding # Nothing /\ decoding' = Nothing /\ suppress' = FALSE
      /\ UNCHANGED <<text, queued, taken, stage, inFlight>>
  BY DEF Settle, Release, Spent
<1>2. decoding.of = text /\ text \in Texts
  BY <1>1 DEF ScreenInv, ScreenTypeOK, DecodesTheText
<1>3. CASE text = Half
  <2>1. drawn' = Collecting /\ UNCHANGED saved
    BY <1>2, <1>3 DEF Settle
  <2> QED BY <1>1, <1>3, <2>1, Distinct
          DEF ScreenInv, ScreenTypeOK, InFlightWaits, SeenIsDone, DecodesTheText, SettledIsDrawn,
              SuppressedIsSaved, SettledIsSaved
<1>4. CASE text # Half
  <2>1. text \in Whole /\ drawn' = text /\ saved' = IF suppress THEN saved ELSE saved \union {text}
    BY <1>1, <1>2, <1>4 DEF Settle, ScreenInv, DecodesTheText, Texts
  <2>2. ScreenTypeOK' /\ InFlightWaits' /\ SeenIsDone'
    BY <1>1, <2>1 DEF ScreenInv, ScreenTypeOK, InFlightWaits, SeenIsDone
  <2> QED BY <1>1, <1>4, <2>1, <2>2
          DEF ScreenInv, DecodesTheText, SettledIsDrawn, SuppressedIsSaved, SettledIsSaved
<1> QED BY <1>3, <1>4

LEMMA ScreenNextInv == ScreenInv /\ [ScreenNext]_screenVars => ScreenInv'
<1> SUFFICES ASSUME ScreenInv, [ScreenNext]_screenVars PROVE ScreenInv'
  OBVIOUS
<1>1. ASSUME UNCHANGED <<text, queued, drawn, decoding, suppress, saved, taken, stage, inFlight>>
      PROVE  ScreenInv'
  BY <1>1
     DEF ScreenInv, ScreenTypeOK, InFlightWaits, SeenIsDone, DecodesTheText, SettledIsDrawn,
         SuppressedIsSaved, SettledIsSaved
<1>2. CASE UNCHANGED screenVars
  BY <1>1, <1>2 DEF screenVars
<1>3. CASE SettleStale
  BY <1>1, <1>3 DEF SettleStale, Release
<1> QED BY <1>2, <1>3, FetchInv, CancelInv, LandInv, PasteReplyInv, LoadPastInv, EmptyInv, SettleInv DEF ScreenNext

(***************************************************************************)
(* Whatever replaces the text of the screen, and whichever of its effects  *)
(* come back first, the invariant holds.                                   *)
(***************************************************************************)
THEOREM ScreenInvariant == ScreenSpec => []ScreenInv
  BY ScreenInitInv, ScreenNextInv, PTL DEF ScreenSpec

(***************************************************************************)
(* Once the effects have come back what is drawn is what the text says:    *)
(* HomeScreen's decode effect never leaves the forecast of a text that was *)
(* replaced on screen, for any number of fetches, pastes and saved texts.  *)
(***************************************************************************)
THEOREM ScreenTellsTheText == ScreenSpec => []DrawnIsText
<1>1. ScreenInv => DrawnIsText
  BY DEF ScreenInv, SettledIsDrawn, DrawnIsText, Quiet
<1> QED BY <1>1, ScreenInvariant, PTL

(***************************************************************************)
(* A fetch that cancelFetch called off never gets its reply on screen, nor *)
(* queued for it, however late the reply lands.                            *)
(***************************************************************************)
THEOREM CalledOffStaysOff == ScreenSpec => []CancelledNeverShown
<1>1. ScreenInv => CancelledNeverShown
  BY DEF ScreenInv, SeenIsDone, CancelledNeverShown
<1> QED BY <1>1, ScreenInvariant, PTL

(***************************************************************************)
(* A forecast that was decoded is among the saved, unless its text took    *)
(* the place of a saved one whose effect had yet to come back: the one     *)
(* case in which suppressing the save suppresses another's.                *)
(***************************************************************************)
THEOREM DecodedIsSaved == ScreenSpec => []DrawnIsSaved
<1>1. ScreenInv => DrawnIsSaved
  BY DEF ScreenInv, SettledIsSaved, DrawnIsSaved, Quiet, Whole
<1> QED BY <1>1, ScreenInvariant, PTL

-----------------------------------------------------------------------------
(* The presses. *)

(* A wait knows which it is, and no two are the same. *)
RequestTypeOK ==
  /\ locating \in BOOLEAN /\ locateGen \in Nat
  /\ press = [p \in Presses |-> press[p]] /\ outbox = [p \in Presses |-> outbox[p]]
  /\ pressedWith = [p \in Presses |-> pressedWith[p]]
  /\ \A p \in Presses : Waiting(p) =>
       /\ press[p] = [phase |-> press[p].phase, kind |-> press[p].kind, sel |-> press[p].sel, gen |-> press[p].gen]
       /\ press[p].gen \in Nat /\ press[p].gen <= locateGen
WaitsApart ==
  \A p, q \in Presses : Waiting(p) /\ Waiting(q) /\ press[p].gen = press[q].gen => p = q
GreyedByMine == locating <=> \E p \in Presses : Waiting(p) /\ Mine(p)
SentIsOver == \A p \in Presses : outbox[p] # <<>> => press[p].phase = "over"
(* A press that was called off has no wait that is current, and nothing left
   to send. *)
CalledOffIsOver ==
  \A p \in Presses : pressedWith[p] # NoWord /\ pressedWith[p].calledOff =>
    /\ press[p].phase = "over" \/ (Waiting(p) /\ ~Mine(p))
    /\ outbox[p] = <<>>

RequestInv == RequestTypeOK /\ WaitsApart /\ GreyedByMine /\ SentIsOver /\ CalledOffIsOver

LEMMA RequestInitInv == RequestInit => RequestInv
<1> SUFFICES ASSUME RequestInit PROVE RequestInv
  OBVIOUS
<1>1. /\ locating = FALSE /\ locateGen = 0 /\ press = [p \in Presses |-> [phase |-> "unused"]]
      /\ outbox = [p \in Presses |-> <<>>] /\ pressedWith = [p \in Presses |-> NoWord]
  BY DEF RequestInit
<1>2. \A p \in Presses : /\ press[p] = [phase |-> "unused"] /\ press[p].phase = "unused"
                        /\ outbox[p] = <<>> /\ pressedWith[p] = NoWord
  BY <1>1
<1>3. /\ press = [p \in Presses |-> press[p]] /\ outbox = [p \in Presses |-> outbox[p]]
      /\ pressedWith = [p \in Presses |-> pressedWith[p]]
  BY <1>1
<1> QED BY <1>1, <1>2, <1>3
        DEF RequestInv, RequestTypeOK, WaitsApart, GreyedByMine, SentIsOver, CalledOffIsOver, Waiting

(* What the invariant speaks of. *)
LEMMA Untouched ==
  ASSUME RequestInv, UNCHANGED <<locating, locateGen, press, outbox, pressedWith>>
  PROVE  RequestInv'
  BY DEF RequestInv, RequestTypeOK, WaitsApart, GreyedByMine, SentIsOver, CalledOffIsOver, Waiting, Mine

(* A press is over, waits no more or waits for a code. *)
LEMMA Elsewhere ==
  ASSUME RequestInv, NEW p \in Presses,
         UNCHANGED <<locateGen, outbox, pressedWith>>,
         \A q \in Presses \ {p} : press'[q] = press[q],
         press' = [q \in Presses |-> press'[q]],
         press'[p].phase = "over" \/ (press'[p].phase = "allocating" /\ Mine(p)),
         Waiting(p),
         locating' = (locating /\ ~Mine(p))
  PROVE  RequestInv'
<1>1. RequestTypeOK'
  BY DEF RequestInv, RequestTypeOK, Waiting
<1>2. WaitsApart'
  BY DEF RequestInv, WaitsApart, Waiting
<1>3. GreyedByMine'
  BY DEF RequestInv, WaitsApart, GreyedByMine, Waiting, Mine
<1>4. SentIsOver'
  BY DEF RequestInv, SentIsOver, Waiting
<1>5. CalledOffIsOver'
  BY DEF RequestInv, CalledOffIsOver, Waiting, Mine
<1> QED BY <1>1, <1>2, <1>3, <1>4, <1>5 DEF RequestInv

LEMMA GivesUp ==
  ASSUME RequestInv, NEW p \in Presses, Waiting(p), GiveUp(p), UNCHANGED <<locateGen, outbox, pressedWith>>
  PROVE  RequestInv'
<1>1. /\ press' = [q \in Presses |-> press'[q]] /\ \A q \in Presses \ {p} : press'[q] = press[q]
      /\ press'[p].phase = "over" /\ locating' = (locating /\ ~Mine(p))
  BY DEF GiveUp, Over, RequestInv, RequestTypeOK
<1> QED BY <1>1, Elsewhere DEF Waiting

LEMMA PermissionInv ==
  ASSUME RequestInv, NEW p \in Presses, NEW granted \in BOOLEAN, Permission(p, granted)
  PROVE  RequestInv'
<1>1. Waiting(p) /\ UNCHANGED <<locateGen, outbox, pressedWith>>
  BY DEF Permission, Waiting
<1>2. CASE Mine(p) /\ granted
  <2>1. press' = [press EXCEPT ![p].phase = "fixing"] /\ UNCHANGED locating
    BY <1>2 DEF Permission
  <2>2. /\ press' = [q \in Presses |-> press'[q]] /\ \A q \in Presses \ {p} : press'[q] = press[q]
        /\ press'[p] = [phase |-> "fixing", kind |-> press[p].kind, sel |-> press[p].sel, gen |-> press[p].gen]
    BY <1>1, <2>1 DEF RequestInv, RequestTypeOK
  <2>3. /\ \A q \in Presses : press'[q].phase = press[q].phase \/ (press[q].phase = "asking" /\ press'[q].phase = "fixing")
        /\ \A q \in Presses : Waiting(q) => press'[q].gen = press[q].gen
    BY <2>2 DEF Permission, Waiting
  <2>4. \A q \in Presses : Waiting(q)' <=> Waiting(q)
    BY <2>3 DEF Waiting
  <2>5. RequestTypeOK'
    BY <1>1, <2>1, <2>2, <2>3, <2>4 DEF RequestInv, RequestTypeOK
  <2>6. WaitsApart' /\ GreyedByMine'
    BY <1>1, <2>1, <2>3, <2>4 DEF RequestInv, WaitsApart, GreyedByMine, Mine
  <2>7. SentIsOver' /\ CalledOffIsOver'
    BY <1>1, <2>3, <2>4 DEF RequestInv, SentIsOver, CalledOffIsOver, Mine
  <2> QED BY <2>5, <2>6, <2>7 DEF RequestInv
<1>3. CASE ~(Mine(p) /\ granted)
  BY <1>1, <1>3, GivesUp DEF Permission
<1> QED BY <1>2, <1>3

LEMMA FixInv ==
  ASSUME RequestInv, NEW p \in Presses, NEW c, NEW fresh, Fix(p, c, fresh)
  PROVE  RequestInv'
<1>1. Waiting(p) /\ UNCHANGED <<locateGen, outbox, pressedWith>>
  BY DEF Fix, Waiting
<1>2. CASE Mine(p)
  <2>1. press' = [press EXCEPT ![p] = HandOn(p, c)] /\ locating' = FALSE
    BY <1>2 DEF Fix
  <2>2. /\ press' = [q \in Presses |-> press'[q]] /\ \A q \in Presses \ {p} : press'[q] = press[q]
        /\ press'[p] = HandOn(p, c)
    BY <2>1 DEF RequestInv, RequestTypeOK
  <2>3. press'[p].phase \in {"over", "allocating"}
    BY <2>2 DEF HandOn, Over, WithPoint
  <2> QED BY <1>1, <1>2, <2>1, <2>2, <2>3, Elsewhere DEF Waiting
<1>3. CASE ~Mine(p)
  BY <1>1, <1>3, GivesUp DEF Fix
<1> QED BY <1>2, <1>3

(* A new wait: nothing waited, and it is the current one. *)
LEMMA LocateInv ==
  ASSUME RequestInv, NEW p \in Presses, NEW kind, Pressed(p), Locate(p, kind),
         UNCHANGED outbox, pressedWith' = [q \in Presses |-> pressedWith'[q]],
         \A q \in Presses \ {p} : pressedWith'[q] = pressedWith[q],
         pressedWith'[p] = pressedWith[p] \/ pressedWith'[p].calledOff = FALSE
  PROVE  RequestInv'
<1>1. /\ press' = [q \in Presses |-> press'[q]] /\ \A q \in Presses \ {p} : press'[q] = press[q]
      /\ press'[p] = [phase |-> "asking", kind |-> kind, sel |-> selection, gen |-> locateGen + 1]
      /\ locateGen' = locateGen + 1 /\ locating' = TRUE
      /\ ~locating /\ press[p].phase = "unused"
  BY DEF Locate, Pressed, RequestInv, RequestTypeOK
<1>2. /\ press'[p].phase = "asking" /\ press'[p].kind = kind /\ press'[p].sel = selection
      /\ press'[p].gen = locateGen + 1
  BY <1>1
<1>3. \A q \in Presses \ {p} : Waiting(q)' <=> Waiting(q)
  BY <1>1 DEF Waiting
<1>4. RequestTypeOK'
  BY <1>1, <1>2, <1>3 DEF RequestInv, RequestTypeOK
<1>5. WaitsApart'
  BY <1>1, <1>2, <1>3 DEF RequestInv, RequestTypeOK, WaitsApart
<1>6. GreyedByMine'
  BY <1>1, <1>2 DEF GreyedByMine, Waiting, Mine
<1>7. SentIsOver'
  BY <1>1 DEF RequestInv, SentIsOver
<1>8. CalledOffIsOver'
  <2> SUFFICES ASSUME NEW q \in Presses, pressedWith'[q] # NoWord /\ pressedWith'[q].calledOff
               PROVE  (press'[q].phase = "over" \/ (Waiting(q)' /\ ~Mine(q)')) /\ outbox'[q] = <<>>
    BY DEF CalledOffIsOver
  <2>1. q # p
    BY <1>1 DEF RequestInv, CalledOffIsOver, Waiting
  <2> QED BY <1>1, <1>3, <2>1 DEF RequestInv, RequestTypeOK, CalledOffIsOver, Mine
<1> QED BY <1>4, <1>5, <1>6, <1>7, <1>8 DEF RequestInv

LEMMA SendInv ==
  ASSUME RequestInv, NEW p \in Presses, NEW kind, Send(p, kind)
  PROVE  RequestInv'
<1> DEFINE here == CASE ~place.following -> place.pin
                     [] place.following /\ place.gps.fresh -> place.gps.at
                     [] OTHER -> NoPoint
<1>1. /\ Pressed(p) /\ UNCHANGED outbox
      /\ pressedWith' = [pressedWith EXCEPT ![p] = [sel |-> selection, at |-> here, calledOff |-> FALSE]]
      /\ IF here = NoPoint THEN Locate(p, kind)
         ELSE press' = [press EXCEPT ![p] = WithPoint(kind, selection, here)] /\ UNCHANGED <<locating, locateGen>>
  BY DEF Send
<1> HIDE DEF here
<1>2. /\ pressedWith' = [q \in Presses |-> pressedWith'[q]]
      /\ \A q \in Presses \ {p} : pressedWith'[q] = pressedWith[q]
      /\ pressedWith'[p].calledOff = FALSE
  BY <1>1 DEF RequestInv, RequestTypeOK
<1>3. CASE here = NoPoint
  BY <1>1, <1>2, <1>3, LocateInv
<1>4. CASE here # NoPoint
  <2>1. /\ press' = [q \in Presses |-> press'[q]] /\ \A q \in Presses \ {p} : press'[q] = press[q]
        /\ press'[p] = WithPoint(kind, selection, here) /\ UNCHANGED <<locating, locateGen>>
    BY <1>1, <1>4 DEF RequestInv, RequestTypeOK
  <2>2. press'[p].phase = "allocating" /\ press[p].phase = "unused"
    BY <1>1, <2>1 DEF WithPoint, Pressed
  <2>3. RequestTypeOK' /\ WaitsApart' /\ GreyedByMine'
    BY <1>1, <1>2, <2>1, <2>2 DEF RequestInv, RequestTypeOK, WaitsApart, GreyedByMine, Waiting, Mine
  <2>4. SentIsOver' /\ CalledOffIsOver'
    BY <1>1, <1>2, <2>1, <2>2 DEF RequestInv, SentIsOver, CalledOffIsOver, Waiting, Mine
  <2> QED BY <2>3, <2>4 DEF RequestInv
<1> QED BY <1>3, <1>4

LEMMA CancelActionInv ==
  ASSUME RequestInv, CancelAction
  PROVE  RequestInv'
<1>1. /\ locateGen' = locateGen + 1 /\ locating' = FALSE /\ UNCHANGED <<press, outbox>>
      /\ pressedWith' = [q \in Presses |-> pressedWith'[q]]
      /\ \A q \in Presses : pressedWith'[q] = pressedWith[q] \/ Waiting(q)
  BY DEF CancelAction
<1>2. \A q \in Presses : Waiting(q)' <=> Waiting(q)
  BY <1>1 DEF Waiting
<1>3. \A q \in Presses : Waiting(q) => ~Mine(q)'
  BY <1>1 DEF RequestInv, RequestTypeOK, Mine
<1>4. RequestTypeOK'
  <2>1. locating' \in BOOLEAN /\ locateGen' \in Nat /\ locateGen <= locateGen'
    <3>1. locateGen \in Nat
      BY DEF RequestInv, RequestTypeOK
    <3>2. locating' = FALSE /\ locateGen' = locateGen + 1
      BY DEF CancelAction
    <3>3. locating' \in BOOLEAN
      BY <3>2
    <3>4. locateGen' \in Nat /\ locateGen <= locateGen'
      BY <3>1, <3>2
    <3> QED BY <3>3, <3>4
  <2>2. press' = [q \in Presses |-> press'[q]] /\ outbox' = [q \in Presses |-> outbox'[q]]
    <3>1. press' = press /\ outbox' = outbox
      BY DEF CancelAction
    <3>2. press = [q \in Presses |-> press[q]] /\ outbox = [q \in Presses |-> outbox[q]]
      BY Zenon DEF RequestInv, RequestTypeOK
    <3> QED BY <3>1, <3>2, Zenon
  <2>3. \A q \in Presses : Waiting(q)' =>
          /\ press'[q] = [phase |-> press'[q].phase, kind |-> press'[q].kind,
                         sel |-> press'[q].sel, gen |-> press'[q].gen]
          /\ press'[q].gen \in Nat /\ press'[q].gen <= locateGen'
    BY <1>1, <1>2, <2>1 DEF RequestInv, RequestTypeOK
  <2> QED BY <1>1, <2>1, <2>2, <2>3 DEF RequestTypeOK
<1>5. WaitsApart' /\ SentIsOver'
  BY <1>1, <1>2 DEF RequestInv, WaitsApart, SentIsOver
<1>6. GreyedByMine'
  BY <1>1, <1>2, <1>3 DEF GreyedByMine
<1>7. CalledOffIsOver'
  BY <1>1, <1>2, <1>3 DEF RequestInv, SentIsOver, CalledOffIsOver, Waiting
<1> QED BY <1>4, <1>5, <1>6, <1>7 DEF RequestInv

LEMMA AllocatedInv ==
  ASSUME RequestInv, NEW p \in Presses, Allocated(p)
  PROVE  RequestInv'
<1>1. /\ press' = [q \in Presses |-> press'[q]] /\ \A q \in Presses \ {p} : press'[q] = press[q]
      /\ press'[p].phase = "over" /\ press[p].phase = "allocating"
      /\ outbox' = [q \in Presses |-> outbox'[q]] /\ \A q \in Presses \ {p} : outbox'[q] = outbox[q]
      /\ UNCHANGED <<locating, locateGen, pressedWith>>
  BY DEF Allocated, Over, RequestInv, RequestTypeOK
<1>2. RequestTypeOK' /\ WaitsApart' /\ GreyedByMine'
  BY <1>1 DEF RequestInv, RequestTypeOK, WaitsApart, GreyedByMine, Waiting, Mine
<1>3. SentIsOver' /\ CalledOffIsOver'
  BY <1>1 DEF RequestInv, SentIsOver, CalledOffIsOver, Waiting, Mine
<1> QED BY <1>2, <1>3 DEF RequestInv

LEMMA RequestNextInv == RequestInv /\ [RequestNext]_requestVars => RequestInv'
<1> SUFFICES ASSUME RequestInv, [RequestNext]_requestVars PROVE RequestInv'
  OBVIOUS
<1>1. CASE UNCHANGED requestVars
  BY <1>1, Untouched DEF requestVars
<1>2. CASE TimePasses \/ FixAges \/ Foreground \/ RestorePin
  BY <1>2, Untouched DEF TimePasses, FixAges, Foreground, RestorePin, PlaceOnly, pressVars
<1>3. CASE \/ \E sel \in Selections : Choose(sel)
           \/ \E c \in Fixes : Watch(c)
           \/ \E c \in Pins \union {NoPoint} : PinAt(c)
           \/ \E p \in Presses, footer \in Footers : Arrive(p, footer)
  BY <1>3, Untouched DEF Choose, Watch, PinAt, Arrive, PlaceOnly, pressVars
<1>4. ASSUME NEW p \in Presses, LocateMe(p) PROVE RequestInv'
  BY <1>4, LocateInv DEF LocateMe, RequestInv, RequestTypeOK
<1>5. ASSUME NEW p \in Presses, NoFixCame(p) PROVE RequestInv'
  BY <1>5, GivesUp DEF NoFixCame, Waiting
<1> QED BY <1>1, <1>2, <1>3, <1>4, <1>5, PermissionInv, FixInv, SendInv, CancelActionInv, AllocatedInv
        DEF RequestNext

(***************************************************************************)
(* Whatever is pressed, called off and changed while a press waits for a   *)
(* position or a code, the invariant holds.                                *)
(***************************************************************************)
THEOREM RequestInvariant == RequestSpec => []RequestInv
  BY RequestInitInv, RequestNextInv, PTL DEF RequestSpec

(***************************************************************************)
(* HomeScreen's buttons are greyed exactly while the current wait for a    *)
(* position is under way, for any number of abandoned waits ending in any  *)
(* order; and a press called off while it waited sends nothing.            *)
(***************************************************************************)
THEOREM WaitsAreOwned == RequestSpec => []WaitsOwned
<1>1. RequestInv => WaitsOwned
  BY DEF RequestInv, GreyedByMine, CalledOffIsOver, WaitsOwned
<1> QED BY <1>1, RequestInvariant, PTL

-----------------------------------------------------------------------------
(* What a message says, and what it is read as. *)

LEMMA LeastNatural ==
  ASSUME NEW S \in SUBSET Nat, S # {}
  PROVE  \E n \in S : \A m \in S : n <= m
<1> DEFINE R == OpToRel(<, Nat)
<1>1. IsWellFoundedOn(R, Nat)
  BY NatLessThanWellFounded
<1>2. \A a, b \in Nat : <<b, a>> \in R <=> b < a
  BY DEF OpToRel
<1> HIDE DEF R
<1>3. PICK n \in S : \A m \in S : ~(<<m, n>> \in R)
  BY <1>1, WFMin
<1>4. ASSUME NEW m \in S PROVE n <= m
  <2>1. n \in Nat /\ m \in Nat
    OBVIOUS
  <2>2. ~(m < n)
    BY <1>2, <1>3, <2>1
  <2> QED BY <2>1, <2>2
<1> QED BY <1>4

LEMMA Ends ==
  ASSUME NEW n \in Nat, NEW S \in SUBSET (1 .. n), S # {}
  PROVE  Min(S) \in S /\ Max(S) \in S
<1>1. PICK a \in S : \A m \in S : a <= m
  <2>1. S \in SUBSET Nat
    OBVIOUS
  <2> QED BY <2>1, LeastNatural
<1>2. PICK b \in S : \A m \in S : m <= b
  <2> DEFINE T == {n - m : m \in S}
  <2>1. T \in SUBSET Nat /\ T # {}
    <3>1. \A m \in S : n - m \in Nat
      OBVIOUS
    <3> QED BY <3>1
  <2>2. PICK t \in T : \A m \in T : t <= m
    <3> HIDE DEF T
    <3> QED BY <2>1, LeastNatural
  <2>3. PICK b \in S : t = n - b
    BY <2>2
  <2>4. ASSUME NEW m \in S PROVE m <= b
    <3>1. t <= n - m
      BY <2>2
    <3>2. m \in 1 .. n /\ b \in 1 .. n
      BY <2>3, Zenon
    <3> QED BY <2>3, <3>1, <3>2
  <2> QED BY <2>4
<1>3. \E x \in S : \A y \in S : x >= y
  BY <1>2
<1>4. \E x \in S : \A y \in S : x =< y
  BY <1>1
<1> QED BY <1>3, <1>4 DEF Min, Max

LEMMA Joined ==
  ASSUME NEW s, NEW t, s \in Seq(Range(s)), t \in Seq(Range(t))
  PROVE  /\ s \o t \in Seq(Range(s \o t))
         /\ Range(s \o t) = Range(s) \union Range(t)
<1>1. s \in Seq(Range(s) \union Range(t)) /\ t \in Seq(Range(s) \union Range(t))
  OBVIOUS
<1>2. /\ s \o t \in Seq(Range(s) \union Range(t)) /\ Len(s \o t) = Len(s) + Len(t)
      /\ \A i \in 1 .. Len(s) + Len(t) : (s \o t)[i] = IF i <= Len(s) THEN s[i] ELSE t[i - Len(s)]
  BY <1>1, ConcatProperties
<1>3. Len(s) \in Nat /\ Len(t) \in Nat /\ DOMAIN s = 1 .. Len(s) /\ DOMAIN t = 1 .. Len(t)
      /\ DOMAIN (s \o t) = 1 .. Len(s) + Len(t)
  BY <1>1, <1>2
<1>4. Range(s \o t) \subseteq Range(s) \union Range(t)
  <2> SUFFICES ASSUME NEW i \in 1 .. Len(s) + Len(t) PROVE (s \o t)[i] \in Range(s) \union Range(t)
    BY <1>3 DEF Range
  <2>1. CASE i <= Len(s)
    BY <1>2, <1>3, <2>1 DEF Range
  <2>2. CASE i > Len(s)
    <3>1. i - Len(s) \in 1 .. Len(t) /\ ~(i <= Len(s))
      BY <1>3, <2>2
    <3> QED BY <1>2, <1>3, <3>1 DEF Range
  <2> QED BY <1>3, <2>1, <2>2
<1>5. Range(s) \subseteq Range(s \o t)
  <2> SUFFICES ASSUME NEW i \in 1 .. Len(s) PROVE s[i] \in Range(s \o t)
    BY <1>3 DEF Range
  <2>1. i \in 1 .. Len(s) + Len(t) /\ i <= Len(s)
    BY <1>3
  <2> QED BY <1>2, <1>3, <2>1 DEF Range
<1>6. Range(t) \subseteq Range(s \o t)
  <2> SUFFICES ASSUME NEW i \in 1 .. Len(t) PROVE t[i] \in Range(s \o t)
    BY <1>3 DEF Range
  <2>1. i + Len(s) \in 1 .. Len(s) + Len(t) /\ ~(i + Len(s) <= Len(s)) /\ (i + Len(s)) - Len(s) = i
    BY <1>3
  <2>2. (s \o t)[i + Len(s)] = t[i]
    BY <1>2, <2>1
  <2> QED BY <1>3, <2>1, <2>2 DEF Range
<1>7. Range(s \o t) = Range(s) \union Range(t)
  BY <1>4, <1>5, <1>6
<1> QED BY <1>2, <1>7

(* A key under which a message says one thing, and one it does not use. *)
Once(said, key, what) ==
  /\ \E word \in said : word[1] = key
  /\ \A word \in said : word[1] = key => word[2] = what
Never(said, key) == \A word \in said : word[1] # key

LEMMA Listening ==
  ASSUME NEW words, words \in Seq(Range(words)), NEW key, NEW what, Once(Range(words), key, what)
  PROVE  /\ Seen(words, key) /\ SaidUnder(words, key) = {what}
         /\ \A otherwise : Heard(words, key, otherwise) = what
         /\ key = "version" => FirstVersion(words) = what
<1> DEFINE S == {i \in DOMAIN words : words[i][1] = key}
<1>1. DOMAIN words = 1 .. Len(words) /\ Len(words) \in Nat
  OBVIOUS
<1>2. S # {} /\ S \in SUBSET (1 .. Len(words)) /\ \A i \in S : words[i][2] = what
  BY <1>1 DEF Range, Once
<1>3. Seen(words, key) /\ SaidUnder(words, key) = {what}
  BY <1>2 DEF Seen, SaidUnder
<1>4. Min(S) \in S /\ Max(S) \in S
  <2> HIDE DEF S
  <2> QED BY <1>1, <1>2, Ends
<1> QED BY <1>2, <1>3, <1>4 DEF Heard, FirstVersion

LEMMA Silent ==
  ASSUME NEW words, NEW key, Never(Range(words), key)
  PROVE  /\ ~Seen(words, key) /\ SaidUnder(words, key) = {}
         /\ \A otherwise : Heard(words, key, otherwise) = otherwise
<1>1. \A i \in DOMAIN words : words[i][1] # key
  BY DEF Range, Never
<1> QED BY <1>1 DEF Seen, SaidUnder, Heard

-----------------------------------------------------------------------------
(* What a message says, as the set of its words. *)
Often(key, said) == IF said = {} THEN {} ELSE {<<key, said>>}
Counted(n) == IF n > 1 THEN {<<"n", n>>} ELSE {}
SaidOfWeather(sel, c, code, hour) ==
  {<<"version", WireVersion>>, <<"at", FourPlaces(c)>>, <<"f", "w">>, <<"p", sel.mode>>,
   <<"z", ZoneAt[c][hour]>>, <<"m", {sel.model}>>}
  \union Often("v", SelectedVars(sel) \intersect VarCodes)
  \union Often("w", SelectedVars(sel) \intersect WindLevels)
  \union {<<"d", sel.device>>, <<"o", Platform>>}
  \union Counted(MessagesFor(sel))
  \union {<<"u", Token>>, <<"k", code>>, <<"t", hour>>}
SaidOfBulletin(sel, c, code, hour) ==
  {<<"version", WireVersion>>, <<"at", FourPlaces(c)>>, <<"f", "a">>}
  \union {<<"d", sel.device>>, <<"o", Platform>>}
  \union {<<"u", Token>>, <<"k", code>>, <<"t", hour>>}
  \union (IF sel.day = NoWord THEN {} ELSE {<<"y", sel.day>>})
SaidOf(kind, sel, c, code, hour) ==
  IF kind = "avalanche" THEN SaidOfBulletin(sel, c, code, hour) ELSE SaidOfWeather(sel, c, code, hour)

LEMMA Short ==
  /\ \A a : <<a>> \in Seq(Range(<<a>>)) /\ Range(<<a>>) = {a}
  /\ \A a, b : <<a, b>> \in Seq(Range(<<a, b>>)) /\ Range(<<a, b>>) = {a, b}
  /\ \A a, b, c : <<a, b, c>> \in Seq(Range(<<a, b, c>>)) /\ Range(<<a, b, c>>) = {a, b, c}
  /\ \A a, b, c, d, e, f : <<a, b, c, d, e, f>> \in Seq(Range(<<a, b, c, d, e, f>>))
                         /\ Range(<<a, b, c, d, e, f>>) = {a, b, c, d, e, f}
  /\ <<>> \in Seq(Range(<<>>)) /\ Range(<<>>) = {}
<1>1. /\ \A a : Range(<<a>>) = {a}
      /\ \A a, b : Range(<<a, b>>) = {a, b}
      /\ Range(<<>>) = {}
  BY DEF Range
<1>2. \A a, b, c : Range(<<a, b, c>>) = {a, b, c}
  BY DEF Range
<1>3. \A a, b, c, d, e, f : Range(<<a, b, c, d, e, f>>) = {a, b, c, d, e, f}
  BY DEF Range
<1>4. /\ \A a : <<a>> \in Seq(Range(<<a>>))
      /\ \A a, b : <<a, b>> \in Seq(Range(<<a, b>>))
      /\ \A a, b, c : <<a, b, c>> \in Seq(Range(<<a, b, c>>))
      /\ \A a, b, c, d, e, f : <<a, b, c, d, e, f>> \in Seq(Range(<<a, b, c, d, e, f>>))
      /\ <<>> \in Seq(Range(<<>>))
  BY <1>1, <1>2, <1>3
<1> QED BY <1>1, <1>2, <1>3, <1>4

LEMMA WhatIsSaid ==
  ASSUME NEW kind, NEW sel, NEW c, NEW code, NEW hour
  PROVE  LET words == Message(kind, sel, c, code, hour)
         IN  words \in Seq(Range(words)) /\ Range(words) = SaidOf(kind, sel, c, code, hour)
<1> DEFINE Good(words, said) == words \in Seq(Range(words)) /\ Range(words) = said
<1>1. ASSUME NEW s, NEW t, NEW S, NEW T, Good(s, S), Good(t, T)
      PROVE  Good(s \o t, S \union T)
  BY <1>1, Joined
<1>2. Good(RouteWords(sel), {<<"d", sel.device>>, <<"o", Platform>>})
  BY Short DEF RouteWords
<1>3. Good(Signed(code, hour), {<<"u", Token>>, <<"k", code>>, <<"t", hour>>})
  BY Short DEF Signed
<1>4. ASSUME NEW key, NEW said PROVE Good(Where(key, said), Often(key, said))
  BY Short DEF Where, Often
<1>5. Good(IF MessagesFor(sel) > 1 THEN << <<"n", MessagesFor(sel)>> >> ELSE <<>>, Counted(MessagesFor(sel)))
  BY Short DEF Counted
<1>6. Good(<< <<"version", WireVersion>>, <<"at", FourPlaces(c)>>, <<"f", "w">>, <<"p", sel.mode>>,
             <<"z", ZoneAt[c][hour]>>, <<"m", {sel.model}>> >>,
          {<<"version", WireVersion>>, <<"at", FourPlaces(c)>>, <<"f", "w">>, <<"p", sel.mode>>,
             <<"z", ZoneAt[c][hour]>>, <<"m", {sel.model}>>})
  <2> DEFINE u == <<"version", WireVersion>>
             v == <<"at", FourPlaces(c)>>
             w == <<"f", "w">>
             x == <<"p", sel.mode>>
             y == <<"z", ZoneAt[c][hour]>>
             z == <<"m", {sel.model}>>
  <2> HIDE DEF u, v, w, x, y, z
  <2>1. Range(<<u, v, w, x, y, z>>) = {u, v, w, x, y, z}
    BY DEF Range
  <2>2. Good(<<u, v, w, x, y, z>>, {u, v, w, x, y, z})
    BY <2>1
  <2> QED BY <2>2 DEF u, v, w, x, y, z
<1>7. Good(<< <<"version", WireVersion>>, <<"at", FourPlaces(c)>>, <<"f", "a">> >>,
          {<<"version", WireVersion>>, <<"at", FourPlaces(c)>>, <<"f", "a">>})
  BY Short
<1>8. Good(IF sel.day = NoWord THEN <<>> ELSE << <<"y", sel.day>> >>,
          IF sel.day = NoWord THEN {} ELSE {<<"y", sel.day>>})
  BY Short
<1> HIDE DEF Good
<1>9. Good(BuildMsg(sel, c, code, hour), SaidOfWeather(sel, c, code, hour))
  BY <1>1, <1>2, <1>3, <1>4, <1>5, <1>6 DEF BuildMsg, SaidOfWeather
<1>10. Good(BuildAvalancheMsg(sel, c, code, hour), SaidOfBulletin(sel, c, code, hour))
  BY <1>1, <1>2, <1>3, <1>7, <1>8 DEF BuildAvalancheMsg, SaidOfBulletin
<1> QED BY <1>9, <1>10 DEF Good, Message, SaidOf

-----------------------------------------------------------------------------
LEMMA BulletinSays ==
  ASSUME NEW sel, NEW c, NEW code, NEW hour, NEW more, NEW said,
         said = SaidOfBulletin(sel, c, code, hour) \union more,
         \A word \in more : word[1] \notin Keys
  PROVE  /\ Once(said, "version", WireVersion) /\ Once(said, "at", FourPlaces(c)) /\ Once(said, "f", "a")
         /\ Once(said, "d", sel.device) /\ Once(said, "o", Platform)
         /\ Once(said, "u", Token) /\ Once(said, "k", code) /\ Once(said, "t", hour)
         /\ IF sel.day = NoWord THEN Never(said, "y") ELSE Once(said, "y", sel.day)
         /\ Never(said, "p") /\ Never(said, "z") /\ Never(said, "m")
         /\ Never(said, "v") /\ Never(said, "w") /\ Never(said, "n")
<1>1. \A word \in said :
        \/ word[1] \notin Keys
        \/ word[1] = "version" /\ word[2] = WireVersion
        \/ word[1] = "at" /\ word[2] = FourPlaces(c)
        \/ word[1] = "f" /\ word[2] = "a"
        \/ word[1] = "d" /\ word[2] = sel.device
        \/ word[1] = "o" /\ word[2] = Platform
        \/ word[1] = "u" /\ word[2] = Token
        \/ word[1] = "k" /\ word[2] = code
        \/ word[1] = "t" /\ word[2] = hour
        \/ sel.day # NoWord /\ word[1] = "y" /\ word[2] = sel.day
  BY DEF SaidOfBulletin
<1>2. /\ <<"version", WireVersion>> \in said /\ <<"at", FourPlaces(c)>> \in said /\ <<"f", "a">> \in said
      /\ <<"d", sel.device>> \in said /\ <<"o", Platform>> \in said
      /\ <<"u", Token>> \in said /\ <<"k", code>> \in said /\ <<"t", hour>> \in said
      /\ sel.day # NoWord => <<"y", sel.day>> \in said
  BY DEF SaidOfBulletin
<1>3. ASSUME NEW key, NEW what, <<key, what>> \in said PROVE \E word \in said : word[1] = key
  BY <1>3
<1>4. Once(said, "version", WireVersion) /\ Once(said, "at", FourPlaces(c)) /\ Once(said, "f", "a")
  BY <1>1, <1>2, <1>3 DEF Once, Keys
<1>5. Once(said, "d", sel.device) /\ Once(said, "o", Platform)
  BY <1>1, <1>2, <1>3 DEF Once, Keys
<1>6. Once(said, "u", Token) /\ Once(said, "k", code) /\ Once(said, "t", hour)
  BY <1>1, <1>2, <1>3 DEF Once, Keys
<1>7. IF sel.day = NoWord THEN Never(said, "y") ELSE Once(said, "y", sel.day)
  BY <1>1, <1>2, <1>3 DEF Once, Never, Keys
<1>8. /\ Never(said, "p") /\ Never(said, "z") /\ Never(said, "m")
      /\ Never(said, "v") /\ Never(said, "w") /\ Never(said, "n")
  BY <1>1 DEF Never, Keys
<1> QED BY <1>4, <1>5, <1>6, <1>7, <1>8

LEMMA WeatherSays ==
  ASSUME NEW sel, NEW c, NEW code, NEW hour, NEW more, NEW said,
         said = SaidOfWeather(sel, c, code, hour) \union more,
         \A word \in more : word[1] \notin Keys
  PROVE  LET groups == SelectedVars(sel) \intersect VarCodes
             levels == SelectedVars(sel) \intersect WindLevels
         IN  /\ Once(said, "version", WireVersion) /\ Once(said, "at", FourPlaces(c)) /\ Once(said, "f", "w")
             /\ Once(said, "p", sel.mode) /\ Once(said, "z", ZoneAt[c][hour]) /\ Once(said, "m", {sel.model})
             /\ IF groups = {} THEN Never(said, "v") ELSE Once(said, "v", groups)
             /\ IF levels = {} THEN Never(said, "w") ELSE Once(said, "w", levels)
             /\ Once(said, "d", sel.device) /\ Once(said, "o", Platform)
             /\ IF MessagesFor(sel) > 1 THEN Once(said, "n", MessagesFor(sel)) ELSE Never(said, "n")
             /\ Once(said, "u", Token) /\ Once(said, "k", code) /\ Once(said, "t", hour)
             /\ Never(said, "y")
<1> DEFINE groups == SelectedVars(sel) \intersect VarCodes
           levels == SelectedVars(sel) \intersect WindLevels
<1>1. \A word \in said :
        \/ word[1] \notin Keys
        \/ word[1] = "version" /\ word[2] = WireVersion
        \/ word[1] = "at" /\ word[2] = FourPlaces(c)
        \/ word[1] = "f" /\ word[2] = "w"
        \/ word[1] = "p" /\ word[2] = sel.mode
        \/ word[1] = "z" /\ word[2] = ZoneAt[c][hour]
        \/ word[1] = "m" /\ word[2] = {sel.model}
        \/ groups # {} /\ word[1] = "v" /\ word[2] = groups
        \/ levels # {} /\ word[1] = "w" /\ word[2] = levels
        \/ word[1] = "d" /\ word[2] = sel.device
        \/ word[1] = "o" /\ word[2] = Platform
        \/ MessagesFor(sel) > 1 /\ word[1] = "n" /\ word[2] = MessagesFor(sel)
        \/ word[1] = "u" /\ word[2] = Token
        \/ word[1] = "k" /\ word[2] = code
        \/ word[1] = "t" /\ word[2] = hour
  <2> HIDE DEF groups, levels
  <2> QED BY DEF SaidOfWeather, Often, Counted, groups, levels
<1>2. /\ <<"version", WireVersion>> \in said /\ <<"at", FourPlaces(c)>> \in said /\ <<"f", "w">> \in said
      /\ <<"p", sel.mode>> \in said /\ <<"z", ZoneAt[c][hour]>> \in said /\ <<"m", {sel.model}>> \in said
      /\ groups # {} => <<"v", groups>> \in said
      /\ levels # {} => <<"w", levels>> \in said
      /\ <<"d", sel.device>> \in said /\ <<"o", Platform>> \in said
      /\ MessagesFor(sel) > 1 => <<"n", MessagesFor(sel)>> \in said
      /\ <<"u", Token>> \in said /\ <<"k", code>> \in said /\ <<"t", hour>> \in said
  BY DEF SaidOfWeather, Often, Counted
<1> HIDE DEF groups, levels
<1>3. ASSUME NEW key, NEW what, <<key, what>> \in said PROVE \E word \in said : word[1] = key
  BY <1>3
<1>4. Once(said, "version", WireVersion) /\ Once(said, "at", FourPlaces(c)) /\ Once(said, "f", "w")
  BY <1>1, <1>2, <1>3 DEF Once, Keys
<1>5. Once(said, "p", sel.mode) /\ Once(said, "z", ZoneAt[c][hour]) /\ Once(said, "m", {sel.model})
  BY <1>1, <1>2, <1>3 DEF Once, Keys
<1>6. /\ IF groups = {} THEN Never(said, "v") ELSE Once(said, "v", groups)
      /\ IF levels = {} THEN Never(said, "w") ELSE Once(said, "w", levels)
  BY <1>1, <1>2, <1>3 DEF Once, Never, Keys
<1>7. Once(said, "d", sel.device) /\ Once(said, "o", Platform)
  BY <1>1, <1>2, <1>3 DEF Once, Keys
<1>8. IF MessagesFor(sel) > 1 THEN Once(said, "n", MessagesFor(sel)) ELSE Never(said, "n")
  BY <1>1, <1>2, <1>3 DEF Once, Never, Keys
<1>9. Once(said, "u", Token) /\ Once(said, "k", code) /\ Once(said, "t", hour)
  BY <1>1, <1>2, <1>3 DEF Once, Keys
<1>10. Never(said, "y")
  BY <1>1 DEF Never, Keys
<1> QED BY <1>4, <1>5, <1>6, <1>7, <1>8, <1>9, <1>10 DEF groups, levels

-----------------------------------------------------------------------------
(* What the codec makes of a message, and of what a relay wrote behind it. *)
LEMMA WithFooter ==
  ASSUME NEW kind, NEW sel, NEW c, NEW code, NEW hour, NEW footer \in Footers
  PROVE  LET words == Message(kind, sel, c, code, hour) \o footer
         IN  /\ words \in Seq(Range(words))
             /\ Range(words) = SaidOf(kind, sel, c, code, hour) \union Range(footer)
             /\ \A word \in Range(footer) : word[1] \notin Keys
<1>1. footer \in Seq(Range(footer)) /\ \A word \in Range(footer) : word[1] \notin Keys
  BY FooterAssumption DEF Range
<1> QED BY <1>1, WhatIsSaid, Joined

LEMMA BulletinUnderstood ==
  ASSUME NEW sel \in Chosen, NEW c, NEW code \in 0 .. CodeLimit, NEW hour \in PhoneHours,
         NEW footer \in Footers
  PROVE  LET words == Message("avalanche", sel, c, code, hour) \o footer
         IN  /\ Seen(words, "version") /\ FirstVersion(words) = WireVersion /\ ~Malformed(words)
             /\ Parsed(words) =
                  [kind |-> "avalanche", device |-> sel.device, messages |-> 1, at |-> FourPlaces(c),
                   mode |-> "a", offset |-> 0, models |-> {"best"}, vars |-> AlwaysVars, day |-> sel.day,
                   code |-> code, hour |-> hour, user |-> Token, platform |-> Platform,
                   maxChars |-> MaxCharsFor(sel.device, 1)]
<1> DEFINE words == Message("avalanche", sel, c, code, hour) \o footer
           said == Range(words)
<1>1. words \in Seq(said) /\ said = SaidOfBulletin(sel, c, code, hour) \union Range(footer)
      /\ \A word \in Range(footer) : word[1] \notin Keys
  BY WithFooter DEF SaidOf
<1>2. /\ Once(said, "version", WireVersion) /\ Once(said, "at", FourPlaces(c)) /\ Once(said, "f", "a")
      /\ Once(said, "d", sel.device) /\ Once(said, "o", Platform)
      /\ Once(said, "u", Token) /\ Once(said, "k", code) /\ Once(said, "t", hour)
      /\ IF sel.day = NoWord THEN Never(said, "y") ELSE Once(said, "y", sel.day)
      /\ Never(said, "p") /\ Never(said, "z") /\ Never(said, "m")
      /\ Never(said, "v") /\ Never(said, "w") /\ Never(said, "n")
  <2> HIDE DEF words, said
  <2> QED BY <1>1, BulletinSays
<1> HIDE DEF words
<1>3. /\ \A otherwise : /\ Heard(words, "at", otherwise) = FourPlaces(c) /\ Heard(words, "f", otherwise) = "a"
                        /\ Heard(words, "d", otherwise) = sel.device /\ Heard(words, "o", otherwise) = Platform
                        /\ Heard(words, "u", otherwise) = Token /\ Heard(words, "k", otherwise) = code
                        /\ Heard(words, "t", otherwise) = hour
      /\ Seen(words, "version") /\ Seen(words, "at") /\ FirstVersion(words) = WireVersion
      /\ Seen(words, "f") /\ Seen(words, "d") /\ Seen(words, "u") /\ Seen(words, "k") /\ Seen(words, "t")
  BY <1>1, <1>2, Listening
<1>4. /\ \A otherwise : /\ Heard(words, "p", otherwise) = otherwise /\ Heard(words, "z", otherwise) = otherwise
                        /\ Heard(words, "m", otherwise) = otherwise /\ Heard(words, "n", otherwise) = otherwise
      /\ SaidUnder(words, "v") = {} /\ SaidUnder(words, "w") = {}
      /\ ~Seen(words, "p") /\ ~Seen(words, "z") /\ ~Seen(words, "m") /\ ~Seen(words, "v")
      /\ ~Seen(words, "w") /\ ~Seen(words, "n")
  BY <1>2, Silent
<1>5. Heard(words, "y", NoWord) = sel.day
  BY <1>1, <1>2, Listening, Silent
<1>6. Kind(words) = "avalanche"
  BY <1>3 DEF Kind
<1>7. ASSUME NEW i \in DOMAIN words PROVE Valid(words[i])
  <2>1. words[i] \in said
    BY DEF Range
  <2>2. sel.device \in DOMAIN TransportChars /\ Platform \in {"i", "a"} /\ hour >= 0
    <3>1. hour \in Nat
      BY BuilderAssumption
    <3> QED BY <3>1, BuilderAssumption
  <2> DEFINE word == words[i]
  <2>3. /\ word[1] = "f" => word[2] = "a"
        /\ word[1] = "d" => word[2] = sel.device
        /\ word[1] = "o" => word[2] = Platform
        /\ word[1] = "k" => word[2] = code
        /\ word[1] = "t" => word[2] = hour
        /\ word[1] \notin {"p", "z", "n", "m", "w", "v"}
    BY <1>2, <2>1 DEF Once, Never
  <2> HIDE DEF word
  <2>4. Valid(word)
    BY <2>2, <2>3 DEF Valid
  <2> QED BY <2>4 DEF word
<1>8. ~Malformed(words)
  BY <1>3, <1>4, <1>6, <1>7 DEF Malformed, Required, Foreign
<1>9. Parsed(words) =
        [kind |-> "avalanche", device |-> sel.device, messages |-> 1, at |-> FourPlaces(c),
         mode |-> "a", offset |-> 0, models |-> {"best"}, vars |-> AlwaysVars, day |-> sel.day,
         code |-> code, hour |-> hour, user |-> Token, platform |-> Platform,
         maxChars |-> MaxCharsFor(sel.device, 1)]
  <2>1. UNION ({AlwaysVars} \union SaidUnder(words, "v") \union SaidUnder(words, "w")) = AlwaysVars
    BY <1>4
  <2> QED BY <1>3, <1>4, <1>5, <1>6, <2>1 DEF Parsed
<1> QED BY <1>3, <1>8, <1>9 DEF words

LEMMA HowMany ==
  ASSUME NEW sel \in Chosen
  PROVE  /\ MessagesFor(sel) \in {1, 2}
         /\ MessagesFor(sel) = 2 => sel.two /\ sel.device # "d"
<1>1. sel.two \in BOOLEAN
  BY BuilderAssumption
<1>2. TwoOffered("d", SelectedVars(sel)) = FALSE
  BY DEF TwoOffered
<1> HIDE DEF TwoOffered
<1> QED BY <1>1, <1>2 DEF MessagesFor

LEMMA CarriedWhole ==
  ASSUME NEW sel \in Chosen
  PROVE  LET chosen == SelectedVars(sel)
         IN  AlwaysVars \union (chosen \intersect VarCodes) \union (chosen \intersect WindLevels) = chosen
<1>1. sel.groups \subseteq VarCodes \union WindLevels
  BY BuilderAssumption
<1>2. SelectedVars(sel) \subseteq AlwaysVars \union VarCodes \union WindLevels
  BY <1>1 DEF SelectedVars
<1>3. AlwaysVars \subseteq SelectedVars(sel)
  BY DEF SelectedVars
<1> QED BY <1>2, <1>3

LEMMA WeatherUnderstood ==
  ASSUME NEW sel \in Chosen, NEW c \in Points, NEW code \in 0 .. CodeLimit, NEW hour \in PhoneHours,
         NEW footer \in Footers
  PROVE  LET words == Message("weather", sel, c, code, hour) \o footer
         IN  /\ Seen(words, "version") /\ FirstVersion(words) = WireVersion /\ ~Malformed(words)
             /\ Parsed(words) =
                  [kind |-> "weather", device |-> sel.device, messages |-> MessagesFor(sel),
                   at |-> FourPlaces(c), mode |-> sel.mode, offset |-> ZoneAt[c][hour],
                   models |-> {sel.model}, vars |-> SelectedVars(sel), day |-> NoWord,
                   code |-> code, hour |-> hour, user |-> Token, platform |-> Platform,
                   maxChars |-> MaxCharsFor(sel.device, MessagesFor(sel))]
<1> DEFINE words == Message("weather", sel, c, code, hour) \o footer
           said == Range(words)
           groups == SelectedVars(sel) \intersect VarCodes
           levels == SelectedVars(sel) \intersect WindLevels
<1>1. words \in Seq(said) /\ said = SaidOfWeather(sel, c, code, hour) \union Range(footer)
      /\ \A word \in Range(footer) : word[1] \notin Keys
  BY WithFooter DEF SaidOf
<1>2. /\ Once(said, "version", WireVersion) /\ Once(said, "at", FourPlaces(c)) /\ Once(said, "f", "w")
      /\ Once(said, "p", sel.mode) /\ Once(said, "z", ZoneAt[c][hour]) /\ Once(said, "m", {sel.model})
      /\ IF groups = {} THEN Never(said, "v") ELSE Once(said, "v", groups)
      /\ IF levels = {} THEN Never(said, "w") ELSE Once(said, "w", levels)
      /\ Once(said, "d", sel.device) /\ Once(said, "o", Platform)
      /\ IF MessagesFor(sel) > 1 THEN Once(said, "n", MessagesFor(sel)) ELSE Never(said, "n")
      /\ Once(said, "u", Token) /\ Once(said, "k", code) /\ Once(said, "t", hour)
      /\ Never(said, "y")
  <2> HIDE DEF words, said
  <2> QED BY <1>1, WeatherSays
<1> HIDE DEF words, groups, levels
<1>3. /\ \A otherwise : /\ Heard(words, "at", otherwise) = FourPlaces(c) /\ Heard(words, "f", otherwise) = "w"
                        /\ Heard(words, "d", otherwise) = sel.device /\ Heard(words, "o", otherwise) = Platform
                        /\ Heard(words, "u", otherwise) = Token /\ Heard(words, "k", otherwise) = code
                        /\ Heard(words, "t", otherwise) = hour
      /\ Seen(words, "version") /\ Seen(words, "at") /\ FirstVersion(words) = WireVersion
      /\ Seen(words, "f") /\ Seen(words, "d") /\ Seen(words, "u") /\ Seen(words, "k") /\ Seen(words, "t")
  BY <1>1, <1>2, Listening
<1>4. /\ \A otherwise : /\ Heard(words, "p", otherwise) = sel.mode
                        /\ Heard(words, "z", otherwise) = ZoneAt[c][hour]
                        /\ Heard(words, "m", otherwise) = {sel.model}
      /\ Seen(words, "p") /\ Seen(words, "z") /\ Seen(words, "m")
  BY <1>1, <1>2, Listening
<1>5. Heard(words, "y", NoWord) = NoWord /\ ~Seen(words, "y")
  BY <1>2, Silent
<1>6. MessagesFor(sel) \in {1, 2}
  BY HowMany
<1>7. Heard(words, "n", 1) = MessagesFor(sel)
  <2>1. CASE MessagesFor(sel) = 2
    <3>1. Once(said, "n", MessagesFor(sel))
      BY <1>2, <2>1
    <3> QED BY <1>1, <3>1, Listening
  <2>2. CASE MessagesFor(sel) = 1
    <3>1. Never(said, "n")
      BY <1>2, <2>2
    <3> QED BY <2>2, <3>1, Silent
  <2> QED BY <1>6, <2>1, <2>2
<1>8. Kind(words) = "weather"
  BY <1>3 DEF Kind
<1>9. ASSUME NEW i \in DOMAIN words PROVE Valid(words[i])
  <2>1. words[i] \in said
    BY DEF Range
  <2>2. /\ sel.device \in DOMAIN TransportChars /\ Platform \in {"i", "a"} /\ hour >= 0
        /\ sel.mode \in ModeTokens /\ {sel.model} \subseteq ModelNames /\ ZoneAt[c][hour] \in -12 .. 14
        /\ groups \subseteq VarCodes /\ levels \subseteq WindLevels
        /\ MessagesFor(sel) \in 1 .. MaxMessages
    <3>1. hour \in Nat
      BY BuilderAssumption
    <3>2. MessagesFor(sel) \in 1 .. MaxMessages
      BY <1>6 DEF MaxMessages
    <3>3. groups \subseteq VarCodes /\ levels \subseteq WindLevels
      BY DEF groups, levels
    <3> QED BY <3>1, <3>2, <3>3, BuilderAssumption
  <2> DEFINE word == words[i]
  <2>3. /\ word[1] = "f" => word[2] = "w"
        /\ word[1] = "p" => word[2] = sel.mode
        /\ word[1] = "z" => word[2] = ZoneAt[c][hour]
        /\ word[1] = "m" => word[2] = {sel.model}
        /\ word[1] = "d" => word[2] = sel.device
        /\ word[1] = "o" => word[2] = Platform
        /\ word[1] = "n" => word[2] = MessagesFor(sel)
        /\ word[1] = "k" => word[2] = code
        /\ word[1] = "t" => word[2] = hour
        /\ word[1] = "v" => word[2] = groups
        /\ word[1] = "w" => word[2] = levels /\ levels # {}
    BY <1>2, <2>1 DEF Once, Never
  <2> HIDE DEF word
  <2>4. Valid(word)
    BY <2>2, <2>3 DEF Valid
  <2> QED BY <2>4 DEF word
<1>10. ~Malformed(words)
  BY <1>3, <1>4, <1>5, <1>8, <1>9 DEF Malformed, Required, Foreign
<1>11. UNION ({AlwaysVars} \union SaidUnder(words, "v") \union SaidUnder(words, "w")) = SelectedVars(sel)
  <2>1. SaidUnder(words, "v") = IF groups = {} THEN {} ELSE {groups}
    BY <1>1, <1>2, Listening, Silent
  <2>2. SaidUnder(words, "w") = IF levels = {} THEN {} ELSE {levels}
    BY <1>1, <1>2, Listening, Silent
  <2>3. UNION ({AlwaysVars} \union SaidUnder(words, "v") \union SaidUnder(words, "w"))
          = AlwaysVars \union groups \union levels
    <3> DEFINE always == AlwaysVars
    <3> HIDE DEF always
    <3>1. UNION ({always} \union (IF groups = {} THEN {} ELSE {groups}) \union (IF levels = {} THEN {} ELSE {levels}))
            = always \union groups \union levels
      OBVIOUS
    <3> QED BY <2>1, <2>2, <3>1 DEF always
  <2> QED BY <2>3, CarriedWhole DEF groups, levels
<1>12. Parsed(words) =
         [kind |-> "weather", device |-> sel.device, messages |-> MessagesFor(sel),
          at |-> FourPlaces(c), mode |-> sel.mode, offset |-> ZoneAt[c][hour],
          models |-> {sel.model}, vars |-> SelectedVars(sel), day |-> NoWord,
          code |-> code, hour |-> hour, user |-> Token, platform |-> Platform,
          maxChars |-> MaxCharsFor(sel.device, MessagesFor(sel))]
  BY <1>3, <1>4, <1>5, <1>7, <1>8, <1>11 DEF Parsed
<1> QED BY <1>3, <1>10, <1>12 DEF words

-----------------------------------------------------------------------------
(* What is answered. *)
LEMMA Rounding ==
  ASSUME NEW v \in Int
  PROVE  LET sent == Nearest(v, 10)
             kept == Nearest(Nearest(sent, 1000), 1000)
         IN  Near(sent, v, 5) /\ Near(kept, v, 505) /\ kept % 1000 = 0
<1> DEFINE sent == Nearest(v, 10)
           once == Nearest(sent, 1000)
           kept == Nearest(once, 1000)
<1>1. sent \in Int /\ Near(sent, v, 5)
  BY DEF Nearest, Near
<1> HIDE DEF sent
<1>2. once \in Int /\ Near(once, sent, 500) /\ (once % 1000) = 0
  BY <1>1 DEF Nearest, Near
<1> HIDE DEF once
<1>3. kept = once
  BY <1>2 DEF Nearest
<1> HIDE DEF kept
<1>4. Near(once, v, 505)
  BY <1>1, <1>2 DEF Near
<1> QED BY <1>1, <1>2, <1>3, <1>4 DEF sent, once, kept

LEMMA InTime ==
  ASSUME NEW hour \in Nat, NEW when \in Nat
  PROVE  /\ RequestWindow(hour, 24 * (when \div 24)) \in {"ok", "stale", "future"}
         /\ hour <= when /\ when <= hour + 24 => RequestWindow(hour, 24 * (when \div 24)) = "ok"
<1> DEFINE today == 24 * (when \div 24)
<1>1. today \in Nat /\ today <= when /\ when < today + 24
  OBVIOUS
<1> HIDE DEF today
<1>2. RequestWindow(hour, today) \in {"ok", "stale", "future"}
  BY DEF RequestWindow
<1>3. hour <= when /\ when <= hour + 24 => ~(hour < today - 24) /\ ~(hour >= today + 24 * (13 + 2))
  BY <1>1
<1>4. hour <= when /\ when <= hour + 24 => RequestWindow(hour, today) = "ok"
  BY <1>3 DEF RequestWindow, AxisStart, AxisEnd, FillSlots
<1> QED BY <1>2, <1>4 DEF today

LEMMA Budget ==
  ASSUME NEW device \in DOMAIN TransportChars, NEW n \in {1, 2}
  PROVE  /\ MaxCharsFor(device, n) \in Nat
         /\ MaxCharsFor(device, n) = Uncapped <=> device = "d"
         /\ device # "d" => MaxCharsFor(device, n) < Uncapped
<1>1. device \in {"i", "s", "z", "g", "d"}
  BY DEF TransportChars
<1> QED BY <1>1
        DEF MaxCharsFor, Route, Splits, PartBodyChars, TransportChars, HeaderChars, PartLabelChars,
            BubbleBytes, WideCharBytes, ConcatSegment, Uncapped

(* ReadAsAsked of an answer, but for what the press and the hour say. *)
Agrees(answer, context, sel) ==
  LET read == answer.params
      kept == answer.shape
  IN  /\ answer.says \in {"ok", "stale", "future"}
      /\ NearTo(read.at, context.at, 5)
      /\ read.kind = context.kind /\ read.hour = context.start
      /\ read.device = context.device /\ context.device = sel.device
      /\ context.kind = "avalanche" => read.day = context.day /\ context.day = sel.day
      /\ context.kind = "weather" =>
           /\ read.mode = context.mode /\ context.mode = sel.mode
           /\ read.models = {context.model} /\ context.model = sel.model
           /\ read.offset = context.offset /\ read.offset = ZoneAt[context.at][read.hour]
           /\ read.vars = context.vars /\ read.vars \subseteq AlwaysVars \union sel.groups
           /\ read.vars \intersect ModelUnavail(sel.model) = {}
           /\ read.messages > 1 => sel.two /\ read.maxChars < Uncapped
      /\ kept.kind = read.kind /\ kept.model = Weather(read, context.model)
      /\ NearTo(kept.at, context.at, 505)
      /\ \A axis \in {kept.at.lat, kept.at.lon} : axis % 1000 = 0
      /\ kept.maxChars = NoWord <=> read.device = "d"

LEMMA SelectedVarsFit ==
  ASSUME NEW sel
  PROVE  /\ SelectedVars(sel) \subseteq AlwaysVars \union sel.groups
         /\ SelectedVars(sel) \intersect ModelUnavail(sel.model) = {}
<1>1. AlwaysVars \intersect ModelUnavail(sel.model) = {}
  BY DEF AlwaysVars, ModelUnavail
<1> QED BY <1>1 DEF SelectedVars

LEMMA KeptWell ==
  ASSUME NEW params, NEW kept, NEW c \in Points, params.at = FourPlaces(c),
         params.device \in DOMAIN TransportChars, params.messages \in {1, 2},
         params.maxChars = MaxCharsFor(params.device, params.messages),
         kept = Shape(DescribeRequest(params))
  PROVE  /\ NearTo(params.at, c, 5) /\ NearTo(kept.at, c, 505)
         /\ \A axis \in {kept.at.lat, kept.at.lon} : axis % 1000 = 0
         /\ kept.maxChars = NoWord <=> params.device = "d"
         /\ kept.kind = params.kind
         /\ params.kind # "weather" => kept.model = NoWord
         /\ \A model \in ModelNames :
              params.kind = "weather" /\ params.models = {model} => kept.model = model
<1> DEFINE told == DescribeRequest(params)
<1>1. c.lat \in Int /\ c.lon \in Int
  BY BuilderAssumption
<1>2. /\ params.at.lat = Nearest(c.lat, 10) /\ params.at.lon = Nearest(c.lon, 10)
      /\ kept.at.lat = Nearest(Nearest(params.at.lat, 1000), 1000)
      /\ kept.at.lon = Nearest(Nearest(params.at.lon, 1000), 1000)
  BY DEF FourPlaces, Shape, DescribeRequest, Coarse
<1>3. kept.kind = params.kind /\ told.models = Weather(params, params.models)
      /\ kept.model = (IF told.models = NoWord THEN NoWord ELSE CHOOSE m \in told.models : TRUE)
      /\ kept.maxChars = (IF params.maxChars = Uncapped THEN NoWord ELSE params.maxChars)
  BY DEF Shape, DescribeRequest
<1> HIDE DEF told
<1>4. NearTo(params.at, c, 5) /\ NearTo(kept.at, c, 505)
      /\ \A axis \in {kept.at.lat, kept.at.lon} : axis % 1000 = 0
  BY <1>1, <1>2, Rounding DEF NearTo
<1>5. kept.maxChars = NoWord <=> params.device = "d"
  <2>1. params.maxChars \in Nat /\ (params.maxChars = Uncapped <=> params.device = "d")
    BY Budget
  <2>2. params.maxChars # NoWord
    BY <2>1, BuilderAssumption
  <2> QED BY <1>3, <2>1, <2>2
<1>6. params.kind # "weather" => kept.model = NoWord
  BY <1>3 DEF Weather
<1>7. ASSUME NEW model \in ModelNames, params.kind = "weather", params.models = {model}
      PROVE  kept.model = model
  <2>1. told.models = {model} /\ {model} # NoWord
    BY <1>3, <1>7, BuilderAssumption DEF Weather
  <2>2. (CHOOSE m \in {model} : TRUE) = model
    OBVIOUS
  <2> QED BY <1>3, <2>1, <2>2
<1> QED BY <1>3, <1>4, <1>5, <1>6, <1>7

LEMMA Answered ==
  ASSUME NEW kind \in {"weather", "avalanche"}, NEW sel \in Chosen, NEW c \in Points,
         NEW code \in 0 .. CodeLimit, NEW hour \in PhoneHours, NEW footer \in Footers, NEW when \in Nat
  PROVE  LET answer == DispatchForecast(Message(kind, sel, c, code, hour) \o footer, when)
             context == BuildContext(kind, sel, c, hour)
         IN  /\ Agrees(answer, context, sel)
             /\ answer.params.code = code /\ answer.when = when
             /\ context.at = c /\ context.start = hour
             /\ hour <= when /\ when <= hour + 24 => answer.says = "ok"
<1> DEFINE words == Message(kind, sel, c, code, hour) \o footer
           params == Parsed(words)
           answer == DispatchForecast(words, when)
           context == BuildContext(kind, sel, c, hour)
<1>1. hour \in Nat /\ sel.device \in DOMAIN TransportChars /\ sel.model \in ModelNames
  BY BuilderAssumption
<1>2. /\ Seen(words, "version") /\ FirstVersion(words) = WireVersion /\ ~Malformed(words)
      /\ params.kind = kind /\ params.device = sel.device /\ params.at = FourPlaces(c)
      /\ params.code = code /\ params.hour = hour
      /\ params.messages \in {1, 2} /\ params.maxChars = MaxCharsFor(sel.device, params.messages)
  <2>1. CASE kind = "avalanche"
    BY <2>1, BulletinUnderstood
  <2>2. CASE kind = "weather"
    BY <2>2, WeatherUnderstood, HowMany
  <2> QED BY <2>1, <2>2
<1>3. ASSUME kind = "avalanche" PROVE params.day = sel.day
  <2>1. params = [kind |-> "avalanche", device |-> sel.device, messages |-> 1, at |-> FourPlaces(c),
                  mode |-> "a", offset |-> 0, models |-> {"best"}, vars |-> AlwaysVars, day |-> sel.day,
                  code |-> code, hour |-> hour, user |-> Token, platform |-> Platform,
                  maxChars |-> MaxCharsFor(sel.device, 1)]
    BY <1>3, BulletinUnderstood
  <2> HIDE DEF params
  <2> QED BY <2>1
<1>4. ASSUME kind = "weather"
      PROVE  /\ params.messages = MessagesFor(sel) /\ params.mode = sel.mode
             /\ params.offset = ZoneAt[c][hour]
             /\ params.models = {sel.model} /\ params.vars = SelectedVars(sel)
  BY <1>4, WeatherUnderstood
<1>5. /\ context.kind = kind /\ context.at = c /\ context.start = hour /\ context.device = sel.device
      /\ kind = "avalanche" => context.day = sel.day
      /\ kind = "weather" => /\ context.mode = sel.mode /\ context.offset = ZoneAt[c][hour]
                             /\ context.model = sel.model /\ context.vars = SelectedVars(sel)
  BY DEF BuildContext
<1>6. /\ answer.when = when /\ answer.params = params /\ answer.shape = Shape(DescribeRequest(params))
      /\ answer.says = IF kind = "avalanche" /\ params.day # NoWord THEN "ok"
                       ELSE RequestWindow(hour, 24 * (when \div 24))
  <2> HIDE DEF words
  <2> QED BY <1>2 DEF DispatchForecast, Encode
<1> HIDE DEF words, params, context, answer
<1>7. answer.says \in {"ok", "stale", "future"} /\ (hour <= when /\ when <= hour + 24 => answer.says = "ok")
  BY <1>1, <1>6, InTime
<1> DEFINE kept == Shape(DescribeRequest(params))
<1> HIDE DEF kept
<1>8. /\ NearTo(params.at, c, 5) /\ NearTo(kept.at, c, 505)
      /\ \A axis \in {kept.at.lat, kept.at.lon} : axis % 1000 = 0
      /\ kept.maxChars = NoWord <=> params.device = "d"
      /\ kept.kind = params.kind
      /\ params.kind # "weather" => kept.model = NoWord
      /\ \A model \in ModelNames :
           params.kind = "weather" /\ params.models = {model} => kept.model = model
  <2>1. /\ params.at = FourPlaces(c) /\ params.device \in DOMAIN TransportChars /\ params.messages \in {1, 2}
        /\ params.maxChars = MaxCharsFor(params.device, params.messages)
    BY <1>1, <1>2
  <2>2. kept = Shape(DescribeRequest(params))
    BY DEF kept
  <2> QED BY <2>1, <2>2, KeptWell
<1>9. kept.model = Weather(params, context.model)
  BY <1>1, <1>2, <1>4, <1>5, <1>8 DEF Weather
<1>10. kind = "weather" =>
         /\ params.vars \subseteq AlwaysVars \union sel.groups
         /\ params.vars \intersect ModelUnavail(sel.model) = {}
  BY <1>4, SelectedVarsFit
<1>11. kind = "weather" /\ params.messages > 1 => sel.two /\ params.maxChars < Uncapped
  BY <1>1, <1>2, <1>4, HowMany, Budget
<1>12. Agrees(answer, context, sel)
  BY <1>2, <1>3, <1>4, <1>5, <1>6, <1>7, <1>8, <1>9, <1>10, <1>11 DEF Agrees, kept
<1> QED BY <1>2, <1>5, <1>6, <1>7, <1>12 DEF words, params, context, answer

-----------------------------------------------------------------------------
(* A press, its message and what came of it. *)

KindsSent == {"weather", "avalanche"}
Contexts == {BuildContext(kind, sel, c, hour) :
               kind \in KindsSent, sel \in Chosen, c \in Points, hour \in PhoneHours}

(* Where the phone is, as far as it knows. *)
PlaceKnown ==
  /\ place \in [following : BOOLEAN, pin : Points \union {NoPoint},
                gps : [at : Points \union {NoPoint}, fresh : BOOLEAN], restored : BOOLEAN]
  /\ place.gps.fresh => place.gps.at # NoPoint
ClockRuns ==
  /\ clock \in Hours /\ skew \in {start[2] : start \in Starts} /\ selection \in Chosen

(* What a press that has its point asks, and with what it was made. *)
Asks(p, kind, sel, c, hour) ==
  /\ kind \in KindsSent /\ sel \in Chosen /\ c \in Points /\ hour \in PhoneHours
  /\ skew = 0 => hour <= clock
  /\ pressedWith[p].sel = sel /\ (pressedWith[p].at # NoPoint => c = pressedWith[p].at)

Making(p) ==
  /\ press[p].phase \in {"unused", "asking", "fixing", "allocating", "over"}
  /\ press[p].phase = "unused" => pressedWith[p] = NoWord
  /\ Waiting(p) =>
       /\ press[p].sel \in Chosen /\ press[p].kind \in KindsSent \union {"follow"}
       /\ pressedWith[p] = IF press[p].kind = "follow" THEN NoWord
                           ELSE [sel |-> press[p].sel, at |-> NoPoint, calledOff |-> pressedWith[p].calledOff]
  /\ press[p].phase = "allocating" =>
       /\ Asks(p, press[p].kind, press[p].sel, press[p].at, press[p].hour)
       /\ press[p].context = BuildContext(press[p].kind, press[p].sel, press[p].at, press[p].hour)

(* What went out is kept under its code. *)
Filed(p) ==
  outbox[p] # <<>> =>
    /\ press[p].phase = "over"
    /\ \E kind, sel, c, hour : \E code \in 0 .. Len(slots) - 1 :
         /\ Asks(p, kind, sel, c, hour)
         /\ slots[code + 1] = BuildContext(kind, sel, c, hour)
         /\ outbox[p] = Message(kind, sel, c, code, hour)

Told(p) ==
  verdict[p] # Unread =>
    LET context == slots[verdict[p].params.code + 1]
    IN  /\ outbox[p] # <<>> /\ press[p].phase = "over"
        /\ verdict[p].params.code + 1 \in 1 .. Len(slots)
        /\ Agrees(verdict[p], context, pressedWith[p].sel)
        /\ skew = 0 /\ verdict[p].when <= context.start + 24 => verdict[p].says = "ok"
        /\ pressedWith[p].at # NoPoint => context.at = pressedWith[p].at

(* Each code is given once. *)
SlotsCount ==
  /\ slots \in Seq(Contexts)
  /\ Len(slots) = Cardinality({p \in Presses : outbox[p] # <<>>})

AskedInv ==
  /\ press = [p \in Presses |-> press[p]] /\ outbox = [p \in Presses |-> outbox[p]]
  /\ verdict = [p \in Presses |-> verdict[p]] /\ pressedWith = [p \in Presses |-> pressedWith[p]]
  /\ PlaceKnown /\ ClockRuns /\ SlotsCount
  /\ \A p \in Presses : Making(p) /\ Filed(p) /\ Told(p)

LEMMA AskedInitInv == RequestInit => AskedInv
<1> SUFFICES ASSUME RequestInit PROVE AskedInv
  OBVIOUS
<1>1. /\ clock \in Hours /\ slots = <<>>
      /\ press = [p \in Presses |-> [phase |-> "unused"]]
      /\ outbox = [p \in Presses |-> <<>>] /\ verdict = [p \in Presses |-> Unread]
      /\ pressedWith = [p \in Presses |-> NoWord]
  BY DEF RequestInit
<1>2. skew \in {start[2] : start \in Starts} /\ selection \in Chosen
  BY DEF RequestInit, Chosen
<1>3. PlaceKnown
  <2>1. PICK gps \in {NoFix} \union {[at |-> c, fresh |-> TRUE] : c \in Fixes} :
          place = [following |-> TRUE, pin |-> NoPoint, gps |-> gps, restored |-> FALSE]
    BY DEF RequestInit
  <2>2. gps \in [at : Points \union {NoPoint}, fresh : BOOLEAN] /\ (gps.fresh => gps.at # NoPoint)
    <3>1. CASE gps = [at |-> NoPoint, fresh |-> FALSE]
      BY <3>1
    <3>2. CASE \E c \in Fixes : gps = [at |-> c, fresh |-> TRUE]
      <4>1. PICK c \in Fixes : gps = [at |-> c, fresh |-> TRUE]
        BY <3>2
      <4>2. c \in Points /\ c # NoPoint
        BY RequestAssumption DEF Points
      <4> QED BY <4>1, <4>2
    <3> QED BY <2>1, <3>1, <3>2 DEF NoFix
  <2> QED BY <2>1, <2>2 DEF PlaceKnown
<1>4. SlotsCount
  <2>1. {p \in Presses : outbox[p] # <<>>} = {}
    BY <1>1
  <2>2. Cardinality({p \in Presses : outbox[p] # <<>>}) = 0
    BY <2>1, FS_EmptySet
  <2>3. slots \in Seq(Contexts) /\ Len(slots) = 0
    BY <1>1
  <2> QED BY <2>2, <2>3 DEF SlotsCount
<1>5. \A p \in Presses : Making(p) /\ Filed(p) /\ Told(p)
  BY <1>1 DEF Making, Filed, Told, Waiting
<1> QED BY <1>1, <1>2, <1>3, <1>4, <1>5 DEF AskedInv, ClockRuns

(* A press that a step leaves alone, but for whether it is called off. *)
LEMMA LeftAlone ==
  ASSUME AskedInv, NEW p \in Presses,
         press'[p] = press[p], outbox'[p] = outbox[p], verdict'[p] = verdict[p],
         pressedWith'[p] = pressedWith[p]
           \/ (Waiting(p) /\ pressedWith'[p] = [pressedWith[p] EXCEPT !.calledOff = TRUE] /\ pressedWith[p] # NoWord),
         skew' = skew, clock' >= clock, clock' \in Hours,
         Len(slots) <= Len(slots'), slots' \in Seq(Contexts),
         \A i \in 1 .. Len(slots) : slots'[i] = slots[i]
  PROVE  Making(p)' /\ Filed(p)' /\ Told(p)'
<1>1. clock \in Nat /\ clock' \in Nat /\ PhoneHours \subseteq Nat /\ Len(slots) \in Nat /\ Len(slots') \in Nat
  BY RequestAssumption, BuilderAssumption DEF AskedInv, ClockRuns, SlotsCount
<1>2. ASSUME NEW kind, NEW sel, NEW c, NEW hour, Asks(p, kind, sel, c, hour), pressedWith'[p] = pressedWith[p]
      PROVE  Asks(p, kind, sel, c, hour)'
  <2>1. hour \in Nat /\ (skew' = 0 => hour <= clock')
    BY <1>1, <1>2 DEF Asks
  <2> QED BY <1>2, <2>1 DEF Asks
<1>3. Making(p) /\ Filed(p) /\ Told(p)
  BY DEF AskedInv
<1>4. ~Waiting(p) => pressedWith'[p] = pressedWith[p]
  OBVIOUS
<1>5. Making(p)'
  <2>1. CASE Waiting(p)
    <3>1. /\ pressedWith[p] # NoWord => pressedWith[p] = [sel |-> press[p].sel, at |-> NoPoint, calledOff |-> pressedWith[p].calledOff]
          /\ press[p].kind = "follow" => pressedWith[p] = NoWord
      BY <1>3, <2>1 DEF Making
    <3>2. press[p].kind = "follow" => pressedWith'[p] = NoWord
      BY <3>1
    <3>3. press[p].kind # "follow" =>
            pressedWith'[p] = [sel |-> press[p].sel, at |-> NoPoint, calledOff |-> pressedWith'[p].calledOff]
      <4>1. CASE pressedWith'[p] = pressedWith[p]
        BY <1>3, <2>1, <4>1 DEF Making
      <4>2. CASE pressedWith'[p] = [pressedWith[p] EXCEPT !.calledOff = TRUE] /\ pressedWith[p] # NoWord
        <5> DEFINE old == [sel |-> press[p].sel, at |-> NoPoint, calledOff |-> pressedWith[p].calledOff]
        <5>1. pressedWith'[p] = [old EXCEPT !.calledOff = TRUE]
          BY <3>1, <4>2
        <5>2. pressedWith'[p] = [sel |-> press[p].sel, at |-> NoPoint, calledOff |-> TRUE]
          BY <5>1
        <5> QED BY <5>2
      <4> QED BY <4>1, <4>2
    <3> QED BY <1>3, <2>1, <3>2, <3>3 DEF Making, Waiting
  <2>2. CASE ~Waiting(p)
    BY <1>2, <1>3, <1>4, <2>2 DEF Making, Waiting
  <2> QED BY <2>1, <2>2
<1>6. Filed(p)'
  <2> SUFFICES ASSUME outbox[p] # <<>> PROVE Filed(p)'
    BY DEF Filed
  <2>1. press[p].phase = "over" /\ ~Waiting(p)
    BY <1>3 DEF Filed, Waiting
  <2>2. PICK kind, sel, c, hour : \E code \in 0 .. Len(slots) - 1 :
          /\ Asks(p, kind, sel, c, hour)
          /\ slots[code + 1] = BuildContext(kind, sel, c, hour)
          /\ outbox[p] = Message(kind, sel, c, code, hour)
    BY <1>3 DEF Filed
  <2>3. PICK code \in 0 .. Len(slots) - 1 :
          /\ Asks(p, kind, sel, c, hour)
          /\ slots[code + 1] = BuildContext(kind, sel, c, hour)
          /\ outbox[p] = Message(kind, sel, c, code, hour)
    BY <2>2
  <2>4. code \in 0 .. Len(slots') - 1 /\ code + 1 \in 1 .. Len(slots)
    BY <1>1
  <2>5. Asks(p, kind, sel, c, hour)' /\ slots'[code + 1] = BuildContext(kind, sel, c, hour)
    BY <1>2, <1>4, <2>1, <2>3, <2>4
  <2> QED BY <2>1, <2>3, <2>4, <2>5 DEF Filed
<1>7. Told(p)'
  <2> SUFFICES ASSUME verdict[p] # Unread PROVE Told(p)'
    BY DEF Told
  <2> DEFINE code == verdict[p].params.code
  <2>1. code + 1 \in 1 .. Len(slots) /\ press[p].phase = "over"
    BY <1>3 DEF Told
  <2>2. code + 1 \in 1 .. Len(slots') /\ slots'[code + 1] = slots[code + 1] /\ pressedWith'[p] = pressedWith[p]
    BY <1>1, <1>4, <2>1 DEF Waiting
  <2> QED BY <1>3, <2>1, <2>2 DEF Told
<1> QED BY <1>5, <1>6, <1>7

(* No press is moved by it. *)
LEMMA NoneMoved ==
  ASSUME AskedInv, UNCHANGED <<press, outbox, verdict, skew, slots>>,
         pressedWith' = [p \in Presses |-> pressedWith'[p]],
         \A p \in Presses : pressedWith'[p] = pressedWith[p]
           \/ (Waiting(p) /\ pressedWith'[p] = [pressedWith[p] EXCEPT !.calledOff = TRUE] /\ pressedWith[p] # NoWord),
         clock' >= clock, clock' \in Hours, selection' \in Chosen, PlaceKnown'
  PROVE  AskedInv'
<1>1. SlotsCount' /\ slots' \in Seq(Contexts) /\ Len(slots) <= Len(slots')
      /\ \A i \in 1 .. Len(slots) : slots'[i] = slots[i]
  BY DEF AskedInv, SlotsCount
<1>2. \A p \in Presses : Making(p)' /\ Filed(p)' /\ Told(p)'
  BY <1>1, LeftAlone
<1>3. ClockRuns'
  BY DEF AskedInv, ClockRuns
<1>4. /\ press' = [p \in Presses |-> press'[p]] /\ outbox' = [p \in Presses |-> outbox'[p]]
      /\ verdict' = [p \in Presses |-> verdict'[p]]
  BY DEF AskedInv
<1> QED BY <1>1, <1>2, <1>3, <1>4 DEF AskedInv

(* One press is, before it sends. *)
LEMMA OneMoved ==
  ASSUME AskedInv, NEW p \in Presses, press[p].phase # "over",
         UNCHANGED <<outbox, verdict, skew, slots, clock, selection>>,
         press' = [q \in Presses |-> press'[q]], pressedWith' = [q \in Presses |-> pressedWith'[q]],
         \A q \in Presses \ {p} : press'[q] = press[q] /\ pressedWith'[q] = pressedWith[q],
         PlaceKnown', Making(p)'
  PROVE  AskedInv'
<1>1. /\ SlotsCount' /\ slots' \in Seq(Contexts) /\ Len(slots) <= Len(slots')
      /\ \A i \in 1 .. Len(slots) : slots'[i] = slots[i]
  BY DEF AskedInv, SlotsCount
<1>2. clock' >= clock /\ clock' \in Hours /\ ClockRuns'
  BY RequestAssumption DEF AskedInv, ClockRuns
<1>3. \A q \in Presses \ {p} : Making(q)' /\ Filed(q)' /\ Told(q)'
  BY <1>1, <1>2, LeftAlone
<1>4. outbox[p] = <<>> /\ verdict[p] = Unread
  BY DEF AskedInv, Filed, Told
<1>5. Filed(p)' /\ Told(p)'
  BY <1>4 DEF Filed, Told
<1>6. outbox' = [q \in Presses |-> outbox'[q]] /\ verdict' = [q \in Presses |-> verdict'[q]]
  BY DEF AskedInv
<1> QED BY <1>1, <1>2, <1>3, <1>5, <1>6 DEF AskedInv

LEMMA HourNow ==
  ASSUME AskedInv
  PROVE  PhoneHour \in PhoneHours /\ (skew = 0 => PhoneHour <= clock)
<1>1. clock \in Hours /\ clock \in Nat
  BY RequestAssumption DEF AskedInv, ClockRuns
<1>2. PICK start \in Starts : skew = start[2]
  BY DEF AskedInv, ClockRuns
<1>3. clock + skew \in PhoneHours
  BY <1>1, <1>2 DEF PhoneHours
<1>4. skew = 0 => clock + skew <= clock
  BY <1>1
<1> QED BY <1>3, <1>4 DEF PhoneHour

LEMMA PlaceAsked ==
  ASSUME AskedInv,
         \/ TimePasses \/ FixAges \/ Foreground \/ RestorePin
         \/ \E sel \in Selections : Choose(sel)
         \/ \E c \in Fixes : Watch(c)
         \/ \E c \in Pins \union {NoPoint} : PinAt(c)
  PROVE  AskedInv'
<1>1. /\ UNCHANGED <<press, outbox, verdict, skew, slots, pressedWith>>
      /\ clock' = clock \/ (clock' \in Hours /\ clock' > clock)
      /\ selection' = selection \/ selection' \in Selections
  BY DEF TimePasses, FixAges, Foreground, RestorePin, Choose, Watch, PinAt, PlaceOnly, pressVars
<1>2. clock' >= clock /\ clock' \in Hours /\ selection' \in Chosen
  BY <1>1, RequestAssumption DEF AskedInv, ClockRuns, Chosen
<1>3. pressedWith' = [p \in Presses |-> pressedWith'[p]]
  BY <1>1 DEF AskedInv
<1>4. /\ place = [following |-> place.following, pin |-> place.pin, gps |-> place.gps, restored |-> place.restored]
      /\ place.gps = [at |-> place.gps.at, fresh |-> place.gps.fresh]
      /\ place.following \in BOOLEAN /\ place.pin \in Points \union {NoPoint} /\ place.restored \in BOOLEAN
      /\ place.gps.at \in Points \union {NoPoint} /\ place.gps.fresh \in BOOLEAN
      /\ place.gps.fresh => place.gps.at # NoPoint
  BY DEF AskedInv, PlaceKnown
<1>5. ASSUME NEW following \in BOOLEAN, NEW pin \in Points \union {NoPoint}, NEW c \in Points \union {NoPoint},
             NEW fresh \in BOOLEAN, NEW restored \in BOOLEAN, fresh => c # NoPoint,
             place' = [following |-> following, pin |-> pin, gps |-> [at |-> c, fresh |-> fresh], restored |-> restored]
      PROVE  PlaceKnown'
  <2>1. place'.gps = [at |-> c, fresh |-> fresh]
    BY <1>5
  <2>2. place' \in [following : BOOLEAN, pin : Points \union {NoPoint},
                    gps : [at : Points \union {NoPoint}, fresh : BOOLEAN], restored : BOOLEAN]
    BY <1>5
  <2>3. place'.gps.fresh => place'.gps.at # NoPoint
    BY <1>5, <2>1
  <2> QED BY <2>2, <2>3 DEF PlaceKnown
<1>6. CASE TimePasses \/ FixAges
  <2>1. place' = [place EXCEPT !.gps.fresh = FALSE]
    BY <1>6 DEF TimePasses, FixAges
  <2>2. place' = [following |-> place.following, pin |-> place.pin,
                  gps |-> [at |-> place.gps.at, fresh |-> FALSE], restored |-> place.restored]
    BY <1>4, <2>1
  <2>3. PlaceKnown'
    BY <1>4, <1>5, <2>2
  <2> QED BY <1>1, <1>2, <1>3, <2>3, NoneMoved
<1>7. CASE Foreground
  <2>1. place' = [place EXCEPT !.gps.at = NoPoint] /\ place.gps.fresh = FALSE
    BY <1>4, <1>7 DEF Foreground
  <2>2. place' = [following |-> place.following, pin |-> place.pin,
                  gps |-> [at |-> NoPoint, fresh |-> FALSE], restored |-> place.restored]
    BY <1>4, <2>1
  <2>3. PlaceKnown'
    BY <1>4, <1>5, <2>2
  <2> QED BY <1>1, <1>2, <1>3, <2>3, NoneMoved
<1>8. CASE RestorePin
  <2>1. \/ place' = [place EXCEPT !.restored = TRUE]
        \/ SavedPin # NoPoint /\ place' = [place EXCEPT !.restored = TRUE, !.pin = SavedPin, !.following = FALSE]
    BY <1>8 DEF RestorePin
  <2>2. CASE place' = [place EXCEPT !.restored = TRUE]
    <3>1. place' = [following |-> place.following, pin |-> place.pin,
                    gps |-> [at |-> place.gps.at, fresh |-> place.gps.fresh], restored |-> TRUE]
      BY <1>4, <2>2
    <3>2. PlaceKnown'
      BY <1>4, <1>5, <3>1
    <3> QED BY <1>1, <1>2, <1>3, <3>2, NoneMoved
  <2>3. CASE SavedPin # NoPoint /\ place' = [place EXCEPT !.restored = TRUE, !.pin = SavedPin, !.following = FALSE]
    <3>1. place' = [following |-> FALSE, pin |-> SavedPin,
                    gps |-> [at |-> place.gps.at, fresh |-> place.gps.fresh], restored |-> TRUE]
      BY <1>4, <2>3
    <3>2. SavedPin \in Points
      BY <2>3 DEF Points
    <3>3. PlaceKnown'
      BY <1>4, <1>5, <3>1, <3>2
    <3> QED BY <1>1, <1>2, <1>3, <3>3, NoneMoved
  <2> QED BY <2>1, <2>2, <2>3
<1>9. ASSUME NEW sel \in Selections, Choose(sel) PROVE AskedInv'
  <2>1. place' = place
    BY <1>9 DEF Choose
  <2>2. PlaceKnown'
    BY <2>1 DEF AskedInv, PlaceKnown
  <2> QED BY <1>1, <1>2, <1>3, <2>2, NoneMoved
<1>10. ASSUME NEW c \in Fixes, Watch(c) PROVE AskedInv'
  <2>1. place' = [place EXCEPT !.gps = [at |-> c, fresh |-> TRUE]] /\ c \in Points /\ c # NoPoint
    BY <1>10, RequestAssumption DEF Watch, Points
  <2>2. place' = [following |-> place.following, pin |-> place.pin,
                  gps |-> [at |-> c, fresh |-> TRUE], restored |-> place.restored]
    BY <1>4, <2>1
  <2>3. c \in Points \union {NoPoint} /\ (TRUE => c # NoPoint)
    BY <2>1
  <2>4. PlaceKnown'
    BY <1>4, <1>5, <2>2, <2>3
  <2> QED BY <1>1, <1>2, <1>3, <2>4, NoneMoved
<1>11. ASSUME NEW c \in Pins \union {NoPoint}, PinAt(c) PROVE AskedInv'
  <2>1. place' = [place EXCEPT !.pin = c, !.following = FALSE] /\ c \in Points \union {NoPoint}
    BY <1>11 DEF PinAt, Points
  <2>2. place' = [following |-> FALSE, pin |-> c,
                  gps |-> [at |-> place.gps.at, fresh |-> place.gps.fresh], restored |-> place.restored]
    BY <1>4, <2>1
  <2>3. PlaceKnown'
    BY <1>4, <1>5, <2>1, <2>2
  <2> QED BY <1>1, <1>2, <1>3, <2>3, NoneMoved
<1> QED BY <1>6, <1>7, <1>8, <1>9, <1>10, <1>11

(* A press that ends without a message, and one that has what it needs. *)
LEMMA EndsAsked ==
  ASSUME AskedInv, NEW p \in Presses, press[p].phase # "over",
         UNCHANGED <<outbox, verdict, skew, slots, clock, selection, pressedWith>>,
         press' = [press EXCEPT ![p] = Over], PlaceKnown'
  PROVE  AskedInv'
<1>1. /\ press' = [q \in Presses |-> press'[q]] /\ pressedWith' = [q \in Presses |-> pressedWith'[q]]
      /\ \A q \in Presses \ {p} : press'[q] = press[q] /\ pressedWith'[q] = pressedWith[q]
      /\ press'[p].phase = "over"
  BY DEF AskedInv, Over
<1>2. Making(p)'
  BY <1>1 DEF Making, Waiting
<1> QED BY <1>1, <1>2, OneMoved

LEMMA HasPoint ==
  ASSUME AskedInv, NEW p \in Presses, press[p].phase # "over",
         NEW kind \in KindsSent, NEW sel \in Chosen, NEW c \in Points,
         UNCHANGED <<outbox, verdict, skew, slots, clock, selection>>,
         press' = [press EXCEPT ![p] = WithPoint(kind, sel, c)],
         pressedWith' = [q \in Presses |-> pressedWith'[q]],
         \A q \in Presses \ {p} : pressedWith'[q] = pressedWith[q],
         pressedWith'[p].sel = sel, pressedWith'[p].at # NoPoint => c = pressedWith'[p].at,
         PlaceKnown'
  PROVE  AskedInv'
<1>1. /\ press' = [q \in Presses |-> press'[q]]
      /\ \A q \in Presses \ {p} : press'[q] = press[q]
      /\ press'[p] = WithPoint(kind, sel, c)
  BY DEF AskedInv
<1>2. /\ press'[p].phase = "allocating" /\ press'[p].kind = kind /\ press'[p].sel = sel /\ press'[p].at = c
      /\ press'[p].hour = PhoneHour /\ press'[p].context = BuildContext(kind, sel, c, PhoneHour)
  BY <1>1 DEF WithPoint
<1>3. PICK hour \in PhoneHours : hour = PhoneHour /\ (skew = 0 => hour <= clock)
  BY HourNow
<1>4. Asks(p, kind, sel, c, hour)'
  BY <1>3 DEF Asks
<1>5. Making(p)'
  BY <1>2, <1>3, <1>4 DEF Making, Waiting
<1> QED BY <1>1, <1>5, OneMoved

LEMMA LocateMeAsked ==
  ASSUME AskedInv, NEW p \in Presses, LocateMe(p)
  PROVE  AskedInv'
<1>1. /\ press[p].phase = "unused" /\ pressedWith[p] = NoWord
      /\ UNCHANGED <<outbox, verdict, skew, slots, clock, selection, pressedWith, place>>
      /\ press' = [press EXCEPT ![p] = [phase |-> "asking", kind |-> "follow", sel |-> selection,
                                        gen |-> locateGen + 1]]
  BY DEF LocateMe, Pressed, Locate, AskedInv, Making
<1>2. /\ press' = [q \in Presses |-> press'[q]] /\ pressedWith' = [q \in Presses |-> pressedWith'[q]]
      /\ \A q \in Presses \ {p} : press'[q] = press[q] /\ pressedWith'[q] = pressedWith[q]
      /\ press'[p] = [phase |-> "asking", kind |-> "follow", sel |-> selection, gen |-> locateGen + 1]
  BY <1>1 DEF AskedInv
<1>3. press'[p].phase = "asking" /\ press'[p].kind = "follow" /\ press'[p].sel = selection
  BY <1>2
<1>4. selection \in Chosen /\ PlaceKnown'
  BY <1>1 DEF AskedInv, ClockRuns, PlaceKnown
<1>5. Making(p)'
  BY <1>1, <1>3, <1>4 DEF Making, Waiting
<1> QED BY <1>1, <1>2, <1>4, <1>5, OneMoved

LEMMA SendAsked ==
  ASSUME AskedInv, NEW p \in Presses, NEW kind \in KindsSent, Send(p, kind)
  PROVE  AskedInv'
<1> DEFINE here == CASE ~place.following -> place.pin
                     [] place.following /\ place.gps.fresh -> place.gps.at
                     [] OTHER -> NoPoint
<1>1. /\ press[p].phase = "unused" /\ UNCHANGED <<outbox, verdict, skew, slots, clock, selection, place>>
      /\ pressedWith' = [pressedWith EXCEPT ![p] = [sel |-> selection, at |-> here, calledOff |-> FALSE]]
      /\ IF here = NoPoint THEN Locate(p, kind)
         ELSE press' = [press EXCEPT ![p] = WithPoint(kind, selection, here)] /\ UNCHANGED <<locating, locateGen>>
  BY DEF Send, Pressed
<1>2. here \in Points \union {NoPoint}
  BY DEF AskedInv, PlaceKnown
<1> HIDE DEF here
<1>3. /\ pressedWith' = [q \in Presses |-> pressedWith'[q]]
      /\ \A q \in Presses \ {p} : pressedWith'[q] = pressedWith[q]
      /\ pressedWith'[p] = [sel |-> selection, at |-> here, calledOff |-> FALSE]
  BY <1>1 DEF AskedInv
<1>4. /\ pressedWith'[p].sel = selection /\ pressedWith'[p].at = here /\ pressedWith'[p].calledOff = FALSE
  BY <1>3
<1>5. selection \in Chosen /\ PlaceKnown'
  BY <1>1 DEF AskedInv, ClockRuns, PlaceKnown
<1>6. CASE here = NoPoint
  <2>1. press' = [press EXCEPT ![p] = [phase |-> "asking", kind |-> kind, sel |-> selection,
                                       gen |-> locateGen + 1]]
    BY <1>1, <1>6 DEF Locate
  <2>2. /\ press' = [q \in Presses |-> press'[q]] /\ \A q \in Presses \ {p} : press'[q] = press[q]
        /\ press'[p] = [phase |-> "asking", kind |-> kind, sel |-> selection, gen |-> locateGen + 1]
    BY <2>1 DEF AskedInv
  <2>3. press'[p].phase = "asking" /\ press'[p].kind = kind /\ press'[p].sel = selection /\ kind # "follow"
    BY <2>2 DEF KindsSent
  <2>4. pressedWith'[p] = [sel |-> press'[p].sel, at |-> NoPoint, calledOff |-> pressedWith'[p].calledOff]
    BY <1>3, <1>4, <1>6, <2>3
  <2>5. Making(p)'
    BY <1>5, <2>3, <2>4 DEF Making, Waiting
  <2> QED BY <1>1, <1>3, <1>5, <2>2, <2>5, OneMoved
<1>7. CASE here # NoPoint
  <2>1. PICK sel \in Chosen, c \in Points : sel = selection /\ c = here
    BY <1>2, <1>5, <1>7
  <2>2. press' = [press EXCEPT ![p] = WithPoint(kind, sel, c)]
    BY <1>1, <1>7, <2>1
  <2>3. press[p].phase # "over" /\ pressedWith'[p].sel = sel /\ pressedWith'[p].at = c
    BY <1>1, <1>4, <2>1
  <2> QED BY <1>1, <1>3, <1>5, <2>2, <2>3, HasPoint
<1> QED BY <1>6, <1>7

LEMMA PermissionAsked ==
  ASSUME AskedInv, RequestInv, NEW p \in Presses, NEW granted \in BOOLEAN, Permission(p, granted)
  PROVE  AskedInv'
<1>1. /\ press[p].phase = "asking" /\ Waiting(p)
      /\ UNCHANGED <<outbox, verdict, skew, slots, clock, selection, place, pressedWith>>
  BY DEF Permission, Waiting
<1>2. PlaceKnown'
  BY <1>1 DEF AskedInv, PlaceKnown
<1>3. CASE Mine(p) /\ granted
  <2>1. press' = [press EXCEPT ![p].phase = "fixing"]
    BY <1>3 DEF Permission
  <2>2. press[p] = [phase |-> press[p].phase, kind |-> press[p].kind, sel |-> press[p].sel, gen |-> press[p].gen]
    BY <1>1 DEF RequestInv, RequestTypeOK
  <2>3. /\ press' = [q \in Presses |-> press'[q]] /\ pressedWith' = [q \in Presses |-> pressedWith'[q]]
        /\ \A q \in Presses \ {p} : press'[q] = press[q] /\ pressedWith'[q] = pressedWith[q]
        /\ press'[p] = [phase |-> "fixing", kind |-> press[p].kind, sel |-> press[p].sel, gen |-> press[p].gen]
    BY <1>1, <2>1, <2>2 DEF AskedInv
  <2>4. press'[p].phase = "fixing" /\ press'[p].kind = press[p].kind /\ press'[p].sel = press[p].sel
    BY <2>3
  <2>5. Making(p)
    BY DEF AskedInv
  <2>6. Making(p)'
    BY <1>1, <2>4, <2>5 DEF Making, Waiting
  <2> QED BY <1>1, <1>2, <2>3, <2>6, OneMoved
<1>4. CASE ~(Mine(p) /\ granted)
  BY <1>1, <1>2, <1>4, EndsAsked DEF Permission, GiveUp
<1> QED BY <1>3, <1>4

LEMMA FixAsked ==
  ASSUME AskedInv, NEW p \in Presses, NEW c \in Fixes, NEW fresh \in BOOLEAN, Fix(p, c, fresh)
  PROVE  AskedInv'
<1>1. /\ press[p].phase = "fixing" /\ Waiting(p)
      /\ UNCHANGED <<outbox, verdict, skew, slots, clock, selection, pressedWith>>
  BY DEF Fix, Waiting
<1>2. c \in Points /\ c # NoPoint
  BY RequestAssumption DEF Points
<1>3. PlaceKnown'
  <2>1. /\ place = [following |-> place.following, pin |-> place.pin, gps |-> place.gps, restored |-> place.restored]
        /\ place.following \in BOOLEAN /\ place.pin \in Points \union {NoPoint} /\ place.restored \in BOOLEAN
    BY DEF AskedInv, PlaceKnown
  <2>2. place' = [place EXCEPT !.gps = [at |-> c, fresh |-> fresh],
                               !.following = @ \/ (Mine(p) /\ press[p].kind = "follow")]
    BY DEF Fix
  <2>3. PICK following \in BOOLEAN : place' = [place EXCEPT !.gps = [at |-> c, fresh |-> fresh], !.following = following]
    BY <2>1, <2>2
  <2>4. place' = [following |-> following, pin |-> place.pin, gps |-> [at |-> c, fresh |-> fresh],
                  restored |-> place.restored]
    BY <2>1, <2>3
  <2>5. place'.gps.at = c
    BY <2>4
  <2>6. place' \in [following : BOOLEAN, pin : Points \union {NoPoint},
                    gps : [at : Points \union {NoPoint}, fresh : BOOLEAN], restored : BOOLEAN]
    BY <1>2, <2>1, <2>4
  <2> QED BY <1>2, <2>5, <2>6 DEF PlaceKnown
<1>4. CASE ~Mine(p)
  BY <1>1, <1>3, <1>4, EndsAsked DEF Fix, GiveUp
<1>5. CASE Mine(p) /\ press[p].kind = "follow"
  BY <1>1, <1>3, <1>5, EndsAsked DEF Fix, HandOn
<1>6. CASE Mine(p) /\ press[p].kind # "follow"
  <2>1. press' = [press EXCEPT ![p] = WithPoint(press[p].kind, press[p].sel, c)]
    BY <1>6 DEF Fix, HandOn
  <2>2. /\ press[p].kind \in KindsSent /\ press[p].sel \in Chosen
        /\ pressedWith[p] = [sel |-> press[p].sel, at |-> NoPoint, calledOff |-> pressedWith[p].calledOff]
    BY <1>1, <1>6 DEF AskedInv, Making
  <2>3. PICK kind \in KindsSent, sel \in Chosen : kind = press[p].kind /\ sel = press[p].sel
    BY <2>2
  <2>4. /\ press' = [press EXCEPT ![p] = WithPoint(kind, sel, c)]
        /\ pressedWith'[p].sel = sel /\ pressedWith'[p].at = NoPoint
    BY <1>1, <2>1, <2>2, <2>3
  <2>5. /\ pressedWith' = [q \in Presses |-> pressedWith'[q]]
        /\ \A q \in Presses \ {p} : pressedWith'[q] = pressedWith[q]
    BY <1>1 DEF AskedInv
  <2> QED BY <1>1, <1>2, <1>3, <2>3, <2>5, <2>4, HasPoint
<1> QED BY <1>4, <1>5, <1>6

LEMMA NoFixCameAsked ==
  ASSUME AskedInv, NEW p \in Presses, NoFixCame(p)
  PROVE  AskedInv'
<1>1. /\ press[p].phase = "fixing" /\ press' = [press EXCEPT ![p] = Over]
      /\ UNCHANGED <<outbox, verdict, skew, slots, clock, selection, place, pressedWith>>
  BY DEF NoFixCame, GiveUp
<1>2. PlaceKnown'
  BY <1>1 DEF AskedInv, PlaceKnown
<1> QED BY <1>1, <1>2, EndsAsked

LEMMA CancelAsked ==
  ASSUME AskedInv, CancelAction
  PROVE  AskedInv'
<1>1. /\ UNCHANGED <<press, outbox, verdict, skew, slots, clock, selection, place>>
      /\ pressedWith' = [p \in Presses |-> pressedWith'[p]]
      /\ \A p \in Presses : pressedWith'[p] = pressedWith[p]
           \/ (Waiting(p) /\ pressedWith'[p] = [pressedWith[p] EXCEPT !.calledOff = TRUE] /\ pressedWith[p] # NoWord)
  BY DEF CancelAction
<1>2. PlaceKnown' /\ clock' >= clock /\ clock' \in Hours /\ selection' \in Chosen
  BY <1>1, RequestAssumption DEF AskedInv, PlaceKnown, ClockRuns
<1> QED BY <1>1, <1>2, NoneMoved

(* The message goes out with the code its context is kept under. *)
LEMMA AllocatedAsked ==
  ASSUME AskedInv, NEW p \in Presses, Allocated(p)
  PROVE  AskedInv'
<1>1. /\ press[p].phase = "allocating"
      /\ slots' = Append(slots, press[p].context)
      /\ outbox' = [outbox EXCEPT ![p] = Message(press[p].kind, press[p].sel, press[p].at, Len(slots), press[p].hour)]
      /\ press' = [press EXCEPT ![p] = Over]
      /\ UNCHANGED <<verdict, skew, clock, selection, place, pressedWith>>
  BY DEF Allocated, Words
<1>2. /\ Asks(p, press[p].kind, press[p].sel, press[p].at, press[p].hour)
      /\ press[p].context = BuildContext(press[p].kind, press[p].sel, press[p].at, press[p].hour)
  BY <1>1 DEF AskedInv, Making
<1>3. PICK kind \in KindsSent, sel \in Chosen, c \in Points, hour \in PhoneHours, n \in Nat :
        /\ kind = press[p].kind /\ sel = press[p].sel /\ c = press[p].at /\ hour = press[p].hour
        /\ n = Len(slots)
  <2>1. /\ press[p].kind \in KindsSent /\ press[p].sel \in Chosen /\ press[p].at \in Points
        /\ press[p].hour \in PhoneHours /\ Len(slots) \in Nat
    BY <1>2 DEF Asks, AskedInv, SlotsCount
  <2> QED BY <2>1, Zenon
<1>4. /\ Asks(p, kind, sel, c, hour) /\ press[p].context = BuildContext(kind, sel, c, hour)
      /\ outbox' = [outbox EXCEPT ![p] = Message(kind, sel, c, n, hour)]
  BY <1>1, <1>2, <1>3
<1> DEFINE context == BuildContext(kind, sel, c, hour)
           message == Message(kind, sel, c, n, hour)
<1>5. context \in Contexts /\ slots \in Seq(Contexts) /\ slots' = Append(slots, context)
  BY <1>1, <1>3, <1>4 DEF Contexts, AskedInv, SlotsCount
<1>6. message # <<>>
  <2>1. Range(message) = SaidOf(kind, sel, c, n, hour)
    BY WhatIsSaid
  <2>2. <<"version", WireVersion>> \in SaidOf(kind, sel, c, n, hour)
    BY DEF SaidOf, SaidOfWeather, SaidOfBulletin
  <2>3. <<"version", WireVersion>> \in Range(message)
    BY <2>1, <2>2
  <2> HIDE DEF message
  <2> QED BY <2>3 DEF Range
<1> HIDE DEF context, message
<1>7. /\ Len(slots) = n /\ Len(slots') = n + 1 /\ slots' \in Seq(Contexts) /\ slots'[n + 1] = context
      /\ \A i \in 1 .. Len(slots) : slots'[i] = slots[i]
  BY <1>3, <1>5
<1>8. /\ press' = [q \in Presses |-> press'[q]] /\ outbox' = [q \in Presses |-> outbox'[q]]
      /\ verdict' = [q \in Presses |-> verdict'[q]] /\ pressedWith' = [q \in Presses |-> pressedWith'[q]]
      /\ \A q \in Presses \ {p} : press'[q] = press[q] /\ outbox'[q] = outbox[q]
      /\ press'[p].phase = "over" /\ outbox'[p] = message
  BY <1>1, <1>3, <1>4 DEF AskedInv, Over, message
<1>9. clock' >= clock /\ clock' \in Hours /\ ClockRuns'
  BY <1>1, RequestAssumption DEF AskedInv, ClockRuns
<1>10. PlaceKnown'
  BY <1>1 DEF AskedInv, PlaceKnown
<1>11. outbox[p] = <<>> /\ verdict[p] = Unread
  BY <1>1 DEF AskedInv, Filed, Told
<1>12. \A q \in Presses \ {p} : Making(q)' /\ Filed(q)' /\ Told(q)'
  BY <1>1, <1>7, <1>8, <1>9, LeftAlone
<1>13. Making(p)'
  BY <1>8 DEF Making, Waiting
<1>14. Filed(p)'
  <2>1. Asks(p, kind, sel, c, hour)'
    BY <1>1, <1>3, <1>4 DEF Asks
  <2>2. n \in 0 .. Len(slots') - 1
    BY <1>7
  <2> QED BY <1>7, <1>8, <2>1, <2>2 DEF Filed, context, message
<1>15. Told(p)'
  BY <1>1, <1>11 DEF Told
<1>16. SlotsCount'
  <2> DEFINE Sent == {q \in Presses : outbox[q] # <<>>}
  <2>1. {q \in Presses : outbox'[q] # <<>>} = Sent \union {p}
    BY <1>6, <1>8
  <2>2. IsFiniteSet(Sent) /\ p \notin Sent
    BY <1>11, RequestAssumption, FS_Subset
  <2>3. Cardinality(Sent) = n
    BY <1>7 DEF AskedInv, SlotsCount
  <2> HIDE DEF Sent
  <2>4. Cardinality(Sent \union {p}) = n + 1
    BY <2>2, <2>3, FS_AddElement
  <2> QED BY <1>7, <2>1, <2>4 DEF SlotsCount
<1> QED BY <1>8, <1>9, <1>10, <1>12, <1>13, <1>14, <1>15, <1>16 DEF AskedInv

(* What arrives is read as it was asked. *)
LEMMA ArriveAsked ==
  ASSUME AskedInv, NEW p \in Presses, NEW footer \in Footers, Arrive(p, footer)
  PROVE  AskedInv'
<1>1. /\ outbox[p] # <<>> /\ UNCHANGED <<press, outbox, skew, slots, clock, selection, place, pressedWith>>
      /\ verdict' = [verdict EXCEPT ![p] = DispatchForecast(outbox[p] \o footer, clock)]
  BY DEF Arrive, pressVars
<1>2. PICK kind, sel, c, hour : \E code \in 0 .. Len(slots) - 1 :
        /\ Asks(p, kind, sel, c, hour) /\ slots[code + 1] = BuildContext(kind, sel, c, hour)
        /\ outbox[p] = Message(kind, sel, c, code, hour)
  BY <1>1 DEF AskedInv, Filed
<1>3. PICK code \in 0 .. Len(slots) - 1 :
        /\ Asks(p, kind, sel, c, hour) /\ slots[code + 1] = BuildContext(kind, sel, c, hour)
        /\ outbox[p] = Message(kind, sel, c, code, hour)
  BY <1>2
<1>4. kind \in {"weather", "avalanche"} /\ sel \in Chosen /\ c \in Points /\ hour \in PhoneHours
  BY <1>3 DEF Asks, KindsSent
<1>5. code \in 0 .. CodeLimit /\ code + 1 \in 1 .. Len(slots)
  <2> DEFINE Sent == {q \in Presses : outbox[q] # <<>>}
  <2>1. Cardinality(Sent) \in Nat /\ Cardinality(Presses) \in Nat /\ Cardinality(Sent) <= Cardinality(Presses)
    BY RequestAssumption, FS_Subset, FS_CardinalityType
  <2>2. Len(slots) = Cardinality(Sent)
    BY DEF AskedInv, SlotsCount
  <2> HIDE DEF Sent
  <2>3. Cardinality(Presses) <= 128
    BY BuilderAssumption DEF CodeLimit
  <2>4. code \in 0 .. Len(slots) - 1
    BY <1>3
  <2> QED BY <2>1, <2>2, <2>3, <2>4 DEF CodeLimit
<1>6. PICK when \in Nat : when = clock
  BY RequestAssumption DEF AskedInv, ClockRuns
<1> DEFINE answer == DispatchForecast(Message(kind, sel, c, code, hour) \o footer, when)
           context == BuildContext(kind, sel, c, hour)
<1>7. /\ Agrees(answer, context, sel) /\ answer.params.code = code /\ answer.when = when
      /\ context.at = c /\ context.start = hour
      /\ hour <= when /\ when <= hour + 24 => answer.says = "ok"
  BY <1>4, <1>5, <1>6, Answered
<1>8. /\ verdict' = [q \in Presses |-> verdict'[q]] /\ verdict'[p] = answer
      /\ \A q \in Presses \ {p} : verdict'[q] = verdict[q]
  BY <1>1, <1>3, <1>6 DEF AskedInv
<1> HIDE DEF answer, context
<1>9. clock' >= clock /\ clock' \in Hours /\ ClockRuns' /\ PlaceKnown'
  BY <1>1, RequestAssumption DEF AskedInv, ClockRuns, PlaceKnown
<1>10. SlotsCount' /\ slots' \in Seq(Contexts) /\ Len(slots) <= Len(slots')
       /\ \A i \in 1 .. Len(slots) : slots'[i] = slots[i]
  BY <1>1 DEF AskedInv, SlotsCount
<1>11. \A q \in Presses \ {p} : Making(q)' /\ Filed(q)' /\ Told(q)'
  BY <1>1, <1>8, <1>9, <1>10, LeftAlone
<1>12. Making(p)' /\ Filed(p)'
  <2>1. Making(p) /\ Filed(p) /\ press[p].phase = "over"
    BY <1>1 DEF AskedInv, Filed
  <2>2. Making(p)'
    BY <1>1, <2>1 DEF Making, Waiting
  <2>3. Asks(p, kind, sel, c, hour)'
    BY <1>1, <1>3 DEF Asks
  <2>4. Filed(p)'
    BY <1>1, <1>3, <2>1, <2>3 DEF Filed
  <2> QED BY <2>2, <2>4
<1>13. Told(p)'
  <2>1. /\ pressedWith[p].sel = sel /\ (pressedWith[p].at # NoPoint => c = pressedWith[p].at)
        /\ skew = 0 => hour <= when
    BY <1>3, <1>6 DEF Asks
  <2>2. slots[code + 1] = context /\ press[p].phase = "over"
    BY <1>1, <1>3 DEF AskedInv, Filed, context
  <2>3. /\ verdict'[p].params.code = code /\ verdict'[p].when = when
        /\ verdict'[p].says = answer.says /\ Agrees(verdict'[p], context, pressedWith'[p].sel)
        /\ slots'[verdict'[p].params.code + 1] = context
    BY <1>1, <1>7, <1>8, <2>1, <2>2
  <2>4. verdict'[p].params.code + 1 \in 1 .. Len(slots') /\ outbox'[p] # <<>> /\ press'[p].phase = "over"
    BY <1>1, <1>5, <2>2, <2>3
  <2>5. skew' = 0 /\ verdict'[p].when <= context.start + 24 => verdict'[p].says = "ok"
    BY <1>1, <1>7, <2>1, <2>3
  <2>6. pressedWith'[p].at # NoPoint => context.at = pressedWith'[p].at
    BY <1>1, <1>7, <2>1
  <2> QED BY <2>3, <2>4, <2>5, <2>6 DEF Told
<1>14. /\ press' = [q \in Presses |-> press'[q]] /\ outbox' = [q \in Presses |-> outbox'[q]]
       /\ pressedWith' = [q \in Presses |-> pressedWith'[q]]
  BY <1>1 DEF AskedInv
<1> QED BY <1>8, <1>9, <1>10, <1>11, <1>12, <1>13, <1>14 DEF AskedInv

LEMMA AskedNextInv == AskedInv /\ RequestInv /\ [RequestNext]_requestVars => AskedInv'
<1> SUFFICES ASSUME AskedInv, RequestInv, [RequestNext]_requestVars PROVE AskedInv'
  OBVIOUS
<1>1. CASE UNCHANGED requestVars
  <2>1. UNCHANGED <<press, outbox, verdict, skew, slots, clock, selection, place, pressedWith>>
    BY <1>1 DEF requestVars
  <2>2. PlaceKnown' /\ clock' >= clock /\ clock' \in Hours /\ selection' \in Chosen
    BY <2>1, RequestAssumption DEF AskedInv, PlaceKnown, ClockRuns
  <2>3. pressedWith' = [p \in Presses |-> pressedWith'[p]]
    BY <2>1 DEF AskedInv
  <2> QED BY <2>1, <2>2, <2>3, NoneMoved
<1>2. CASE \/ TimePasses \/ FixAges \/ Foreground \/ RestorePin
           \/ \E sel \in Selections : Choose(sel)
           \/ \E c \in Fixes : Watch(c)
           \/ \E c \in Pins \union {NoPoint} : PinAt(c)
  BY <1>2, PlaceAsked
<1>3. ASSUME NEW p \in Presses, NEW kind \in {"weather", "avalanche"}, Send(p, kind) PROVE AskedInv'
  BY <1>3, SendAsked DEF KindsSent
<1> QED BY <1>1, <1>2, <1>3, LocateMeAsked, PermissionAsked, FixAsked, NoFixCameAsked, CancelAsked,
           AllocatedAsked, ArriveAsked DEF RequestNext

LEMMA AskedIsRead == AskedInv => ReadAsAsked
<1> SUFFICES ASSUME AskedInv, NEW p \in Presses, verdict[p] # Unread
    PROVE  LET context == slots[verdict[p].params.code + 1]
           IN  /\ Agrees(verdict[p], context, pressedWith[p].sel)
               /\ skew = 0 /\ verdict[p].when <= context.start + 24 => verdict[p].says = "ok"
               /\ pressedWith[p].at # NoPoint => context.at = pressedWith[p].at
  BY DEF ReadAsAsked, Agrees
<1> QED BY DEF AskedInv, Told

(***************************************************************************)
(* For any builder's settings, points, clocks and number of presses, what  *)
(* the codec serves is what the button was pressed with, at the hour and   *)
(* under the code its reply is read with, whatever changes between a press *)
(* and its code and whatever a relay writes after the message; no message  *)
(* of the app is malformed, and none in time is refused.                   *)
(***************************************************************************)
THEOREM RequestsReadAsAsked == RequestSpec => []ReadAsAsked
<1>1. RequestInit => AskedInv /\ RequestInv
  BY AskedInitInv, RequestInitInv
<1>2. AskedInv /\ RequestInv /\ [RequestNext]_requestVars => AskedInv' /\ RequestInv'
  BY AskedNextInv, RequestNextInv
<1> QED BY <1>1, <1>2, AskedIsRead, PTL DEF RequestSpec

-----------------------------------------------------------------------------
(* What each rung of a ladder covers. *)

(* Up to n, step by step. *)
LEMMA StepByStep ==
  ASSUME NEW n \in Nat, NEW S, 1 \in S, \A k \in 1 .. n - 1 : k \in S => k + 1 \in S
  PROVE  \A k \in 1 .. n : k \in S
<1> DEFINE B == {k \in 1 .. n : k \notin S}
<1> SUFFICES ASSUME B # {} PROVE FALSE
  OBVIOUS
<1>1. PICK m \in B : \A k \in B : m <= k
  <2>1. B \in SUBSET Nat
    OBVIOUS
  <2> HIDE DEF B
  <2> QED BY <2>1, LeastNatural
<1>2. m # 1 /\ m - 1 \in 1 .. n - 1
  BY <1>1
<1>3. m - 1 \in S
  BY <1>1, <1>2
<1>4. (m - 1) + 1 \in S
  BY <1>2, <1>3
<1> QED BY <1>1, <1>4

LEMMA OfTwo ==
  ASSUME NEW a \in Int, NEW b \in Int
  PROVE  /\ Min({a, b}) \in {a, b} /\ Min({a, b}) <= a /\ Min({a, b}) <= b
         /\ Max({a, b}) \in {a, b} /\ Max({a, b}) >= a /\ Max({a, b}) >= b
<1>1. \E m \in {a, b} : \A v \in {a, b} : m <= v
  <2>1. CASE a <= b
    BY <2>1
  <2>2. CASE b <= a
    BY <2>2
  <2> QED BY <2>1, <2>2
<1>2. \E m \in {a, b} : \A v \in {a, b} : m >= v
  <2>1. CASE a >= b
    BY <2>1
  <2>2. CASE b >= a
    BY <2>2
  <2> QED BY <2>1, <2>2
<1>3. Min({a, b}) \in {a, b} /\ \A v \in {a, b} : Min({a, b}) <= v
  BY <1>1 DEF Min
<1>4. Max({a, b}) \in {a, b} /\ \A v \in {a, b} : Max({a, b}) >= v
  BY <1>2 DEF Max
<1> QED BY <1>3, <1>4

-----------------------------------------------------------------------------
(* A profile: a resolution for each day, no day finer than the one before. *)
Even(p) ==
  /\ p \in Seq(1 .. 4) /\ Len(p) \in 1 .. FillSlots
  /\ \A i \in 1 .. Len(p) - 1 : p[i + 1] <= p[i]

LEMMA EvenRep ==
  ASSUME NEW r \in 1 .. 4, NEW n \in 1 .. FillSlots
  PROVE  Even(Rep(r, n)) /\ Len(Rep(r, n)) = n /\ \A i \in 1 .. n : Rep(r, n)[i] = r
<1>1. n \in Nat /\ Rep(r, n) \in [1 .. n -> 1 .. 4]
  BY DEF Rep, FillSlots
<1>2. Rep(r, n) \in Seq(1 .. 4) /\ Len(Rep(r, n)) = n
  BY <1>1
<1>3. \A i \in 1 .. n : Rep(r, n)[i] = r
  BY DEF Rep
<1> QED BY <1>1, <1>2, <1>3 DEF Even, FillSlots

(* A profile of n days, the last at r; and with n more at s. *)
EndsAt(p, n, r) == Even(p) /\ Len(p) = n /\ p[n] = r

LEMMA EndsRep ==
  ASSUME NEW r \in 1 .. 4, NEW n \in 1 .. FillSlots
  PROVE  EndsAt(Rep(r, n), n, r)
  BY EvenRep DEF EndsAt

LEMMA EndsMore ==
  ASSUME NEW p, NEW n \in 1 .. FillSlots, NEW r \in 1 .. 4, EndsAt(p, n, r),
         NEW s \in 1 .. r, NEW more \in 1 .. FillSlots - n
  PROVE  EndsAt(p \o Rep(s, more), n + more, s)
<1> DEFINE q == Rep(s, more)
           all == p \o q
<1>1. s \in 1 .. 4 /\ more \in 1 .. FillSlots /\ n \in Nat /\ more \in Nat
  BY DEF FillSlots
<1>2. q \in Seq(1 .. 4) /\ Len(q) = more /\ \A i \in 1 .. more : q[i] = s
  BY <1>1, EvenRep DEF Even
<1>3. p \in Seq(1 .. 4) /\ Len(p) = n /\ p[n] = r /\ \A i \in 1 .. n - 1 : p[i + 1] <= p[i]
  BY DEF EndsAt, Even
<1> HIDE DEF q
<1>4. /\ all \in Seq(1 .. 4) /\ Len(all) = n + more
      /\ \A i \in 1 .. n : all[i] = p[i]
      /\ \A i \in n + 1 .. n + more : all[i] = q[i - n]
  <2>1. /\ all \in Seq(1 .. 4) /\ Len(all) = n + more
        /\ \A i \in 1 .. n + more : all[i] = IF i <= n THEN p[i] ELSE q[i - n]
    <3>1. /\ all \in Seq(1 .. 4) /\ Len(all) = Len(p) + Len(q)
          /\ \A i \in 1 .. Len(p) + Len(q) : all[i] = IF i <= Len(p) THEN p[i] ELSE q[i - Len(p)]
      BY <1>2, <1>3, ConcatProperties, Zenon
    <3> HIDE DEF all
    <3> QED BY <1>2, <1>3, <3>1
  <2> HIDE DEF all
  <2> QED BY <1>1, <2>1
<1> HIDE DEF all
<1>5. \A i \in n + 1 .. n + more : all[i] = s
  <2> TAKE i \in n + 1 .. n + more
  <2>1. i - n \in 1 .. more
    BY <1>1
  <2> QED BY <1>2, <1>4, <2>1
<1>6. ASSUME NEW i \in 1 .. n + more - 1 PROVE all[i + 1] <= all[i]
  <2>1. CASE i < n
    <3>1. i \in 1 .. n - 1 /\ i \in 1 .. n /\ i + 1 \in 1 .. n
      BY <1>1, <2>1
    <3> QED BY <1>3, <1>4, <3>1
  <2>2. CASE i = n
    <3>1. n \in 1 .. n /\ n + 1 \in n + 1 .. n + more
      BY <1>1
    <3> QED BY <1>3, <1>4, <1>5, <2>2, <3>1
  <2>3. CASE i > n
    <3>1. i \in n + 1 .. n + more /\ i + 1 \in n + 1 .. n + more
      BY <1>1, <2>3
    <3> QED BY <1>1, <1>5, <3>1
  <2> QED BY <1>1, <2>1, <2>2, <2>3
<1>7. n + more \in n + 1 .. n + more /\ n + more \in 1 .. FillSlots
  BY <1>1 DEF FillSlots
<1>8. Even(all) /\ all[n + more] = s
  BY <1>4, <1>5, <1>6, <1>7 DEF Even
<1> QED BY <1>4, <1>8 DEF EndsAt, all, q

(* A profile of written-out days. *)
LEMMA EvenListed ==
  /\ Even(<<1>>) /\ Even(<<1, 1>>) /\ Even(<<1, 1, 1>>) /\ Even(<<4>>) /\ Even(<<4, 4>>)
  /\ Even(<<4, 2, 1>>) /\ Even(<<4, 4, 4, 1, 1>>)
<1>1. /\ <<1>> \in Seq(1 .. 4) /\ <<1, 1>> \in Seq(1 .. 4) /\ <<1, 1, 1>> \in Seq(1 .. 4)
      /\ <<4>> \in Seq(1 .. 4) /\ <<4, 4>> \in Seq(1 .. 4)
      /\ <<4, 2, 1>> \in Seq(1 .. 4) /\ <<4, 4, 4, 1, 1>> \in Seq(1 .. 4)
  OBVIOUS
<1> QED BY <1>1 DEF Even, FillSlots

LEMMA EvenDetail ==
  /\ Even(<<4, 4, 4, 3, 3, 2, 2, 2, 1, 1, 1>>)
  /\ Even(<<4, 4, 4, 3, 3, 2, 2, 2, 1, 1, 1, 1, 1>>)
<1>1. /\ <<4, 4, 4, 3, 3, 2, 2, 2, 1, 1, 1>> \in Seq(1 .. 4)
      /\ <<4, 4, 4, 3, 3, 2, 2, 2, 1, 1, 1, 1, 1>> \in Seq(1 .. 4)
  OBVIOUS
<1> QED BY <1>1 DEF Even, FillSlots

LEMMA AnchorsEven ==
  ASSUME NEW mode \in {"detail", "auto", "range"}, NEW a \in DOMAIN Anchors[mode]
  PROVE  Even(Anchors[mode][a])
<1>1. /\ FillSlots = 13 /\ \A n \in 1 .. 13, r \in 1 .. 4 : EndsAt(Rep(r, n), n, r)
      /\ \A n \in 1 .. 13, r \in 1 .. 4 : \A p : EndsAt(p, n, r) =>
           \A s \in 1 .. r, more \in 1 .. 13 - n : EndsAt(p \o Rep(s, more), n + more, s)
  BY EndsRep, EndsMore DEF FillSlots
<1>2. /\ EndsAt(<<4>>, 1, 4) /\ EndsAt(<<4, 4>>, 2, 4) /\ Rep(1, 2) = <<1, 1>>
  BY EvenListed DEF EndsAt, Rep
<1>3. CASE mode = "detail"
  <2> DEFINE fine == Rep(4, 5) \o Rep(3, 5) \o Rep(2, 3)
             finest == Rep(4, 8) \o Rep(3, 5)
  <2>1. EndsAt(Rep(4, 5) \o Rep(3, 5), 10, 3)
    <3>1. EndsAt(Rep(4, 5), 5, 4)
      BY <1>1
    <3>2. EndsAt(Rep(4, 5) \o Rep(3, 5), 5 + 5, 3)
      BY <1>1, <3>1
    <3> QED BY <3>2
  <2>2. Even(fine)
    <3>1. EndsAt(fine, 10 + 3, 2)
      BY <1>1, <2>1
    <3> QED BY <3>1 DEF EndsAt
  <2>3. Even(finest)
    <3>1. EndsAt(Rep(4, 8), 8, 4)
      BY <1>1
    <3>2. EndsAt(finest, 8 + 5, 3)
      BY <1>1, <3>1
    <3> QED BY <3>2 DEF EndsAt
  <2> HIDE DEF fine, finest
  <2>4. Anchors[mode] =
          << <<1>>, <<1, 1, 1>>, <<4, 2, 1>>, <<4, 4, 4, 1, 1>>,
             <<4, 4, 4, 3, 3, 2, 2, 2, 1, 1, 1>>, <<4, 4, 4, 3, 3, 2, 2, 2, 1, 1, 1, 1, 1>>, fine, finest >>
    BY <1>3 DEF Anchors, fine, finest
  <2> QED BY <2>2, <2>3, <2>4, EvenListed, EvenDetail
<1>4. CASE mode = "auto"
  <2> DEFINE b == Rep(2, 5) \o <<1, 1>>
             c == Rep(3, 5) \o <<1, 1>>
             d == Rep(3, 5) \o Rep(1, 5)
             e == <<4>> \o Rep(3, 4) \o Rep(1, 5)
             f == <<4, 4>> \o Rep(3, 5) \o Rep(2, 3) \o Rep(1, 3)
             g == Rep(4, 6) \o Rep(3, 7)
             week == Rep(1, 7)
  <2>1. EndsAt(Rep(2, 5), 5, 2) /\ EndsAt(Rep(3, 5), 5, 3) /\ EndsAt(Rep(4, 6), 6, 4) /\ EndsAt(week, 7, 1)
    BY <1>1
  <2>2. EndsAt(Rep(2, 5) \o Rep(1, 2), 5 + 2, 1) /\ EndsAt(Rep(3, 5) \o Rep(1, 2), 5 + 2, 1)
    BY <1>1, <2>1
  <2>3. EndsAt(d, 5 + 5, 1) /\ EndsAt(g, 6 + 7, 3)
    BY <1>1, <2>1
  <2>4. Even(b) /\ Even(c) /\ Even(d) /\ Even(g) /\ Even(week)
    BY <1>2, <2>1, <2>2, <2>3 DEF EndsAt
  <2>5. Even(e)
    <3>1. EndsAt(<<4>> \o Rep(3, 4), 1 + 4, 3)
      BY <1>1, <1>2
    <3>2. EndsAt(<<4>> \o Rep(3, 4), 5, 3)
      BY <3>1
    <3>3. EndsAt(e, 5 + 5, 1)
      BY <1>1, <3>2
    <3> QED BY <3>3 DEF EndsAt
  <2>6. Even(f)
    <3>1. EndsAt(<<4, 4>> \o Rep(3, 5), 2 + 5, 3)
      BY <1>1, <1>2
    <3>2. EndsAt(<<4, 4>> \o Rep(3, 5), 7, 3)
      BY <3>1
    <3>3. EndsAt(<<4, 4>> \o Rep(3, 5) \o Rep(2, 3), 7 + 3, 2)
      BY <1>1, <3>2
    <3>4. EndsAt(<<4, 4>> \o Rep(3, 5) \o Rep(2, 3), 10, 2)
      BY <3>3
    <3>5. EndsAt(f, 10 + 3, 1)
      BY <1>1, <3>4
    <3> QED BY <3>5 DEF EndsAt
  <2> HIDE DEF b, c, d, e, f, g, week
  <2>7. Anchors[mode] = << <<1>>, <<1, 1, 1>>, week, b, c, d, e, f, g >>
    BY <1>4 DEF Anchors, b, c, d, e, f, g, week
  <2> QED BY <2>4, <2>5, <2>6, <2>7, EvenListed
<1>5. CASE mode = "range"
  <2> DEFINE b == Rep(1, FillSlots)
             c == Rep(2, FillSlots)
             d == Rep(3, FillSlots)
             e == Rep(4, 3) \o Rep(3, 10)
  <2>1. EndsAt(b, 13, 1) /\ EndsAt(c, 13, 2) /\ EndsAt(d, 13, 3) /\ EndsAt(Rep(4, 3), 3, 4)
    BY <1>1
  <2>2. EndsAt(e, 3 + 10, 3)
    BY <1>1, <2>1
  <2>3. Even(b) /\ Even(c) /\ Even(d) /\ Even(e)
    BY <2>1, <2>2 DEF EndsAt
  <2> HIDE DEF b, c, d, e
  <2>4. Anchors[mode] = << <<1>>, <<1, 1, 1>>, b, c, d, e >>
    BY <1>5 DEF Anchors, b, c, d, e
  <2> QED BY <2>3, <2>4, EvenListed
<1> QED BY <1>3, <1>4, <1>5

(* A profile cut short, and a ladder that is capped. *)
LEMMA CutEven ==
  ASSUME NEW s, Even(s), NEW n \in 1 .. FillSlots, n <= Len(s)
  PROVE  Even(SubSeq(s, 1, n)) /\ Len(SubSeq(s, 1, n)) = n
<1>1. s \in Seq(1 .. 4) /\ Len(s) \in 1 .. FillSlots /\ \A i \in 1 .. Len(s) - 1 : s[i + 1] <= s[i]
  BY DEF Even
<1>2. n \in Nat /\ n >= 1 /\ Len(s) \in Nat
  BY <1>1 DEF FillSlots
<1> DEFINE cut == SubSeq(s, 1, n)
<1>3. cut = [i \in 1 .. n |-> s[i]]
  BY <1>2
<1> HIDE DEF cut
<1>4. \A i \in 1 .. n : s[i] \in 1 .. 4 /\ cut[i] = s[i]
  <2> TAKE i \in 1 .. n
  <2>1. i \in 1 .. Len(s)
    BY <1>2
  <2> QED BY <1>1, <1>3, <2>1
<1>5. cut \in [1 .. n -> 1 .. 4]
  BY <1>3, <1>4
<1>6. cut \in Seq(1 .. 4) /\ Len(cut) = n
  BY <1>2, <1>5
<1>7. \A i \in 1 .. n - 1 : cut[i + 1] <= cut[i]
  <2> TAKE i \in 1 .. n - 1
  <2>1. i \in 1 .. n /\ i + 1 \in 1 .. n /\ i \in 1 .. Len(s) - 1
    BY <1>2
  <2> QED BY <1>1, <1>4, <2>1
<1> QED BY <1>6, <1>7 DEF Even, cut

LEMMA CappedEven ==
  ASSUME NEW s, Even(s), NEW cap \in 1 .. FillSlots
  PROVE  /\ Even(SubSeq(s, 1, Min({Len(s), cap})))
         /\ Len(SubSeq(s, 1, Min({Len(s), cap}))) <= cap
         /\ s = <<1>> => SubSeq(s, 1, Min({Len(s), cap})) = <<1>>
<1>1. PICK len \in 1 .. FillSlots : len = Len(s)
  BY DEF Even
<1>2. len \in Int /\ cap \in Int
  BY <1>1 DEF FillSlots
<1>3. Min({len, cap}) \in {len, cap} /\ Min({len, cap}) <= len /\ Min({len, cap}) <= cap
  BY <1>2, OfTwo
<1>4. PICK n \in 1 .. FillSlots : n = Min({len, cap}) /\ n <= len /\ n <= cap
  BY <1>1, <1>3
<1>5. Even(SubSeq(s, 1, n)) /\ Len(SubSeq(s, 1, n)) = n
  BY <1>1, <1>4, CutEven
<1>6. s = <<1>> => SubSeq(s, 1, n) = <<1>>
  <2> HAVE s = <<1>>
  <2>1. len = 1
    BY <1>1
  <2>2. n = 1
    BY <1>4, <2>1 DEF FillSlots
  <2>3. SubSeq(<<1>>, 1, 1) = <<1>>
    <3>1. SubSeq(<<1>>, 1, 1) = [i \in 1 .. 1 |-> <<1>>[i]]
      OBVIOUS
    <3>2. \A i \in 1 .. 1 : <<1>>[i] = 1
      OBVIOUS
    <3>3. <<1>> = [i \in 1 .. 1 |-> 1]
      OBVIOUS
    <3> QED BY <3>1, <3>2, <3>3
  <2> QED BY <2>2, <2>3
<1> QED BY <1>1, <1>4, <1>5, <1>6

LEMMA LadderEven ==
  ASSUME NEW mode \in {"detail", "auto", "range"}, NEW cap \in 1 .. FillSlots
  PROVE  /\ 1 \in DOMAIN Ladder(mode, cap) /\ Ladder(mode, cap)[1] = <<1>>
         /\ \A a \in DOMAIN Ladder(mode, cap) :
              Even(Ladder(mode, cap)[a]) /\ Len(Ladder(mode, cap)[a]) <= cap
<1>1. 1 \in DOMAIN Anchors[mode] /\ Anchors[mode][1] = <<1>>
  <2>1. CASE mode = "detail"
    BY <2>1 DEF Anchors
  <2>2. CASE mode = "auto"
    BY <2>2 DEF Anchors
  <2>3. CASE mode = "range"
    BY <2>3 DEF Anchors
  <2> QED BY <2>1, <2>2, <2>3
<1>2. DOMAIN Ladder(mode, cap) = DOMAIN Anchors[mode]
  BY DEF Ladder
<1>3. \A a \in DOMAIN Anchors[mode] :
        Ladder(mode, cap)[a] = SubSeq(Anchors[mode][a], 1, Min({Len(Anchors[mode][a]), cap}))
  BY DEF Ladder
<1>4. ASSUME NEW a \in DOMAIN Anchors[mode]
      PROVE  /\ Even(Ladder(mode, cap)[a]) /\ Len(Ladder(mode, cap)[a]) <= cap
             /\ Anchors[mode][a] = <<1>> => Ladder(mode, cap)[a] = <<1>>
  <2>1. PICK s : s = Anchors[mode][a]
    OBVIOUS
  <2>2. Even(s) /\ Ladder(mode, cap)[a] = SubSeq(s, 1, Min({Len(s), cap}))
    BY <1>3, <2>1, AnchorsEven
  <2> QED BY <2>1, <2>2, CappedEven
<1> QED BY <1>1, <1>2, <1>4

-----------------------------------------------------------------------------
(* Up a rung: the day that gives way. *)
DayRung(p, d) == IF d <= Len(p) THEN p[d] ELSE 0
Early(p) == DayRung(p, 1) + DayRung(p, 2) + DayRung(p, 3) + DayRung(p, 4)
Middle(p) == DayRung(p, 5) + DayRung(p, 6) + DayRung(p, 7) + DayRung(p, 8)
Late(p) == DayRung(p, 9) + DayRung(p, 10) + DayRung(p, 11) + DayRung(p, 12) + DayRung(p, 13)
Rungs(p) == Early(p) + Middle(p) + Late(p)

LEMMA RungsBound ==
  ASSUME NEW p, Even(p)
  PROVE  /\ Rungs(p) \in Nat /\ Rungs(p) <= 52
         /\ Early(p) \in 0 .. 16 /\ Middle(p) \in 0 .. 16 /\ Late(p) \in 0 .. 20
         /\ \A d \in 1 .. 13 : DayRung(p, d) \in 0 .. 4
<1>1. p \in Seq(1 .. 4) /\ Len(p) \in Nat
  BY DEF Even, FillSlots
<1>2. ASSUME NEW d \in 1 .. 13 PROVE DayRung(p, d) \in 0 .. 4
  <2>1. CASE d <= Len(p)
    <3>1. d \in 1 .. Len(p)
      BY <1>1, <2>1
    <3>2. p[d] \in 1 .. 4
      BY <1>1, <3>1
    <3> QED BY <2>1, <3>2 DEF DayRung
  <2>2. CASE ~(d <= Len(p))
    BY <2>2 DEF DayRung
  <2> QED BY <2>1, <2>2
<1>3. Early(p) \in 0 .. 16
  <2>1. /\ DayRung(p, 1) \in 0 .. 4 /\ DayRung(p, 2) \in 0 .. 4 /\ DayRung(p, 3) \in 0 .. 4
        /\ DayRung(p, 4) \in 0 .. 4
    BY <1>2
  <2> QED BY <2>1 DEF Early
<1>4. Middle(p) \in 0 .. 16
  <2>1. /\ DayRung(p, 5) \in 0 .. 4 /\ DayRung(p, 6) \in 0 .. 4 /\ DayRung(p, 7) \in 0 .. 4
        /\ DayRung(p, 8) \in 0 .. 4
    BY <1>2
  <2> QED BY <2>1 DEF Middle
<1>5. Late(p) \in 0 .. 20
  <2>1. /\ DayRung(p, 9) \in 0 .. 4 /\ DayRung(p, 10) \in 0 .. 4 /\ DayRung(p, 11) \in 0 .. 4
        /\ DayRung(p, 12) \in 0 .. 4 /\ DayRung(p, 13) \in 0 .. 4
    BY <1>2
  <2> QED BY <2>1 DEF Late
<1>6. Rungs(p) \in Nat /\ Rungs(p) <= 52
  BY <1>3, <1>4, <1>5 DEF Rungs
<1> QED BY <1>2, <1>3, <1>4, <1>5, <1>6

LEMMA OneMore ==
  ASSUME NEW p, NEW q, Even(p), NEW k \in 1 .. 13,
         DayRung(q, k) = DayRung(p, k) + 1,
         \A d \in 1 .. 13 \ {k} : DayRung(q, d) = DayRung(p, d)
  PROVE  Rungs(q) = Rungs(p) + 1
<1>1. \A d \in 1 .. 13 : DayRung(p, d) \in Int
  BY RungsBound
<1>2. Early(p) \in Int /\ Middle(p) \in Int /\ Late(p) \in Int
  BY RungsBound
<1>3. CASE k \in 1 .. 4
  <2>1. Middle(q) = Middle(p)
    BY <1>3 DEF Middle
  <2>2. Late(q) = Late(p)
    BY <1>3 DEF Late
  <2>3. Early(q) = Early(p) + 1
    BY <1>1, <1>3 DEF Early
  <2> QED BY <1>2, <2>1, <2>2, <2>3 DEF Rungs
<1>4. CASE k \in 5 .. 8
  <2>1. Early(q) = Early(p)
    BY <1>4 DEF Early
  <2>2. Late(q) = Late(p)
    BY <1>4 DEF Late
  <2>3. Middle(q) = Middle(p) + 1
    BY <1>1, <1>4 DEF Middle
  <2> QED BY <1>2, <2>1, <2>2, <2>3 DEF Rungs
<1>5. CASE k \in 9 .. 13
  <2>1. Early(q) = Early(p)
    BY <1>5 DEF Early
  <2>2. Middle(q) = Middle(p)
    BY <1>5 DEF Middle
  <2>3. Late(q) = Late(p) + 1
    BY <1>1, <1>5 DEF Late
  <2> QED BY <1>2, <2>1, <2>2, <2>3 DEF Rungs
<1> QED BY <1>3, <1>4, <1>5

LEMMA GivesWay ==
  ASSUME NEW p, NEW anchor, Even(p), Even(anchor), NEW cap \in 1 .. FillSlots,
         Len(p) <= cap, Len(anchor) <= cap,
         NEW i \in Behind(p, anchor), \A j \in Behind(p, anchor) : i <= j
  PROVE  Even(Raised(p, i)) /\ Len(Raised(p, i)) <= cap /\ Rungs(Raised(p, i)) = Rungs(p) + 1
<1>1. /\ p \in Seq(1 .. 4) /\ Len(p) \in 1 .. 13 /\ \A d \in 1 .. Len(p) - 1 : p[d + 1] <= p[d]
      /\ anchor \in Seq(1 .. 4) /\ Len(anchor) \in 1 .. 13
      /\ \A d \in 1 .. Len(anchor) - 1 : anchor[d + 1] <= anchor[d]
      /\ cap \in 1 .. 13 /\ FillSlots = 13
  BY DEF Even, FillSlots
<1>2. i \in 1 .. Len(anchor) /\ (i > Len(p) \/ p[i] < anchor[i]) /\ i \in 1 .. 13
  BY <1>1 DEF Behind
<1>3. CASE i > Len(p)
  <2> DEFINE q == Append(p, 1)
  <2>1. /\ q \in Seq(1 .. 4) /\ Len(q) = Len(p) + 1 /\ q[Len(p) + 1] = 1
        /\ \A d \in 1 .. Len(p) : q[d] = p[d]
    BY <1>1
  <2>2. Raised(p, i) = q
    BY <1>3 DEF Raised
  <2> HIDE DEF q
  <2>3. Len(p) + 1 \in 1 .. 13 /\ Len(p) + 1 <= cap
    <3>1. PICK m \in 1 .. 13, n \in 1 .. 13 : m = Len(p) /\ n = Len(anchor) /\ n <= cap
      BY <1>1
    <3>2. i \in Nat /\ i <= n /\ i > m
      BY <1>2, <1>3, <3>1
    <3>3. m + 1 <= n
      BY <3>1, <3>2
    <3>4. m + 1 \in 1 .. 13
      BY <3>1, <3>3
    <3>5. cap \in Nat
      BY <1>1
    <3>6. m + 1 <= cap
      BY <3>1, <3>3, <3>5
    <3> QED BY <3>1, <3>4, <3>6
  <2>4. ASSUME NEW d \in 1 .. Len(q) - 1 PROVE q[d + 1] <= q[d]
    <3>1. d \in 1 .. Len(p) /\ q[d] = p[d] /\ p[d] \in 1 .. 4
      BY <1>1, <2>1
    <3>2. CASE d = Len(p)
      BY <2>1, <3>1, <3>2
    <3>3. CASE d # Len(p)
      <4>1. d \in 1 .. Len(p) - 1 /\ d + 1 \in 1 .. Len(p)
        BY <1>1, <3>1, <3>3
      <4> QED BY <1>1, <2>1, <3>1, <4>1
    <3> QED BY <3>2, <3>3
  <2>5. Even(q)
    BY <1>1, <2>1, <2>3, <2>4 DEF Even
  <2>6. DayRung(q, Len(p) + 1) = DayRung(p, Len(p) + 1) + 1
    BY <1>1, <2>1 DEF DayRung
  <2>7. ASSUME NEW d \in 1 .. 13 \ {Len(p) + 1} PROVE DayRung(q, d) = DayRung(p, d)
    <3>1. CASE d <= Len(p)
      <4>1. d \in 1 .. Len(p) /\ d <= Len(q)
        BY <1>1, <2>1, <3>1
      <4> QED BY <2>1, <3>1, <4>1 DEF DayRung
    <3>2. CASE ~(d <= Len(p))
      <4>1. ~(d <= Len(q))
        BY <1>1, <2>1, <3>2
      <4> QED BY <3>2, <4>1 DEF DayRung
    <3> QED BY <3>1, <3>2
  <2>8. Rungs(q) = Rungs(p) + 1
    BY <2>3, <2>5, <2>6, <2>7, OneMore
  <2> QED BY <2>1, <2>2, <2>3, <2>5, <2>8
<1>4. CASE ~(i > Len(p))
  <2> DEFINE q == [p EXCEPT ![i] = @ + 1]
  <2>1. i \in 1 .. Len(p) /\ p[i] < anchor[i] /\ p[i] \in 1 .. 4 /\ anchor[i] \in 1 .. 4
    BY <1>1, <1>2, <1>4
  <2>2. p[i] + 1 \in 1 .. 4
    BY <2>1
  <2>3. /\ q \in Seq(1 .. 4) /\ Len(q) = Len(p) /\ q[i] = p[i] + 1
        /\ \A d \in 1 .. Len(p) \ {i} : q[d] = p[d]
    BY <1>1, <2>1, <2>2
  <2>4. Raised(p, i) = q
    BY <1>4 DEF Raised
  <2> HIDE DEF q
  <2>5. ASSUME NEW d \in 1 .. Len(q) - 1 PROVE q[d + 1] <= q[d]
    <3>1. d \in 1 .. Len(p) /\ d + 1 \in 1 .. Len(p) /\ d \in 1 .. Len(p) - 1
          /\ p[d] \in 1 .. 4 /\ p[d + 1] \in 1 .. 4 /\ p[d + 1] <= p[d]
      BY <1>1, <2>3
    <3>2. CASE d = i
      BY <2>1, <2>3, <3>1, <3>2
    <3>3. CASE d + 1 = i
      <4>1. d \in 1 .. Len(anchor) /\ d \in 1 .. Len(anchor) - 1 /\ d \notin Behind(p, anchor)
        BY <1>1, <1>2, <3>1, <3>3
      <4>2. anchor[d] <= p[d] /\ anchor[d] \in 1 .. 4 /\ anchor[i] <= anchor[d]
        BY <1>1, <3>1, <3>3, <4>1 DEF Behind
      <4>3. p[i] + 1 <= p[d]
        BY <2>1, <3>1, <4>2
      <4> QED BY <2>3, <3>1, <3>3, <4>3
    <3>4. CASE d # i /\ d + 1 # i
      BY <2>3, <3>1, <3>4
    <3> QED BY <3>2, <3>3, <3>4
  <2>6. Even(q)
    BY <1>1, <2>3, <2>5 DEF Even
  <2>7. DayRung(q, i) = DayRung(p, i) + 1
    BY <1>1, <2>1, <2>3 DEF DayRung
  <2>8. ASSUME NEW d \in 1 .. 13 \ {i} PROVE DayRung(q, d) = DayRung(p, d)
    <3>1. CASE d <= Len(p)
      <4>1. d \in 1 .. Len(p) \ {i}
        BY <1>1, <3>1
      <4> QED BY <2>3, <3>1, <4>1 DEF DayRung
    <3>2. CASE ~(d <= Len(p))
      BY <2>3, <3>2 DEF DayRung
    <3> QED BY <3>1, <3>2
  <2>9. Rungs(q) = Rungs(p) + 1
    BY <1>2, <2>6, <2>7, <2>8, OneMore
  <2> QED BY <2>3, <2>4, <2>6, <2>9
<1> QED BY <1>3, <1>4

(* The function the flattening of days asks for exists, and it is the whole
   of them. *)
LEMMA Flattened ==
  ASSUME NEW n \in Nat, n >= 1, NEW days, days = [d \in 1 .. n |-> days[d]]
  PROVE  \E all : /\ all = [d \in 1 .. n |-> IF d = 1 THEN days[d] ELSE all[d - 1] \o days[d]]
                  /\ FlattenSeq(days) = all[n]
<1> DEFINE Upto(k, all) == all[1] = days[1] /\ \A d \in 2 .. k : all[d] = all[d - 1] \o days[d]
           S == {k \in 1 .. n : \E all : all = [d \in 1 .. n |-> all[d]] /\ Upto(k, all)}
<1>1. 1 \in S
  <2>1. days = [d \in 1 .. n |-> days[d]] /\ Upto(1, days) /\ 1 \in 1 .. n
    OBVIOUS
  <2> HIDE DEF Upto
  <2> QED BY <2>1
<1>2. ASSUME NEW k \in 1 .. n - 1, k \in S PROVE k + 1 \in S
  <2>1. PICK all : all = [d \in 1 .. n |-> all[d]] /\ Upto(k, all)
    BY <1>2
  <2> DEFINE more == [d \in 1 .. n |-> IF d = k + 1 THEN all[k] \o days[k + 1] ELSE all[d]]
  <2>2. k + 1 \in 1 .. n /\ k \in Nat /\ k >= 1 /\ (k + 1) - 1 = k /\ k + 1 # 1
    OBVIOUS
  <2>3. /\ more = [d \in 1 .. n |-> more[d]] /\ more[k + 1] = all[k] \o days[k + 1]
        /\ \A d \in 1 .. n : d # k + 1 => more[d] = all[d]
    BY <2>2
  <2> HIDE DEF more
  <2>4. Upto(k + 1, more)
    <3>1. more[1] = days[1]
      BY <2>1, <2>2, <2>3
    <3>2. ASSUME NEW d \in 2 .. k + 1 PROVE more[d] = more[d - 1] \o days[d]
      <4>1. d - 1 \in 1 .. n /\ d - 1 # k + 1 /\ d \in 1 .. n
        BY <2>2
      <4>2. more[d - 1] = all[d - 1]
        BY <2>3, <4>1
      <4>3. CASE d = k + 1
        BY <2>2, <2>3, <4>2, <4>3
      <4>4. CASE d # k + 1
        <5>1. d \in 2 .. k
          BY <2>2, <4>4
        <5> QED BY <2>1, <2>3, <4>1, <4>2, <4>4, <5>1
      <4> QED BY <4>3, <4>4
    <3> QED BY <3>1, <3>2
  <2> HIDE DEF Upto
  <2> QED BY <2>2, <2>3, <2>4
<1> HIDE DEF S
<1>3. n \in S
  <2>1. \A k \in 1 .. n : k \in S
    BY <1>1, <1>2, StepByStep
  <2> QED BY <2>1
<1>4. PICK all : all = [d \in 1 .. n |-> all[d]] /\ Upto(n, all)
  BY <1>3 DEF S
<1> DEFINE JoinedUp(f) == f = [d \in 1 .. n |-> IF d = 1 THEN days[d] ELSE f[d - 1] \o days[d]]
<1>5. JoinedUp(all)
  <2>1. ASSUME NEW d \in 1 .. n PROVE all[d] = IF d = 1 THEN days[d] ELSE all[d - 1] \o days[d]
    <3>1. CASE d = 1
      BY <1>4, <3>1
    <3>2. CASE d # 1
      <4>1. d \in 2 .. n
        BY <3>2
      <4> QED BY <1>4, <3>2, <4>1
    <3> QED BY <3>1, <3>2
  <2> HIDE DEF Upto
  <2> QED BY <1>4, <2>1
<1> DEFINE flat == CHOOSE f : JoinedUp(f)
<1>6. JoinedUp(flat)
  <2> HIDE DEF JoinedUp
  <2> QED BY <1>5
<1>7. FlattenSeq(days) = flat[n]
  <2>1. Len(days) = n
    OBVIOUS
  <2> QED BY <2>1 DEF FlattenSeq
<1> HIDE DEF flat
<1> QED BY <1>6, <1>7

(* Periods that run from one hour to another without a gap or an overlap,
   never finer after coarser. *)
Period == [start : Int, hours : {12, 6, 3, 1}]
Tiles(ps, from, to) ==
  /\ ps \in Seq(Period) /\ Len(ps) >= 1
  /\ ps[1].start = from /\ ps[Len(ps)].start + ps[Len(ps)].hours = to
  /\ \A i \in 1 .. Len(ps) - 1 : /\ ps[i + 1].start = ps[i].start + ps[i].hours
                                 /\ ps[i + 1].hours >= ps[i].hours

(* The same, the first of h hours and the last of g. *)
Spans(ps, from, to, h, g) == Tiles(ps, from, to) /\ ps[1].hours = h /\ ps[Len(ps)].hours = g

LEMMA FunctionListed ==
  ASSUME NEW T, NEW n \in Nat, NEW s \in [1 .. n -> T]
  PROVE  s \in Seq(T) /\ Len(s) = n
  OBVIOUS

(* n periods of h hours. *)
Row(first, o, n, h) == [k \in 1 .. n |-> [start |-> first + (k - 1) * h - o, hours |-> h]]

LEMMA RowTiles ==
  ASSUME NEW first \in Int, NEW o \in Int, NEW n \in Nat, n >= 1, NEW h \in Int, h \in {12, 6, 3, 1},
         NEW ps, ps = Row(first, o, n, h),
         NEW all \in Int, all = n * h
  PROVE  Spans(ps, first - o, first + all - o, h, h)
<1>1. \A k \in 1 .. n : (k - 1) * h \in Int /\ k * h = (k - 1) * h + h
  <2> TAKE k \in 1 .. n
  <2>1. CASE h = 12
    BY <2>1
  <2>2. CASE h = 6
    BY <2>2
  <2>3. CASE h = 3
    BY <2>3
  <2>4. CASE h = 1
    BY <2>4
  <2> QED BY <2>1, <2>2, <2>3, <2>4
<1>2. \A k \in 1 .. n : ps[k] \in Period /\ ps[k].start = first + (k - 1) * h - o /\ ps[k].hours = h
  BY <1>1 DEF Period, Row
<1>3. ps \in Seq(Period) /\ Len(ps) = n
  <2>1. ps = [k \in 1 .. n |-> ps[k]] /\ \A k \in 1 .. n : ps[k] \in Period
    BY <1>2 DEF Row
  <2>2. ps \in [1 .. n -> Period]
    BY <2>1, Zenon
  <2> QED BY <2>2, FunctionListed
<1>4. h \in Int /\ n \in 1 .. n /\ 1 \in 1 .. n
  OBVIOUS
<1>5. ps[1].start = first - o
  <2>1. (1 - 1) * h = 0
    BY <1>4
  <2> QED BY <1>2, <1>4, <2>1
<1>6. ps[n].start + ps[n].hours = first + all - o
  <2>1. (n - 1) * h \in Int /\ all = (n - 1) * h + h
    BY <1>1, <1>4
  <2>2. ps[n].start = first + (n - 1) * h - o /\ ps[n].hours = h
    BY <1>2, <1>4
  <2> QED BY <1>4, <2>1, <2>2
<1>7. ASSUME NEW i \in 1 .. n - 1
      PROVE  ps[i + 1].start = ps[i].start + ps[i].hours /\ ps[i + 1].hours >= ps[i].hours
  <2>1. i \in 1 .. n /\ i + 1 \in 1 .. n /\ (i + 1) - 1 = i
    OBVIOUS
  <2>2. ps[i + 1].start = first + i * h - o /\ ps[i].start = first + (i - 1) * h - o
        /\ ps[i].hours = h /\ ps[i + 1].hours = h
    BY <1>2, <2>1
  <2>3. (i - 1) * h \in Int /\ i * h = (i - 1) * h + h
    BY <1>1, <2>1
  <2> QED BY <1>4, <2>2, <2>3
<1> QED BY <1>2, <1>3, <1>4, <1>5, <1>6, <1>7 DEF Tiles, Spans

LEMMA TilesJoined ==
  ASSUME NEW ps, NEW qs, NEW a, NEW b, NEW c, NEW e, NEW f, NEW g, NEW h,
         Spans(ps, a, b, e, f), Spans(qs, b, c, g, h), f <= g
  PROVE  Spans(ps \o qs, a, c, e, h)
<1> DEFINE all == ps \o qs
<1>1. /\ ps \in Seq(Period) /\ qs \in Seq(Period)
      /\ ps[1].start = a /\ ps[Len(ps)].start + ps[Len(ps)].hours = b
      /\ qs[1].start = b /\ qs[Len(qs)].start + qs[Len(qs)].hours = c
      /\ ps[1].hours = e /\ ps[Len(ps)].hours = f /\ qs[1].hours = g /\ qs[Len(qs)].hours = h
  BY DEF Tiles, Spans
<1>2. PICK m \in Nat, n \in Nat : m = Len(ps) /\ n = Len(qs) /\ m >= 1 /\ n >= 1
  BY <1>1 DEF Tiles, Spans
<1>3. /\ all \in Seq(Period) /\ Len(all) = m + n
      /\ \A i \in 1 .. m + n : all[i] = IF i <= m THEN ps[i] ELSE qs[i - m]
  <2>1. /\ all \in Seq(Period) /\ Len(all) = Len(ps) + Len(qs)
        /\ \A i \in 1 .. Len(ps) + Len(qs) : all[i] = IF i <= Len(ps) THEN ps[i] ELSE qs[i - Len(ps)]
    BY <1>1, ConcatProperties, Zenon
  <2> HIDE DEF all
  <2> QED BY <1>2, <2>1
<1> HIDE DEF all
<1>4. all[1] = ps[1] /\ all[m + n] = qs[n] /\ all[m] = ps[m] /\ all[m + 1] = qs[1]
  <2>1. 1 \in 1 .. m + n /\ m + n \in 1 .. m + n /\ m \in 1 .. m + n /\ m + 1 \in 1 .. m + n
        /\ 1 <= m /\ ~(m + n <= m) /\ (m + n) - m = n /\ ~(m + 1 <= m) /\ (m + 1) - m = 1 /\ m <= m
    BY <1>2
  <2> QED BY <1>3, <2>1
<1>5. ASSUME NEW i \in 1 .. m + n - 1
      PROVE  all[i + 1].start = all[i].start + all[i].hours /\ all[i + 1].hours >= all[i].hours
  <2>1. i \in 1 .. m + n /\ i + 1 \in 1 .. m + n
    BY <1>2
  <2>2. CASE i < m
    <3>1. i <= m /\ i + 1 <= m /\ i \in 1 .. Len(ps) - 1
      BY <1>2, <2>2
    <3>2. all[i] = ps[i] /\ all[i + 1] = ps[i + 1]
      BY <1>3, <2>1, <3>1
    <3> QED BY <3>1, <3>2 DEF Tiles, Spans
  <2>3. CASE i = m
    <3>1. qs[1].start = ps[m].start + ps[m].hours /\ qs[1].hours >= ps[m].hours
      <4>1. ps[m].hours <= qs[1].hours
        BY <1>1, <1>2
      <4>2. ps[m].hours \in Int /\ qs[1].hours \in Int
        <5>1. m \in 1 .. Len(ps) /\ 1 \in 1 .. Len(qs)
          BY <1>2
        <5>2. ps[m] \in Period /\ qs[1] \in Period
          BY <1>1, <5>1
        <5> QED BY <5>2 DEF Period
      <4> QED BY <1>1, <1>2, <4>1, <4>2
    <3> QED BY <1>4, <2>3, <3>1
  <2>4. CASE i > m
    <3>1. PICK j \in Nat : j = i - m /\ 1 <= j /\ j <= n - 1
      <4>1. i \in Int /\ m \in Int /\ n \in Int /\ i > m /\ i <= m + n - 1
        BY <1>2, <2>4
      <4>2. i - m \in Nat /\ 1 <= i - m /\ i - m <= n - 1
        BY <4>1
      <4> QED BY <4>2
    <3>2. j \in 1 .. Len(qs) - 1 /\ i = m + j /\ ~(i <= m) /\ ~(i + 1 <= m) /\ (i + 1) - m = j + 1
      BY <1>2, <2>4, <3>1
    <3>3. all[i] = qs[j] /\ all[i + 1] = qs[j + 1]
      BY <1>3, <2>1, <3>1, <3>2
    <3> QED BY <3>2, <3>3 DEF Tiles, Spans
  <2> QED BY <1>2, <2>2, <2>3, <2>4
<1>6. all[1].start = a /\ all[m + n].start + all[m + n].hours = c /\ m + n >= 1
  BY <1>1, <1>2, <1>4
<1>7. Tiles(all, a, c)
  BY <1>3, <1>5, <1>6 DEF Tiles
<1> QED BY <1>1, <1>2, <1>3, <1>4, <1>7 DEF all, Spans

(* Every period lies between, and only the first starts before it ends. *)
LEMMA TilesWithin ==
  ASSUME NEW ps, NEW a \in Int, NEW b \in Int, Tiles(ps, a, b)
  PROVE  \A i \in 1 .. Len(ps) :
           /\ ps[i].start >= a /\ ps[i].start + ps[i].hours >= ps[1].start + ps[1].hours
           /\ ps[i].start + ps[i].hours <= b /\ ps[i].start < b
<1>1. PICK n \in Nat : n = Len(ps) /\ n >= 1
  BY DEF Tiles
<1>2. \A i \in 1 .. n : ps[i].start \in Int /\ ps[i].hours \in {12, 6, 3, 1}
  <2>1. \A i \in 1 .. n : ps[i] \in Period
    BY <1>1 DEF Tiles
  <2> QED BY <2>1 DEF Period
<1>3. \A i \in 1 .. n - 1 : ps[i + 1].start = ps[i].start + ps[i].hours
  BY <1>1 DEF Tiles
<1>4. ps[1].start = a /\ ps[n].start + ps[n].hours = b
  BY <1>1 DEF Tiles
<1> DEFINE S == {i \in 1 .. n : ps[i].start >= a /\ ps[i].start + ps[i].hours >= ps[1].start + ps[1].hours}
           T == {k \in 1 .. n : ps[n + 1 - k].start + ps[n + 1 - k].hours <= b}
<1>5. \A i \in 1 .. n : i \in S
  <2>1. 1 \in S
    <3>1. 1 \in 1 .. n
      BY <1>1
    <3> QED BY <1>2, <1>4, <3>1
  <2>2. ASSUME NEW i \in 1 .. n - 1, i \in S PROVE i + 1 \in S
    <3>1. i \in 1 .. n /\ i + 1 \in 1 .. n /\ 1 \in 1 .. n
      BY <1>1
    <3>2. ps[i].start >= a /\ ps[i].start + ps[i].hours >= ps[1].start + ps[1].hours
      BY <2>2
    <3>3. ps[i + 1].start >= a /\ ps[i + 1].start + ps[i + 1].hours >= ps[1].start + ps[1].hours
      BY <1>2, <1>3, <3>1, <3>2
    <3> QED BY <3>1, <3>3
  <2> HIDE DEF S
  <2> QED BY <2>1, <2>2, StepByStep
<1>6. \A k \in 1 .. n : k \in T
  <2>1. 1 \in T
    <3>1. 1 \in 1 .. n /\ n + 1 - 1 = n
      BY <1>1
    <3>2. ps[n].start + ps[n].hours <= b
      BY <1>4
    <3> QED BY <3>1, <3>2
  <2>2. ASSUME NEW k \in 1 .. n - 1, k \in T PROVE k + 1 \in T
    <3>1. PICK i \in Nat : i = n - k /\ i \in 1 .. n - 1 /\ n + 1 - k = i + 1 /\ n + 1 - (k + 1) = i
      <4>1. n - k \in Nat /\ n - k \in 1 .. n - 1
        BY <1>1
      <4>2. n + 1 - k = (n - k) + 1 /\ n + 1 - (k + 1) = n - k
        BY <1>1
      <4> QED BY <4>1, <4>2
    <3>2. i \in 1 .. n /\ i + 1 \in 1 .. n /\ k + 1 \in 1 .. n
      BY <1>1, <3>1
    <3>3. ps[i + 1].start + ps[i + 1].hours <= b
      BY <2>2, <3>1
    <3>4. ps[i].start + ps[i].hours <= b
      BY <1>2, <1>3, <3>1, <3>2, <3>3
    <3> QED BY <3>1, <3>2, <3>4
  <2> HIDE DEF T
  <2> QED BY <2>1, <2>2, StepByStep
<1>7. ASSUME NEW i \in 1 .. n
      PROVE  /\ ps[i].start >= a /\ ps[i].start + ps[i].hours >= ps[1].start + ps[1].hours
             /\ ps[i].start + ps[i].hours <= b /\ ps[i].start < b
  <2>1. PICK k \in 1 .. n : n + 1 - k = i
    <3>1. n + 1 - i \in 1 .. n /\ n + 1 - (n + 1 - i) = i
      BY <1>1
    <3> QED BY <3>1
  <2>2. ps[i].start + ps[i].hours <= b
    BY <1>6, <2>1
  <2>3. ps[i].start >= a /\ ps[i].start + ps[i].hours >= ps[1].start + ps[1].hours
    BY <1>5
  <2> QED BY <1>2, <2>2, <2>3
<1> QED BY <1>1, <1>7

(* What is left of a day after the periods before an hour of it. *)
LEMMA LeftOfDay ==
  ASSUME NEW into \in 0 .. 23, NEW h \in Int, h \in {12, 6, 3, 1}
  PROVE  \E t \in Int, n \in Nat :
           /\ t = into \div h /\ n = (24 - t * h + h - 1) \div h /\ n >= 1
           /\ t * h <= into /\ into < t * h + h /\ t * h + n * h = 24
<1>1. CASE h = 12
  <2>1. into \div 12 \in Int /\ (into \div 12) * 12 <= into /\ into < (into \div 12) * 12 + 12
    OBVIOUS
  <2>2. PICK t \in Int : t = into \div 12 /\ t * 12 <= into /\ into < t * 12 + 12 /\ 0 <= t /\ t <= 1
    BY <2>1
  <2>3. (24 - t * 12 + 12 - 1) \div 12 = 2 - t
    BY <2>2
  <2> QED BY <1>1, <2>2, <2>3
<1>2. CASE h = 6
  <2>1. into \div 6 \in Int /\ (into \div 6) * 6 <= into /\ into < (into \div 6) * 6 + 6
    OBVIOUS
  <2>2. PICK t \in Int : t = into \div 6 /\ t * 6 <= into /\ into < t * 6 + 6 /\ 0 <= t /\ t <= 3
    BY <2>1
  <2>3. (24 - t * 6 + 6 - 1) \div 6 = 4 - t
    BY <2>2
  <2> QED BY <1>2, <2>2, <2>3
<1>3. CASE h = 3
  <2>1. into \div 3 \in Int /\ (into \div 3) * 3 <= into /\ into < (into \div 3) * 3 + 3
    OBVIOUS
  <2>2. PICK t \in Int : t = into \div 3 /\ t * 3 <= into /\ into < t * 3 + 3 /\ 0 <= t /\ t <= 7
    BY <2>1
  <2>3. (24 - t * 3 + 3 - 1) \div 3 = 8 - t
    BY <2>2
  <2> QED BY <1>3, <2>2, <2>3
<1>4. CASE h = 1
  <2>1. into \div 1 = into
    OBVIOUS
  <2>2. (24 - into * 1 + 1 - 1) \div 1 = 24 - into
    OBVIOUS
  <2>3. into \in Int /\ 24 - into \in Nat /\ 24 - into >= 1 /\ into * 1 = into /\ (24 - into) * 1 = 24 - into
    OBVIOUS
  <2>4. into + (24 - into) = 24 /\ into <= into /\ into < into + 1
    OBVIOUS
  <2> QED BY <1>4, <2>1, <2>2, <2>3, <2>4
<1> QED BY <1>1, <1>2, <1>3, <1>4

Midnight(local) == (local \div 24) * 24

(* The periods of day d are of h hours and run to its midnight, from the one
   before or, on the request's day, from that of the request. *)
DaySpans(ps, local, o, d, h) ==
  \E first \in Int :
    /\ Spans(ps, first - o, Midnight(local) + 24 * d - o, h, h)
    /\ d # 1 => first = Midnight(local) + 24 * (d - 1)
    /\ d = 1 => first <= local /\ local < first + h

(* A day's periods run to its midnight, from the one the request is in on the
   request's day. *)
LEMMA DayTiles ==
  ASSUME NEW req, NEW hour \in Int, NEW o \in Int, req.hour = hour, req.offset = o,
         NEW local \in Int, local = hour + o,
         NEW d \in 1 .. 13, NEW h \in Int, h \in {12, 6, 3, 1},
         NEW ps, ps = SlotPeriods(req, d, h)
  PROVE  DaySpans(ps, local, o, d, h)
<1>1. PICK base \in Int : base = Midnight(local) /\ base = (local \div 24) * 24
  BY DEF Midnight
<1>2. base <= local /\ local < base + 24
  BY <1>1
<1>3. PICK begin \in Int : begin = base + 24 * (d - 1) /\ begin + 24 = base + 24 * d
  OBVIOUS
<1>4. PICK into \in 0 .. 23 : into = IF d = 1 THEN local - base ELSE 0
  BY <1>2
<1>5. PICK t \in Int, n \in Nat :
        /\ t = into \div h /\ n = (24 - t * h + h - 1) \div h /\ n >= 1
        /\ t * h <= into /\ into < t * h + h /\ t * h + n * h = 24
  BY LeftOfDay
<1>6. PICK done \in Int, rest \in Int : done = t * h /\ rest = n * h
  OBVIOUS
<1>7. PICK first \in Int : first = begin + done
  OBVIOUS
<1>8. /\ done <= into /\ into < done + h /\ done + rest = 24 /\ h \in Int
      /\ n = (24 - done + h - 1) \div h
  BY <1>5, <1>6
<1>9. d # 1 => done = 0
  <2>1. 0 \div h = 0 /\ 0 * h = 0
    <3>1. 0 \div 12 = 0 /\ 0 \div 6 = 0 /\ 0 \div 3 = 0 /\ 0 \div 1 = 0
      OBVIOUS
    <3> QED BY <3>1
  <2> QED BY <1>4, <1>5, <1>6, <2>1
<1>10. d = 1 => begin = base
  BY <1>3
<1>11. (IF d = 1 THEN begin + ((local - begin) \div h) * h ELSE begin) = first
  <2>1. CASE d = 1
    <3>1. local - begin = into
      BY <1>4, <1>10, <2>1
    <3> QED BY <1>5, <1>6, <1>7, <2>1, <3>1
  <2>2. CASE d # 1
    BY <1>7, <1>9, <2>2
  <2> QED BY <2>1, <2>2
<1>12. begin + 24 - first + h - 1 = 24 - done + h - 1
  BY <1>7, <1>8
<1>13. ps = [k \in 1 .. n |-> [start |-> first + (k - 1) * h - o, hours |-> h]]
  <2>1. ps = [k \in 1 .. (begin + 24 - first + h - 1) \div h |->
                [start |-> first + (k - 1) * h - o, hours |-> h]]
    BY <1>1, <1>3, <1>11 DEF SlotPeriods
  <2> QED BY <1>8, <1>12, <2>1
<1>14. Spans(ps, first - o, first + rest - o, h, h)
  <2>1. n \in Nat /\ n >= 1 /\ first \in Int /\ rest \in Int /\ rest = n * h
        /\ o \in Int /\ h \in Int /\ h \in {12, 6, 3, 1}
    BY <1>5, <1>6, <1>7
  <2>2. ps = Row(first, o, n, h)
    BY <1>13 DEF Row
  <2> QED BY <2>1, <2>2, RowTiles
<1>15. first + rest - o = base + 24 * d - o
  BY <1>3, <1>7, <1>8
<1>16. d # 1 => first = base + 24 * (d - 1)
  BY <1>3, <1>7, <1>9
<1>17. d = 1 => first <= local /\ local < first + h
  BY <1>1, <1>4, <1>7, <1>8, <1>10
<1>18. Spans(ps, first - o, base + 24 * d - o, h, h)
  BY <1>14, <1>15
<1> QED BY <1>1, <1>16, <1>17, <1>18 DEF DaySpans

LEMMA RungHours ==
  ASSUME NEW r \in 1 .. 4, NEW s \in 1 .. 4
  PROVE  ResolutionHours[r] \in {12, 6, 3, 1} /\ (s <= r => ResolutionHours[s] >= ResolutionHours[r])
<1>1. /\ ResolutionHours[1] = 12 /\ ResolutionHours[2] = 6 /\ ResolutionHours[3] = 3
      /\ ResolutionHours[4] = 1
  BY DEF ResolutionHours
<1>2. r \in {1, 2, 3, 4} /\ s \in {1, 2, 3, 4}
  OBVIOUS
<1> QED BY <1>1, <1>2

(* A layout's periods: the days' one after the other. *)
LEMMA LayoutTiles ==
  ASSUME NEW req, NEW hour \in Int, NEW o \in Int, req.hour = hour, req.offset = o,
         NEW local \in Int, local = hour + o, NEW p, Even(p),
         NEW ps, ps = LayoutFor(req, p)
  PROVE  \E first \in Int :
           /\ Tiles(ps, first - o, Midnight(local) + 24 * Len(p) - o)
           /\ first <= local /\ local < first + ps[1].hours
<1>1. PICK n \in 1 .. 13 : n = Len(p)
  BY DEF Even, FillSlots
<1>2. DOMAIN p = 1 .. n /\ \A d \in 1 .. n : p[d] \in 1 .. 4
  BY <1>1 DEF Even
<1>3. \A d \in 1 .. n - 1 : p[d + 1] <= p[d]
  BY <1>1 DEF Even
<1>4. PICK days : days = [d \in 1 .. n |-> SlotPeriods(req, d, ResolutionHours[p[d]])]
  OBVIOUS
<1>5. ps = FlattenSeq(days)
  BY <1>2, <1>4 DEF LayoutFor
<1>6. days = [d \in 1 .. n |-> days[d]] /\ \A d \in 1 .. n : days[d] = SlotPeriods(req, d, ResolutionHours[p[d]])
  BY <1>4
<1>7. PICK all : /\ all = [d \in 1 .. n |-> IF d = 1 THEN days[d] ELSE all[d - 1] \o days[d]]
                 /\ FlattenSeq(days) = all[n]
  <2>1. n \in Nat /\ n >= 1
    OBVIOUS
  <2>2. days = [d \in 1 .. n |-> days[d]]
    BY <1>6
  <2> QED BY <2>1, <2>2, Flattened, Zenon
<1>8. ASSUME NEW d \in 1 .. n PROVE DaySpans(days[d], local, o, d, ResolutionHours[p[d]])
  <2>1. PICK h \in Int : h \in {12, 6, 3, 1} /\ h = ResolutionHours[p[d]]
    BY <1>2, RungHours
  <2>2. d \in 1 .. 13
    BY <1>1
  <2>3. days[d] = SlotPeriods(req, d, h)
    BY <1>6, <2>1
  <2> QED BY <2>1, <2>2, <2>3, DayTiles
<1>9. PICK rh : rh = [d \in 1 .. n |-> ResolutionHours[p[d]]]
  OBVIOUS
<1>10. PICK base \in Int : base = Midnight(local)
  BY DEF Midnight
<1>15. PICK first \in Int : /\ Spans(days[1], first - o, base + 24 * 1 - o, rh[1], rh[1])
                            /\ first <= local /\ local < first + rh[1]
  <2>1. 1 \in 1 .. n
    OBVIOUS
  <2>2. DaySpans(days[1], local, o, 1, rh[1])
    BY <1>8, <1>9, <2>1
  <2> QED BY <1>10, <2>2 DEF DaySpans
<1> DEFINE S == {d \in 1 .. n : Spans(all[d], first - o, base + 24 * d - o, rh[1], rh[d])}
<1>11. 1 \in S /\ \A d \in 1 .. n - 1 : d \in S => d + 1 \in S
  <2>1. 1 \in 1 .. n /\ all[1] = days[1]
    BY <1>7
  <2>2. 1 \in S
    BY <1>15, <2>1
  <2>3. ASSUME NEW d \in 1 .. n - 1, d \in S PROVE d + 1 \in S
    <3>1. PICK e \in 1 .. n : e = d + 1 /\ e # 1 /\ e - 1 = d /\ d \in 1 .. n
      OBVIOUS
    <3>2. all[e] = all[d] \o days[e]
      BY <1>7, <3>1
    <3>3. Spans(all[d], first - o, base + 24 * d - o, rh[1], rh[d])
      BY <2>3
    <3>4. Spans(days[e], base + 24 * d - o, base + 24 * e - o, rh[e], rh[e])
      <4>1. DaySpans(days[e], local, o, e, rh[e])
        BY <1>8, <1>9
      <4>2. PICK begin \in Int : /\ Spans(days[e], begin - o, base + 24 * e - o, rh[e], rh[e])
                                 /\ e # 1 => begin = base + 24 * (e - 1)
        BY <1>10, <4>1 DEF DaySpans
      <4>3. begin = base + 24 * (e - 1)
        BY <3>1, <4>2, Zenon
      <4>4. base + 24 * (e - 1) = base + 24 * d
        BY <3>1, Zenon
      <4>5. begin = base + 24 * d
        BY <4>3, <4>4, Zenon
      <4> QED BY <4>2, <4>5
    <3>5. rh[d] <= rh[e]
      <4>1. p[e] <= p[d] /\ p[d] \in 1 .. 4 /\ p[e] \in 1 .. 4
        BY <1>2, <1>3, <3>1
      <4>2. /\ ResolutionHours[p[d]] \in {12, 6, 3, 1} /\ ResolutionHours[p[e]] \in {12, 6, 3, 1}
            /\ ResolutionHours[p[e]] >= ResolutionHours[p[d]]
        BY <4>1, RungHours
      <4> QED BY <1>9, <3>1, <4>2
    <3>6. Spans(all[d] \o days[e], first - o, base + 24 * e - o, rh[1], rh[e])
      <4>1. PICK a, b, c : a = first - o /\ b = base + 24 * d - o /\ c = base + 24 * e - o
        OBVIOUS
      <4>2. Spans(all[d], a, b, rh[1], rh[d]) /\ Spans(days[e], b, c, rh[e], rh[e])
        BY <3>3, <3>4, <4>1
      <4>3. Spans(all[d] \o days[e], a, c, rh[1], rh[e])
        BY <3>5, <4>2, TilesJoined
      <4> QED BY <4>1, <4>3
    <3>7. e \in S
      BY <3>1, <3>2, <3>6
    <3> QED BY <3>1, <3>7
  <2> HIDE DEF S
  <2> QED BY <2>2, <2>3
<1> HIDE DEF S
<1>12. n \in S
  <2>1. n \in Nat /\ n \in 1 .. n
    OBVIOUS
  <2>2. \A d \in 1 .. n : d \in S
    BY <1>11, <2>1, StepByStep
  <2> QED BY <2>1, <2>2
<1>13. Tiles(all[n], first - o, base + 24 * n - o) /\ all[n][1].hours = rh[1]
  BY <1>12 DEF S, Spans
<1>14. ps = all[n]
  BY <1>5, <1>7
<1> QED BY <1>1, <1>10, <1>13, <1>14, <1>15

(* A ladder is capped to between 1 and 13 days, which the model's reach
   covers. *)
LEMMA SlotsFor ==
  ASSUME NEW model \in {"best", "CA", "DE"}, NEW hour \in Int, NEW o \in Int,
         NEW local \in Int, local = hour + o,
         NEW cap, cap = FillSlotsFor(model, hour, o)
  PROVE  /\ cap \in 1 .. FillSlots
         /\ model \in DOMAIN FillReachHours =>
              Midnight(local) + 24 * cap <= local + FillReachHours[model]
<1>1. FillSlots = 13 /\ FillReachHours["CA"] = 221 /\ FillReachHours["DE"] = 164
      /\ DOMAIN FillReachHours = {"CA", "DE"}
  BY DEF FillSlots, FillReachHours
<1>2. CASE model \notin DOMAIN FillReachHours
  BY <1>1, <1>2 DEF FillSlotsFor
<1>3. CASE model \in DOMAIN FillReachHours
  <2>1. PICK reach \in Int : reach = FillReachHours[model] /\ reach >= 164
    BY <1>1, <1>3
  <2>2. PICK into \in Int : into = local % 24 /\ 0 <= into /\ Midnight(local) + into = local
    BY DEF Midnight
  <2>3. PICK days \in Int : days = (into + reach) \div 24 /\ days >= 1 /\ 24 * days <= into + reach
    BY <2>1, <2>2
  <2>4. Max({1, days}) = days
    <3>1. Max({1, days}) \in {1, days} /\ Max({1, days}) >= days /\ Max({1, days}) >= 1
      <4>1. 1 \in Int /\ days \in Int
        BY <2>3
      <4> QED BY <4>1, OfTwo, Zenon
    <3> QED BY <2>3, <3>1
  <2>5. cap = Min({13, days})
    <3>1. FillSlotsFor(model, hour, o) =
            Min({FillSlots, Max({1, (((hour + o) % 24) + FillReachHours[model]) \div 24})})
      BY <1>3 DEF FillSlotsFor
    <3>2. (((hour + o) % 24) + FillReachHours[model]) \div 24 = days
      BY <2>1, <2>2, <2>3
    <3> QED BY <1>1, <2>4, <3>1, <3>2
  <2>6. cap \in {13, days} /\ cap <= 13 /\ cap <= days
    BY <2>3, <2>5, OfTwo
  <2>7. PICK mid \in Int : mid = Midnight(local)
    BY DEF Midnight
  <2>8. cap \in 1 .. 13 /\ mid + 24 * cap <= local + reach
    <3>1. cap \in Int /\ cap >= 1 /\ cap <= 13
      BY <2>3, <2>6
    <3> QED BY <2>2, <2>3, <2>6, <2>7, <3>1
  <2> QED BY <1>1, <2>1, <2>7, <2>8
<1> QED BY <1>2, <1>3

-----------------------------------------------------------------------------
(* What is asked is a request of the constants', its profile is a ladder's,
   and the rung counts the days and refinements that were added to it. *)
RungInv ==
  request = NoRequest \/
    /\ \E mode \in Modes, model \in Models, hour \in RequestHours, offset \in Offsets :
         request = [mode |-> mode, hour |-> hour, offset |-> offset, model |-> model,
                    slots |-> FillSlotsFor(model, hour, offset)]
    /\ Even(profile) /\ Len(profile) <= request.slots /\ seq = Rungs(profile)

LEMMA RungStep == RungInv /\ [LayoutNext]_layoutVars => RungInv'
<1> SUFFICES ASSUME RungInv, [LayoutNext]_layoutVars PROVE RungInv'
  OBVIOUS
<1>1. ASSUME NEW mode \in Modes, NEW model \in Models, NEW hour \in RequestHours, NEW offset \in Offsets,
             Ask(mode, model, hour, offset)
      PROVE  RungInv'
  <2>1. mode \in {"detail", "auto", "range"} /\ model \in {"best", "CA", "DE"} /\ hour \in Int /\ offset \in Int
    BY LayoutAssumption
  <2>2. PICK cap : cap = FillSlotsFor(model, hour, offset)
    OBVIOUS
  <2>3. cap \in 1 .. FillSlots
    <3>1. PICK local \in Int : local = hour + offset
      BY <2>1
    <3> QED BY <2>1, <2>2, <3>1, SlotsFor
  <2>4. /\ request' = [mode |-> mode, hour |-> hour, offset |-> offset, model |-> model, slots |-> cap]
        /\ profile' = <<1>> /\ seq' = 1
    BY <1>1, <2>1, <2>2, <2>3, LadderEven DEF Ask
  <2>5. Even(<<1>>) /\ Len(<<1>>) <= cap /\ Rungs(<<1>>) = 1
    <3>1. Len(<<1>>) = 1 /\ <<1>>[1] = 1
      OBVIOUS
    <3>2. Early(<<1>>) = 1 /\ Middle(<<1>>) = 0 /\ Late(<<1>>) = 0
      BY <3>1 DEF Early, Middle, Late, DayRung
    <3> QED BY <2>3, <3>1, <3>2, EvenListed DEF Rungs, FillSlots
  <2> QED BY <2>2, <2>4, <2>5 DEF RungInv
<1>2. ASSUME Climb PROVE RungInv'
  <2>1. PICK mode \in Modes, model \in Models, hour \in RequestHours, offset \in Offsets :
          request = [mode |-> mode, hour |-> hour, offset |-> offset, model |-> model,
                     slots |-> FillSlotsFor(model, hour, offset)]
    BY <1>2 DEF RungInv, Climb
  <2>2. mode \in {"detail", "auto", "range"} /\ model \in {"best", "CA", "DE"} /\ hour \in Int /\ offset \in Int
    BY <2>1, LayoutAssumption
  <2>3. PICK cap \in 1 .. FillSlots : cap = request.slots
    <3>1. PICK local \in Int : local = hour + offset
      BY <2>2
    <3>2. FillSlotsFor(model, hour, offset) \in 1 .. FillSlots
      BY <2>2, <3>1, SlotsFor
    <3> QED BY <2>1, <3>2
  <2>4. PICK p : p = profile
    OBVIOUS
  <2>5. Even(p) /\ Len(p) <= cap /\ seq = Rungs(p)
    BY <1>2, <2>3, <2>4 DEF RungInv, Climb
  <2>6. request.mode = mode
    BY <2>1
  <2>7. PICK a \in DOMAIN Ladder(mode, cap) :
          \E i \in Behind(p, Ladder(mode, cap)[a]) :
            /\ \A j \in Behind(p, Ladder(mode, cap)[a]) : i <= j
            /\ profile' = Raised(p, i)
    BY <1>2, <2>3, <2>4, <2>6 DEF Climb
  <2>8. PICK anchor : anchor = Ladder(mode, cap)[a] /\ Even(anchor) /\ Len(anchor) <= cap
    BY <2>2, <2>3, <2>7, LadderEven
  <2>9. PICK i \in Behind(p, anchor) : /\ \A j \in Behind(p, anchor) : i <= j
                                        /\ profile' = Raised(p, i)
    BY <2>7, <2>8
  <2>10. Even(Raised(p, i)) /\ Len(Raised(p, i)) <= cap /\ Rungs(Raised(p, i)) = Rungs(p) + 1
    BY <2>3, <2>5, <2>8, <2>9, GivesWay
  <2>11. request' = request /\ seq' = Rungs(p) + 1
    BY <1>2, <2>5 DEF Climb
  <2>12. Even(profile') /\ Len(profile') <= request'.slots /\ seq' = Rungs(profile')
    BY <2>3, <2>9, <2>10, <2>11
  <2> QED BY <2>1, <2>11, <2>12 DEF RungInv
<1>3. CASE UNCHANGED layoutVars
  BY <1>3 DEF RungInv, layoutVars
<1> QED BY <1>1, <1>2, <1>3 DEF LayoutNext

LEMMA RungServes == RungInv => RungsServe
<1> SUFFICES ASSUME RungInv, request # NoRequest PROVE RungsServe
  BY DEF RungsServe, WindowTiled, Servable
<1>1. PICK mode \in Modes, model \in Models, hour \in RequestHours, o \in Offsets :
        request = [mode |-> mode, hour |-> hour, offset |-> o, model |-> model,
                   slots |-> FillSlotsFor(model, hour, o)]
  BY DEF RungInv
<1>2. model \in {"best", "CA", "DE"} /\ hour \in Int /\ o \in Int
  BY <1>1, LayoutAssumption
<1>3. PICK req, p : req = request /\ p = profile
  OBVIOUS
<1>4. /\ req.hour = hour /\ req.offset = o /\ req.model = model
      /\ req.slots = FillSlotsFor(model, hour, o)
  BY <1>1, <1>3
<1>5. PICK local \in Int : local = hour + o
  BY <1>2
<1>6. Even(p) /\ Len(p) <= req.slots /\ seq = Rungs(p)
  BY <1>3 DEF RungInv
<1>7. PICK ps : ps = LayoutFor(req, p)
  OBVIOUS
<1>8. PICK first \in Int : /\ Tiles(ps, first - o, Midnight(local) + 24 * Len(p) - o)
                           /\ first <= local /\ local < first + ps[1].hours
  BY <1>2, <1>4, <1>5, <1>6, <1>7, LayoutTiles
<1>9. PICK mid \in Int : /\ mid = Midnight(local) /\ mid = (local \div 24) * 24
                         /\ mid = 24 * (local \div 24) /\ mid <= local
  BY DEF Midnight
<1>10. PICK n \in 1 .. 13 : n = Len(p)
  BY <1>6 DEF Even, FillSlots
<1>11. PICK from \in Int, to \in Int : from = first - o /\ to = mid + 24 * n - o
  <2>1. first - o \in Int
    BY <1>2, <1>8
  <2>2. mid + 24 * n - o \in Int
    BY <1>2, <1>9, <1>10
  <2> QED BY <2>1, <2>2
<1>12. Tiles(ps, from, to)
  BY <1>8, <1>9, <1>10, <1>11
<1>13. \A i \in 1 .. Len(ps) : /\ ps[i].start >= from
                               /\ ps[i].start + ps[i].hours >= ps[1].start + ps[1].hours
                               /\ ps[i].start + ps[i].hours <= to /\ ps[i].start < to
  BY <1>11, <1>12, TilesWithin
<1>14. /\ Len(ps) \in Nat /\ Len(ps) >= 1 /\ DOMAIN ps = 1 .. Len(ps) /\ ps[1].start = from
       /\ ps[Len(ps)].start + ps[Len(ps)].hours = to
       /\ \A i \in 1 .. Len(ps) : ps[i].start \in Int /\ ps[i].hours \in Int
       /\ \A i \in 1 .. Len(ps) - 1 : /\ ps[i + 1].start = ps[i].start + ps[i].hours
                                      /\ ps[i + 1].hours >= ps[i].hours
  <2>1. ps \in Seq(Period)
    BY <1>12 DEF Tiles
  <2>2. \A i \in 1 .. Len(ps) : ps[i] \in Period
    BY <2>1
  <2>3. \A i \in 1 .. Len(ps) : ps[i].start \in Int /\ ps[i].hours \in Int
    BY <2>2 DEF Period
  <2>4. Len(ps) \in Nat /\ DOMAIN ps = 1 .. Len(ps)
    BY <2>1
  <2>5. /\ Len(ps) >= 1 /\ ps[1].start = from
        /\ ps[Len(ps)].start + ps[Len(ps)].hours = to
        /\ \A i \in 1 .. Len(ps) - 1 : /\ ps[i + 1].start = ps[i].start + ps[i].hours
                                       /\ ps[i + 1].hours >= ps[i].hours
    BY <1>12, Zenon DEF Tiles
  <2> QED BY <2>3, <2>4, <2>5
<1>15. ps[1].start <= hour /\ hour < ps[1].start + ps[1].hours
       /\ ps[1].start \in Int /\ ps[1].hours \in Int
  <2>1. 1 \in 1 .. Len(ps)
    BY <1>14
  <2>2. ps[1].start \in Int /\ ps[1].hours \in Int
    BY <1>14, <2>1
  <2> QED BY <1>2, <1>5, <1>8, <1>11, <1>14, <2>2
<1>16. WindowTiled
  <2>1. Rungs(p) \in Nat /\ Rungs(p) <= 52
    BY <1>6, RungsBound
  <2>2. 2^SeqBits = 256
    BY DEF SeqBits
  <2>3. seq <= 2^SeqBits
    BY <1>6, <2>1, <2>2
  <2>4. to + o = 24 * (local \div 24) + 24 * n
    BY <1>2, <1>9, <1>10, <1>11
  <2>5. /\ LayoutFor(request, profile) = ps /\ request.hour = hour /\ request.offset = o
        /\ Len(profile) = n /\ request.hour + request.offset = local
    BY <1>3, <1>4, <1>5, <1>7, <1>10
  <2> QED BY <1>14, <1>15, <2>3, <2>4, <2>5 DEF WindowTiled
<1>17. ASSUME model \in DOMAIN FillReachHours
       PROVE  to <= hour + FillReachHours[model]
  <2>1. PICK cap : cap = FillSlotsFor(model, hour, o)
    OBVIOUS
  <2>2. cap \in 1 .. 13 /\ Midnight(local) + 24 * cap <= local + FillReachHours[model]
    BY <1>2, <1>5, <1>17, <2>1, SlotsFor DEF FillSlots
  <2>3. n <= cap
    BY <1>4, <1>6, <1>10, <2>1
  <2>4. PICK reach \in Int : reach = FillReachHours[model]
    BY <1>17 DEF FillReachHours
  <2> QED BY <1>2, <1>5, <1>9, <1>10, <1>11, <2>2, <2>3, <2>4
<1>18. ASSUME NEW today \in Days, RequestWindow(hour, today) = "ok"
       PROVE  /\ OnAxis(ps[1], today)
              /\ hour < today + 48 => \A i \in DOMAIN ps : OnAxis(ps[i], today)
  <2>1. today \in Int
    BY LayoutAssumption DEF Days, FillSlots
  <2>2. hour >= today - 24 /\ hour < today + 360
    BY <1>2, <1>18, <2>1 DEF RequestWindow, AxisStart, AxisEnd, FillSlots
  <2>3. OnAxis(ps[1], today)
    BY <1>2, <1>15, <2>1, <2>2 DEF OnAxis, AxisStart, AxisEnd, FillSlots
  <2>4. ASSUME hour < today + 48, NEW i \in DOMAIN ps PROVE OnAxis(ps[i], today)
    <3>1. i \in 1 .. Len(ps) /\ ps[i].start \in Int /\ ps[i].hours \in Int
      BY <1>14
    <3>2. ps[i].start + ps[i].hours >= ps[1].start + ps[1].hours /\ ps[i].start < to
      BY <1>13, <3>1
    <3>3. ps[i].start + ps[i].hours > today - 24
      BY <1>2, <1>15, <2>1, <2>2, <3>1, <3>2
    <3>4. to <= hour + 312
      <4>5. n \in Int /\ n <= 13
        BY <1>10
      <4>1. 24 * n <= 312 /\ n \in Int
        BY <4>5
      <4>2. to = mid + 24 * n - o /\ to \in Int
        BY <1>11
      <4>3. mid <= local /\ mid \in Int
        BY <1>9
      <4>4. local = hour + o
        BY <1>5
      <4> QED BY <1>2, <4>1, <4>2, <4>3, <4>4
    <3>5. ps[i].start < today + 360
      BY <1>2, <2>1, <2>4, <3>1, <3>2, <3>4
    <3> QED BY <2>1, <3>3, <3>5 DEF OnAxis, AxisStart, AxisEnd, FillSlots
  <2> QED BY <2>3, <2>4
<1>19. Servable
  <2>1. /\ LayoutFor(request, profile) = ps /\ request.hour = hour /\ request.model = model
    BY <1>3, <1>4, <1>7
  <2> QED BY <1>14, <1>17, <1>18, <2>1 DEF Servable
<1> QED BY <1>16, <1>19 DEF RungsServe

(***************************************************************************)
(* protocol/layout.ts: whatever is asked of whatever model at whatever     *)
(* hour and offset, every rung of its ladder tiles the local days from the *)
(* period the request is in, its number fits the header's bits, and the    *)
(* model and the fetched axis reach its periods.                           *)
(***************************************************************************)
THEOREM RungsAreServed == LayoutSpec => []RungsServe
<1>1. LayoutInit => RungInv
  BY DEF LayoutInit, RungInv
<1> QED BY <1>1, RungStep, RungServes, PTL DEF LayoutSpec

=============================================================================
