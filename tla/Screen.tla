------------------------------- MODULE Screen -------------------------------
(***************************************************************************)
(* The Weather tab of the app (mobile/HomeScreen.tsx): one text, whose     *)
(* forecast is drawn by an effect that reads the store before it decodes,  *)
(* and everything that sets the text meanwhile: the reply to a fetch that  *)
(* may be called off, a paste, a saved forecast, a clear.                  *)
(*                                                                         *)
(* A tap's change is on screen, and its effect begun, before anything else *)
(* runs; a change made after an await waits for React to get to it.  A     *)
(* text is a whole reply, or Half, a message of a reply being collected.   *)
(***************************************************************************)
EXTENDS Integers

CONSTANTS
  Requests,   \* fetches, and their replies
  Pasted,     \* replies in the reader's messages
  Half, Blank, Collecting, Nothing,
  MaxStale    \* bound on the superseded decodes yet to come back

ASSUME ScreenAssumption ==
  /\ Requests \intersect Pasted = {} /\ MaxStale \in Nat
  /\ {Half, Blank, Collecting, Nothing} \intersect (Requests \union Pasted) = {}
  /\ Half \notin {Blank, Collecting, Nothing} /\ Blank \notin {Collecting, Nothing} /\ Collecting # Nothing
  /\ Nothing \notin [of : Requests \union Pasted \union {Half}, pre : BOOLEAN]

VARIABLES
  stage,           \* of each fetch
  inFlight,        \* the fetch a cancel would call off
  fetching,        \* the spinner
  fetchDecoding,   \* it is held for a decode
  text,            \* the text the screen was last rendered with
  queued,          \* a change React has yet to get to
  drawn,           \* what is on screen
  decoding,        \* the effect of the text, until it settles
  stale,           \* effects of texts since replaced, yet to come back
  suppress,        \* the next decode is not to be saved
  saved,           \* the store's forecasts
  taken            \* a text took over the suppression meant for another
screenVars == <<stage, inFlight, fetching, fetchDecoding, text, queued, drawn, decoding,
                stale, suppress, saved, taken>>
fetchVars == <<stage, inFlight, fetching, fetchDecoding>>

-----------------------------------------------------------------------------
ScreenInit ==
  /\ stage = [r \in Requests |-> "new"] /\ inFlight = Nothing
  /\ fetching = FALSE /\ fetchDecoding = FALSE
  /\ text = Blank /\ queued = Nothing /\ drawn = Blank
  /\ decoding = Nothing /\ stale = 0 /\ suppress = FALSE /\ saved = {} /\ taken = FALSE

(* handleFetch: the button is greyed by the spinner, which starts only once
   the message is prepared. *)
Press(r) ==
  /\ stage[r] = "new" /\ ~fetching
  /\ stage' = [stage EXCEPT ![r] = "preparing"]
  /\ UNCHANGED <<inFlight, fetching, fetchDecoding, text, queued, drawn, decoding, stale, suppress, saved, taken>>

(* No position, or the wait for one was cancelled. *)
NotPrepared(r) ==
  /\ stage[r] = "preparing"
  /\ stage' = [stage EXCEPT ![r] = "done"]
  /\ UNCHANGED <<inFlight, fetching, fetchDecoding, text, queued, drawn, decoding, stale, suppress, saved, taken>>

Prepared(r) ==
  /\ stage[r] = "preparing"
  /\ stage' = [stage EXCEPT ![r] = "waiting"]
  /\ inFlight' = r /\ fetching' = TRUE
  /\ UNCHANGED <<fetchDecoding, text, queued, drawn, decoding, stale, suppress, saved, taken>>

BadWanted(r) == stage[r] \in {"waiting", "cancelled"}

\* A reply can land after the abort of its request.
Wanted(r) == stage[r] = "waiting"

(* The reply becomes the text; its spinner stays for the decode. *)
Reply(r) ==
  /\ Wanted(r)
  /\ stage' = [stage EXCEPT ![r] = IF @ = "cancelled" THEN @ ELSE "done"]
  /\ fetchDecoding' = TRUE /\ queued' = r
  /\ inFlight' = IF inFlight = r THEN Nothing ELSE inFlight
  /\ UNCHANGED <<fetching, text, drawn, decoding, stale, suppress, saved, taken>>

FetchFails(r) ==
  /\ stage[r] = "waiting"
  /\ stage' = [stage EXCEPT ![r] = "done"]
  /\ inFlight' = IF inFlight = r THEN Nothing ELSE inFlight
  /\ fetching' = IF inFlight = r /\ ~fetchDecoding THEN FALSE ELSE fetching
  /\ UNCHANGED <<fetchDecoding, text, queued, drawn, decoding, stale, suppress, saved, taken>>

(* cancelFetch, by the busy button or by a change of device. *)
Cancel ==
  /\ inFlight # Nothing
  /\ stage' = [stage EXCEPT ![inFlight] = "cancelled"]
  /\ inFlight' = Nothing /\ fetchDecoding' = FALSE /\ fetching' = FALSE
  /\ UNCHANGED <<text, queued, drawn, decoding, stale, suppress, saved, taken>>

-----------------------------------------------------------------------------
(* The text is t from now on: the last effect is cancelled, and the new one
   is begun unless there is nothing to decode. *)
Retire == stale' = IF decoding = Nothing THEN stale ELSE stale + 1
Begin(t, pre) == Retire /\ decoding' = [of |-> t, pre |-> pre] /\ text' = t

PasteReply(t) ==
  /\ queued' = t
  /\ UNCHANGED <<fetchVars, text, drawn, decoding, stale, suppress, saved, taken>>

Land ==
  /\ queued # Nothing /\ queued' = Nothing /\ stale < MaxStale
  /\ IF queued = text THEN UNCHANGED <<text, decoding, stale, taken>>
     ELSE Begin(queued, FALSE) /\ taken' = (taken \/ (suppress /\ decoding # Nothing))
  /\ UNCHANGED <<fetchVars, drawn, suppress, saved>>

(* loadPast: on screen at once, and the effect finds it settled.  The row of
   the text on screen cannot be tapped. *)
LoadPast(s) ==
  /\ s \in saved /\ s # text /\ stale < MaxStale
  /\ Begin(s, TRUE)
  /\ queued' = Nothing /\ drawn' = s /\ suppress' = TRUE
  /\ UNCHANGED <<fetchVars, saved, taken>>

EmptyText ==
  /\ stale < MaxStale /\ Retire
  /\ text' = Blank /\ queued' = Nothing /\ drawn' = Blank /\ decoding' = Nothing
  /\ suppress' = FALSE /\ fetchDecoding' = FALSE
  /\ UNCHANGED <<stage, inFlight, fetching, taken>>

(* The one way out of a collection; and the forecast on screen deleted. *)
ClearText == drawn = Collecting /\ EmptyText /\ UNCHANGED saved
Delete == text \in saved /\ EmptyText /\ saved' = saved \ {text}

-----------------------------------------------------------------------------
(* finally: whichever decode it is. *)
Release ==
  /\ fetchDecoding' = FALSE
  /\ fetching' = IF fetchDecoding THEN FALSE ELSE fetching
  /\ UNCHANGED <<stage, inFlight>>

BadSpent(d) == suppress /\ d.pre

\* What the decode leaves of the suppression.
Spent(d) == FALSE

(* The effect comes back from the store with its text still the screen's. *)
Settle ==
  /\ decoding # Nothing /\ Release
  /\ decoding' = Nothing /\ suppress' = Spent(decoding)
  /\ IF decoding.of = Half
     THEN drawn' = Collecting /\ UNCHANGED saved
     ELSE /\ drawn' = IF decoding.pre THEN drawn ELSE decoding.of
          /\ saved' = IF suppress THEN saved ELSE saved \union {decoding.of}
  /\ UNCHANGED <<text, queued, stale, taken>>

BadSettleStale ==
  /\ stale > 0 /\ stale' = stale - 1 /\ Release
  /\ \E t \in saved : drawn' = t
  /\ UNCHANGED <<text, queued, decoding, suppress, saved, taken>>

SettleStale ==
  /\ stale > 0 /\ stale' = stale - 1 /\ Release
  /\ UNCHANGED <<text, queued, drawn, decoding, suppress, saved, taken>>

ScreenNext ==
  \/ \E r \in Requests : Press(r) \/ NotPrepared(r) \/ Prepared(r) \/ Reply(r) \/ FetchFails(r)
  \/ Cancel \/ Land \/ ClearText \/ Delete \/ Settle \/ SettleStale
  \/ \E t \in Pasted \union {Half} : PasteReply(t)
  \/ \E s \in saved : LoadPast(s)

ScreenSpec == ScreenInit /\ [][ScreenNext]_screenVars

-----------------------------------------------------------------------------
Quiet == decoding = Nothing /\ queued = Nothing

(***************************************************************************)
(* Once the effects have come back what is drawn is what the text says,    *)
(* whatever replaced what in between.                                      *)
(***************************************************************************)
DrawnIsText == Quiet => drawn = IF text = Half THEN Collecting ELSE text

(***************************************************************************)
(* A request that was called off never gets its reply on screen.           *)
(***************************************************************************)
CancelledNeverShown ==
  \A r \in Requests : stage[r] = "cancelled" => text # r /\ queued # r /\ drawn # r

(***************************************************************************)
(* "Nothing decoded is lost: a forecast that decoded is in the cache and a *)
(* tap away in Saved forecasts", unless its text took the place of a saved *)
(* one before that one's effect had come back.                             *)
(***************************************************************************)
DrawnIsSaved == Quiet /\ text \in Requests \union Pasted /\ ~taken => text \in saved

(***************************************************************************)
(* The spinner a reply leaves running is "cleared when the decode effect   *)
(* settles that text, whichever way it settles": it always has a fetch or  *)
(* a decode to stop it.                                                    *)
(***************************************************************************)
SpinnerHasOwner == fetching => inFlight # Nothing \/ fetchDecoding

=============================================================================
